--------------------------- MODULE Operations_proofs ---------------------------
(***************************************************************************)
(* Four operations for every value of their constants: what cuts a         *)
(* document into chunks, an inventory of the sources among edits and other *)
(* inventories, the server of an agent, and searches.                      *)
(***************************************************************************)
EXTENDS Chunking, Discovery, McpServer, Search, FiniteSetTheorems, SequenceTheorems,
        WellFoundedInduction, TLAPS

(***************************************************************************)
(* Chunking.  For every document, chunk size and overlap: the chunks cover *)
(* the text behind the cursor and none is longer than the chunk size.      *)
(*                                                                         *)
(* The argument: an end lies behind the cursor and no further than the     *)
(* chunk size and the region allow (EndInWindow), the trimmed span leaves  *)
(* only white space out (TrimmedSpan), and the cursor moves on to at most  *)
(* that end (CursorMoves).                                                 *)
(***************************************************************************)

CursorOK ==
    /\ doc \in Documents
    /\ region \in 1 .. Len(doc.regions)
    /\ cursor \in Nat /\ Here.from <= cursor /\ cursor < Here.to
    /\ cutting \in {"cutting", "cut", "sampled", "failed", "aborted"}

ChunkList ==
    /\ \E S : chunks \in Seq(S)
    /\ \A c \in DOMAIN chunks : chunks[c].from \in Nat /\ chunks[c].to \in Nat

CutInv == CursorOK /\ ChunkList /\ ChunksCover

\* The parts of a document are numbers.
LEMMA DocumentFacts ==
    ASSUME CursorOK
    PROVE  /\ WellFormed(doc) /\ ChunkSize \in Nat \ {0} /\ ChunkOverlap \in Nat
           /\ Here.from \in Nat /\ Here.to \in Nat /\ Here.from < Here.to
           /\ HardEnd \in Nat /\ cursor < HardEnd /\ HardEnd <= Here.to
           /\ HardEnd <= cursor + ChunkSize
<1>1. WellFormed(doc) /\ ChunkSize \in Nat \ {0} /\ ChunkOverlap \in Nat
    BY ChunkingAssumption DEF CursorOK
<1>2. /\ doc.regions[region].from \in Nat /\ doc.regions[region].to \in Nat
      /\ doc.regions[region].from < doc.regions[region].to
    BY <1>1 DEF CursorOK, WellFormed
<1> QED
    BY <1>1, <1>2 DEF CursorOK, Here, HardEnd

\* chooseChunkEnd: every end lies behind the cursor, inside the window.
LEMMA EndInWindow ==
    ASSUME CursorOK, NEW end \in ChunkEnds
    PROVE  end \in Nat /\ cursor < end /\ end <= HardEnd
<1>1. CASE HardEnd = Here.to
    BY <1>1, DocumentFacts DEF ChunkEnds
<1>2. CASE HardEnd # Here.to /\ FencesAcross(HardEnd) # {}
    <2>1. PICK f \in FencesAcross(HardEnd) : end = IF f.from > cursor THEN f.from ELSE f.to
        BY <1>2 DEF ChunkEnds
    <2>2. /\ f.from \in Nat /\ f.to \in Nat /\ f.from < HardEnd /\ HardEnd < f.to
          /\ f.to <= Here.to /\ f.to - f.from <= ChunkSize
        BY <2>1, DocumentFacts DEF FencesAcross, WellFormed
    <2>3. HardEnd = cursor + ChunkSize
        BY <1>2 DEF HardEnd
    <2> QED
        BY <2>1, <2>2, <2>3, DocumentFacts DEF CursorOK
<1>3. CASE HardEnd # Here.to /\ FencesAcross(HardEnd) = {}
    <2>1. \A marks, width, percent :
             width \in Nat /\ end \in LastBreak(marks, width, percent)
                => end \in marks /\ cursor < end /\ end + width <= HardEnd
        BY DEF LastBreak
    <2>2. \/ end \in LastBreak(doc.paragraphs, 2, 45) \/ end \in LastBreak(doc.sentences, 1, 55)
          \/ end \in LastBreak(doc.lineBreaks, 1, 65) \/ end \in LastBreak(doc.spaces, 1, 75)
          \/ end = HardEnd
        BY <1>3 DEF ChunkEnds
    <2>3. end = HardEnd \/
          (/\ end \in doc.paragraphs \cup doc.sentences \cup doc.lineBreaks \cup doc.spaces
           /\ cursor < end /\ (end + 1 <= HardEnd \/ end + 2 <= HardEnd))
        BY <2>1, <2>2
    <2> QED
        BY <2>3, DocumentFacts DEF WellFormed
<1> QED
    BY <1>1, <1>2, <1>3

\* The next cursor is behind the old one and not behind the end.
LEMMA CursorMoves ==
    ASSUME CursorOK, NEW end \in ChunkEnds, end < Here.to
    PROVE  /\ NextCursor(end) \in Nat /\ NextCursor(end) <= end
           /\ cursor < NextCursor(end) /\ Here.from <= NextCursor(end)
BY EndInWindow, DocumentFacts DEF NextCursor, Larger, CursorOK

\* A trimmed span lies in its window and holds all of the text in it.
LEMMA TrimmedSpan ==
    ASSUME NEW from \in Nat, NEW to \in Nat, NEW span \in Trimmed(from, to)
    PROVE  /\ span.from \in Nat /\ span.to \in Nat
           /\ from <= span.from /\ span.from < span.to /\ span.to <= to
           /\ \A o \in from .. to - 1 : o \notin doc.blanks => span.from <= o /\ o < span.to
<1> DEFINE text == {o \in from .. to - 1 : o \notin doc.blanks}
<1>1. PICK a \in text, b \in text :
          /\ \A p \in text : a <= p
          /\ \A p \in text : p <= b
          /\ span = [from |-> a, to |-> b + 1]
    BY DEF Trimmed
<1>2. a \in Nat /\ b \in Nat /\ from <= a /\ b <= to - 1 /\ a <= b
    BY <1>1
<1>3. span.from = a /\ span.to = b + 1
    BY <1>1
<1> QED
    BY <1>1, <1>2, <1>3

\* The text up to an end of the window is in the chunks, once it was in them up
\* to the cursor and the span of the window has been added.
Covered(list, k, limit) ==
    \A o \in doc.regions[k].from .. doc.regions[k].to - 1 :
        o < limit /\ o \notin doc.blanks
            => \E c \in DOMAIN list : list[c].from <= o /\ o < list[c].to

\* MoveOn keeps the cursor in its region, and covers what it passes.
LEMMA MoveOnFacts ==
    ASSUME CursorOK, cutting = "cutting", NEW end \in ChunkEnds, MoveOn(end), UNCHANGED doc,
           NEW list,
           \A k \in 1 .. region - 1 : Covered(list, k, doc.regions[k].to),
           Covered(list, region, end)
    PROVE  /\ CursorOK'
           /\ Intact' => \A k \in 1 .. region' : \A o \in doc.regions[k].from .. doc.regions[k].to - 1 :
                 PassedBy(k, o)' /\ o \notin doc.blanks
                     => \E c \in DOMAIN list : list[c].from <= o /\ o < list[c].to
<1>1. /\ doc \in Documents /\ region \in 1 .. Len(doc.regions) /\ WellFormed(doc)
      /\ Len(doc.regions) \in Nat
      /\ \A k \in 1 .. Len(doc.regions) :
            /\ doc.regions[k].from \in Nat /\ doc.regions[k].to \in Nat
            /\ doc.regions[k].from < doc.regions[k].to
    BY DocumentFacts DEF CursorOK, WellFormed
<1>2. end \in Nat /\ cursor < end /\ end <= Here.to /\ Here.to = doc.regions[region].to
    BY EndInWindow, DocumentFacts DEF Here
<1>3. CASE end < Here.to
    <2>1. cursor' = NextCursor(end) /\ region' = region /\ cutting' = "cutting" /\ doc' = doc
        BY <1>3 DEF MoveOn
    <2>2. /\ NextCursor(end) \in Nat /\ NextCursor(end) <= end
          /\ cursor < NextCursor(end) /\ Here.from <= NextCursor(end)
        BY <1>3, CursorMoves
    <2>3. CursorOK'
        BY <1>1, <1>2, <1>3, <2>1, <2>2 DEF CursorOK, Here
    <2>4. ASSUME NEW k \in 1 .. region', NEW o \in doc.regions[k].from .. doc.regions[k].to - 1,
                 PassedBy(k, o)', o \notin doc.blanks
          PROVE  \E c \in DOMAIN list : list[c].from <= o /\ o < list[c].to
        <3>1. k \in 1 .. region - 1 \/ (k = region /\ o < end)
            BY <1>1, <1>2, <2>1, <2>2, <2>4 DEF PassedBy
        <3> QED
            BY <1>1, <2>4, <3>1 DEF Covered
    <2> QED
        BY <2>3, <2>4
<1>4. CASE ~(end < Here.to) /\ region < Len(doc.regions)
    <2>1. region' = region + 1 /\ cursor' = doc.regions[region + 1].from
          /\ cutting' = "cutting" /\ doc' = doc
        BY <1>4 DEF MoveOn
    <2>2. CursorOK'
        BY <1>1, <1>4, <2>1 DEF CursorOK, Here
    <2>3. ASSUME NEW k \in 1 .. region', NEW o \in doc.regions[k].from .. doc.regions[k].to - 1,
                 PassedBy(k, o)', o \notin doc.blanks
          PROVE  \E c \in DOMAIN list : list[c].from <= o /\ o < list[c].to
        <3>1. k \in 1 .. region
            BY <1>1, <2>1, <2>3, <1>4 DEF PassedBy
        <3>2. k \in 1 .. region - 1 \/ (k = region /\ o < end)
            BY <1>1, <1>2, <1>4, <3>1, <2>3
        <3> QED
            BY <1>1, <2>3, <3>2 DEF Covered
    <2> QED
        BY <2>2, <2>3
<1>5. CASE ~(end < Here.to) /\ ~(region < Len(doc.regions))
    <2>1. region' = region /\ cursor' = cursor /\ cutting' = "cut" /\ doc' = doc
        BY <1>5 DEF MoveOn
    <2>2. CursorOK'
        BY <1>1, <2>1 DEF CursorOK, Here
    <2>3. ASSUME NEW k \in 1 .. region', NEW o \in doc.regions[k].from .. doc.regions[k].to - 1,
                 o \notin doc.blanks
          PROVE  \E c \in DOMAIN list : list[c].from <= o /\ o < list[c].to
        <3>1. k \in 1 .. region - 1 \/ (k = region /\ o < end)
            BY <1>1, <1>2, <1>5, <2>1, <2>3
        <3> QED
            BY <1>1, <2>3, <3>1 DEF Covered
    <2> QED
        BY <2>2, <2>3
<1> QED
    BY <1>3, <1>4, <1>5

\* A chunk that is appended is the span, and the others stay.
LEMMA AppendedChunk ==
    ASSUME ChunkList, NEW span, span.from \in Nat, span.to \in Nat
    PROVE  LET list == Append(chunks, Chunk(span)) IN
           /\ \E S : list \in Seq(S)
           /\ DOMAIN chunks = 1 .. Len(chunks) /\ Len(chunks) \in Nat
           /\ DOMAIN list = 1 .. Len(chunks) + 1
           /\ \A c \in DOMAIN chunks : list[c] = chunks[c]
           /\ list[Len(chunks) + 1].from = span.from /\ list[Len(chunks) + 1].to = span.to
           /\ list[Len(chunks) + 1].region = region
<1>1. PICK S : chunks \in Seq(S)
    BY DEF ChunkList
<1> DEFINE T == S \cup {Chunk(span)}
           list == Append(chunks, Chunk(span))
<1>2. chunks \in Seq(T) /\ Chunk(span) \in T
    BY <1>1
<1>3. list \in Seq(T) /\ Len(chunks) \in Nat /\ DOMAIN chunks = 1 .. Len(chunks)
      /\ DOMAIN list = 1 .. Len(chunks) + 1
      /\ (\A c \in 1 .. Len(chunks) : list[c] = chunks[c])
      /\ list[Len(chunks) + 1] = Chunk(span)
    BY <1>2
<1>4. Chunk(span).from = span.from /\ Chunk(span).to = span.to /\ Chunk(span).region = region
    BY DEF Chunk
<1> QED
    BY <1>3, <1>4

\* No step of chunkDocument leaves text behind, and none makes a chunk too long.
LEMMA CutStep ==
    ASSUME CutInv, Cut
    PROVE  CutInv'
<1>0. PICK end \in ChunkEnds :
          /\ \E span \in Trimmed(cursor, end) : chunks' = Append(chunks, Chunk(span))
          /\ MoveOn(end) /\ UNCHANGED doc
    BY DEF Cut
<1>1. PICK span \in Trimmed(cursor, end) :
          chunks' = Append(chunks, Chunk(span)) /\ MoveOn(end) /\ UNCHANGED doc
    BY <1>0
<1>2. cutting = "cutting" /\ CursorOK /\ ChunkList
    BY DEF Cut, CutInv
<1>3. end \in Nat /\ cursor \in Nat /\ cursor < end /\ end <= HardEnd
    BY <1>2, EndInWindow DEF CursorOK
<1>4. /\ span.from \in Nat /\ span.to \in Nat
      /\ cursor <= span.from /\ span.from < span.to /\ span.to <= end
      /\ \A o \in cursor .. end - 1 : o \notin doc.blanks => span.from <= o /\ o < span.to
    BY <1>3, TrimmedSpan
<1>5. /\ \E S : chunks' \in Seq(S)
      /\ DOMAIN chunks = 1 .. Len(chunks) /\ Len(chunks) \in Nat
      /\ DOMAIN chunks' = 1 .. Len(chunks) + 1
      /\ \A c \in DOMAIN chunks : chunks'[c] = chunks[c]
      /\ chunks'[Len(chunks) + 1].from = span.from /\ chunks'[Len(chunks) + 1].to = span.to
      /\ chunks'[Len(chunks) + 1].region = region
    BY <1>1, <1>2, <1>4, AppendedChunk
<1>6. ChunkList'
    BY <1>2, <1>4, <1>5 DEF ChunkList
<1>7. \A k \in 1 .. region, o \in Nat :
         (\E c \in DOMAIN chunks : chunks[c].from <= o /\ o < chunks[c].to)
            => \E c \in DOMAIN chunks' : chunks'[c].from <= o /\ o < chunks'[c].to
    BY <1>5
<1>8. /\ \A k \in 1 .. region : doc.regions[k].from \in Nat /\ doc.regions[k].to \in Nat
      /\ region \in Nat /\ region >= 1
    BY <1>2, DocumentFacts DEF CursorOK, WellFormed
<1>9. \A k \in 1 .. region - 1 : Covered(chunks', k, doc.regions[k].to)
    <2> SUFFICES ASSUME NEW k \in 1 .. region - 1,
                        NEW o \in doc.regions[k].from .. doc.regions[k].to - 1, o \notin doc.blanks
                 PROVE  \E c \in DOMAIN chunks' : chunks'[c].from <= o /\ o < chunks'[c].to
        BY DEF Covered
    <2>1. k \in 1 .. region /\ k < region /\ o \in Nat
        BY <1>8
    <2>2. \E c \in DOMAIN chunks : chunks[c].from <= o /\ o < chunks[c].to
        BY <1>2, <2>1 DEF CutInv, ChunksCover, NothingLost, Intact, PassedBy
    <2> QED
        BY <1>7, <2>1, <2>2
<1>10. Covered(chunks', region, end)
    <2> SUFFICES ASSUME NEW o \in doc.regions[region].from .. doc.regions[region].to - 1,
                        o < end, o \notin doc.blanks
                 PROVE  \E c \in DOMAIN chunks' : chunks'[c].from <= o /\ o < chunks'[c].to
        BY DEF Covered
    <2>1. o \in Nat
        BY <1>8
    <2>2. CASE o < cursor
        <3>1. \E c \in DOMAIN chunks : chunks[c].from <= o /\ o < chunks[c].to
            BY <1>2, <1>8, <2>2 DEF CutInv, ChunksCover, NothingLost, Intact, PassedBy
        <3> QED
            BY <1>7, <1>8, <2>1, <3>1
    <2>3. CASE ~(o < cursor)
        <3>1. span.from <= o /\ o < span.to
            BY <1>3, <1>4, <2>1, <2>3
        <3> QED
            BY <1>5, <3>1
    <2> QED
        BY <2>2, <2>3
<1>11. CursorOK' /\ NothingLost'
    <2>1. /\ CursorOK'
          /\ Intact' => \A k \in 1 .. region' :
                \A o \in doc.regions[k].from .. doc.regions[k].to - 1 :
                   PassedBy(k, o)' /\ o \notin doc.blanks
                     => \E c \in DOMAIN chunks' : chunks'[c].from <= o /\ o < chunks'[c].to
        BY <1>1, <1>2, <1>9, <1>10, MoveOnFacts
    <2> QED
        BY <1>1, <2>1 DEF NothingLost
<1>12. WithinSize'
    <2>1. /\ region \in DOMAIN doc.regions /\ Here = doc.regions[region]
          /\ HardEnd <= cursor + ChunkSize /\ HardEnd <= Here.to /\ Here.from <= cursor
          /\ HardEnd \in Nat /\ ChunkSize \in Nat /\ Here.from \in Nat /\ Here.to \in Nat
        BY <1>2, DocumentFacts DEF CursorOK, WellFormed, Here
    <2>2. span.to - span.from <= ChunkSize /\ Here.from <= span.from /\ span.to <= Here.to
        BY <1>3, <1>4, <2>1
    <2> QED
        BY <1>1, <1>4, <1>5, <2>1, <2>2 DEF WithinSize, CutInv, ChunksCover
<1> QED
    BY <1>6, <1>11, <1>12 DEF CutInv, ChunksCover

LEMMA SkipStep ==
    ASSUME CutInv, SkipBlank
    PROVE  CutInv'
<1>1. PICK end \in ChunkEnds : AllBlank(cursor, end) /\ MoveOn(end) /\ UNCHANGED <<doc, chunks>>
    BY DEF SkipBlank
<1>2. cutting = "cutting" /\ CursorOK /\ ChunkList
    BY DEF SkipBlank, CutInv
<1>3. /\ \A k \in 1 .. region : doc.regions[k].from \in Nat /\ doc.regions[k].to \in Nat
      /\ region \in Nat /\ region >= 1
      /\ end \in Nat /\ cursor \in Nat
    BY <1>2, DocumentFacts, EndInWindow DEF CursorOK, WellFormed
<1>4. \A k \in 1 .. region - 1 : Covered(chunks, k, doc.regions[k].to)
    BY <1>2, <1>3 DEF Covered, CutInv, ChunksCover, NothingLost, Intact, PassedBy
<1>5. Covered(chunks, region, end)
    <2> SUFFICES ASSUME NEW o \in doc.regions[region].from .. doc.regions[region].to - 1,
                        o < end, o \notin doc.blanks
                 PROVE  \E c \in DOMAIN chunks : chunks[c].from <= o /\ o < chunks[c].to
        BY DEF Covered
    <2>1. o < cursor
        BY <1>1, <1>3 DEF AllBlank
    <2> QED
        BY <1>2, <1>3, <2>1 DEF CutInv, ChunksCover, NothingLost, Intact, PassedBy
<1>6. CursorOK' /\ NothingLost'
    BY <1>1, <1>2, <1>4, <1>5, MoveOnFacts DEF NothingLost
<1>7. ChunkList' /\ WithinSize'
    BY <1>1 DEF CutInv, ChunksCover, ChunkList, WithinSize
<1> QED
    BY <1>6, <1>7 DEF CutInv, ChunksCover

\* The steps that cut nothing.
LEMMA OtherStep ==
    ASSUME CutInv, TooMany \/ AbortCutting \/ SampleData \/ UNCHANGED chunkVars
    PROVE  CutInv'
BY DEF CutInv, TooMany, AbortCutting, SampleData, chunkVars, CursorOK, ChunkList, ChunksCover,
       NothingLost, WithinSize, Intact, PassedBy, Here

LEMMA InitCovered ==
    ASSUME ChunkInit
    PROVE  CutInv
<1>1. doc \in Documents /\ WellFormed(doc)
    BY ChunkingAssumption DEF ChunkInit
<1>2. CursorOK
    BY <1>1 DEF ChunkInit, CursorOK, WellFormed, Here
<1>3. ChunkList /\ WithinSize
    <2>1. chunks = <<>> /\ DOMAIN chunks = {} /\ chunks \in Seq({})
        BY DEF ChunkInit
    <2> QED
        BY <2>1 DEF ChunkList, WithinSize
<1>4. NothingLost
    BY <1>1 DEF ChunkInit, NothingLost, Intact, PassedBy, WellFormed
<1> QED
    BY <1>2, <1>3, <1>4 DEF CutInv, ChunksCover

\* Of every document the chunks so far hold all text behind the cursor, and none
\* is longer than the chunk size or leaves its region.
THEOREM NoTextLost == ChunkSpec => []ChunksCover
<1>1. ChunkInit => CutInv
    BY InitCovered
<1>2. CutInv /\ [ChunkNext]_chunkVars => CutInv'
    BY CutStep, SkipStep, OtherStep DEF ChunkNext
<1>3. CutInv => ChunksCover
    BY DEF CutInv
<1> QED
    BY <1>1, <1>2, <1>3, PTL DEF ChunkSpec

-----------------------------------------------------------------------------
(***************************************************************************)
(* Discovery.  For every project and any edits of its files meanwhile.     *)
(*                                                                         *)
(* The argument for the selection: every entry is looked for by one walk   *)
(* (EveryPatternWalked), a walk finds what its entries reach (WalkFinds),  *)
(* and what no walk is still to find has been recorded (Gathered).  For the *)
(* fingerprints: what was read of a file is not newer than the file        *)
(* (Read), so a checksum under times that the file still has was that of   *)
(* these times (HashTrue).                                                 *)
(***************************************************************************)

Held(stamp, content) ==
    stamp \in Nat /\ 1 <= stamp /\ stamp <= Len(written) /\ written[stamp] = content
RecordTrue(r) == Held(r.stamp, r.checksum)

FilesTrue ==
    /\ \E S : written \in Seq(S)
    /\ DOMAIN disk = Files
    /\ \A f \in Files : disk[f] = None \/ Held(disk[f].stamp, disk[f].content)
CacheTrue == \A r \in cache : RecordTrue(r)

\* What was read of a file is not newer than the file.
Read(c) ==
    /\ c.file \in Files /\ c.stamp \in Nat /\ 1 <= c.stamp /\ c.stamp <= Len(written)
    /\ disk[c.file] # None => c.stamp <= disk[c.file].stamp

\* A checksum is that of the times it goes under, or the file has other times by now.
HashTrue(h) == Read(h) /\ (RecordTrue(h) \/ (disk[h.file] # None => h.stamp < disk[h.file].stamp))

RunTrue(run) ==
    /\ \A r \in run.usable : RecordTrue(r)
    /\ \A r \in run.files : RecordTrue(r)
    /\ \A c \in run.candidates : Read(c)
    /\ run.queue \subseteq run.candidates
    /\ \A h \in run.hashing : HashTrue(h)

Reached(f) == ~IsExcluded(f) /\ \E n \in Roots \cup Patterns : Reaches(n, f)
Recorded(run, f) ==
    \/ f \in DOMAIN run.skipped /\ \E c \in run.candidates : KeyOf(c) = Place[f].key
    \/ Place[f].key \in DOMAIN run.skipped
    \/ \E c \in run.candidates : c.file = f

\* The entries that a walk looks for.
Walked(n) == IF n \in Roots THEN {n} ELSE Group(n)
Steady(run, f) == f \in Files /\ disk[f] # None /\ disk[f].stamp <= run.since

RunTimes(run) ==
    /\ run.since \in Nat /\ run.begun \in Nat
    /\ run.since <= run.begun /\ run.since <= Len(written)
ChosenWell(run) ==
    /\ \A c \in run.candidates : Reached(c.file)
    /\ \A c, d \in run.candidates : KeyOf(c) = KeyOf(d) => c.file = d.file
    /\ \A f \in run.listed : IsExcluded(f) \/ Recorded(run, f)

\* What no walk is still to find has been recorded.
Gathered(run, n) ==
    \A m \in Walked(n) : \A f \in Files :
        Steady(run, f) /\ ~IsExcluded(f) /\ Reaches(m, f) => Recorded(run, f)
Coverage(run) ==
    /\ run.walks \subseteq Roots \cup PatternGroups
    /\ run.phase \notin {"idle", "failed"} =>
          \A n \in Roots \cup PatternGroups : n \in run.walks \/ Gathered(run, n)
Complete(run) ==
    /\ run.phase \in {"hash", "done", "end"} =>
          /\ run.walks = {}
          /\ \A c \in run.candidates :
                \E r \in run.files \cup run.hashing \cup run.queue : r.file = c.file
    /\ run.phase \in {"done", "end"} => run.queue = {} /\ run.hashing = {}
    /\ run.phase = "end" => \A n \in run.unmatched : EntryAt(n).kind = "glob" =>
          \A c \in run.candidates : c.file \notin EntryAt(n).files

RunInv(run) ==
    /\ DOMAIN run = DOMAIN NoInventory
    /\ RunTrue(run) /\ RunTimes(run) /\ ChosenWell(run) /\ Coverage(run) /\ Complete(run)

DiscoveryInv ==
    /\ FilesTrue /\ CacheTrue
    /\ DOMAIN inventory = Inventories
    /\ \A i \in Inventories : RunInv(inventory[i])

-----------------------------------------------------------------------------

LEMMA LeastNumber ==
  ASSUME NEW S \in SUBSET Nat, S # {} PROVE \E n \in S : \A m \in S : n <= m
<1> DEFINE R == OpToRel(<, Nat)
<1>1. IsWellFoundedOn(R, Nat)
  BY NatLessThanWellFounded
<1>2. \A n, m \in Nat : n < m => <<n, m>> \in R
  BY DEF OpToRel
<1> HIDE DEF R
<1>3. PICK n \in S : \A m \in S : <<m, n>> \notin R
  BY <1>1, WFMin
<1>4. \A m \in S : ~ (m < n)
  BY <1>2, <1>3
<1> QED
  BY <1>3, <1>4

LEMMA NumbersFacts ==
  /\ Roots \subseteq Numbers /\ Patterns \subseteq Numbers /\ Numbers \subseteq Nat
  /\ Roots \cap Patterns = {} /\ PatternGroups \subseteq Patterns
BY DiscoveryAssumption DEF Roots, Patterns, Numbers, EntriesOf, PatternGroups

\* Every selector is looked for by one walk.
LEMMA EveryPatternWalked ==
  ASSUME NEW m \in Roots \cup Patterns
  PROVE  \E n \in Roots \cup PatternGroups : m \in Walked(n)
<1>1. CASE m \in Roots
  BY <1>1 DEF Walked
<1>2. CASE m \in Patterns
  <2>1. Group(m) \in SUBSET Nat /\ m \in Group(m)
    BY <1>2, NumbersFacts DEF Group
  <2>2. PICK n \in Group(m) : \A k \in Group(m) : n <= k
    BY <2>1, LeastNumber
  <2>3. Group(n) = Group(m) /\ n \in Patterns
    BY <2>2 DEF Group
  <2>4. n \in PatternGroups
    BY <2>2, <2>3 DEF PatternGroups
  <2> QED
    BY <2>1, <2>3, <2>4, NumbersFacts DEF Walked
<1> QED
  BY <1>1, <1>2

\* A walk finds what its entries reach, and nothing else.
LEMMA WalkFinds ==
  ASSUME NEW n \in Roots \cup PatternGroups, NEW f
  PROVE  /\ Walked(n) \subseteq Roots \cup Patterns
         /\ WalkOf(n).files \subseteq Files
         /\ f \in WalkOf(n).files /\ ~PassedOver(WalkOf(n), f) /\ f \notin IgnoredIn(n)
              <=> \E m \in Walked(n) : Reaches(m, f)
<1>1. CASE n \in Roots
  BY <1>1, NumbersFacts, DiscoveryAssumption DEF Walked, WalkOf, Reaches
<1>2. CASE n \in PatternGroups
  <2>1. n \in Patterns /\ n \notin Roots /\ Group(n) \subseteq Patterns
    BY <1>2, NumbersFacts DEF Group
  <2>2. WalkOf(n) = [kind |-> "glob", names |-> EntryAt(n).names,
                     files |-> UNION {EntryAt(m).files : m \in Group(n)}]
    BY <2>1 DEF WalkOf
  <2>3. WalkOf(n).kind = "glob" /\ WalkOf(n).names = EntryAt(n).names
        /\ WalkOf(n).files = UNION {EntryAt(m).files : m \in Group(n)}
    BY <2>2
  <2>4. \A m \in Group(n) :
           /\ EntryAt(m).kind = "glob"
           /\ DefaultExcludes(EntryAt(m)) = DefaultExcludes(WalkOf(n))
    BY <2>1, <2>3 DEF Group, DefaultExcludes, Patterns, EntriesOf
  <2>5. \A m \in Group(n) : PassedOver(EntryAt(m), f) <=> PassedOver(WalkOf(n), f)
    BY <2>3, <2>4 DEF PassedOver
  <2>6. Walked(n) = Group(n) /\ Walked(n) \subseteq Roots \cup Patterns
    BY <2>1 DEF Walked
  <2>7. WalkOf(n).files \subseteq Files
    BY <2>1, <2>3, NumbersFacts, DiscoveryAssumption
  <2>8. f \notin IgnoredIn(n) /\ \A m \in Group(n) : f \notin IgnoredIn(m)
    BY <2>1, NumbersFacts DEF IgnoredIn
  <2> QED
    BY <2>3, <2>5, <2>6, <2>7, <2>8 DEF Reaches
<1> QED
  BY <1>1, <1>2

-----------------------------------------------------------------------------

LEMMA CacheStays ==
  ASSUME DiscoveryInv, UNCHANGED <<written, cache>> PROVE CacheTrue'
BY DEF DiscoveryInv, CacheTrue, RecordTrue, Held

LEMMA RunMoves ==
  ASSUME DiscoveryInv, NEW i \in Inventories, NEW run, RunInv(run),
         inventory' = [inventory EXCEPT ![i] = run],
         UNCHANGED <<disk, written>>, CacheTrue'
  PROVE  DiscoveryInv'
<1>1. FilesTrue' /\ DOMAIN inventory' = Inventories
  BY DEF DiscoveryInv, FilesTrue, Held
<1>2. ASSUME NEW j \in Inventories PROVE RunInv(inventory[j])'
  <2>1. PICK other : other = inventory'[j]
    OBVIOUS
  <2>2. RunInv(other)
    BY <2>1 DEF DiscoveryInv
  <2>3. RunTrue(other)' /\ RunTimes(other)' /\ ChosenWell(other)' /\ Coverage(other)' /\ Complete(other)'
    <3>1. RunTrue(other)'
      BY <2>2 DEF RunInv, RunTrue, RecordTrue, Held, HashTrue, Read
    <3>2. RunTimes(other)' /\ ChosenWell(other)' /\ Complete(other)'
      BY <2>2 DEF RunInv, RunTimes, ChosenWell, Complete
    <3>3. Coverage(other)'
      BY <2>2 DEF RunInv, Coverage, Gathered, Steady
    <3> QED
      BY <3>1, <3>2, <3>3
  <2> QED
    BY <2>1, <2>2, <2>3 DEF RunInv
<1> QED
  BY <1>1, <1>2 DEF DiscoveryInv

LEMMA Stretched ==
  ASSUME \E S : written \in Seq(S), NEW content, written' = Append(written, content)
  PROVE  /\ \E S : written' \in Seq(S)
         /\ Len(written) \in Nat /\ Len(written') = Len(written) + 1
         /\ written'[Len(written')] = content
         /\ \A s \in Nat : 1 <= s /\ s <= Len(written) => written'[s] = written[s]
<1>1. PICK S : written \in Seq(S)
  OBVIOUS
<1>2. written \in Seq(S \cup {content}) /\ content \in S \cup {content}
  BY <1>1
<1>3. written' \in Seq(S \cup {content})
  BY <1>2
<1> QED
  BY <1>2, <1>3

\* A file is written or removed.
LEMMA FileMoves ==
  ASSUME DiscoveryInv, NEW f \in Files, NEW content, NEW now,
         written' = Append(written, content), disk' = [disk EXCEPT ![f] = now],
         now = None \/ (now.stamp = Len(written) + 1 /\ now.content = content),
         UNCHANGED <<cache, inventory>>
  PROVE  DiscoveryInv'
<1>1. /\ \E S : written' \in Seq(S)
      /\ Len(written) \in Nat /\ Len(written') = Len(written) + 1
      /\ written'[Len(written')] = content
      /\ \A s \in Nat : 1 <= s /\ s <= Len(written) => written'[s] = written[s]
  BY Stretched DEF DiscoveryInv, FilesTrue
<1>2. \A s, c : Held(s, c) => Held(s, c)'
  BY <1>1 DEF Held
<1>3. /\ DOMAIN disk' = Files /\ disk'[f] = now
      /\ \A g \in Files : g # f => disk'[g] = disk[g]
  BY DEF DiscoveryInv, FilesTrue
<1>4. FilesTrue'
  <2>1. ASSUME NEW g \in Files, disk'[g] # None PROVE Held(disk[g].stamp, disk[g].content)'
    <3>1. CASE g = f
      BY <2>1, <3>1, <1>1, <1>3 DEF Held
    <3>2. CASE g # f
      BY <2>1, <3>2, <1>2, <1>3 DEF DiscoveryInv, FilesTrue
    <3> QED
      BY <3>1, <3>2
  <2> QED
    BY <2>1, <1>1, <1>3 DEF FilesTrue
<1>5. CacheTrue'
  BY <1>2 DEF DiscoveryInv, CacheTrue, RecordTrue
<1>6. ASSUME NEW i \in Inventories PROVE RunInv(inventory[i])'
  <2>1. PICK run : run = inventory[i]
    OBVIOUS
  <2>2. RunInv(run)
    BY <2>1 DEF DiscoveryInv
  <2>3. RunTrue(run)'
    <3>1. \A r : RecordTrue(r) => RecordTrue(r)'
      BY <1>2 DEF RecordTrue
    <3>2. ASSUME NEW c, Read(c) PROVE Read(c)'
      BY <3>2, <1>1, <1>3 DEF Read
    <3>3. ASSUME NEW h, HashTrue(h) PROVE HashTrue(h)'
      <4>1. Read(h)'
        BY <3>3, <3>2 DEF HashTrue
      <4>2. CASE RecordTrue(h)
        BY <4>1, <4>2, <3>1 DEF HashTrue
      <4>3. CASE disk[h.file] # None => h.stamp < disk[h.file].stamp
        BY <3>3, <4>1, <4>3, <1>1, <1>3 DEF HashTrue, Read
      <4> QED
        BY <3>3, <4>2, <4>3 DEF HashTrue
    <3> QED
      BY <2>2, <3>1, <3>2, <3>3 DEF RunInv, RunTrue
  <2>4. RunTimes(run)' /\ ChosenWell(run)' /\ Complete(run)'
    BY <2>2, <1>1 DEF RunInv, RunTimes, ChosenWell, Complete
  <2>5. Coverage(run)'
    <3>1. ASSUME NEW g, Steady(run, g)' PROVE Steady(run, g)
      BY <3>1, <2>2, <1>1, <1>3 DEF Steady, RunInv, RunTimes
    <3> QED
      BY <2>2, <3>1 DEF RunInv, Coverage, Gathered
  <2> QED
    BY <2>1, <2>2, <2>3, <2>4, <2>5 DEF RunInv
<1> QED
  BY <1>4, <1>5, <1>6 DEF DiscoveryInv

LEMMA FilesKeep ==
  ASSUME DiscoveryInv, NEW f \in Files,
         RemoveFile(f) \/ \E content \in Contents : WriteFile(f, content)
  PROVE  DiscoveryInv'
<1>1. CASE RemoveFile(f)
  <2>1. written' = Append(written, None) /\ disk' = [disk EXCEPT ![f] = None]
        /\ UNCHANGED <<cache, inventory>>
    BY <1>1 DEF RemoveFile
  <2> QED
    BY <2>1, FileMoves
<1>2. CASE \E content \in Contents : WriteFile(f, content)
  <2>1. PICK content \in Contents : WriteFile(f, content)
    BY <1>2
  <2>2. PICK now : now = [content |-> content, stamp |-> Len(written')]
    OBVIOUS
  <2>3. written' = Append(written, content) /\ disk' = [disk EXCEPT ![f] = now]
        /\ UNCHANGED <<cache, inventory>>
    BY <2>1, <2>2 DEF WriteFile
  <2>4. now.stamp = Len(written) + 1 /\ now.content = content
    BY <2>2, <2>3, Stretched DEF DiscoveryInv, FilesTrue
  <2> QED
    BY <2>3, <2>4, FileMoves
<1> QED
  BY <1>1, <1>2

-----------------------------------------------------------------------------

LEMMA StartInventoryKeeps ==
  ASSUME DiscoveryInv, NEW i \in Inventories, StartInventory(i) PROVE DiscoveryInv'
<1> DEFINE starts == {n \in Roots : Present(EntryAt(n).files) # {}} \cup PatternGroups
           was == inventory[i]
           run == [was EXCEPT !.phase = "walk", !.since = Len(written), !.begun = Len(written),
                              !.walks = starts]
<1>1. /\ inventory' = [inventory EXCEPT ![i] = run] /\ was.phase = "idle"
      /\ UNCHANGED <<disk, written, cache>>
  BY DEF StartInventory
<1>2. RunInv(was)
  BY DEF DiscoveryInv
<1>3. /\ DOMAIN run = DOMAIN NoInventory
      /\ run.phase = "walk" /\ run.since = Len(written) /\ run.begun = Len(written)
      /\ run.walks = starts /\ run.listed = was.listed
      /\ run.candidates = was.candidates /\ run.skipped = was.skipped
      /\ run.usable = was.usable /\ run.queue = was.queue /\ run.hashing = was.hashing
      /\ run.files = was.files
  BY <1>2 DEF RunInv, NoInventory
<1>4. Len(written) \in Nat
  BY DEF DiscoveryInv, FilesTrue
<1> HIDE DEF run
<1>5. RunTrue(run)
  BY <1>2, <1>3 DEF RunInv, RunTrue
<1>6. RunTimes(run)
  BY <1>3, <1>4 DEF RunTimes
<1>7. ChosenWell(run)
  BY <1>2, <1>3 DEF RunInv, ChosenWell, Recorded
<1>8. Coverage(run)
  <2>1. ASSUME NEW n \in Roots \cup PatternGroups, n \notin starts PROVE Gathered(run, n)
    <3>1. n \in Roots /\ Present(EntryAt(n).files) = {}
      BY <2>1
    <3> QED
      BY <3>1 DEF Gathered, Walked, Steady, Present, Reaches
  <2> QED
    BY <2>1, <1>3 DEF Coverage
<1>9. Complete(run)
  BY <1>3 DEF Complete
<1>10. RunInv(run)
  BY <1>3, <1>5, <1>6, <1>7, <1>8, <1>9 DEF RunInv
<1> QED
  BY <1>1, <1>10, CacheStays, RunMoves

\* A file on the list of a walk is recorded, or excluded.
LEMMA RecordingFacts ==
  ASSUME NEW run, RunInv(run), NEW e, Read(e),
         \E n \in Roots \cup Patterns : Reaches(n, e.file)
  PROVE  LET now == RecordSourceCandidate(run, e)
         IN  /\ \A c \in now.candidates : Read(c) /\ Reached(c.file)
             /\ \A c, d \in now.candidates : KeyOf(c) = KeyOf(d) => c.file = d.file
             /\ run.candidates \subseteq now.candidates
             /\ DOMAIN run.skipped \subseteq DOMAIN now.skipped
             /\ IsExcluded(e.file) \/ Recorded(now, e.file)
<1> DEFINE now == RecordSourceCandidate(run, e)
           existing == {c \in run.candidates : KeyOf(c) = KeyOf(e)}
           reason == SkipReason(e.file, e.content)
<1>1. DOMAIN run = DOMAIN NoInventory /\ "candidates" \in DOMAIN run /\ "skipped" \in DOMAIN run
  BY DEF RunInv, NoInventory
<1>2. /\ \A c \in run.candidates : Read(c) /\ Reached(c.file)
      /\ \A c, d \in run.candidates : KeyOf(c) = KeyOf(d) => c.file = d.file
  BY DEF RunInv, RunTrue, ChosenWell
<1>3. ASSUME NEW at, NEW why
      PROVE  /\ Skipping(run, at, why).candidates = run.candidates
             /\ DOMAIN Skipping(run, at, why).skipped = DOMAIN run.skipped \cup {at}
  BY <1>1 DEF Skipping
<1>5. CASE IsExcluded(e.file)
  <2>1. now = run
    BY <1>5 DEF RecordSourceCandidate
  <2> QED
    BY <1>2, <1>5, <2>1
<1>6. CASE ~IsExcluded(e.file) /\ existing # {} /\ \E c \in existing : c.file = e.file
  <2>1. now = run
    BY <1>6 DEF RecordSourceCandidate
  <2>2. Recorded(run, e.file)
    BY <1>6 DEF Recorded
  <2> QED
    BY <1>2, <2>1, <2>2
<1>7. CASE ~IsExcluded(e.file) /\ existing # {} /\ ~ \E c \in existing : c.file = e.file
  <2>1. now = Skipping(run, e.file, "path-collision")
    BY <1>7 DEF RecordSourceCandidate
  <2>2. now.candidates = run.candidates /\ DOMAIN now.skipped = DOMAIN run.skipped \cup {e.file}
    BY <1>3, <2>1
  <2>3. Recorded(now, e.file)
    BY <1>7, <2>2 DEF Recorded, KeyOf
  <2> QED
    BY <1>2, <2>2, <2>3
<1>8. CASE ~IsExcluded(e.file) /\ existing = {} /\ reason # None
  <2>1. now = Skipping(run, KeyOf(e), reason)
    BY <1>8 DEF RecordSourceCandidate
  <2>2. now.candidates = run.candidates /\ DOMAIN now.skipped = DOMAIN run.skipped \cup {KeyOf(e)}
    BY <1>3, <2>1
  <2>3. Recorded(now, e.file)
    BY <2>2 DEF Recorded, KeyOf
  <2> QED
    BY <1>2, <2>2, <2>3
<1>9. CASE ~IsExcluded(e.file) /\ existing = {} /\ reason = None
  <2>1. now = [run EXCEPT !.candidates = @ \cup {e}]
    BY <1>9 DEF RecordSourceCandidate
  <2>2. /\ now.candidates = run.candidates \cup {e} /\ now.skipped = run.skipped
        /\ now = [run EXCEPT !.candidates = now.candidates, !.skipped = run.skipped]
    BY <1>1, <2>1
  <2>3. Recorded(now, e.file)
    BY <2>2 DEF Recorded
  <2>4. Reached(e.file)
    BY <1>9 DEF Reached
  <2>5. \A c, d \in now.candidates : KeyOf(c) = KeyOf(d) => c.file = d.file
    BY <1>2, <1>9, <2>2
  <2> QED
    BY <1>2, <2>2, <2>3, <2>4, <2>5
<1> QED
  BY <1>5, <1>6, <1>7, <1>8, <1>9

LEMMA WalkKeeps ==
  ASSUME DiscoveryInv, NEW i \in Inventories, Walk(i) PROVE DiscoveryInv'
<1> DEFINE was == inventory[i]
<1>0. PICK n \in was.walks : \E f \in Found(n) \ was.listed :
         inventory' = [inventory EXCEPT ![i] =
             RecordSourceCandidate([was EXCEPT !.listed = @ \cup {f}], EntryOf(f))]
  BY DEF Walk
<1>1. PICK f \in Found(n) \ was.listed :
         inventory' = [inventory EXCEPT ![i] =
             RecordSourceCandidate([was EXCEPT !.listed = @ \cup {f}], EntryOf(f))]
  BY <1>0
<1>2. was.phase = "walk" /\ UNCHANGED <<disk, written, cache>>
  BY DEF Walk
<1>3. RunInv(was)
  BY DEF DiscoveryInv
<1>4. PICK e : e = EntryOf(f)
  OBVIOUS
<1>5. n \in Roots \cup PatternGroups
  BY <1>3 DEF RunInv, Coverage
<1>6. f \in Files /\ disk[f] # None /\ f \in WalkOf(n).files /\ ~PassedOver(WalkOf(n), f)
      /\ f \notin IgnoredIn(n)
  BY <1>5, WalkFinds DEF Found, Present
<1>7. e.file = f /\ Read(e) /\ \E m \in Roots \cup Patterns : Reaches(m, e.file)
  <2>1. e.file = f /\ e.stamp = disk[f].stamp
    BY <1>4 DEF EntryOf
  <2>2. Held(disk[f].stamp, disk[f].content)
    BY <1>6 DEF DiscoveryInv, FilesTrue
  <2> QED
    BY <2>1, <2>2, <1>5, <1>6, WalkFinds DEF Read, Held
<1>8. PICK now : now = RecordSourceCandidate(was, e)
  OBVIOUS
<1>9. /\ \A c \in now.candidates : Read(c) /\ Reached(c.file)
      /\ \A c, d \in now.candidates : KeyOf(c) = KeyOf(d) => c.file = d.file
      /\ was.candidates \subseteq now.candidates
      /\ DOMAIN was.skipped \subseteq DOMAIN now.skipped
      /\ IsExcluded(f) \/ Recorded(now, f)
  BY <1>3, <1>7, <1>8, RecordingFacts
<1> DEFINE run == [was EXCEPT !.listed = @ \cup {f}, !.candidates = now.candidates,
                              !.skipped = now.skipped]
<1>10. DOMAIN was = DOMAIN NoInventory
  BY <1>3 DEF RunInv
<1>11. RecordSourceCandidate([was EXCEPT !.listed = @ \cup {f}], e) = run
  <2> DEFINE w == [was EXCEPT !.listed = @ \cup {f}]
  <2>1. w.candidates = was.candidates /\ w.skipped = was.skipped
    BY <1>10 DEF NoInventory
  <2>2. \/ now = was /\ RecordSourceCandidate(w, e) = w
        \/ \E at, why : now = Skipping(was, at, why) /\ RecordSourceCandidate(w, e) = Skipping(w, at, why)
        \/ now = [was EXCEPT !.candidates = @ \cup {e}]
           /\ RecordSourceCandidate(w, e) = [w EXCEPT !.candidates = @ \cup {e}]
    <3> HIDE DEF w
    <3> QED
      BY <1>8, <2>1 DEF RecordSourceCandidate
  <2>3. CASE now = was /\ RecordSourceCandidate(w, e) = w
    BY <2>3, <1>10 DEF NoInventory
  <2>4. ASSUME NEW at, NEW why, now = Skipping(was, at, why),
               RecordSourceCandidate(w, e) = Skipping(w, at, why)
        PROVE  RecordSourceCandidate(w, e) = run
    BY <2>4, <1>10, <2>1 DEF NoInventory, Skipping
  <2>5. CASE now = [was EXCEPT !.candidates = @ \cup {e}]
             /\ RecordSourceCandidate(w, e) = [w EXCEPT !.candidates = @ \cup {e}]
    BY <2>5, <1>10 DEF NoInventory
  <2> QED
    BY <2>2, <2>3, <2>4, <2>5
<1>12. inventory' = [inventory EXCEPT ![i] = run]
  BY <1>1, <1>4, <1>11
<1>13. /\ DOMAIN run = DOMAIN NoInventory
      /\ run.listed = was.listed \cup {f}
      /\ run.candidates = now.candidates /\ run.skipped = now.skipped
      /\ run.phase = was.phase /\ run.since = was.since /\ run.begun = was.begun
      /\ run.walks = was.walks /\ run.usable = was.usable /\ run.queue = was.queue
      /\ run.hashing = was.hashing /\ run.files = was.files /\ run.unmatched = was.unmatched
      /\ run.copies = was.copies
  BY <1>10 DEF NoInventory
<1> HIDE DEF run
<1>14. \A g : Recorded(was, g) => Recorded(run, g)
  BY <1>9, <1>13 DEF Recorded
<1>15. RunTrue(run)
  BY <1>3, <1>9, <1>13 DEF RunInv, RunTrue
<1>16. RunTimes(run)
  BY <1>3, <1>13 DEF RunInv, RunTimes
<1>17. ChosenWell(run)
  <2>1. IsExcluded(f) \/ Recorded(run, f)
    BY <1>9, <1>13 DEF Recorded
  <2> QED
    BY <2>1, <1>3, <1>9, <1>13, <1>14 DEF RunInv, ChosenWell
<1>18. Coverage(run)
  BY <1>3, <1>13, <1>14 DEF RunInv, Coverage, Gathered, Steady
<1>19. Complete(run)
  BY <1>2, <1>13 DEF Complete
<1>20. RunInv(run)
  BY <1>13, <1>15, <1>16, <1>17, <1>18, <1>19 DEF RunInv
<1> QED
  BY <1>2, <1>12, <1>20, CacheStays, RunMoves

LEMMA EndWalkKeeps ==
  ASSUME DiscoveryInv, NEW i \in Inventories, EndWalk(i) PROVE DiscoveryInv'
<1> DEFINE was == inventory[i]
<1>1. PICK n \in was.walks :
         /\ \A f \in Found(n) \ was.listed : disk[f].stamp > was.begun
         /\ inventory' = [inventory EXCEPT
                ![i].walks = @ \ {n}, ![i].listed = {}, ![i].begun = Len(written)]
  BY DEF EndWalk
<1> DEFINE run == [was EXCEPT !.walks = @ \ {n}, !.listed = {}, !.begun = Len(written)]
<1>2. was.phase = "walk" /\ UNCHANGED <<disk, written, cache>>
  BY DEF EndWalk
<1>3. RunInv(was)
  BY DEF DiscoveryInv
<1>4. /\ DOMAIN run = DOMAIN NoInventory
      /\ run.walks = was.walks \ {n} /\ run.listed = {} /\ run.begun = Len(written)
      /\ run.phase = was.phase /\ run.since = was.since /\ run.candidates = was.candidates
      /\ run.skipped = was.skipped /\ run.usable = was.usable /\ run.queue = was.queue
      /\ run.hashing = was.hashing /\ run.files = was.files /\ run.unmatched = was.unmatched
      /\ run.copies = was.copies
  BY <1>3 DEF RunInv, NoInventory
<1>5. inventory' = [inventory EXCEPT ![i] = run]
  BY <1>1
<1>6. Len(written) \in Nat
  BY DEF DiscoveryInv, FilesTrue
<1> HIDE DEF run
<1>7. RunTrue(run)
  BY <1>3, <1>4 DEF RunInv, RunTrue
<1>8. RunTimes(run)
  BY <1>3, <1>4, <1>6 DEF RunInv, RunTimes
<1>9. ChosenWell(run)
  BY <1>3, <1>4 DEF RunInv, ChosenWell
<1>10. \A g : Recorded(was, g) <=> Recorded(run, g)
  BY <1>4 DEF Recorded
<1>11. Gathered(run, n)
  <2>1. n \in Roots \cup PatternGroups
    BY <1>3 DEF RunInv, Coverage
  <2>2. ASSUME NEW m \in Walked(n), NEW f \in Files, Steady(run, f), ~IsExcluded(f),
               Reaches(m, f)
        PROVE  Recorded(run, f)
    <3>1. f \in Found(n)
      BY <2>1, <2>2, WalkFinds DEF Found, Present, Steady
    <3>2. disk[f].stamp <= was.begun /\ disk[f].stamp \in Nat /\ was.begun \in Nat
      BY <2>2, <1>3, <1>4 DEF Steady, RunInv, RunTimes, DiscoveryInv, FilesTrue, Held
    <3>3. f \in was.listed
      BY <1>1, <3>1, <3>2
    <3> QED
      BY <2>2, <3>3, <1>3, <1>10 DEF RunInv, ChosenWell
  <2> QED
    BY <2>2 DEF Gathered
<1>12. Coverage(run)
  <2>1. \A m : Gathered(was, m) => Gathered(run, m)
    BY <1>4, <1>10 DEF Gathered, Steady
  <2> QED
    BY <2>1, <1>2, <1>3, <1>4, <1>11 DEF RunInv, Coverage
<1>13. Complete(run)
  BY <1>2, <1>4 DEF Complete
<1>14. RunInv(run)
  BY <1>4, <1>7, <1>8, <1>9, <1>12, <1>13 DEF RunInv
<1> QED
  BY <1>2, <1>5, <1>14, CacheStays, RunMoves

LEMMA LoadCacheKeeps ==
  ASSUME DiscoveryInv, NEW i \in Inventories, LoadCache(i) PROVE DiscoveryInv'
<1> DEFINE was == inventory[i]
<1>1. inventory' = [inventory EXCEPT ![i] =
            [was EXCEPT !.phase = "hash", !.queue = was.candidates,
                        !.usable = IF Settings.strict THEN {} ELSE cache]]
  BY DEF LoadCache
<1>2. was.phase = "walk" /\ was.walks = {} /\ UNCHANGED <<disk, written, cache>>
  BY DEF LoadCache
<1>3. RunInv(was)
  BY DEF DiscoveryInv
<1> DEFINE run == [was EXCEPT !.phase = "hash", !.queue = was.candidates,
                              !.usable = IF Settings.strict THEN {} ELSE cache]
<1>4. /\ DOMAIN run = DOMAIN NoInventory
      /\ run.phase = "hash" /\ run.queue = was.candidates
      /\ run.usable = IF Settings.strict THEN {} ELSE cache
      /\ run.since = was.since /\ run.begun = was.begun /\ run.walks = was.walks
      /\ run.listed = was.listed /\ run.candidates = was.candidates /\ run.skipped = was.skipped
      /\ run.hashing = was.hashing /\ run.files = was.files /\ run.unmatched = was.unmatched
      /\ run.copies = was.copies
  BY <1>3 DEF RunInv, NoInventory
<1>5. inventory' = [inventory EXCEPT ![i] = run]
  BY <1>1, <1>3 DEF RunInv, NoInventory
<1> HIDE DEF run
<1>6. RunTrue(run)
  <2>1. \A r \in run.usable : RecordTrue(r)
    BY <1>4 DEF DiscoveryInv, CacheTrue
  <2> QED
    BY <1>3, <1>4, <2>1 DEF RunInv, RunTrue
<1>7. RunTimes(run)
  BY <1>3, <1>4 DEF RunInv, RunTimes
<1>8. ChosenWell(run)
  BY <1>3, <1>4 DEF RunInv, ChosenWell, Recorded
<1>9. Coverage(run)
  BY <1>2, <1>3, <1>4 DEF RunInv, Coverage, Gathered, Steady, Recorded
<1>10. Complete(run)
  BY <1>2, <1>4 DEF Complete
<1>11. RunInv(run)
  BY <1>4, <1>6, <1>7, <1>8, <1>9, <1>10 DEF RunInv
<1> QED
  BY <1>2, <1>5, <1>11, CacheStays, RunMoves

LEMMA ReuseKeeps ==
  ASSUME DiscoveryInv, NEW i \in Inventories, Reuse(i) PROVE DiscoveryInv'
<1> DEFINE was == inventory[i]
<1>0. PICK c \in was.queue : \E r \in Reusable(was, c) :
          inventory' = [inventory EXCEPT ![i].queue = @ \ {c}, ![i].files = @ \cup {r}]
  BY DEF Reuse
<1>1. PICK r \in Reusable(was, c) :
          inventory' = [inventory EXCEPT ![i].queue = @ \ {c}, ![i].files = @ \cup {r}]
  BY <1>0
<1>2. was.phase = "hash" /\ UNCHANGED <<disk, written, cache>>
  BY DEF Reuse, Working
<1>3. RunInv(was)
  BY DEF DiscoveryInv
<1> DEFINE run == [was EXCEPT !.queue = @ \ {c}, !.files = @ \cup {r}]
<1>4. /\ DOMAIN run = DOMAIN NoInventory
      /\ run.queue = was.queue \ {c} /\ run.files = was.files \cup {r}
      /\ run.phase = was.phase /\ run.since = was.since /\ run.begun = was.begun
      /\ run.walks = was.walks /\ run.listed = was.listed /\ run.candidates = was.candidates
      /\ run.skipped = was.skipped /\ run.usable = was.usable /\ run.hashing = was.hashing
      /\ run.unmatched = was.unmatched /\ run.copies = was.copies
  BY <1>3 DEF RunInv, NoInventory
<1>5. inventory' = [inventory EXCEPT ![i] = run]
  BY <1>1, <1>3 DEF RunInv, NoInventory, DiscoveryInv
<1> HIDE DEF run
<1>6. RunTrue(run)
  BY <1>3, <1>4 DEF RunInv, RunTrue, Reusable
<1>7. RunTimes(run)
  BY <1>3, <1>4 DEF RunInv, RunTimes
<1>8. ChosenWell(run)
  BY <1>3, <1>4 DEF RunInv, ChosenWell, Recorded
<1>9. Coverage(run)
  BY <1>3, <1>4 DEF RunInv, Coverage, Gathered, Steady, Recorded
<1>10. Complete(run)
  BY <1>2, <1>3, <1>4 DEF RunInv, Complete, Reusable
<1>11. RunInv(run)
  BY <1>4, <1>6, <1>7, <1>8, <1>9, <1>10 DEF RunInv
<1> QED
  BY <1>2, <1>5, <1>11, CacheStays, RunMoves

LEMMA ChecksumKeeps ==
  ASSUME DiscoveryInv, NEW i \in Inventories, NEW aged \in BOOLEAN, Checksum(i, aged) PROVE DiscoveryInv'
<1> DEFINE was == inventory[i]
<1>1. PICK c \in was.queue :
          /\ disk[c.file] # None
          /\ inventory' = [inventory EXCEPT
                ![i].queue = @ \ {c},
                ![i].hashing = @ \cup {Fingerprint(c, disk[c.file].content)}]
  BY DEF Checksum
<1>2. was.phase = "hash" /\ UNCHANGED <<disk, written, cache>>
  BY DEF Checksum, Working
<1>0. PICK h : h = Fingerprint(c, disk[c.file].content)
  OBVIOUS
<1>3. RunInv(was)
  BY DEF DiscoveryInv
<1> DEFINE run == [was EXCEPT !.queue = @ \ {c}, !.hashing = @ \cup {h}]
<1>4. /\ DOMAIN run = DOMAIN NoInventory
      /\ run.queue = was.queue \ {c} /\ run.hashing = was.hashing \cup {h}
      /\ run.phase = was.phase /\ run.since = was.since /\ run.begun = was.begun
      /\ run.walks = was.walks /\ run.listed = was.listed /\ run.candidates = was.candidates
      /\ run.skipped = was.skipped /\ run.usable = was.usable /\ run.files = was.files
      /\ run.unmatched = was.unmatched /\ run.copies = was.copies
  BY <1>3 DEF RunInv, NoInventory
<1>5. inventory' = [inventory EXCEPT ![i] = run]
  BY <1>0, <1>1, <1>3 DEF RunInv, NoInventory, DiscoveryInv
<1> HIDE DEF run
<1>6. RunTrue(run)
  <2>1. h.file = c.file /\ h.stamp = c.stamp /\ h.checksum = disk[c.file].content
    BY <1>0 DEF Fingerprint
  <2>2. Read(c)
    BY <1>3 DEF RunInv, RunTrue
  <2>3. Held(disk[c.file].stamp, disk[c.file].content)
    BY <1>1, <2>2 DEF Read, DiscoveryInv, FilesTrue
  <2>4. HashTrue(h)
    BY <1>1, <2>1, <2>2, <2>3 DEF HashTrue, Read, RecordTrue, Held
  <2> QED
    BY <1>3, <1>4, <2>4 DEF RunInv, RunTrue
<1>7. RunTimes(run)
  BY <1>3, <1>4 DEF RunInv, RunTimes
<1>8. ChosenWell(run)
  BY <1>3, <1>4 DEF RunInv, ChosenWell, Recorded
<1>9. Coverage(run)
  BY <1>3, <1>4 DEF RunInv, Coverage, Gathered, Steady, Recorded
<1>10. Complete(run)
  <2>1. h.file = c.file
    BY <1>0 DEF Fingerprint
  <2> QED
    BY <1>2, <1>3, <1>4, <2>1 DEF RunInv, Complete
<1>11. RunInv(run)
  BY <1>4, <1>6, <1>7, <1>8, <1>9, <1>10 DEF RunInv
<1> QED
  BY <1>2, <1>5, <1>11, CacheStays, RunMoves

LEMMA FailedKeeps ==
  ASSUME DiscoveryInv, NEW i \in Inventories, Failed(i), UNCHANGED <<disk, written, cache>>
  PROVE  DiscoveryInv'
<1> DEFINE run == [NoInventory EXCEPT !.phase = "failed"]
<1>1. inventory' = [inventory EXCEPT ![i] = run]
  BY DEF Failed
<1>2. /\ DOMAIN run = DOMAIN NoInventory /\ run.phase = "failed"
      /\ run.since = 0 /\ run.begun = 0 /\ run.walks = {} /\ run.listed = {} /\ run.candidates = {}
      /\ run.usable = {} /\ run.queue = {} /\ run.hashing = {} /\ run.files = {}
  BY DEF NoInventory
<1> HIDE DEF run
<1>3. Len(written) \in Nat
  BY DEF DiscoveryInv, FilesTrue
<1>4. RunTrue(run) /\ RunTimes(run) /\ ChosenWell(run) /\ Coverage(run) /\ Complete(run)
  BY <1>2, <1>3 DEF RunTrue, RunTimes, ChosenWell, Coverage, Complete
<1>5. RunInv(run)
  BY <1>2, <1>4 DEF RunInv
<1> QED
  BY <1>1, <1>5, CacheStays, RunMoves

LEMMA HashChecked ==
  ASSUME DiscoveryInv, NEW i \in Inventories, NEW h \in inventory[i].hashing,
         inventory[i].phase = "hash", disk[h.file] # None, disk[h.file].stamp = h.stamp,
         inventory' = [inventory EXCEPT ![i].hashing = @ \ {h}, ![i].files = @ \cup {h}],
         UNCHANGED <<disk, written, cache>>
  PROVE  DiscoveryInv'
<1> DEFINE was == inventory[i]
           run == [was EXCEPT !.hashing = @ \ {h}, !.files = @ \cup {h}]
<1>3. RunInv(was)
  BY DEF DiscoveryInv
<1>4. /\ DOMAIN run = DOMAIN NoInventory
      /\ run.hashing = was.hashing \ {h} /\ run.files = was.files \cup {h}
      /\ run.phase = was.phase /\ run.since = was.since /\ run.begun = was.begun
      /\ run.walks = was.walks /\ run.listed = was.listed /\ run.candidates = was.candidates
      /\ run.skipped = was.skipped /\ run.usable = was.usable /\ run.queue = was.queue
      /\ run.unmatched = was.unmatched /\ run.copies = was.copies
  BY <1>3 DEF RunInv, NoInventory
<1>5. inventory' = [inventory EXCEPT ![i] = run]
  BY <1>3 DEF RunInv, NoInventory, DiscoveryInv
<1> HIDE DEF run
<1>6. RunTrue(run)
  <2>1. RecordTrue(h)
    <3>1. HashTrue(h)
      BY <1>3 DEF RunInv, RunTrue
    <3> QED
      BY <3>1 DEF HashTrue, Read
  <2> QED
    BY <1>3, <1>4, <2>1 DEF RunInv, RunTrue
<1>7. RunTimes(run)
  BY <1>3, <1>4 DEF RunInv, RunTimes
<1>8. ChosenWell(run)
  BY <1>3, <1>4 DEF RunInv, ChosenWell, Recorded
<1>9. Coverage(run)
  BY <1>3, <1>4 DEF RunInv, Coverage, Gathered, Steady, Recorded
<1>10. Complete(run)
  BY <1>3, <1>4 DEF RunInv, Complete
<1>11. RunInv(run)
  BY <1>4, <1>6, <1>7, <1>8, <1>9, <1>10 DEF RunInv
<1> QED
  BY <1>5, <1>11, CacheStays, RunMoves

LEMMA StatAgainKeeps ==
  ASSUME DiscoveryInv, NEW i \in Inventories, StatAgain(i) PROVE DiscoveryInv'
<1>1. PICK h \in inventory[i].hashing :
          IF disk[h.file] # None /\ disk[h.file].stamp = h.stamp
          THEN inventory' = [inventory EXCEPT ![i].hashing = @ \ {h}, ![i].files = @ \cup {h}]
          ELSE Failed(i)
  BY DEF StatAgain
<1>2. inventory[i].phase = "hash" /\ UNCHANGED <<disk, written, cache>>
  BY DEF StatAgain
<1>3. CASE disk[h.file] # None /\ disk[h.file].stamp = h.stamp
  BY <1>1, <1>2, <1>3, HashChecked
<1>4. CASE ~(disk[h.file] # None /\ disk[h.file].stamp = h.stamp)
  BY <1>1, <1>2, <1>4, FailedKeeps
<1> QED
  BY <1>3, <1>4

LEMMA WriteFingerprintsKeeps ==
  ASSUME DiscoveryInv, NEW i \in Inventories, WriteFingerprints(i) PROVE DiscoveryInv'
<1> DEFINE was == inventory[i]
<1>1. inventory' = [inventory EXCEPT ![i].phase = "done"]
  BY DEF WriteFingerprints
<1>2. /\ was.phase = "hash" /\ was.queue = {} /\ was.hashing = {}
      /\ cache' = (IF Settings.save THEN was.files ELSE cache)
      /\ UNCHANGED <<disk, written>>
  BY DEF WriteFingerprints
<1>3. RunInv(was)
  BY DEF DiscoveryInv
<1> DEFINE run == [was EXCEPT !.phase = "done"]
<1>4. /\ DOMAIN run = DOMAIN NoInventory
      /\ run.phase = "done"
      /\ run.since = was.since /\ run.begun = was.begun /\ run.walks = was.walks
      /\ run.listed = was.listed /\ run.candidates = was.candidates /\ run.skipped = was.skipped
      /\ run.usable = was.usable /\ run.queue = was.queue /\ run.hashing = was.hashing
      /\ run.files = was.files /\ run.unmatched = was.unmatched /\ run.copies = was.copies
  BY <1>3 DEF RunInv, NoInventory
<1>5. inventory' = [inventory EXCEPT ![i] = run]
  BY <1>1, <1>3 DEF RunInv, NoInventory, DiscoveryInv
<1> HIDE DEF run
<1>6. RunTrue(run)
  BY <1>3, <1>4 DEF RunInv, RunTrue
<1>7. RunTimes(run)
  BY <1>3, <1>4 DEF RunInv, RunTimes
<1>8. ChosenWell(run)
  BY <1>3, <1>4 DEF RunInv, ChosenWell, Recorded
<1>9. Coverage(run)
  BY <1>2, <1>3, <1>4 DEF RunInv, Coverage, Gathered, Steady, Recorded
<1>10. Complete(run)
  BY <1>2, <1>3, <1>4 DEF RunInv, Complete
<1>11. CacheTrue'
  BY <1>2, <1>3 DEF RunInv, RunTrue, DiscoveryInv, CacheTrue, RecordTrue, Held
<1>12. RunInv(run)
  BY <1>4, <1>6, <1>7, <1>8, <1>9, <1>10 DEF RunInv
<1> QED
  BY <1>2, <1>5, <1>11, <1>12, RunMoves

LEMMA DiagnoseKeeps ==
  ASSUME DiscoveryInv, NEW i \in Inventories, Diagnose(i) PROVE DiscoveryInv'
<1> DEFINE was == inventory[i]
<1>1. inventory' = [inventory EXCEPT ![i] =
            [was EXCEPT !.phase = "end", !.unmatched = Unmatched(was.files),
                        !.copies = Copies(was.files)]]
  BY DEF Diagnose
<1>2. was.phase = "done" /\ UNCHANGED <<disk, written, cache>>
  BY DEF Diagnose
<1>3. RunInv(was)
  BY DEF DiscoveryInv
<1> DEFINE run == [was EXCEPT !.phase = "end", !.unmatched = Unmatched(was.files),
                              !.copies = Copies(was.files)]
<1>4. /\ DOMAIN run = DOMAIN NoInventory
      /\ run.phase = "end" /\ run.unmatched = Unmatched(was.files)
      /\ run.since = was.since /\ run.begun = was.begun /\ run.walks = was.walks
      /\ run.listed = was.listed /\ run.candidates = was.candidates /\ run.skipped = was.skipped
      /\ run.usable = was.usable /\ run.queue = was.queue /\ run.hashing = was.hashing
      /\ run.files = was.files
  BY <1>3 DEF RunInv, NoInventory
<1>5. inventory' = [inventory EXCEPT ![i] = run]
  BY <1>1, <1>3 DEF RunInv, NoInventory
<1> HIDE DEF run
<1>6. RunTrue(run)
  BY <1>3, <1>4 DEF RunInv, RunTrue
<1>7. RunTimes(run)
  BY <1>3, <1>4 DEF RunInv, RunTimes
<1>8. ChosenWell(run)
  BY <1>3, <1>4 DEF RunInv, ChosenWell, Recorded
<1>9. Coverage(run)
  BY <1>2, <1>3, <1>4 DEF RunInv, Coverage, Gathered, Steady, Recorded
<1>10. Complete(run)
  <2>1. ASSUME NEW n \in run.unmatched, EntryAt(n).kind = "glob", NEW c \in run.candidates
        PROVE  c.file \notin EntryAt(n).files
    <3>1. PICK r \in was.files : r.file = c.file
      BY <1>2, <1>3, <1>4, <2>1 DEF RunInv, Complete
    <3>2. EntryAt(n).files \cap {q.file : q \in was.files} = {}
      BY <1>4, <2>1 DEF Unmatched
    <3> QED
      BY <3>1, <3>2
  <2> QED
    BY <1>2, <1>3, <1>4, <2>1 DEF RunInv, Complete
<1>11. RunInv(run)
  BY <1>4, <1>6, <1>7, <1>8, <1>9, <1>10 DEF RunInv
<1> QED
  BY <1>2, <1>5, <1>11, CacheStays, RunMoves

-----------------------------------------------------------------------------

LEMMA DiscoveryInvKept == DiscoveryInv /\ [DiscoveryNext]_discoveryVars => DiscoveryInv'
<1> SUFFICES ASSUME DiscoveryInv, [DiscoveryNext]_discoveryVars PROVE DiscoveryInv'
  OBVIOUS
<1>1. CASE UNCHANGED discoveryVars
  BY <1>1 DEF discoveryVars, DiscoveryInv, FilesTrue, CacheTrue, RecordTrue, Held, RunInv, RunTrue,
              HashTrue, Read, RunTimes, ChosenWell, Coverage, Gathered, Steady, Complete
<1>2. ASSUME NEW i \in Inventories,
             \/ StartInventory(i) \/ Walk(i) \/ EndWalk(i) \/ LoadCache(i)
             \/ Reuse(i) \/ (\E aged \in BOOLEAN : Checksum(i, aged))
             \/ StatAgain(i) \/ WriteFingerprints(i) \/ Fail(i) \/ Diagnose(i)
      PROVE  DiscoveryInv'
  BY <1>2, StartInventoryKeeps, WalkKeeps, EndWalkKeeps, LoadCacheKeeps, ReuseKeeps, ChecksumKeeps,
     StatAgainKeeps, WriteFingerprintsKeeps, FailedKeeps, DiagnoseKeeps DEF Fail
<1>3. ASSUME NEW f \in Files, RemoveFile(f) \/ \E content \in Contents : WriteFile(f, content)
      PROVE  DiscoveryInv'
  BY <1>3, FilesKeep
<1> QED
  BY <1>1, <1>2, <1>3 DEF DiscoveryNext

LEMMA DiscoveryInvInit ==
  ASSUME NEW present, NEW content, DiscoveryInit(present, content) PROVE DiscoveryInv
<1>1. written = <<content>> /\ written \in Seq({content}) /\ Len(written) = 1 /\ written[1] = content
  BY DEF DiscoveryInit
<1>2. FilesTrue
  <2>1. DOMAIN disk = Files
    BY DEF DiscoveryInit
  <2>2. ASSUME NEW f \in Files, disk[f] # None PROVE Held(disk[f].stamp, disk[f].content)
    <3>1. disk[f] = [content |-> content, stamp |-> 1]
      BY <2>2 DEF DiscoveryInit
    <3>2. disk[f].content = content /\ disk[f].stamp = 1
      BY <3>1
    <3> QED
      BY <1>1, <3>2 DEF Held
  <2> QED
    BY <1>1, <2>1, <2>2 DEF FilesTrue
<1>3. CacheTrue
  BY DEF DiscoveryInit, CacheTrue
<1>4. /\ NoInventory.phase = "idle" /\ NoInventory.since = 0 /\ NoInventory.begun = 0
      /\ NoInventory.walks = {} /\ NoInventory.listed = {} /\ NoInventory.candidates = {}
      /\ NoInventory.usable = {} /\ NoInventory.queue = {} /\ NoInventory.hashing = {}
      /\ NoInventory.files = {}
  BY DEF NoInventory
<1>5. RunInv(NoInventory)
  BY <1>1, <1>4 DEF RunInv, RunTrue, RunTimes, ChosenWell, Coverage, Complete
<1> QED
  BY <1>2, <1>3, <1>5 DEF DiscoveryInv, DiscoveryInit

LEMMA DiscoveryInvImplies == DiscoveryInv => DiscoverySound
<1> SUFFICES ASSUME DiscoveryInv PROVE DiscoverySound
  OBVIOUS
<1>1. FingerprintsTrue
  BY DEF DiscoveryInv, CacheTrue, RecordTrue, Held, RunInv, RunTrue, FingerprintsTrue
<1>2. ASSUME NEW i \in Inventories, inventory[i].phase \in {"hash", "done", "end"}
      PROVE  LET run == inventory[i]
                 reached == {f \in Files : ~IsExcluded(f)
                                /\ \E n \in Roots \cup Patterns : Reaches(n, f)}
                 steady == {f \in Present(Files) : disk[f].stamp <= run.since}
                 known == {KeyOf(c) : c \in run.candidates} \cup DOMAIN run.skipped
                 indexed == {c.file : c \in run.candidates}
             IN  /\ indexed \subseteq reached
                 /\ \A f \in steady \cap reached : Place[f].key \in known
                 /\ \A f, g \in steady \cap reached :
                       f # g /\ Place[f].key = Place[g].key
                         => \/ {f, g} \cap DOMAIN run.skipped # {}
                            \/ Place[f].key \in DOMAIN run.skipped
                 /\ run.phase = "end" => \A n \in run.unmatched :
                       EntryAt(n).kind = "glob" => EntryAt(n).files \cap indexed = {}
  <2> DEFINE run == inventory[i]
             reached == {f \in Files : ~IsExcluded(f)
                            /\ \E n \in Roots \cup Patterns : Reaches(n, f)}
             steady == {f \in Present(Files) : disk[f].stamp <= run.since}
             known == {KeyOf(c) : c \in run.candidates} \cup DOMAIN run.skipped
             indexed == {c.file : c \in run.candidates}
  <2>1. RunInv(run)
    BY DEF DiscoveryInv
  <2>2. indexed \subseteq reached
    BY <2>1 DEF RunInv, RunTrue, Read, ChosenWell, Reached
  <2>3. ASSUME NEW f \in steady \cap reached PROVE Recorded(run, f)
    <3>1. f \in Files /\ ~IsExcluded(f) /\ Steady(run, f)
      BY DEF Steady, Present
    <3>2. PICK m \in Roots \cup Patterns : Reaches(m, f)
      OBVIOUS
    <3>3. PICK n \in Roots \cup PatternGroups : m \in Walked(n)
      BY EveryPatternWalked
    <3>4. Gathered(run, n)
      BY <1>2, <2>1 DEF RunInv, Coverage, Complete
    <3> QED
      BY <3>1, <3>2, <3>3, <3>4 DEF Gathered
  <2>4. \A f \in steady \cap reached : Place[f].key \in known
    BY <2>3 DEF Recorded, KeyOf
  <2>5. ASSUME NEW f \in steady \cap reached, NEW g \in steady \cap reached,
               f # g, Place[f].key = Place[g].key
        PROVE  {f, g} \cap DOMAIN run.skipped # {} \/ Place[f].key \in DOMAIN run.skipped
    <3>1. \A c, d \in run.candidates : KeyOf(c) = KeyOf(d) => c.file = d.file
      BY <2>1 DEF RunInv, ChosenWell
    <3> QED
      BY <2>3, <2>5, <3>1 DEF Recorded, KeyOf
  <2>6. run.phase = "end" => \A n \in run.unmatched :
           EntryAt(n).kind = "glob" => EntryAt(n).files \cap indexed = {}
    BY <2>1 DEF RunInv, Complete
  <2> HIDE DEF reached, steady, known, indexed
  <2>7. /\ indexed \subseteq reached
        /\ \A f \in steady \cap reached : Place[f].key \in known
        /\ \A f, g \in steady \cap reached :
              f # g /\ Place[f].key = Place[g].key
                => {f, g} \cap DOMAIN run.skipped # {} \/ Place[f].key \in DOMAIN run.skipped
        /\ run.phase = "end" => \A n \in run.unmatched :
              EntryAt(n).kind = "glob" => EntryAt(n).files \cap indexed = {}
    BY <2>2, <2>4, <2>5, <2>6
  <2> QED
    BY <2>7 DEF reached, steady, known, indexed
<1>3. SelectionTrue
  BY <1>2 DEF SelectionTrue
<1> QED
  BY <1>1, <1>3 DEF DiscoverySound

\* discoverSourceCandidates and inventorySourceFiles: whatever edits and other
\* inventories run meanwhile, a file that stays as it is is indexed or reported if
\* an entry reaches it, and every fingerprint kept is that of the content that the
\* file had under its times.
THEOREM InventoryIsSound ==
  ASSUME NEW present, NEW content PROVE DiscoverySpec(present, content) => []DiscoverySound
<1>1. DiscoveryInit(present, content) => DiscoveryInv
  BY DiscoveryInvInit
<1> QED
  BY <1>1, DiscoveryInvKept, DiscoveryInvImplies, PTL DEF DiscoverySpec

-----------------------------------------------------------------------------
(***************************************************************************)
(* The server of an agent.  A call past its admission has a client of the  *)
(* configuration it read (CallsServed), which nothing closes under it,     *)
(* for each client was begun behind the one before it (ClientChain); and   *)
(* what is remembered of an agent was sent, or in a window (MemoryTrue).   *)
(* A call is admitted by what is known of the roots when it is admitted,   *)
(* which is not older than what it knew at its beginning, nor than what    *)
(* the listing it awaited has brought (ScopeInv), if the agent answers the *)
(* requests for its roots in their order.                                  *)
(***************************************************************************)

ClientStates == {"waiting", "creating", "open", "closing", "closed", "failed"}
ScopeType == [announced : Nat, known : Nat, lists : BOOLEAN, asked : SUBSET Nat, listed : SUBSET Nat]

McpShape ==
    /\ settings \in Nat
    /\ DOMAIN calls = McpCalls
    /\ \A c \in McpCalls : DOMAIN calls[c] = DOMAIN NoCall
    /\ clients \in Seq([config : Nat, previous : Nat, state : ClientStates])
    /\ scope \in ScopeType
    /\ auto \in [running : BOOLEAN, recent : BOOLEAN]
    /\ server \in {"open", "stopping", "closing", "closed"}

\* A call past its admission has a client of the configuration it has read, which is not
\* closed before its search has ended.
CallOK(call) ==
    /\ call.phase \in {"asked", "waiting", "searching"} => call.config \in Nat
    /\ call.phase \in {"waiting", "searching"} =>
          call.client \in DOMAIN clients /\ clients[call.client].config = call.config
    /\ call.phase = "searching" => clients[call.client].state \in {"open", "closing"}
CallsServed == \A c \in McpCalls : CallOK(calls[c])

\* Each client was begun behind the one before it, or when none was left.
Gone(p) == clients[p].state \in {"closed", "failed"}
ClientChain ==
    /\ \A q \in DOMAIN clients :
          /\ clients[q].previous \in {0, q - 1}
          /\ clients[q].previous = 0 \/ clients[q].state # "waiting" => \A p \in 1 .. q - 1 : Gone(p)
    /\ current \in {0, Len(clients)}
    /\ current = 0 => \A p \in DOMAIN clients : Gone(p)

ServerEnds ==
    /\ server \in {"closing", "closed"} => ~auto.running
    /\ server = "closed" => \A p \in DOMAIN clients : Gone(p)

McpInv == McpShape /\ CallsServed /\ ClientChain /\ ServerEnds /\ MemoryTrue

\* The roots that a call has been admitted by are of its own time.
CallInScope(call) ==
    /\ call.phase \in {"asked", "waiting", "searching", "answered"} =>
          /\ call.since \in Nat /\ call.refresh \in Nat
          /\ call.since <= scope.known /\ call.refresh <= scope.announced
    /\ call.phase \in {"waiting", "searching", "answered"} =>
          /\ call.refresh \notin scope.asked
          /\ call.since <= call.judged
          /\ call.refresh \in scope.listed => call.refresh <= call.judged
          /\ call.request.tool # "status" /\ McpConfigs[call.config].enforced
                => Relation(call.judged) # "unrelated"
ScopeInv ==
    /\ \A r \in scope.listed : r <= scope.known
    /\ \A c \in McpCalls : CallInScope(calls[c])

LEMMA Numbered ==
  ASSUME NEW S, NEW s \in Seq(S)
  PROVE  /\ Len(s) \in Nat
         /\ \A p : p \in DOMAIN s <=> p \in Nat /\ 1 <= p /\ p <= Len(s)
<1>1. Len(s) \in Nat /\ DOMAIN s = 1 .. Len(s)
  OBVIOUS
<1>2. \A n \in Nat : \A p : p \in 1 .. n <=> p \in Nat /\ 1 <= p /\ p <= n
  OBVIOUS
<1> QED
  BY <1>1, <1>2, Zenon

LEMMA McpInvInit == McpInit => McpInv /\ ScopeInv
<1> SUFFICES ASSUME McpInit PROVE McpInv /\ ScopeInv
  OBVIOUS
<1> USE DEF McpInit
<1>1. McpShape
  <2>1. PICK known \in {0, 1}, lists \in BOOLEAN :
          scope = [announced |-> 1, known |-> known, lists |-> lists,
                   asked |-> IF lists THEN {1} ELSE {}, listed |-> {}]
    OBVIOUS
  <2>2. scope \in ScopeType
    BY <2>1 DEF ScopeType
  <2> QED
    BY <2>2 DEF McpShape
<1>2. CallsServed
  BY DEF CallsServed, CallOK, NoCall
<1>3. ClientChain
  BY DEF ClientChain, Gone
<1>4. ServerEnds
  BY DEF ServerEnds
<1>5. MemoryTrue
  BY DEF MemoryTrue
<1>6. ScopeInv
  BY DEF ScopeInv, CallInScope, NoCall
<1> QED
  BY <1>1, <1>2, <1>3, <1>4, <1>5, <1>6 DEF McpInv

(* One call takes a step, and nothing else changes but what its answer adds. *)

LEMMA CallMoves ==
  ASSUME McpInv, NEW c \in McpCalls, NEW call,
         DOMAIN call = DOMAIN NoCall, CallOK(call),
         calls' = [calls EXCEPT ![c] = call],
         UNCHANGED <<settings, clients, current, scope, server>>,
         auto' \in [running : BOOLEAN, recent : BOOLEAN],
         server # "open" => auto'.running = auto.running
  PROVE  McpShape' /\ CallsServed' /\ ClientChain' /\ ServerEnds'
<1>1. McpShape'
  BY DEF McpInv, McpShape
<1>2. CallsServed'
  BY DEF McpInv, McpShape, CallsServed, CallOK
<1>3. ClientChain'
  BY DEF McpInv, ClientChain, Gone
<1>4. ServerEnds'
  BY DEF McpInv, ServerEnds, Gone
<1> QED
  BY <1>1, <1>2, <1>3, <1>4

LEMMA MemoryStays ==
  ASSUME MemoryTrue, UNCHANGED <<memory, received, windows>> PROVE MemoryTrue'
BY DEF MemoryTrue, Told

LEMMA CallEnds ==
  ASSUME McpInv, NEW c \in McpCalls, NEW phase,
         phase \notin {"asked", "waiting", "searching"}, Ends(c, phase),
         UNCHANGED <<settings, clients, current, scope, server, auto>>
  PROVE  McpShape' /\ CallsServed' /\ ClientChain' /\ ServerEnds'
<1> DEFINE call == [NoCall EXCEPT !.phase = phase]
<1>1. DOMAIN call = DOMAIN NoCall /\ CallOK(call)
  BY DEF CallOK, NoCall
<1>2. calls' = [calls EXCEPT ![c] = call]
  BY DEF Ends
<1> QED
  BY <1>1, <1>2, CallMoves DEF McpInv, McpShape

LEMMA BeginCallKeeps ==
  ASSUME McpInv, NEW c \in McpCalls, BeginCall(c) PROVE McpInv'
<1>1. PICK request \in McpRequests : calls' = [calls EXCEPT ![c] =
          [NoCall EXCEPT !.phase = "asked", !.request = request, !.config = settings,
                         !.since = scope.known, !.refresh = Pending]]
  BY DEF BeginCall
<1> DEFINE call == [NoCall EXCEPT !.phase = "asked", !.request = request, !.config = settings,
                                  !.since = scope.known, !.refresh = Pending]
<1>2. DOMAIN call = DOMAIN NoCall /\ call.phase = "asked" /\ call.config = settings
  BY DEF NoCall
<1>3. CallOK(call)
  BY <1>2 DEF CallOK, McpInv, McpShape
<1> HIDE DEF call
<1>4. calls' = [calls EXCEPT ![c] = call]
  BY <1>1 DEF call
<1>5. McpShape' /\ CallsServed' /\ ClientChain' /\ ServerEnds'
  BY <1>2, <1>3, <1>4, CallMoves DEF BeginCall, OnlyCalls, McpInv, McpShape
<1> QED
  BY <1>5, MemoryStays DEF McpInv, BeginCall, OnlyCalls

LEMMA ReachClientKeeps ==
  ASSUME McpInv, NEW c \in McpCalls, ReachClient(c) PROVE McpInv'
<1>1. MemoryTrue'
  BY MemoryStays DEF McpInv, ReachClient, OnlyCalls
<1>2. CASE Ends(c, "failed")
  BY <1>1, <1>2, CallEnds DEF McpInv, ReachClient, OnlyCalls
<1>3. CASE clients[calls[c].client].state = "open" /\ calls' = [calls EXCEPT ![c].phase = "searching"]
  <2> DEFINE call == [calls[c] EXCEPT !.phase = "searching"]
  <2>1. DOMAIN call = DOMAIN NoCall
    BY DEF McpInv, McpShape
  <2>2. /\ call.phase = "searching" /\ call.config = calls[c].config
        /\ call.client = calls[c].client
    BY DEF McpInv, McpShape, NoCall
  <2>3. CallOK(call)
    BY <1>3, <2>2 DEF McpInv, CallsServed, CallOK, ReachClient
  <2>4. calls' = [calls EXCEPT ![c] = call]
    BY <1>3
  <2> HIDE DEF call
  <2> QED
    BY <1>1, <2>1, <2>3, <2>4, CallMoves DEF McpInv, McpShape, ReachClient, OnlyCalls
<1> QED
  BY <1>2, <1>3 DEF ReachClient

LEMMA RetrieveKeeps ==
  ASSUME McpInv, NEW c \in McpCalls, Retrieve(c) PROVE McpInv'
<1>1. MemoryTrue'
  BY MemoryStays DEF McpInv, Retrieve, OnlyCalls
<1>2. PICK lists : calls' = [calls EXCEPT ![c].lists = lists]
  BY DEF Retrieve
<1> DEFINE call == [calls[c] EXCEPT !.lists = lists]
<1>3. DOMAIN call = DOMAIN NoCall
  BY DEF McpInv, McpShape
<1>4. call.phase = calls[c].phase /\ call.config = calls[c].config /\ call.client = calls[c].client
  BY DEF McpInv, McpShape, NoCall
<1>5. CallOK(call)
  BY <1>4 DEF McpInv, CallsServed, CallOK
<1>6. calls' = [calls EXCEPT ![c] = call]
  BY <1>2
<1> HIDE DEF call
<1> QED
  BY <1>1, <1>3, <1>5, <1>6, CallMoves DEF McpInv, McpShape, Retrieve, OnlyCalls

(* An answer.                                                               *)

LEMMA CallAnswers ==
  ASSUME McpInv, NEW c \in McpCalls, NEW items,
         calls' = [calls EXCEPT ![c].phase = "answered", ![c].answer = items],
         UNCHANGED <<settings, clients, current, scope, server>>,
         auto' \in [running : BOOLEAN, recent : BOOLEAN],
         server # "open" => auto'.running = auto.running
  PROVE  McpShape' /\ CallsServed' /\ ClientChain' /\ ServerEnds'
<1> DEFINE call == [calls[c] EXCEPT !.phase = "answered", !.answer = items]
<1>1. DOMAIN call = DOMAIN NoCall
  BY DEF McpInv, McpShape
<1>2. call.phase = "answered"
  BY DEF McpInv, McpShape, NoCall
<1>3. CallOK(call)
  BY <1>2 DEF CallOK
<1>4. calls' = [calls EXCEPT ![c] = call]
  BY DEF McpInv, McpShape
<1> HIDE DEF call
<1> QED
  BY <1>1, <1>3, <1>4, CallMoves DEF McpInv, McpShape

LEMMA AnswerSearchKeeps ==
  ASSUME McpInv, NEW c \in McpCalls, AnswerSearch(c) PROVE McpInv'
<1> DEFINE call == calls[c]
           items == Answered(call)
<1>a. UNCHANGED <<settings, clients, current, passages, scope, server, windows>>
  BY DEF AnswerSearch
<1>1. CASE items = None
  <2>1. Ends(c, "failed") /\ UNCHANGED <<memory, received, auto>>
    BY <1>1 DEF AnswerSearch
  <2> QED
    BY <1>a, <2>1, CallEnds, MemoryStays DEF McpInv
<1>2. CASE items # None
  <2>1. /\ calls' = [calls EXCEPT ![c].phase = "answered", ![c].answer = items]
        /\ memory' = Remembered(call, items)
        /\ received' = Sent(items)
        /\ auto' \in {auto, AutoIngest(call)}
    BY <1>2 DEF AnswerSearch
  <2> HIDE DEF items
  <2>2. /\ auto' \in [running : BOOLEAN, recent : BOOLEAN]
        /\ server # "open" => auto'.running = auto.running
    <3>1. \/ auto' = auto
          \/ server = "open" /\ auto' = [running |-> TRUE, recent |-> TRUE]
      BY <2>1 DEF AutoIngest
    <3>2. CASE auto' = auto
      BY <3>2 DEF McpInv, McpShape
    <3>3. CASE server = "open" /\ auto' = [running |-> TRUE, recent |-> TRUE]
      BY <3>3
    <3> QED
      BY <3>1, <3>2, <3>3
  <2>3. McpShape' /\ CallsServed' /\ ClientChain' /\ ServerEnds'
    BY <1>a, <2>1, <2>2, CallAnswers
  <2>4. \A i \in items : Telling(i) => i.passage \in Told'
    <3> SUFFICES ASSUME NEW i \in items, Telling(i) PROVE i.passage \in Told'
      OBVIOUS
    <3>1. <<i.passage, i.version>> \in received'
      BY <2>1 DEF Sent
    <3> QED
      BY <3>1 DEF Told
  <2>5. Told \subseteq Told'
    BY <1>a, <2>1 DEF Told, Sent
  <2>6. MemoryTrue'
    BY <2>1, <2>4, <2>5 DEF McpInv, MemoryTrue, Remembered
  <2> QED
    BY <2>3, <2>6 DEF McpInv
<1> QED
  BY <1>1, <1>2

LEMMA AnswerExpandKeeps ==
  ASSUME McpInv, NEW c \in McpCalls, AnswerExpand(c) PROVE McpInv'
<1>a. UNCHANGED <<settings, clients, current, passages, auto, scope, server>>
  BY DEF AnswerExpand
<1>1. \/ Ends(c, "failed") /\ UNCHANGED <<memory, received, windows>>
      \/ \E items, names :
            /\ calls' = [calls EXCEPT ![c].phase = "answered", ![c].answer = items]
            /\ memory' = memory \cup names
            /\ received' = Sent(items)
            /\ windows' = windows \cup names
  BY DEF AnswerExpand
<1>2. CASE Ends(c, "failed") /\ UNCHANGED <<memory, received, windows>>
  BY <1>a, <1>2, CallEnds, MemoryStays DEF McpInv
<1>3. ASSUME NEW items, NEW names,
             calls' = [calls EXCEPT ![c].phase = "answered", ![c].answer = items],
             memory' = memory \cup names,
             received' = Sent(items),
             windows' = windows \cup names
      PROVE  McpInv'
  <2>1. McpShape' /\ CallsServed' /\ ClientChain' /\ ServerEnds'
    BY <1>a, <1>3, CallAnswers DEF McpInv, McpShape
  <2>2. MemoryTrue'
    BY <1>3 DEF McpInv, MemoryTrue, Told, Sent
  <2> QED
    BY <2>1, <2>2 DEF McpInv
<1> QED
  BY <1>1, <1>2, <1>3

LEMMA AnswerStatusKeeps ==
  ASSUME McpInv, NEW c \in McpCalls, AnswerStatus(c) PROVE McpInv'
<1>1. calls' = [calls EXCEPT ![c].phase = "answered", ![c].answer = calls[c].answer]
  BY DEF AnswerStatus, McpInv, McpShape, NoCall
<1>2. McpShape' /\ CallsServed' /\ ClientChain' /\ ServerEnds'
  BY <1>1, CallAnswers DEF AnswerStatus, OnlyCalls, McpInv, McpShape
<1> QED
  BY <1>2, MemoryStays DEF McpInv, AnswerStatus, OnlyCalls

LEMMA CallFailsKeeps ==
  ASSUME McpInv, NEW c \in McpCalls, CallFails(c) PROVE McpInv'
BY CallEnds, MemoryStays DEF McpInv, CallFails, OnlyCalls

(* A call is admitted.                                                      *)

LEMMA AdmitKeeps ==
  ASSUME McpInv, NEW c \in McpCalls, Admit(c) PROVE McpInv'
<1>a. UNCHANGED <<settings, memory, passages, auto, scope, server, received, windows>>
  BY DEF Admit
<1>b. MemoryTrue'
  BY <1>a, MemoryStays DEF McpInv
<1>1. ASSUME NEW phase, phase \in {"refused", "failed"}, Ends(c, phase), UNCHANGED <<clients, current>>
      PROVE  McpInv'
  BY <1>a, <1>b, <1>1, CallEnds DEF McpInv
<1>2. CASE GetClient(c) /\ server \notin {"closing", "closed"}
  <2> DEFINE config == calls[c].config
             same == current # 0 /\ clients[current].config = config
             promise == IF same THEN current ELSE Len(clients) + 1
  <2>1. PICK extra : calls' = [calls EXCEPT ![c].phase = "waiting", ![c].extra = extra, ![c].client = promise,
                                            ![c].judged = scope.known]
    BY <1>2 DEF GetClient
  <2>2. /\ clients' = IF same THEN clients ELSE Append(clients, NewClient(config))
        /\ current' = promise
    BY <1>2 DEF GetClient
  <2>t. /\ clients \in Seq([config : Nat, previous : Nat, state : ClientStates])
        /\ Len(clients) \in Nat /\ DOMAIN clients = 1 .. Len(clients)
        /\ current \in {0, Len(clients)}
    BY DEF McpInv, McpShape, ClientChain
  <2>c. config \in Nat
    BY DEF Admit, McpInv, CallsServed, CallOK
  <2>d. /\ Len(clients) \in Nat /\ current \in {0, Len(clients)}
        /\ \A p : p \in DOMAIN clients <=> p \in Nat /\ 1 <= p /\ p <= Len(clients)
    BY <2>t, Numbered
  <2>k. PICK call : call = [calls[c] EXCEPT !.phase = "waiting", !.extra = extra, !.client = promise,
                                           !.judged = scope.known]
    OBVIOUS
  <2>3. /\ DOMAIN call = DOMAIN NoCall
        /\ call.phase = "waiting" /\ call.client = promise /\ call.config = config
    BY <2>k DEF McpInv, McpShape, NoCall
  <2>4. calls' = [calls EXCEPT ![c] = call]
    BY <2>1, <2>k DEF McpInv, McpShape
  <2>5. /\ DOMAIN calls' = McpCalls
        /\ calls'[c] = call
        /\ \A d \in McpCalls : d # c => calls'[d] = calls[d]
    BY <2>4 DEF McpInv, McpShape
  <2>6. CASE same
    <3>1. clients' = clients /\ current' = current
      BY <2>2, <2>6
    <3>2. CallOK(call)
      <4>1. current \in DOMAIN clients /\ clients[current].config = config /\ promise = current
        BY <2>6, <2>d
      <4> QED
        BY <2>3, <2>c, <4>1 DEF CallOK
    <3>3. McpShape' /\ CallsServed' /\ ClientChain' /\ ServerEnds'
      BY <1>a, <2>3, <2>4, <3>1, <3>2, CallMoves DEF McpInv, McpShape
    <3> QED
      BY <1>b, <3>3 DEF McpInv
  <2>7. CASE ~same
    <3> DEFINE n == Len(clients) + 1
    <3>1. /\ clients' = Append(clients, NewClient(config))
          /\ current' = n /\ promise = n
      BY <2>2, <2>7
    <3>2. NewClient(config) \in [config : Nat, previous : Nat, state : ClientStates]
      BY <2>c, <2>t DEF NewClient, ClientStates
    <3>3. /\ clients' \in Seq([config : Nat, previous : Nat, state : ClientStates])
          /\ Len(clients') = n /\ DOMAIN clients' = 1 .. n
          /\ clients'[n] = [config |-> config, previous |-> current, state |-> "waiting"]
          /\ \A p \in DOMAIN clients : p \in 1 .. n /\ p # n /\ clients'[p] = clients[p]
          /\ \A p \in 1 .. n : p = n \/ p \in DOMAIN clients
      BY <2>t, <3>1, <3>2 DEF NewClient
    <3>4. McpShape'
      <4>1. \A d \in McpCalls : DOMAIN calls'[d] = DOMAIN NoCall
        BY <2>3, <2>5 DEF McpInv, McpShape
      <4> QED
        BY <1>a, <2>5, <3>3, <4>1 DEF McpInv, McpShape, NoCall
    <3>5. CallsServed'
      <4>1. CallOK(call)'
        <5>1. n \in DOMAIN clients' /\ clients'[n].config = config
          BY <3>3, <2>d
        <5>2. call.phase = "waiting" /\ call.client = n /\ call.config = config
          BY <2>3, <3>1
        <5> QED
          BY <5>1, <5>2, <2>c DEF CallOK
      <4>2. ASSUME NEW d \in McpCalls, d # c PROVE CallOK(calls[d])'
        BY <2>5, <3>3, <4>2 DEF McpInv, CallsServed, CallOK
      <4> QED
        BY <2>5, <4>1, <4>2 DEF CallsServed, CallOK
    <3>6. ClientChain'
      <4>1. \A p \in DOMAIN clients : Gone(p) => Gone(p)'
        BY <3>3 DEF Gone
      <4>2. ASSUME NEW q \in DOMAIN clients
            PROVE  /\ clients'[q].previous \in {0, q - 1}
                   /\ clients'[q].previous = 0 \/ clients'[q].state # "waiting" => \A p \in 1 .. q - 1 : Gone(p)'
        <5>1. \A p \in 1 .. q - 1 : p \in DOMAIN clients
          BY <2>d
        <5>2. clients'[q] = clients[q]
          BY <3>3
        <5> QED
          BY <4>1, <5>1, <5>2 DEF McpInv, ClientChain
      <4>3. clients'[n].previous \in {0, n - 1}
        BY <3>3, <2>t
      <4>4. clients'[n].previous = 0 \/ clients'[n].state # "waiting" => \A p \in 1 .. n - 1 : Gone(p)'
        <5>1. clients'[n].state = "waiting" /\ clients'[n].previous = current
          BY <3>3
        <5>2. current = 0 => \A p \in 1 .. n - 1 : Gone(p)
          BY <2>t DEF McpInv, ClientChain
        <5>3. \A p \in 1 .. n - 1 : p \in DOMAIN clients
          BY <2>d
        <5> QED
          BY <4>1, <5>1, <5>2, <5>3
      <4>5. current' \in {0, Len(clients')} /\ current' # 0
        BY <3>1, <3>3, <2>t
      <4> QED
        BY <3>3, <4>2, <4>3, <4>4, <4>5 DEF ClientChain
    <3>7. ServerEnds'
      BY <1>2, <1>a DEF McpInv, ServerEnds
    <3> QED
      BY <1>b, <3>4, <3>5, <3>6, <3>7 DEF McpInv
  <2> QED
    BY <2>6, <2>7
<1>3. CASE GetClient(c) /\ server \in {"closing", "closed"}
  BY <1>1, <1>3 DEF GetClient
<1> QED
  BY <1>1, <1>2, <1>3 DEF Admit

(* The client of a number takes a step.                                     *)

LEMMA ClientMoves ==
  ASSUME McpInv, NEW p \in DOMAIN clients, NEW state \in ClientStates,
         Becomes(p, state), OnlyClients
  PROVE  /\ clients' \in Seq([config : Nat, previous : Nat, state : ClientStates])
         /\ Len(clients') = Len(clients) /\ DOMAIN clients' = DOMAIN clients
         /\ clients'[p].state = state
         /\ \A q \in DOMAIN clients : /\ clients'[q].config = clients[q].config
                                      /\ clients'[q].previous = clients[q].previous
                                      /\ q # p => clients'[q] = clients[q]
         /\ (server' \in {"open", "stopping", "closing", "closed"} => McpShape')
         /\ MemoryTrue'
<1>1. clients \in Seq([config : Nat, previous : Nat, state : ClientStates])
  BY DEF McpInv, McpShape
<1>2. clients' = [clients EXCEPT ![p] = [clients[p] EXCEPT !.state = state]]
  BY DEF Becomes
<1>3. clients[p] \in [config : Nat, previous : Nat, state : ClientStates]
  <2>1. DOMAIN clients = 1 .. Len(clients)
    BY <1>1
  <2> QED
    BY <1>1, <2>1, ElementOfSeq
<1>4. /\ clients' \in Seq([config : Nat, previous : Nat, state : ClientStates])
      /\ Len(clients') = Len(clients) /\ DOMAIN clients' = DOMAIN clients
  <2>1. [clients[p] EXCEPT !.state = state] \in [config : Nat, previous : Nat, state : ClientStates]
    BY <1>3
  <2>2. p \in 1 .. Len(clients) /\ DOMAIN clients = 1 .. Len(clients)
    BY <1>1
  <2> QED
    BY <1>1, <1>2, <2>1, <2>2, ExceptSeq
<1>5. /\ clients'[p].state = state
      /\ \A q \in DOMAIN clients : /\ clients'[q].config = clients[q].config
                                   /\ clients'[q].previous = clients[q].previous
                                   /\ q # p => clients'[q] = clients[q]
  BY <1>2, <1>3
<1>6. server' \in {"open", "stopping", "closing", "closed"} => McpShape'
  BY <1>4 DEF McpInv, McpShape, OnlyClients
<1>7. MemoryTrue'
  BY MemoryStays DEF McpInv, OnlyClients
<1> QED
  BY <1>4, <1>5, <1>6, <1>7

LEMMA ClientSteps ==
  ASSUME McpInv, NEW p \in DOMAIN clients, NEW state \in ClientStates \ {"waiting"},
         Becomes(p, state), OnlyClients, UNCHANGED server,
         Gone(p) => state \in {"closed", "failed"},
         \A q \in 1 .. p - 1 : Gone(q),
         InUse(p) => state \in {"open", "closing"},
         current' = current \/ (current' = 0 /\ current = p /\ state \in {"closed", "failed"})
  PROVE  McpInv'
<1>d. /\ Len(clients) \in Nat
      /\ \A q : q \in DOMAIN clients <=> q \in Nat /\ 1 <= q /\ q <= Len(clients)
  BY Numbered DEF McpInv, McpShape
<1>s. state \in ClientStates
  OBVIOUS
<1>1. /\ clients' \in Seq([config : Nat, previous : Nat, state : ClientStates])
      /\ Len(clients') = Len(clients) /\ DOMAIN clients' = DOMAIN clients
      /\ clients'[p].state = state
      /\ \A q \in DOMAIN clients : /\ clients'[q].config = clients[q].config
                                   /\ clients'[q].previous = clients[q].previous
                                   /\ q # p => clients'[q] = clients[q]
      /\ McpShape'
      /\ MemoryTrue'
  BY <1>s, ClientMoves DEF McpInv, McpShape
<1>2. \A q \in DOMAIN clients : Gone(q) => Gone(q)'
  BY <1>1 DEF Gone
<1>3. CallsServed'
  <2> SUFFICES ASSUME NEW c \in McpCalls PROVE CallOK(calls[c])'
    BY DEF CallsServed, CallOK
  <2>1. CallOK(calls[c]) /\ calls' = calls
    BY DEF McpInv, CallsServed, OnlyClients
  <2>2. CASE calls[c].phase = "searching" /\ calls[c].client = p
    <3>1. InUse(p)
      BY <2>2 DEF InUse
    <3> QED
      BY <1>1, <2>1, <2>2, <3>1 DEF CallOK
  <2>3. CASE ~(calls[c].phase = "searching" /\ calls[c].client = p)
    BY <1>1, <2>1, <2>3 DEF CallOK
  <2> QED
    BY <2>2, <2>3
<1>4. ClientChain'
  <2>1. ASSUME NEW q \in DOMAIN clients
        PROVE  /\ clients'[q].previous \in {0, q - 1}
               /\ clients'[q].previous = 0 \/ clients'[q].state # "waiting" => \A r \in 1 .. q - 1 : Gone(r)'
    <3>1. \A r \in 1 .. q - 1 : r \in DOMAIN clients
      BY <1>d
    <3>2. clients'[q].previous = 0 \/ clients'[q].state # "waiting" => \A r \in 1 .. q - 1 : Gone(r)
      BY <1>1 DEF McpInv, ClientChain
    <3>3. clients'[q].previous \in {0, q - 1}
      BY <1>1 DEF McpInv, ClientChain
    <3> QED
      BY <1>2, <3>1, <3>2, <3>3
  <2>2. current' \in {0, Len(clients)}
    BY DEF McpInv, ClientChain
  <2>3. ASSUME current' = 0, NEW q \in DOMAIN clients PROVE Gone(q)'
    <3>1. CASE current = 0
      BY <1>2, <3>1 DEF McpInv, ClientChain
    <3>2. CASE current # 0
      <4>1. p = Len(clients) /\ state \in {"closed", "failed"}
        BY <2>3, <3>2 DEF McpInv, ClientChain
      <4>2. q = p \/ q \in 1 .. p - 1
        BY <1>d, <4>1
      <4>3. CASE q = p
        BY <1>1, <4>1, <4>3 DEF Gone
      <4>4. CASE q \in 1 .. p - 1
        BY <1>2, <4>4
      <4> QED
        BY <4>2, <4>3, <4>4
    <3> QED
      BY <3>1, <3>2
  <2> QED
    BY <1>1, <2>1, <2>2, <2>3 DEF ClientChain
<1>5. ServerEnds'
  BY <1>1, <1>2 DEF McpInv, ServerEnds, OnlyClients
<1> QED
  BY <1>1, <1>3, <1>4, <1>5 DEF McpInv

\* A client that has left "waiting" is used by nobody, unless it is open or closing.
LEMMA NotInUse ==
  ASSUME McpInv, NEW p, InUse(p)
  PROVE  clients[p].state \in {"open", "closing"}
BY DEF McpInv, CallsServed, CallOK, InUse

LEMMA ReplaceKeeps ==
  ASSUME McpInv, NEW p, Replace(p) PROVE McpInv'
<1>a. p \in DOMAIN clients /\ clients[p].state = "waiting" /\ UNCHANGED server /\ OnlyClients
  BY DEF Replace
<1>d. /\ Len(clients) \in Nat
      /\ \A q : q \in DOMAIN clients <=> q \in Nat /\ 1 <= q /\ q <= Len(clients)
  BY Numbered DEF McpInv, McpShape
<1>1. CASE PreviousGone(p)
  <2>0. \A q \in 1 .. p - 1 : Gone(q)
    <3>2. CASE clients[p].previous = 0
      BY <1>a, <3>2 DEF McpInv, ClientChain
    <3>3. CASE clients[p].previous # 0
      <4>1. clients[p].previous = p - 1 /\ p - 1 \in DOMAIN clients /\ Gone(p - 1)
        BY <1>a, <1>d, <1>1, <3>3 DEF McpInv, ClientChain, PreviousGone, Gone
      <4>2. \A q \in 1 .. (p - 1) - 1 : Gone(q)
        BY <4>1 DEF McpInv, ClientChain, Gone
      <4>3. \A q \in 1 .. p - 1 : q = p - 1 \/ q \in 1 .. (p - 1) - 1
        BY <1>a, <1>d
      <4> QED
        BY <4>1, <4>2, <4>3
    <3> QED
      BY <3>2, <3>3
  <2>1. ~InUse(p) /\ ~Gone(p)
    BY <1>a, NotInUse DEF Gone
  <2>2. PICK state \in {"creating", "failed"} :
          /\ Becomes(p, state)
          /\ state = "creating" => UNCHANGED current
          /\ state = "failed" => current' = IF current = p THEN 0 ELSE current
    <3>1. IF server \in {"closing", "closed"}
          THEN Becomes(p, "failed") /\ current' = IF current = p THEN 0 ELSE current
          ELSE Becomes(p, "creating") /\ UNCHANGED current
      BY <1>1 DEF Replace, PreviousGone
    <3>2. CASE server \in {"closing", "closed"}
      BY <3>1, <3>2
    <3>3. CASE server \notin {"closing", "closed"}
      BY <3>1, <3>3
    <3> QED
      BY <3>2, <3>3
  <2> QED
    BY <1>a, <2>0, <2>1, <2>2, ClientSteps DEF ClientStates
<1>2. CASE /\ clients[p].previous # 0 /\ clients[clients[p].previous].state = "open"
           /\ Becomes(clients[p].previous, "closing") /\ UNCHANGED current
  <2> DEFINE q == clients[p].previous
  <2>1. q = p - 1 /\ q \in DOMAIN clients
    BY <1>a, <1>d, <1>2 DEF McpInv, ClientChain
  <2>2. (\A r \in 1 .. q - 1 : Gone(r)) /\ ~Gone(q)
    BY <1>2, <2>1 DEF McpInv, ClientChain, Gone
  <2> QED
    BY <1>a, <1>2, <2>1, <2>2, ClientSteps DEF ClientStates
<1> QED
  BY <1>1, <1>2, <1>a DEF Replace

LEMMA CreatedKeeps ==
  ASSUME McpInv, NEW p, Created(p) PROVE McpInv'
<1>a. p \in DOMAIN clients /\ clients[p].state = "creating" /\ UNCHANGED server /\ OnlyClients
  BY DEF Created
<1>1. (\A q \in 1 .. p - 1 : Gone(q)) /\ ~Gone(p) /\ ~InUse(p)
  BY <1>a, NotInUse DEF McpInv, ClientChain, Gone
<1>2. CASE Becomes(p, "open") /\ UNCHANGED current
  BY <1>a, <1>1, <1>2, ClientSteps DEF ClientStates
<1>3. CASE Becomes(p, "failed") /\ current' = IF current = p THEN 0 ELSE current
  BY <1>a, <1>1, <1>3, ClientSteps DEF ClientStates
<1> QED
  BY <1>2, <1>3 DEF Created

LEMMA ClientClosesKeeps ==
  ASSUME McpInv, NEW p, ClientCloses(p) PROVE McpInv'
<1>a. /\ p \in DOMAIN clients /\ clients[p].state = "closing" /\ ~InUse(p)
      /\ Becomes(p, "closed") /\ UNCHANGED <<current, server>> /\ OnlyClients
  BY DEF ClientCloses
<1>1. \A q \in 1 .. p - 1 : Gone(q)
  BY <1>a DEF McpInv, ClientChain
<1> QED
  BY <1>a, <1>1, ClientSteps DEF ClientStates

(* The server stops.                                                        *)

LEMMA OnlyServer ==
  ASSUME McpInv, UNCHANGED <<clients, current>>, OnlyClients,
         server' \in {"stopping", "closing", "closed"}, ServerEnds'
  PROVE  McpInv'
<1>1. McpShape'
  BY DEF McpInv, McpShape, OnlyClients
<1>2. CallsServed' /\ ClientChain'
  BY DEF McpInv, CallsServed, CallOK, ClientChain, Gone, OnlyClients
<1>3. MemoryTrue'
  BY MemoryStays DEF McpInv, OnlyClients
<1> QED
  BY <1>1, <1>2, <1>3 DEF McpInv

LEMMA StopKeeps ==
  ASSUME McpInv, Stop PROVE McpInv'
<1>1. ServerEnds'
  BY DEF Stop, ServerEnds
<1> QED
  BY <1>1, OnlyServer DEF Stop

LEMMA CloseClientsKeeps ==
  ASSUME McpInv, CloseClients PROVE McpInv'
<1>1. ServerEnds'
  BY DEF CloseClients, ServerEnds, OnlyClients
<1> QED
  BY <1>1, OnlyServer DEF CloseClients

LEMMA CloseLastKeeps ==
  ASSUME McpInv, CloseLast PROVE McpInv'
<1>d. /\ Len(clients) \in Nat
      /\ \A q : q \in DOMAIN clients <=> q \in Nat /\ 1 <= q /\ q <= Len(clients)
  BY Numbered DEF McpInv, McpShape
<1>1. CASE current # 0 /\ clients[current].state = "open"
  <2>1. Becomes(current, "closing") /\ UNCHANGED <<current, server>> /\ OnlyClients
    BY <1>1 DEF CloseLast
  <2>2. current \in DOMAIN clients
    BY <1>d, <1>1 DEF McpInv, ClientChain
  <2>3. (\A q \in 1 .. current - 1 : Gone(q)) /\ ~Gone(current)
    BY <1>1, <2>2 DEF McpInv, ClientChain, Gone
  <2> QED
    BY <2>1, <2>2, <2>3, ClientSteps DEF ClientStates
<1>2. CASE ~(current # 0 /\ clients[current].state = "open")
  <2>1. /\ current # 0 => Gone(current)
        /\ server' = "closed" /\ UNCHANGED <<clients, current>> /\ OnlyClients
    BY <1>2 DEF CloseLast, Gone
  <2>2. \A q \in DOMAIN clients : Gone(q)
    <3>1. CASE current = 0
      BY <3>1 DEF McpInv, ClientChain
    <3>2. CASE current # 0
      <4>1. current = Len(clients) /\ current \in DOMAIN clients
        BY <1>d, <3>2 DEF McpInv, ClientChain
      <4>2. \A q \in 1 .. current - 1 : Gone(q)
        BY <2>1, <3>2, <4>1 DEF McpInv, ClientChain, Gone
      <4>3. \A q \in DOMAIN clients : q = current \/ q \in 1 .. current - 1
        BY <1>d, <4>1
      <4> QED
        BY <2>1, <3>2, <4>2, <4>3
    <3> QED
      BY <3>1, <3>2
  <2>3. ServerEnds'
    BY <2>1, <2>2 DEF McpInv, ServerEnds, Gone, OnlyClients, CloseLast
  <2> QED
    BY <2>1, <2>3, OnlyServer
<1> QED
  BY <1>1, <1>2

(* The world.                                                               *)

LEMMA RootsChangedMoves ==
  ASSUME McpInv, RootsChanged
  PROVE  /\ scope' \in ScopeType
         /\ scope'.announced = scope.announced + 1
         /\ scope'.known = scope.known /\ scope'.listed = scope.listed
         /\ scope'.asked \subseteq scope.asked \cup {scope.announced + 1}
         /\ UNCHANGED <<settings, calls, clients, current, memory, passages, auto, server, received, windows>>
<1>a. /\ scope' = [scope EXCEPT !.announced = @ + 1,
                                !.asked = @ \cup IF scope.lists THEN {scope.announced + 1} ELSE {}]
      /\ UNCHANGED <<settings, calls, clients, current, memory, passages, auto, server, received, windows>>
  BY DEF RootsChanged
<1> DEFINE more == IF scope.lists THEN {scope.announced + 1} ELSE {}
<1>1. scope \in ScopeType
  BY DEF McpInv, McpShape
<1>2. more \subseteq {scope.announced + 1}
  OBVIOUS
<1>3. scope.announced + 1 \in Nat /\ scope.asked \cup more \in SUBSET Nat
  BY <1>1, <1>2 DEF ScopeType
<1> HIDE DEF more
<1>4. scope' = [scope EXCEPT !.announced = @ + 1, !.asked = @ \cup more]
  BY <1>a DEF more
<1>5. /\ scope' \in ScopeType
      /\ scope'.announced = scope.announced + 1
      /\ scope'.known = scope.known /\ scope'.listed = scope.listed
      /\ scope'.asked = scope.asked \cup more
  BY <1>1, <1>3, <1>4 DEF ScopeType
<1> QED
  BY <1>a, <1>2, <1>5

LEMMA RootsChangedKeeps ==
  ASSUME McpInv, RootsChanged PROVE McpInv'
BY RootsChangedMoves, MemoryStays
   DEF McpInv, McpShape, CallsServed, CallOK, ClientChain, ServerEnds, Gone

\* The roots of an answer are not older than its question, and nothing is known less than before.
LEMMA RootsListedMoves ==
  ASSUME McpInv, NEW r, RootsListed(r)
  PROVE  /\ scope' \in ScopeType /\ r \in scope.asked
         /\ scope'.announced = scope.announced /\ scope'.asked = scope.asked \ {r}
         /\ \/ scope'.known = scope.known /\ scope'.listed = scope.listed
            \/ /\ scope'.listed = scope.listed \cup {r}
               /\ "reordered" \notin McpEvents => scope.known <= scope'.known /\ r <= scope'.known
         /\ UNCHANGED <<settings, calls, clients, current, memory, passages, auto, server, received, windows>>
<1>a. scope \in ScopeType
  BY DEF McpInv, McpShape
<1>r. r \in scope.asked /\ r \in Nat
  BY <1>a DEF RootsListed, ScopeType
<1>s. /\ scope.asked \ {r} \in SUBSET Nat /\ scope.listed \cup {r} \in SUBSET Nat
      /\ scope.known \in Nat /\ scope.announced \in Nat
  BY <1>a, <1>r DEF ScopeType
<1>1. CASE scope' = [scope EXCEPT !.asked = @ \ {r}]
  <2>1. /\ scope' \in ScopeType
        /\ scope'.announced = scope.announced /\ scope'.asked = scope.asked \ {r}
        /\ scope'.known = scope.known /\ scope'.listed = scope.listed
    BY <1>a, <1>s, <1>1 DEF ScopeType
  <2> QED
    BY <1>r, <2>1 DEF RootsListed
<1>2. CASE \E roots \in (IF "reordered" \in McpEvents THEN r ELSE Most(r, scope.known)) .. scope.announced :
             scope' = [scope EXCEPT !.asked = @ \ {r}, !.known = roots, !.listed = @ \cup {r}]
  <2>1. PICK roots \in (IF "reordered" \in McpEvents THEN r ELSE Most(r, scope.known)) .. scope.announced :
             scope' = [scope EXCEPT !.asked = @ \ {r}, !.known = roots, !.listed = @ \cup {r}]
    BY <1>2
  <2>2. roots \in Nat /\ ("reordered" \notin McpEvents => scope.known <= roots /\ r <= roots)
    BY <1>r, <1>s DEF Most
  <2>3. /\ scope' \in ScopeType
        /\ scope'.announced = scope.announced /\ scope'.asked = scope.asked \ {r}
        /\ scope'.known = roots /\ scope'.listed = scope.listed \cup {r}
    BY <1>a, <1>s, <2>1, <2>2 DEF ScopeType
  <2> QED
    BY <1>r, <2>2, <2>3 DEF RootsListed
<1> QED
  BY <1>1, <1>2 DEF RootsListed

LEMMA RootsListedKeeps ==
  ASSUME McpInv, NEW r, RootsListed(r) PROVE McpInv'
BY RootsListedMoves, MemoryStays
   DEF McpInv, McpShape, CallsServed, CallOK, ClientChain, ServerEnds, Gone

LEMMA EditConfigKeeps ==
  ASSUME McpInv, EditConfig PROVE McpInv'
BY MemoryStays
   DEF EditConfig, McpInv, McpShape, CallsServed, CallOK, ClientChain, ServerEnds, Gone

LEMMA AutoMoves ==
  ASSUME McpInv, auto' \in [running : BOOLEAN, recent : BOOLEAN], auto'.running => auto.running,
         UNCHANGED <<settings, calls, clients, current, memory, scope, server, received, windows>>
  PROVE  McpInv'
<1>1. ServerEnds'
  BY DEF McpInv, ServerEnds, Gone
<1> QED
  BY <1>1, MemoryStays DEF McpInv, McpShape, CallsServed, CallOK, ClientChain, Gone

LEMMA WorldKeeps ==
  ASSUME McpInv, (\E p \in DOMAIN passages : Reindex(p)) \/ AutoIngestEnds \/ MinutePasses
  PROVE  McpInv'
<1>1. CASE \E p \in DOMAIN passages : Reindex(p)
  BY <1>1, AutoMoves DEF Reindex, McpInv, McpShape
<1>2. CASE AutoIngestEnds
  BY <1>2, AutoMoves DEF AutoIngestEnds, McpInv, McpShape
<1>3. CASE MinutePasses
  BY <1>3, AutoMoves DEF MinutePasses, McpInv, McpShape
<1> QED
  BY <1>1, <1>2, <1>3

LEMMA McpStutters ==
  ASSUME McpInv, UNCHANGED mcpVars PROVE McpInv'
BY AutoMoves DEF mcpVars, McpInv, McpShape

LEMMA McpInvKept ==
  ASSUME McpInv, McpNext PROVE McpInv'
<1>1. ASSUME NEW c \in McpCalls,
             \/ BeginCall(c) \/ Admit(c) \/ ReachClient(c) \/ Retrieve(c)
             \/ AnswerSearch(c) \/ AnswerExpand(c) \/ AnswerStatus(c) \/ CallFails(c)
      PROVE  McpInv'
  BY <1>1, BeginCallKeeps, AdmitKeeps, ReachClientKeeps, RetrieveKeeps,
     AnswerSearchKeeps, AnswerExpandKeeps, AnswerStatusKeeps, CallFailsKeeps
<1>2. ASSUME NEW p \in DOMAIN clients, Replace(p) \/ Created(p) \/ ClientCloses(p) PROVE McpInv'
  BY <1>2, ReplaceKeeps, CreatedKeeps, ClientClosesKeeps
<1>3. ASSUME NEW r \in scope.asked, RootsListed(r) PROVE McpInv'
  BY <1>3, RootsListedKeeps
<1> QED
  BY <1>1, <1>2, <1>3, RootsChangedKeeps, StopKeeps, CloseClientsKeeps, CloseLastKeeps,
     EditConfigKeeps, WorldKeeps DEF McpNext

\* The inductive invariant of the server, whatever the agent, the files and the index do.
THEOREM Serves == McpSpec => []McpInv
<1>1. McpInv /\ [McpNext]_mcpVars => McpInv'
  BY McpInvKept, McpStutters
<1> QED
  BY McpInvInit, <1>1, PTL DEF McpSpec

(* The workspace.                                                           *)

LEMMA ScopeMoves ==
  ASSUME McpInv, ScopeInv, NEW c \in McpCalls, NEW call, CallInScope(call),
         calls' = [calls EXCEPT ![c] = call], UNCHANGED scope
  PROVE  ScopeInv'
<1>1. \A d \in McpCalls : calls'[d] = IF d = c THEN call ELSE calls[d]
  BY DEF McpInv, McpShape
<1>2. \A r \in scope'.listed : r <= scope'.known
  BY DEF ScopeInv
<1> SUFFICES ASSUME NEW d \in McpCalls PROVE CallInScope(calls[d])'
  BY <1>2 DEF ScopeInv, CallInScope
<1>3. CASE d = c
  BY <1>1, <1>3 DEF CallInScope, Relation
<1>4. CASE d # c
  BY <1>1, <1>4 DEF ScopeInv, CallInScope, Relation
<1> QED
  BY <1>3, <1>4

LEMMA ScopeKeeps ==
  ASSUME "reordered" \notin McpEvents, McpInv, ScopeInv, [McpNext]_mcpVars
  PROVE  ScopeInv'
<1>known. scope.known \in Nat /\ scope.announced \in Nat /\ scope.listed \subseteq Nat
  BY DEF McpInv, McpShape, ScopeType
<1>1. ASSUME scope'.known \in Nat, scope'.announced \in Nat, UNCHANGED calls,
             scope.known <= scope'.known, scope.announced <= scope'.announced,
             \A r \in scope'.asked : r \in scope.asked \/ r = scope.announced + 1,
             \A r \in scope'.listed : r \in scope.listed \/ (r \in scope.asked /\ r <= scope'.known)
      PROVE  ScopeInv'
  <2>1. \A r \in scope'.listed : r <= scope'.known
    BY <1>known, <1>1 DEF ScopeInv
  <2>2. ASSUME NEW c \in McpCalls PROVE CallInScope(calls[c])'
    <3>1. CallInScope(calls[c]) /\ calls'[c] = calls[c]
      BY <1>1 DEF ScopeInv
    <3>2. calls[c].phase \in {"asked", "waiting", "searching", "answered"} =>
            /\ calls[c].since \in Nat /\ calls[c].refresh \in Nat
            /\ calls[c].since <= scope'.known /\ calls[c].refresh <= scope'.announced
      BY <1>known, <1>1, <3>1 DEF CallInScope
    <3>3. ASSUME calls[c].phase \in {"waiting", "searching", "answered"}
          PROVE  /\ calls[c].refresh \notin scope'.asked
                 /\ calls[c].refresh \in scope'.listed => calls[c].refresh \in scope.listed
      <4>1. /\ calls[c].refresh \in Nat /\ calls[c].refresh <= scope.announced
            /\ calls[c].refresh \notin scope.asked
        BY <3>1, <3>3 DEF CallInScope
      <4>2. calls[c].refresh # scope.announced + 1
        BY <1>known, <4>1
      <4> QED
        BY <1>1, <4>1, <4>2
    <3> QED
      BY <3>1, <3>2, <3>3 DEF CallInScope, Relation
  <2> QED
    BY <2>1, <2>2 DEF ScopeInv, CallInScope
<1>2. ASSUME UNCHANGED <<calls, scope>> PROVE ScopeInv'
  BY <1>known, <1>1, <1>2
<1>3. ASSUME NEW c \in McpCalls, NEW phase, phase \in {"refused", "failed"}, Ends(c, phase), UNCHANGED scope
      PROVE  ScopeInv'
  <2> DEFINE call == [NoCall EXCEPT !.phase = phase]
  <2>1. CallInScope(call)
    BY <1>3 DEF CallInScope, NoCall
  <2> QED
    BY <1>3, <2>1, ScopeMoves DEF Ends
<1>4. ASSUME NEW c \in McpCalls, BeginCall(c) PROVE ScopeInv'
  <2>1. PICK request \in McpRequests : calls' = [calls EXCEPT ![c] =
            [NoCall EXCEPT !.phase = "asked", !.request = request, !.config = settings,
                           !.since = scope.known, !.refresh = Pending]]
    BY <1>4 DEF BeginCall
  <2> DEFINE call == [NoCall EXCEPT !.phase = "asked", !.request = request, !.config = settings,
                                    !.since = scope.known, !.refresh = Pending]
  <2>2. call.phase = "asked" /\ call.since = scope.known /\ call.refresh = Pending
    BY DEF NoCall
  <2>3. CallInScope(call)
    BY <1>known, <2>2 DEF CallInScope, Pending
  <2> HIDE DEF call
  <2>4. calls' = [calls EXCEPT ![c] = call]
    BY <2>1 DEF call
  <2> QED
    BY <1>4, <2>3, <2>4, ScopeMoves DEF BeginCall, OnlyCalls
<1>5. ASSUME NEW c \in McpCalls, NEW call,
             calls' = [calls EXCEPT ![c] = call], UNCHANGED scope,
             call.phase \in {"waiting", "searching", "answered"},
             calls[c].phase \in {"waiting", "searching", "answered"},
             call.since = calls[c].since, call.refresh = calls[c].refresh, call.judged = calls[c].judged,
             call.request = calls[c].request, call.config = calls[c].config
      PROVE  ScopeInv'
  <2>1. CallInScope(calls[c])
    BY DEF ScopeInv
  <2>2. CallInScope(call)
    BY <1>5, <2>1 DEF CallInScope
  <2> QED
    BY <1>5, <2>2, ScopeMoves
<1>6. ASSUME NEW c \in McpCalls, Admit(c) PROVE ScopeInv'
  <2>a. UNCHANGED scope
    BY <1>6 DEF Admit
  <2>1. CASE \E phase \in {"refused", "failed"} : Ends(c, phase)
    BY <1>3, <2>a, <2>1
  <2>2. CASE /\ GetClient(c) /\ server \notin {"closing", "closed"}
             /\ calls[c].request.tool = "status" \/ Allowed(McpConfigs[calls[c].config])
    <3>1. PICK extra, promise :
              calls' = [calls EXCEPT ![c].phase = "waiting", ![c].extra = extra, ![c].client = promise,
                                     ![c].judged = scope.known]
      BY <2>2 DEF GetClient
    <3> DEFINE call == [calls[c] EXCEPT !.phase = "waiting", !.extra = extra, !.client = promise,
                                        !.judged = scope.known]
    <3>2. /\ call.phase = "waiting" /\ call.since = calls[c].since
          /\ call.refresh = calls[c].refresh /\ call.judged = scope.known
          /\ call.request = calls[c].request /\ call.config = calls[c].config
      BY DEF McpInv, McpShape, NoCall
    <3>3. calls' = [calls EXCEPT ![c] = call]
      BY <3>1 DEF McpInv, McpShape
    <3>4. /\ CallInScope(calls[c]) /\ calls[c].phase = "asked" /\ calls[c].refresh \notin scope.asked
          /\ \A r \in scope.listed : r <= scope.known
      BY <1>6 DEF ScopeInv, Admit, Awaited
    <3>5. CallInScope(call)
      BY <1>known, <2>2, <3>2, <3>4 DEF CallInScope, Allowed
    <3> HIDE DEF call
    <3> QED
      BY <2>a, <3>3, <3>5, ScopeMoves
  <2> QED
    BY <1>6, <2>1, <2>2 DEF Admit, GetClient
<1>7. ASSUME NEW c \in McpCalls, ReachClient(c) PROVE ScopeInv'
  <2>1. CASE Ends(c, "failed")
    BY <1>3, <1>7, <2>1 DEF ReachClient, OnlyCalls
  <2>2. CASE calls' = [calls EXCEPT ![c].phase = "searching"]
    <3> DEFINE call == [calls[c] EXCEPT !.phase = "searching"]
    <3>1. /\ call.phase = "searching" /\ call.since = calls[c].since
          /\ call.refresh = calls[c].refresh /\ call.judged = calls[c].judged
          /\ call.request = calls[c].request /\ call.config = calls[c].config
      BY DEF McpInv, McpShape, NoCall
    <3>2. calls' = [calls EXCEPT ![c] = call]
      BY <2>2
    <3> HIDE DEF call
    <3> QED
      BY <1>5, <1>7, <3>1, <3>2 DEF ReachClient, OnlyCalls
  <2> QED
    BY <1>7, <2>1, <2>2 DEF ReachClient
<1>8. ASSUME NEW c \in McpCalls, Retrieve(c) PROVE ScopeInv'
  <2>1. PICK lists : calls' = [calls EXCEPT ![c].lists = lists]
    BY <1>8 DEF Retrieve
  <2> DEFINE call == [calls[c] EXCEPT !.lists = lists]
  <2>2. /\ call.phase = calls[c].phase /\ call.since = calls[c].since
        /\ call.refresh = calls[c].refresh /\ call.judged = calls[c].judged
        /\ call.request = calls[c].request /\ call.config = calls[c].config
    BY DEF McpInv, McpShape, NoCall
  <2>3. calls' = [calls EXCEPT ![c] = call]
    BY <2>1
  <2> HIDE DEF call
  <2>4. calls[c].phase = "searching" /\ UNCHANGED scope
    BY <1>8 DEF Retrieve, OnlyCalls
  <2> QED
    BY <1>5, <2>2, <2>3, <2>4
<1>9. ASSUME NEW c \in McpCalls, NEW items,
             calls' = [calls EXCEPT ![c].phase = "answered", ![c].answer = items],
             calls[c].phase = "searching", UNCHANGED scope
      PROVE  ScopeInv'
  <2> DEFINE call == [calls[c] EXCEPT !.phase = "answered", !.answer = items]
  <2>1. /\ call.phase = "answered" /\ call.since = calls[c].since
        /\ call.refresh = calls[c].refresh /\ call.judged = calls[c].judged
        /\ call.request = calls[c].request /\ call.config = calls[c].config
    BY DEF McpInv, McpShape, NoCall
  <2>2. calls' = [calls EXCEPT ![c] = call]
    BY <1>9 DEF McpInv, McpShape
  <2> HIDE DEF call
  <2> QED
    BY <1>5, <1>9, <2>1, <2>2
<1>10. ASSUME NEW c \in McpCalls, AnswerSearch(c) \/ AnswerExpand(c) PROVE ScopeInv'
  <2>1. /\ UNCHANGED scope /\ calls[c].phase = "searching"
        /\ \/ Ends(c, "failed")
           \/ \E items : calls' = [calls EXCEPT ![c].phase = "answered", ![c].answer = items]
    BY <1>10 DEF AnswerSearch, AnswerExpand
  <2> QED
    BY <1>3, <1>9, <2>1
<1>11. ASSUME NEW c \in McpCalls, AnswerStatus(c) PROVE ScopeInv'
  <2>1. calls' = [calls EXCEPT ![c].phase = "answered", ![c].answer = calls[c].answer]
    BY <1>11 DEF AnswerStatus, McpInv, McpShape, NoCall
  <2> QED
    BY <1>9, <1>11, <2>1 DEF AnswerStatus, OnlyCalls
<1>12. ASSUME NEW c \in McpCalls, CallFails(c) PROVE ScopeInv'
  BY <1>3, <1>12 DEF CallFails, OnlyCalls
<1>13. ASSUME NEW r, RootsListed(r) PROVE ScopeInv'
  <2>1. /\ scope' \in ScopeType /\ r \in scope.asked
        /\ scope'.announced = scope.announced /\ scope'.asked = scope.asked \ {r}
        /\ \/ scope'.known = scope.known /\ scope'.listed = scope.listed
           \/ /\ scope'.listed = scope.listed \cup {r}
              /\ scope.known <= scope'.known /\ r <= scope'.known
        /\ UNCHANGED calls
    BY <1>13, RootsListedMoves
  <2>2. scope'.known \in Nat /\ scope'.announced \in Nat
    BY <2>1 DEF ScopeType
  <2>3. \A q \in scope'.listed : q \in scope.listed \/ (q \in scope.asked /\ q <= scope'.known)
    BY <2>1
  <2> QED
    BY <1>known, <1>1, <2>1, <2>2, <2>3
<1>14. CASE RootsChanged
  <2>1. /\ scope'.announced = scope.announced + 1 /\ scope'.known = scope.known
        /\ scope'.listed = scope.listed
        /\ scope'.asked \subseteq scope.asked \cup {scope.announced + 1}
        /\ UNCHANGED calls
    BY <1>14, RootsChangedMoves
  <2> QED
    BY <1>known, <1>1, <2>1
<1>15. CASE \E p \in DOMAIN clients : Replace(p) \/ Created(p) \/ ClientCloses(p)
  BY <1>2, <1>15 DEF Replace, Created, ClientCloses, OnlyClients
<1>16. CASE Stop \/ CloseClients \/ CloseLast
  BY <1>2, <1>16 DEF Stop, CloseClients, CloseLast, OnlyClients
<1>17. CASE EditConfig \/ (\E p \in DOMAIN passages : Reindex(p)) \/ AutoIngestEnds \/ MinutePasses
  BY <1>2, <1>17 DEF EditConfig, Reindex, AutoIngestEnds, MinutePasses
<1>18. CASE UNCHANGED mcpVars
  BY <1>2, <1>18 DEF mcpVars
<1> QED
  BY <1>4, <1>6, <1>7, <1>8, <1>10, <1>11, <1>12, <1>13, <1>14, <1>15, <1>16, <1>17, <1>18 DEF McpNext

LEMMA McpInvImplies == McpInv => ClientsSound /\ MemoryTrue
<1> SUFFICES ASSUME McpInv PROVE ClientsSound
  BY DEF McpInv
<1>d. /\ Len(clients) \in Nat
      /\ \A q : q \in DOMAIN clients <=> q \in Nat /\ 1 <= q /\ q <= Len(clients)
  BY Numbered DEF McpInv, McpShape
<1>1. ASSUME NEW p \in DOMAIN clients, NEW q \in DOMAIN clients, p < q,
             clients[q].state \in {"creating", "open", "closing"}
      PROVE  clients[p].state \notin {"creating", "open", "closing"}
  <2>1. p \in 1 .. q - 1
    BY <1>d, <1>1
  <2> QED
    BY <1>1, <2>1 DEF McpInv, ClientChain, Gone
<1>2. ASSUME NEW p \in DOMAIN clients, NEW q \in DOMAIN clients,
             {clients[p].state, clients[q].state} \subseteq {"creating", "open", "closing"}
      PROVE  p = q
  BY <1>d, <1>1, <1>2
<1>3. \A c \in McpCalls : calls[c].phase = "searching" =>
          /\ clients[calls[c].client].state \in {"open", "closing"}
          /\ clients[calls[c].client].config = calls[c].config
  BY DEF McpInv, CallsServed, CallOK
<1>4. server = "closed" =>
          /\ ~auto.running
          /\ \A p \in DOMAIN clients : clients[p].state \in {"closed", "failed"}
  BY DEF McpInv, ServerEnds, Gone
<1> QED
  BY <1>2, <1>3, <1>4 DEF ClientsSound

LEMMA ScopeInvImplies == ScopeInv => ScopeKept
BY DEF ScopeInv, CallInScope, ScopeKept

\* One client at a time, each call on the client of its configuration, and nothing open in a
\* closed server; nothing counts as seen but what a search has sent and what was in the window of
\* an expansion; and with mcpAllowedRoots a call is admitted by related roots, of its own time, or
\* while none were ever shared, as long as the agent answers the requests for them in their order.
THEOREM ServerIsSound ==
  ASSUME "reordered" \notin McpEvents PROVE McpSpec => []McpSound
<1>1. McpInv /\ ScopeInv /\ [McpNext]_mcpVars => (McpInv /\ ScopeInv)'
  BY McpInvKept, McpStutters, ScopeKeeps
<1>2. McpInv /\ ScopeInv => McpSound
  BY McpInvImplies, ScopeInvImplies DEF McpSound
<1> QED
  BY McpInvInit, <1>1, <1>2, PTL DEF McpSpec

-----------------------------------------------------------------------------
(* Where a chunk is found: lines, pages, elements, headers, the sample.     *)

\* firstIntervalEndingAfter finds it where the intervals are sorted by their ends.
LEMMA SortedEnds ==
  ASSUME NEW intervals, NEW n \in Nat, DOMAIN intervals = 1 .. n, NEW offset \in Nat,
         \A k \in 1 .. n : intervals[k].to \in Nat,
         \A j, k \in 1 .. n : j < k => intervals[j].to <= intervals[k].to
  PROVE  /\ EndingAfter(intervals, offset) \in Nat
         /\ 1 <= EndingAfter(intervals, offset) /\ EndingAfter(intervals, offset) <= n + 1
         /\ \A k \in 1 .. n : intervals[k].to <= offset <=> k < EndingAfter(intervals, offset)
<1> DEFINE ended == {k \in DOMAIN intervals : intervals[k].to <= offset}
           others == {k \in 1 .. n + 1 : k \notin ended}
<1>1. others \in SUBSET Nat /\ n + 1 \in others
  OBVIOUS
<1>2. PICK t \in others : \A k \in others : t <= k
  BY <1>1, LeastNumber
<1>3. t \in 1 .. n + 1 /\ t \notin ended
  OBVIOUS
<1>4. \A k \in 1 .. n : k < t => k \in ended
  BY <1>2, <1>3
<1>5. \A k \in 1 .. n : k >= t => k \notin ended
  BY <1>3
<1>6. ended = 1 .. t - 1
  BY <1>3, <1>4, <1>5
<1>7. Cardinality(1 .. t - 1) = t - 1
  BY <1>3, FS_Interval
<1>8. EndingAfter(intervals, offset) = t
  <2>1. EndingAfter(intervals, offset) = Cardinality(ended) + 1
    BY DEF EndingAfter
  <2> HIDE DEF ended
  <2>2. Cardinality(ended) = t - 1
    BY <1>6, <1>7
  <2> QED
    BY <1>3, <2>1, <2>2
<1> QED
  BY <1>3, <1>4, <1>5, <1>8

LEMMA LineFound ==
  ASSUME ParsedInOrder(doc), WellFormed(doc), NEW offset \in Nat
  PROVE  LineNumber(offset) = Cardinality({b \in doc.lineBreaks : b < offset}) + 1
<1> DEFINE before == {b \in doc.lineBreaks : b < offset}
           after == {b + 1 : b \in before}
           f == [b \in before |-> b + 1]
<1>1. doc.lineBreaks \subseteq Nat
  BY DEF WellFormed
<1>2. IsFiniteSet(before) /\ Cardinality(before) \in Nat
  <2>1. IsFiniteSet(doc.lineBreaks) /\ before \in SUBSET doc.lineBreaks
    BY DEF ParsedInOrder
  <2> QED
    BY <2>1, FS_Subset, FS_CardinalityType
<1>3. ExistsBijection(before, after)
  <2>1. f \in [before -> after] /\ \A a, b \in before : f[a] = f[b] => a = b
    BY <1>1
  <2>2. \A s \in after : \E b \in before : f[b] = s
    OBVIOUS
  <2>3. f \in Bijection(before, after)
    BY <2>1, <2>2 DEF Bijection, Injection, Surjection, IsInjective
  <2> QED
    BY <2>3 DEF ExistsBijection
<1>4. IsFiniteSet(after) /\ Cardinality(after) = Cardinality(before)
  BY <1>2, <1>3, FS_Bijection
<1>5. 0 \notin after
  BY <1>1
<1>6. Cardinality(after \cup {0}) = Cardinality(before) + 1
  BY <1>4, <1>5, FS_AddElement
<1>7. {s \in doc.lineStarts : s <= offset} = after \cup {0}
  <2>1. doc.lineStarts = {0} \cup {b + 1 : b \in doc.lineBreaks}
    BY DEF ParsedInOrder
  <2>2. ASSUME NEW s PROVE s \in doc.lineStarts /\ s <= offset <=> s \in after \cup {0}
    BY <1>1, <2>1
  <2> QED
    BY <2>1, <2>2
<1> QED
  BY <1>2, <1>6, <1>7 DEF LineNumber, Larger

LEMMA PagesFound ==
  ASSUME ParsedInOrder(doc), NEW span, span.from \in Nat, span.to \in Nat, span.from < span.to
  PROVE  PageRange(span) = {doc.pages[k].number : k \in {k \in DOMAIN doc.pages :
                               doc.pages[k].from < span.to /\ doc.pages[k].to > span.from}}
<1> DEFINE first == EndingAfter(doc.pages, span.from)
           touched == {k \in DOMAIN doc.pages : doc.pages[k].from < span.to /\ doc.pages[k].to > span.from}
           run == {k \in first .. Len(doc.pages) : \A l \in first .. k : doc.pages[l].from < span.to}
<1>1. /\ Len(doc.pages) \in Nat /\ DOMAIN doc.pages = 1 .. Len(doc.pages)
      /\ \A k \in 1 .. Len(doc.pages) : doc.pages[k].from \in Nat /\ doc.pages[k].to \in Nat
      /\ \A j, k \in 1 .. Len(doc.pages) : j < k =>
            doc.pages[j].from <= doc.pages[k].from /\ doc.pages[j].to <= doc.pages[k].to
  BY DEF ParsedInOrder
<1>2. /\ first \in Nat /\ 1 <= first /\ first <= Len(doc.pages) + 1
      /\ \A k \in 1 .. Len(doc.pages) : doc.pages[k].to <= span.from <=> k < first
  BY <1>1, SortedEnds
<1> HIDE DEF first
<1>3. ASSUME NEW k PROVE k \in touched <=> k \in run
  <2>1. CASE k \in touched
    <3>1. k \in 1 .. Len(doc.pages) /\ k >= first
      BY <1>1, <1>2, <2>1
    <3>2. \A l \in first .. k : l \in 1 .. Len(doc.pages) /\ doc.pages[l].from <= doc.pages[k].from
      BY <1>1, <1>2, <3>1
    <3> QED
      BY <1>1, <1>2, <2>1, <3>1, <3>2
  <2>2. CASE k \in run
    <3>1. k \in 1 .. Len(doc.pages) /\ k \in first .. k
      BY <1>1, <1>2, <2>2
    <3> QED
      BY <1>1, <1>2, <2>2, <3>1
  <2> QED
    BY <2>1, <2>2
<1>4. touched = run
  BY <1>3
<1>5. PageRange(span) = {doc.pages[k].number : k \in run}
  BY DEF PageRange, first
<1> QED
  BY <1>4, <1>5

LEMMA PlaceFound ==
  ASSUME ParsedInOrder(doc), CursorOK, doc.located,
         NEW span, span.from \in Nat, span.to \in Nat, span.from < span.to,
         Here.from <= span.from, span.to <= Here.to
  PROVE  Location(span) = {region}
<1>1. /\ Len(doc.regions) \in Nat /\ DOMAIN doc.regions = 1 .. Len(doc.regions)
      /\ \A k \in 1 .. Len(doc.regions) : /\ doc.regions[k].from \in Nat /\ doc.regions[k].to \in Nat
                                          /\ doc.regions[k].from < doc.regions[k].to
      /\ \A j, k \in 1 .. Len(doc.regions) : j < k => doc.regions[j].to <= doc.regions[k].from
      /\ region \in 1 .. Len(doc.regions)
  BY DocumentFacts DEF ParsedInOrder, WellFormed, CursorOK
<1>2. \A j, k \in 1 .. Len(doc.regions) : j < k => doc.regions[j].to <= doc.regions[k].to
  <2> SUFFICES ASSUME NEW j \in 1 .. Len(doc.regions), NEW k \in 1 .. Len(doc.regions), j < k
               PROVE  doc.regions[j].to <= doc.regions[k].to
    OBVIOUS
  <2>1. /\ doc.regions[j].to \in Nat /\ doc.regions[k].from \in Nat /\ doc.regions[k].to \in Nat
        /\ doc.regions[j].to <= doc.regions[k].from /\ doc.regions[k].from < doc.regions[k].to
    BY <1>1
  <2> QED
    BY <2>1
<1> DEFINE k == EndingAfter(doc.regions, span.from)
<1>3. /\ k \in Nat /\ 1 <= k /\ k <= Len(doc.regions) + 1
      /\ \A j \in 1 .. Len(doc.regions) : doc.regions[j].to <= span.from <=> j < k
  BY <1>1, <1>2, SortedEnds
<1> HIDE DEF k
<1>4. ~(region < k)
  BY <1>1, <1>3 DEF Here
<1>5. ASSUME NEW j \in 1 .. Len(doc.regions), j < region PROVE j < k
  <2>1. /\ doc.regions[j].to \in Nat /\ doc.regions[region].from \in Nat
        /\ doc.regions[j].to <= doc.regions[region].from
    BY <1>1, <1>5
  <2> QED
    BY <1>3, <2>1 DEF Here
<1>6. k = region
  <2>1. CASE k > Len(doc.regions)
    BY <1>1, <1>3, <1>4, <2>1
  <2>2. CASE k <= Len(doc.regions)
    BY <1>1, <1>3, <1>4, <1>5, <2>2
  <2> QED
    BY <1>1, <1>3, <2>1, <2>2
<1> QED
  BY <1>1, <1>6 DEF Location, k, Here

-----------------------------------------------------------------------------

CitesRight(d, chunk) ==
    LET line(o) == Cardinality({b \in d.lineBreaks : b < o}) + 1
    IN  /\ chunk.pages = {d.pages[k].number : k \in {k \in DOMAIN d.pages :
                             d.pages[k].from < chunk.to /\ d.pages[k].to > chunk.from}}
        /\ chunk.lines = <<line(chunk.from), line(chunk.to - 1)>>
        /\ d.located => chunk.location = {chunk.region}

TextOf(d, k) == {o \in d.regions[k].from .. d.regions[k].to - 1 : o \notin d.blanks}
FirstOf(list, c) == \A e \in DOMAIN list : list[e].region = list[c].region => c <= e

\* The first chunk of a region starts where its text starts, and what is named as the
\* header is such a chunk and reaches the end of its region.
PlaceInv ==
    /\ \A c \in DOMAIN chunks : CitesRight(doc, chunks[c])
    /\ \A c \in DOMAIN chunks : FirstOf(chunks, c) => \A o \in TextOf(doc, chunks[c].region) : chunks[c].from <= o
    /\ \A c \in DOMAIN chunks : \A h \in chunks[c].header :
          /\ h \in DOMAIN chunks /\ FirstOf(chunks, h)
          /\ chunks[h].region = doc.regions[chunks[c].region].header
          /\ chunks[h].to >= doc.regions[chunks[h].region].to
    /\ cutting = "cutting" =>
          (\E c \in DOMAIN chunks : chunks[c].region = region) \/ \A o \in TextOf(doc, region) : cursor <= o
    /\ cutting = "cut" => region = Len(doc.regions)

LEMMA AppendedRecord ==
  ASSUME ChunkList, NEW span
  PROVE  LET list == Append(chunks, Chunk(span))
             n == Len(chunks)
         IN  /\ n \in Nat /\ DOMAIN chunks = 1 .. n /\ DOMAIN list = 1 .. n + 1
             /\ \A c \in 1 .. n : list[c] = chunks[c]
             /\ list[n + 1] = Chunk(span)
<1>1. PICK S : chunks \in Seq(S)
  BY DEF ChunkList
<1> DEFINE T == S \cup {Chunk(span)}
<1>2. chunks \in Seq(T) /\ Chunk(span) \in T
  BY <1>1
<1> QED
  BY <1>2

\* What a new chunk says of its place.
LEMMA ChunkCites ==
  ASSUME CutInv, ParsedInOrder(doc), NEW span, span.from \in Nat, span.to \in Nat,
         span.from < span.to, Here.from <= span.from, span.to <= Here.to
  PROVE  CitesRight(doc, Chunk(span))
<1>1. /\ Chunk(span).from = span.from /\ Chunk(span).to = span.to /\ Chunk(span).region = region
      /\ Chunk(span).lines = <<LineNumber(span.from), LineNumber(Larger(span.from, span.to - 1))>>
      /\ Chunk(span).pages = PageRange(span) /\ Chunk(span).location = Location(span)
  BY DEF Chunk
<1>2. CursorOK /\ WellFormed(doc)
  BY DocumentFacts DEF CutInv
<1>3. Larger(span.from, span.to - 1) = span.to - 1 /\ span.to - 1 \in Nat
  BY DEF Larger
<1>4. /\ LineNumber(span.from) = Cardinality({b \in doc.lineBreaks : b < span.from}) + 1
      /\ LineNumber(span.to - 1) = Cardinality({b \in doc.lineBreaks : b < span.to - 1}) + 1
  BY <1>2, <1>3, LineFound
<1>5. PageRange(span) = {doc.pages[k].number : k \in {k \in DOMAIN doc.pages :
                            doc.pages[k].from < span.to /\ doc.pages[k].to > span.from}}
  BY PagesFound
<1>6. doc.located => Location(span) = {region}
  BY <1>2, PlaceFound
<1> QED
  BY <1>1, <1>3, <1>4, <1>5, <1>6 DEF CitesRight

LEMMA PlacedCut ==
  ASSUME CutInv, PlaceInv, ParsedInOrder(doc), Cut PROVE PlaceInv'
<1>0. PICK end \in ChunkEnds :
          /\ \E span \in Trimmed(cursor, end) : chunks' = Append(chunks, Chunk(span))
          /\ MoveOn(end) /\ UNCHANGED doc
  BY DEF Cut
<1>1. PICK span \in Trimmed(cursor, end) :
          chunks' = Append(chunks, Chunk(span)) /\ MoveOn(end) /\ UNCHANGED doc
  BY <1>0
<1>2. cutting = "cutting" /\ CursorOK /\ ChunkList
  BY DEF Cut, CutInv
<1>3. /\ end \in Nat /\ cursor \in Nat /\ cursor < end /\ end <= HardEnd /\ HardEnd <= Here.to
      /\ Here.from <= cursor /\ Here.from \in Nat /\ Here.to \in Nat /\ HardEnd \in Nat
  BY <1>2, EndInWindow, DocumentFacts DEF CursorOK
<1>4. /\ span.from \in Nat /\ span.to \in Nat
      /\ cursor <= span.from /\ span.from < span.to /\ span.to <= end
      /\ \A o \in cursor .. end - 1 : o \notin doc.blanks => span.from <= o /\ o < span.to
  BY <1>3, TrimmedSpan
<1>5. PICK n \in Nat : n = Len(chunks) /\ DOMAIN chunks = 1 .. n /\ DOMAIN chunks' = 1 .. n + 1
                       /\ (\A c \in 1 .. n : chunks'[c] = chunks[c]) /\ chunks'[n + 1] = Chunk(span)
  BY <1>1, <1>2, AppendedRecord
<1>6. /\ Chunk(span).from = span.from /\ Chunk(span).to = span.to /\ Chunk(span).region = region
      /\ Chunk(span).header = IF Here.header = NoHeader THEN {} ELSE HeaderChunk
  BY DEF Chunk
<1>7. CitesRight(doc, Chunk(span))
  BY <1>3, <1>4, ChunkCites
<1>8. \A c \in DOMAIN chunks' : CitesRight(doc, chunks'[c])
  BY <1>5, <1>7 DEF PlaceInv
<1>9. \A c \in 1 .. n : FirstOf(chunks', c) <=> FirstOf(chunks, c)
  BY <1>5 DEF FirstOf
<1>10. /\ doc' = doc
       /\ region \in 1 .. Len(doc.regions) /\ Here = doc.regions[region]
  BY <1>1, <1>2 DEF CursorOK, Here
<1>11. ASSUME NEW c \in DOMAIN chunks', FirstOf(chunks', c), NEW o \in TextOf(doc, chunks'[c].region)
       PROVE  chunks'[c].from <= o
  <2>1. CASE c \in 1 .. n
    BY <1>5, <1>9, <1>11, <2>1 DEF PlaceInv
  <2>2. CASE c = n + 1
    <3>1. ~ \E e \in DOMAIN chunks : chunks[e].region = region
      BY <1>5, <1>6, <1>11, <2>2 DEF FirstOf
    <3>2. o \in TextOf(doc, region) /\ cursor <= o /\ o \in Nat /\ o \notin doc.blanks
      BY <1>2, <1>3, <1>5, <1>6, <1>10, <1>11, <2>2, <3>1 DEF PlaceInv, TextOf
    <3>3. span.from <= o
      <4>1. CASE o < end
        BY <1>3, <1>4, <3>2, <4>1
      <4>2. CASE ~(o < end)
        BY <1>3, <1>4, <3>2, <4>2
      <4> QED
        BY <4>1, <4>2
    <3> QED
      BY <1>5, <1>6, <2>2, <3>3
  <2> QED
    BY <1>5, <2>1, <2>2
<1>12. ASSUME NEW c \in DOMAIN chunks', NEW h \in chunks'[c].header
       PROVE  /\ h \in DOMAIN chunks' /\ FirstOf(chunks', h)
              /\ chunks'[h].region = doc.regions[chunks'[c].region].header
              /\ chunks'[h].to >= doc.regions[chunks'[h].region].to
  <2>1. CASE c \in 1 .. n
    <3>1. /\ h \in DOMAIN chunks /\ FirstOf(chunks, h)
          /\ chunks[h].region = doc.regions[chunks[c].region].header
          /\ chunks[h].to >= doc.regions[chunks[h].region].to
      BY <1>5, <1>12, <2>1 DEF PlaceInv
    <3> QED
      BY <1>5, <1>9, <2>1, <3>1
  <2>2. CASE c = n + 1
    <3>1. h \in HeaderChunk
      BY <1>5, <1>6, <1>12, <2>2
    <3>2. /\ h \in DOMAIN chunks /\ chunks[h].region = Here.header
          /\ chunks[h].to >= doc.regions[Here.header].to
          /\ \A e \in DOMAIN chunks : Here.header < region /\ chunks[e].region = Here.header => h <= e
      BY <3>1 DEF HeaderChunk
    <3>3. FirstOf(chunks, h)
      BY <3>1, <3>2 DEF FirstOf, HeaderChunk
    <3> QED
      BY <1>5, <1>6, <1>9, <1>10, <2>2, <3>2, <3>3
  <2> QED
    BY <1>5, <2>1, <2>2
<1>13. cutting' = "cutting" =>
          \/ \E c \in DOMAIN chunks' : chunks'[c].region = region'
          \/ \A o \in TextOf(doc, region') : cursor' <= o
  <2>1. CASE region' = region
    BY <1>5, <1>6, <2>1
  <2>2. CASE region' # region
    <3>1. region' = region + 1 /\ cursor' = doc.regions[region + 1].from
          /\ region + 1 \in 1 .. Len(doc.regions)
      BY <1>1, <1>10, <2>2 DEF MoveOn
    <3>2. doc.regions[region + 1].from \in Nat
      BY <1>2, <3>1, DocumentFacts DEF WellFormed
    <3> QED
      BY <3>1, <3>2 DEF TextOf
  <2> QED
    BY <2>1, <2>2
<1>14. cutting' = "cut" => region' = Len(doc'.regions)
  <2>1. Len(doc.regions) \in Nat
    BY <1>2, DocumentFacts DEF WellFormed
  <2> QED
    BY <1>1, <1>2, <1>10, <2>1 DEF MoveOn
<1> QED
  BY <1>8, <1>10, <1>11, <1>12, <1>13, <1>14 DEF PlaceInv

LEMMA PlacedSkip ==
  ASSUME CutInv, PlaceInv, SkipBlank PROVE PlaceInv'
<1>1. PICK end \in ChunkEnds : AllBlank(cursor, end) /\ MoveOn(end) /\ UNCHANGED <<doc, chunks>>
  BY DEF SkipBlank
<1>2. cutting = "cutting" /\ CursorOK
  BY DEF SkipBlank, CutInv
<1>3. /\ end \in Nat /\ cursor \in Nat /\ region \in 1 .. Len(doc.regions) /\ Len(doc.regions) \in Nat
      /\ \A k \in 1 .. Len(doc.regions) : doc.regions[k].from \in Nat /\ doc.regions[k].to \in Nat
  BY <1>2, EndInWindow, DocumentFacts DEF CursorOK, WellFormed
<1>4. doc' = doc /\ chunks' = chunks
  BY <1>1
<1>5. cutting' = "cutting" =>
          \/ \E c \in DOMAIN chunks : chunks[c].region = region'
          \/ \A o \in TextOf(doc, region') : cursor' <= o
  <2>1. CASE end < Here.to
    <3>1. region' = region /\ cursor' \in Nat /\ cursor' <= end
      BY <1>1, <1>2, <2>1, CursorMoves DEF MoveOn
    <3>2. ASSUME \A o \in TextOf(doc, region) : cursor <= o, NEW o \in TextOf(doc, region) PROVE cursor' <= o
      <4>1. o \in Nat /\ cursor <= o /\ o \notin doc.blanks
        BY <1>3, <3>2 DEF TextOf
      <4> QED
        BY <1>1, <1>3, <3>1, <4>1 DEF AllBlank
    <3> QED
      BY <1>2, <3>1, <3>2 DEF PlaceInv
  <2>2. CASE ~(end < Here.to)
    <3>1. cutting' = "cutting" => region' = region + 1 /\ cursor' = doc.regions[region + 1].from
                                   /\ region + 1 \in 1 .. Len(doc.regions)
      BY <1>1, <1>3, <2>2 DEF MoveOn
    <3> QED
      BY <1>3, <3>1 DEF TextOf
  <2> QED
    BY <2>1, <2>2
<1>6. cutting' = "cut" => region' = Len(doc'.regions)
  BY <1>1, <1>2, <1>3 DEF MoveOn
<1> QED
  BY <1>1, <1>4, <1>5, <1>6 DEF PlaceInv

-----------------------------------------------------------------------------

LEMMA TimesGrows ==
  ASSUME NEW a \in Nat, NEW b \in Nat, NEW y \in Nat, a <= b PROVE a * y <= b * y
<1>1. PICK c \in Nat : b = a + c
  <2>1. b - a \in Nat /\ b = a + (b - a)
    OBVIOUS
  <2> QED
    BY <2>1
<1>2. b * y = a * y + c * y /\ c * y \in Nat /\ a * y \in Nat
  BY <1>1
<1> QED
  BY <1>2

LEMMA Quotient ==
  ASSUME NEW x \in Nat, NEW y \in Nat \ {0}, NEW k \in Nat
  PROVE  /\ x \div y \in Nat /\ (x \div y) * y <= x /\ x < (x \div y) * y + y
         /\ k * y <= x => k <= x \div y
         /\ x < k * y => x \div y < k
<1> DEFINE q == x \div y
<1>1. q \in Nat /\ q * y <= x /\ x < q * y + y
  OBVIOUS
<1> HIDE DEF q
<1>2. ASSUME k * y <= x, ~(k <= q) PROVE FALSE
  <2>1. (q + 1) * y <= k * y
    BY <1>1, <1>2, TimesGrows
  <2>2. (q + 1) * y = q * y + y /\ q * y \in Nat /\ k * y \in Nat
    BY <1>1
  <2> QED
    BY <1>1, <1>2, <2>1, <2>2
<1>3. ASSUME x < k * y, ~(q < k) PROVE FALSE
  <2>1. k * y <= q * y
    BY <1>1, <1>3, TimesGrows
  <2>2. q * y \in Nat /\ k * y \in Nat
    BY <1>1
  <2> QED
    BY <1>1, <1>3, <2>1, <2>2
<1> QED
  BY <1>1, <1>2, <1>3 DEF q

LEMMA Spread ==
  ASSUME NEW a \in Nat, NEW b \in Nat, NEW y \in Nat
  PROVE  (a + b) * y = a * y + b * y /\ a * y \in Nat /\ b * y \in Nat
OBVIOUS

\* The middles of R even parts of m places are apart, and no gap is wider than a part.
LEMMA EvenPlaces ==
  ASSUME NEW R \in Nat \ {0}, NEW m \in Nat, m >= R, NEW j \in 1 .. R
  PROVE  LET place == ((2 * j - 1) * m) \div (2 * R)
             next == ((2 * (j + 1) - 1) * m) \div (2 * R)
         IN  /\ place \in Nat /\ place < m
             /\ j = 1 => place <= m \div R
             /\ next \in Nat /\ place + 1 <= next /\ next <= place + m \div R + 1
             /\ j = R => m - place <= m \div R + 1
<1> DEFINE y == 2 * R
           x == (2 * j - 1) * m
           z == (2 * (j + 1) - 1) * m
           q == m \div R
           place == x \div y
           next == z \div y
<1>1. /\ y \in Nat \ {0} /\ m \in Nat \ {0} /\ j \in Nat /\ j >= 1 /\ j <= R
      /\ 2 * j - 1 \in Nat /\ 2 * (j + 1) - 1 = (2 * j - 1) + 2 /\ y = 2 * R
  OBVIOUS
<1>2. x \in Nat /\ z \in Nat /\ z = x + 2 * m
  <2>1. \A t \in Nat : t * m \in Nat /\ (t + 2) * m = t * m + 2 * m
    OBVIOUS
  <2> QED
    BY <1>1, <2>1
<1>3. q \in Nat /\ q * R <= m /\ m < q * R + R
  BY Quotient
<1>4. /\ \A k \in Nat : (k * y <= x => k <= place) /\ (x < k * y => place < k)
      /\ place \in Nat /\ place * y <= x /\ x < place * y + y
  BY <1>1, <1>2, Quotient
<1>5. /\ \A k \in Nat : (k * y <= z => k <= next) /\ (z < k * y => next < k)
      /\ next \in Nat
  BY <1>1, <1>2, Quotient
<1>6. (2 * R - 1) * m + m = m * y /\ (2 * R - 1) * m \in Nat /\ m * y \in Nat
  OBVIOUS
<1>7. x <= (2 * R - 1) * m /\ (j = 1 => x = m) /\ (j = R => x = (2 * R - 1) * m)
  BY <1>1, TimesGrows
<1>8. (q + 1) * y = q * R + q * R + y /\ q * R \in Nat
  BY <1>3
<1> HIDE DEF y, x, z, q, place, next
<1>9. m < (q + 1) * y /\ 2 * m < (q + 1) * y /\ (q + 1) * y \in Nat
  BY <1>1, <1>3, <1>8
<1>10. place < m
  BY <1>1, <1>2, <1>4, <1>6, <1>7
<1>11. j = 1 => place <= q
  <2>1. j = 1 => place < q + 1
    BY <1>3, <1>4, <1>7, <1>9
  <2> QED
    BY <1>3, <1>4, <2>1
<1>12. place + 1 <= next
  <2>1. (place + 1) * y = place * y + y /\ place * y \in Nat
    BY <1>1, <1>4, Spread
  <2>2. (place + 1) * y <= z
    BY <1>1, <1>2, <1>4, <2>1
  <2> QED
    BY <1>4, <1>5, <2>2
<1>13. next <= place + q + 1
  <2>1. PICK w \in Nat : w = q + 1
    BY <1>3
  <2>2. PICK p \in Nat : p = place + 1
    BY <1>4
  <2> DEFINE k == p + w
  <2>3. p * y = place * y + y /\ place * y \in Nat
    BY <1>1, <1>4, <2>2, Spread
  <2>4. k * y = p * y + w * y /\ k \in Nat
    BY <1>1, Spread
  <2>k. k = p + w
    OBVIOUS
  <2> HIDE DEF k
  <2>5. 2 * m < w * y /\ w * y \in Nat
    BY <1>9, <2>1
  <2>6. z < k * y
    <3>1. x < p * y
      BY <1>4, <2>3
    <3>2. PICK a \in Nat : a = p * y
      BY <1>1, <2>2, <2>3
    <3>3. PICK b \in Nat : b = w * y
      BY <2>5
    <3>4. z = x + 2 * m /\ x < a /\ 2 * m < b /\ k * y = a + b
      BY <1>2, <2>4, <2>5, <3>1, <3>2, <3>3
    <3> QED
      BY <1>2, <3>4
  <2>7. next < k
    BY <1>5, <2>4, <2>6
  <2> QED
    BY <1>3, <1>4, <1>5, <2>1, <2>2, <2>7, <2>k
<1>14. j = R => m - place <= q + 1
  <2> SUFFICES ASSUME j = R, m > q + 1 PROVE m - place <= q + 1
    BY <1>3, <1>4
  <2>1. PICK w \in Nat : w = q + 1
    BY <1>3
  <2>2. PICK k \in Nat : m = k + w
    <3>1. m - w \in Nat /\ m = (m - w) + w
      BY <1>1, <2>1
    <3> QED
      BY <3>1
  <2>3. m * y = k * y + w * y /\ k * y \in Nat /\ w * y \in Nat
    BY <1>1, <2>1, <2>2, Spread
  <2>4. x + m = m * y /\ m < w * y
    BY <1>6, <1>7, <1>9, <2>1
  <2>5. k * y <= x
    BY <1>1, <1>2, <2>3, <2>4
  <2>6. k <= place
    BY <1>4, <2>5
  <2> QED
    BY <1>1, <1>4, <2>1, <2>2, <2>6
<1> QED
  BY <1>4, <1>5, <1>10, <1>11, <1>12, <1>13, <1>14 DEF y, x, z, q, place, next

\* The places after the head, and what a sample made of both keeps.
SpacedOut(place, n, size, head, q) ==
    \A i \in 1 .. size : i > head =>
       /\ place[i] \in Nat /\ place[i] < n - head
       /\ i = head + 1 => place[i] <= q
       /\ i < size => /\ place[i + 1] \in Nat /\ place[i] + 1 <= place[i + 1]
                      /\ place[i + 1] <= place[i] + q + 1
       /\ i = size => n - head - place[i] <= q + 1

EvenlyKept(list, n, size, head, q) ==
    /\ Len(list) = size /\ DOMAIN list = 1 .. size
    /\ \A i \in 1 .. size :
         LET gap == (IF i = Len(list) THEN n + 1 ELSE list[i + 1]) - list[i]
         IN  /\ list[i] \in 1 .. n /\ gap >= 1 /\ (i <= head => list[i] = i)
             /\ i >= head /\ size > head => gap <= q + 1

\* A list that begins with the first places and goes on at given ones.
LEMMA GapsBounded ==
  ASSUME NEW n \in Nat, NEW size \in Nat, NEW head \in Nat, NEW q \in Nat, NEW place, NEW list,
         n > size, 1 <= head, head <= size, SpacedOut(place, n, size, head, q),
         list = [i \in 1 .. size |-> IF i <= head THEN i ELSE 1 + head + place[i]]
  PROVE  EvenlyKept(list, n, size, head, q)
<1>1. /\ DOMAIN list = 1 .. size
      /\ \A i \in 1 .. size : list[i] = IF i <= head THEN i ELSE 1 + head + place[i]
  OBVIOUS
<1>2. Len(list) = size
  OBVIOUS
<1> DEFINE after(i) == IF i = size THEN n + 1 ELSE list[i + 1]
           Placed(i) == /\ list[i] \in 1 .. n /\ (i <= head => list[i] = i)
                        /\ after(i) - list[i] >= 1
                        /\ i >= head /\ size > head => after(i) - list[i] <= q + 1
<1>3. ASSUME NEW i \in 1 .. size PROVE Placed(i)
  <2>1. i \in Nat /\ 1 <= i /\ i <= size /\ (i < size => i + 1 \in 1 .. size /\ i # size)
    OBVIOUS
  <2>2. CASE i < head
    <3>1. list[i] = i /\ after(i) = i + 1
      BY <1>1, <2>1, <2>2
    <3> HIDE DEF after
    <3> QED
      BY <2>1, <2>2, <3>1
  <2>3. CASE i = head /\ head = size
    <3>1. list[i] = i /\ after(i) = n + 1
      BY <1>1, <2>1, <2>3
    <3> HIDE DEF after
    <3> QED
      BY <2>1, <2>3, <3>1
  <2>4. CASE i = head /\ head < size
    <3>1. i + 1 \in 1 .. size /\ i + 1 > head /\ i + 1 = head + 1
      BY <2>1, <2>4
    <3>2. PICK b \in Nat : b = place[i + 1] /\ b <= q /\ b < n - head
      BY <3>1 DEF SpacedOut
    <3>3. list[i] = i /\ after(i) = 1 + head + b
      BY <1>1, <2>1, <2>4, <3>1, <3>2
    <3> HIDE DEF after
    <3> QED
      BY <2>1, <2>4, <3>2, <3>3
  <2>5. CASE i > head
    <3>1. PICK a \in Nat : a = place[i] /\ a < n - head /\ (i = size => n - head - a <= q + 1)
      BY <2>1, <2>5 DEF SpacedOut
    <3>2. list[i] = 1 + head + a
      BY <1>1, <2>1, <2>5, <3>1
    <3>3. CASE i = size
      <4>1. after(i) = n + 1
        BY <3>3
      <4> HIDE DEF after
      <4> QED
        BY <2>1, <2>5, <3>1, <3>2, <3>3, <4>1
    <3>4. CASE i < size
      <4>1. PICK b \in Nat : b = place[i + 1] /\ a + 1 <= b /\ b <= a + q + 1
        BY <2>1, <2>5, <3>1, <3>4 DEF SpacedOut
      <4>2. after(i) = 1 + head + b
        BY <1>1, <2>1, <2>5, <3>4, <4>1
      <4>3. list[i] \in 1 .. n /\ ~(i <= head)
        BY <2>1, <2>5, <3>1, <3>2
      <4> HIDE DEF after
      <4>4. after(i) - list[i] = b - a
        BY <3>1, <3>2, <4>1, <4>2
      <4>5. b - a >= 1 /\ b - a <= q + 1
        <5>1. a + 1 <= b /\ b <= a + q + 1
          BY <4>1
        <5> QED
          BY <5>1
      <4> QED
        BY <4>3, <4>4, <4>5
    <3> QED
      BY <2>1, <3>3, <3>4
  <2> QED
    BY <2>1, <2>2, <2>3, <2>4, <2>5
<1> QED
  BY <1>1, <1>2, <1>3 DEF EvenlyKept

\* capDataFileChunks samples evenly, whatever the sizes.
LEMMA SampledPlacesEven ==
  ASSUME NEW n \in Nat, Sample \in Nat \ {0}, n > Sample,
         NEW head, head = (Sample + 1) \div 2
  PROVE  \E q \in Nat : /\ Sample > head => q = (n - head) \div (Sample - head)
                        /\ EvenlyKept(SampledPlaces(n), n, Sample, head, q)
<1>2. head \in Nat /\ 1 <= head /\ head <= Sample
  OBVIOUS
<1>3. PICK rest \in Nat : rest = Sample - head
  <2>1. Sample - head \in Nat
    BY <1>2
  <2> QED
    BY <2>1
<1>4. PICK m \in Nat : m = n - head
  <2>1. n - head \in Nat
    BY <1>2
  <2> QED
    BY <2>1
<1>5. rest > 0 \/ head = Sample
  BY <1>2, <1>3
<1> DEFINE place == [i \in 1 .. Sample |-> ((2 * (i - head) - 1) * m) \div (2 * rest)]
           list == SampledPlaces(n)
<1>6. list = [i \in 1 .. Sample |-> IF i <= head THEN i ELSE 1 + head + place[i]]
  BY <1>3, <1>4 DEF SampledPlaces
<1>7. PICK q \in Nat : rest > 0 => q = m \div rest
  <2>1. rest > 0 => m \div rest \in Nat
    BY Quotient
  <2>2. 0 \in Nat
    OBVIOUS
  <2> QED
    BY <2>1, <2>2
<1>8. ASSUME NEW i \in 1 .. Sample, i > head
      PROVE  /\ place[i] \in Nat /\ place[i] < n - head
             /\ i = head + 1 => place[i] <= q
             /\ i < Sample => /\ place[i + 1] \in Nat /\ place[i] + 1 <= place[i + 1]
                              /\ place[i + 1] <= place[i] + q + 1
             /\ i = Sample => n - head - place[i] <= q + 1
  <2>1. PICK j \in 1 .. rest : j = i - head
    <3>1. i - head \in 1 .. rest
      BY <1>2, <1>3, <1>8
    <3> QED
      BY <3>1
  <2>2. rest \in Nat \ {0} /\ m >= rest /\ rest > 0 /\ q = m \div rest
    BY <1>2, <1>3, <1>4, <1>7, <2>1
  <2>3. /\ (i = head + 1 => j = 1) /\ (i = Sample => j = rest)
        /\ (i < Sample => i + 1 \in 1 .. Sample /\ i + 1 - head = j + 1)
    BY <1>2, <1>3, <2>1
  <2>4. LET here == ((2 * j - 1) * m) \div (2 * rest)
            next == ((2 * (j + 1) - 1) * m) \div (2 * rest)
        IN  /\ here \in Nat /\ here < m
            /\ j = 1 => here <= m \div rest
            /\ next \in Nat /\ here + 1 <= next /\ next <= here + m \div rest + 1
            /\ j = rest => m - here <= m \div rest + 1
    BY <2>2, EvenPlaces
  <2>5. place[i] = ((2 * j - 1) * m) \div (2 * rest)
    BY <2>1
  <2>6. i < Sample => place[i + 1] = ((2 * (j + 1) - 1) * m) \div (2 * rest)
    <3> SUFFICES ASSUME i < Sample
                 PROVE  place[i + 1] = ((2 * (j + 1) - 1) * m) \div (2 * rest)
      OBVIOUS
    <3>1. PICK e \in 1 .. Sample : e = i + 1 /\ e - head = j + 1
      BY <1>2, <2>3
    <3>2. place[e] = ((2 * (e - head) - 1) * m) \div (2 * rest)
      OBVIOUS
    <3> HIDE DEF place
    <3> QED
      BY <3>1, <3>2
  <2> HIDE DEF place
  <2> QED
    BY <1>4, <2>2, <2>3, <2>4, <2>5, <2>6
<1> HIDE DEF place, list
<1>9. SpacedOut(place, n, Sample, head, q)
  BY <1>8 DEF SpacedOut
<1>10. EvenlyKept(list, n, Sample, head, q)
  BY <1>2, <1>6, <1>9, GapsBounded
<1>11. Sample > head => q = (n - head) \div (Sample - head)
  BY <1>2, <1>3, <1>4, <1>5, <1>7
<1> QED
  BY <1>10, <1>11 DEF list

LEMMA SamplesEvenly ==
  ASSUME CutInv, SampleData PROVE SampleEven'
<1>1. /\ Len(chunks) \in Nat /\ Sample \in Nat \ {0}
      /\ chunks' = chunks
      /\ kept' = IF Len(chunks) <= Sample THEN [i \in 1 .. Len(chunks) |-> i]
                 ELSE SampledPlaces(Len(chunks))
  BY ChunkingAssumption DEF SampleData, CutInv, ChunkList
<1>2. PICK n \in Nat : n = Len(chunks)
  BY <1>1
<1>3. PICK list : list = kept'
  OBVIOUS
<1>4. PICK head : head = (Sample + 1) \div 2
  OBVIOUS
<1>5. head \in Nat /\ 1 <= head /\ head <= Sample
  BY <1>1, <1>4
<1> DEFINE gap(i) == (IF i = Len(list) THEN n + 1 ELSE list[i + 1]) - list[i]
<1>6. CASE n <= Sample
  <2>1. list = [i \in 1 .. n |-> i]
    BY <1>1, <1>2, <1>3, <1>6
  <2>2. Len(list) = n /\ DOMAIN list = 1 .. n /\ \A i \in 1 .. n : list[i] = i
    BY <2>1
  <2>3. ASSUME NEW i \in 1 .. n
        PROVE  /\ list[i] \in 1 .. n /\ gap(i) >= 1 /\ list[i] = i
               /\ i >= head /\ Sample > head => gap(i) <= (n - head) \div (Sample - head) + 1
    <3>1. list[i] = i /\ gap(i) = 1
      BY <2>2
    <3>2. ASSUME i >= head, Sample > head
          PROVE  (n - head) \div (Sample - head) \in Nat
      <4>1. n - head \in Nat /\ Sample - head \in Nat \ {0}
        BY <1>1, <1>5, <3>2
      <4> QED
        BY <4>1, Quotient
    <3> HIDE DEF gap
    <3> QED
      BY <3>1, <3>2
  <2>4. /\ Len(list) = n
        /\ \A i \in DOMAIN list :
             /\ list[i] \in 1 .. n /\ gap(i) >= 1 /\ list[i] = i
             /\ i >= head /\ Sample > head => gap(i) <= (n - head) \div (Sample - head) + 1
    BY <2>2, <2>3
  <2> QED
    BY <1>1, <1>2, <1>3, <1>4, <1>6, <2>4 DEF SampleEven
<1>7. CASE n > Sample
  <2>1. list = SampledPlaces(n) /\ ~(n <= Sample)
    BY <1>1, <1>2, <1>3, <1>7
  <2>2. PICK q \in Nat : /\ Sample > head => q = (n - head) \div (Sample - head)
                         /\ EvenlyKept(list, n, Sample, head, q)
    BY <1>1, <1>4, <1>7, <2>1, SampledPlacesEven
  <2>3. /\ Len(list) = Sample /\ DOMAIN list = 1 .. Sample
        /\ \A i \in 1 .. Sample :
             /\ list[i] \in 1 .. n /\ gap(i) >= 1 /\ (i <= head => list[i] = i)
             /\ i >= head /\ Sample > head => gap(i) <= (n - head) \div (Sample - head) + 1
    BY <2>2 DEF EvenlyKept
  <2> QED
    BY <1>1, <1>2, <1>3, <1>4, <2>1, <2>3 DEF SampleEven
<1> QED
  BY <1>1, <1>2, <1>6, <1>7

PlacesInv == CutInv /\ PlaceInv /\ SampleEven

LEMMA PlacesKept ==
  ASSUME \A d \in Documents : ParsedInOrder(d) PROVE PlacesInv /\ [ChunkNext]_chunkVars => PlacesInv'
<1> SUFFICES ASSUME PlacesInv, [ChunkNext]_chunkVars PROVE PlacesInv'
  OBVIOUS
<1>1. CutInv'
  BY CutStep, SkipStep, OtherStep DEF PlacesInv, ChunkNext
<1>2. ParsedInOrder(doc)
  BY DEF PlacesInv, CutInv, CursorOK
<1>3. CASE Cut
  <2>1. cutting' # "sampled"
    BY <1>3 DEF Cut, MoveOn
  <2> QED
    BY <1>1, <1>2, <1>3, <2>1, PlacedCut DEF PlacesInv, SampleEven
<1>4. CASE SkipBlank
  <2>1. cutting' # "sampled"
    BY <1>4 DEF SkipBlank, MoveOn
  <2> QED
    BY <1>1, <1>4, <2>1, PlacedSkip DEF PlacesInv, SampleEven
<1>5. CASE TooMany \/ AbortCutting
  BY <1>1, <1>5 DEF TooMany, AbortCutting, PlacesInv, PlaceInv, SampleEven
<1>6. CASE SampleData
  <2>1. PlaceInv'
    BY <1>6 DEF SampleData, PlacesInv, PlaceInv
  <2> QED
    BY <1>1, <1>6, <2>1, SamplesEvenly DEF PlacesInv
<1>7. CASE UNCHANGED chunkVars
  BY <1>1, <1>7 DEF chunkVars, PlacesInv, PlaceInv, SampleEven
<1> QED
  BY <1>3, <1>4, <1>5, <1>6, <1>7 DEF ChunkNext

LEMMA PlacesInit == ChunkInit => PlacesInv
<1> SUFFICES ASSUME ChunkInit PROVE PlacesInv
  OBVIOUS
<1>1. doc \in Documents /\ WellFormed(doc) /\ CutInv
  BY ChunkingAssumption, InitCovered DEF ChunkInit
<1>2. chunks = <<>> /\ DOMAIN chunks = {} /\ cutting = "cutting" /\ region = 1
      /\ cursor = doc.regions[1].from
  BY DEF ChunkInit
<1>3. \A o \in TextOf(doc, 1) : cursor <= o
  <2>1. doc.regions[1].from \in Nat
    BY <1>1 DEF WellFormed
  <2> QED
    BY <1>2, <2>1 DEF TextOf
<1>4. PlaceInv /\ SampleEven
  BY <1>2, <1>3 DEF PlaceInv, SampleEven
<1> QED
  BY <1>1, <1>4 DEF PlacesInv

LEMMA PlacesImply ==
  ASSUME \A d \in Documents : ParsedInOrder(d) PROVE PlacesInv => ChunksPlaced
<1> SUFFICES ASSUME PlacesInv PROVE ChunksPlaced
  OBVIOUS
<1>1. /\ ParsedInOrder(doc) /\ WellFormed(doc) /\ Len(doc.regions) \in Nat
      /\ DOMAIN doc.regions = 1 .. Len(doc.regions)
      /\ \A k \in 1 .. Len(doc.regions) : doc.regions[k].from \in Nat /\ doc.regions[k].to \in Nat
  BY DocumentFacts DEF PlacesInv, CutInv, CursorOK, WellFormed
<1>2. TextComplete
  <2> SUFFICES ASSUME cutting = "cut", NEW o \in 0 .. doc.length - 1,
                      o \notin doc.blanks, o \notin doc.joints
               PROVE  \E c \in DOMAIN chunks : chunks[c].from <= o /\ o < chunks[c].to
    BY DEF TextComplete
  <2>1. PICK k \in DOMAIN doc.regions : doc.regions[k].from <= o /\ o < doc.regions[k].to
    BY <1>1 DEF ParsedInOrder
  <2>2. k \in 1 .. region /\ o \in doc.regions[k].from .. doc.regions[k].to - 1
    BY <1>1, <2>1 DEF PlacesInv, PlaceInv, WellFormed
  <2> QED
    BY <2>2 DEF PlacesInv, CutInv, ChunksCover, NothingLost, Intact, PassedBy
<1>3. PlacedRight
  <2>1. ASSUME NEW c \in DOMAIN chunks, NEW h \in chunks[c].header,
               NEW o \in TextOf(doc, doc.regions[chunks[c].region].header)
        PROVE  chunks[h].from <= o /\ o < chunks[h].to
    <3>1. /\ h \in DOMAIN chunks /\ FirstOf(chunks, h)
          /\ chunks[h].region = doc.regions[chunks[c].region].header
          /\ chunks[h].to >= doc.regions[chunks[h].region].to
      BY DEF PlacesInv, PlaceInv
    <3>2. chunks[h].region \in 1 .. Len(doc.regions) /\ chunks[h].to \in Nat
      BY <1>1, <3>1 DEF PlacesInv, CutInv, ChunkList, ChunksCover, WithinSize
    <3>3. chunks[h].from <= o
      BY <2>1, <3>1 DEF PlacesInv, PlaceInv
    <3>4. o < chunks[h].to
      BY <1>1, <2>1, <3>1, <3>2 DEF TextOf
    <3> QED
      BY <3>3, <3>4
  <2>2. \A c \in DOMAIN chunks : CitesRight(doc, chunks[c])
    BY DEF PlacesInv, PlaceInv
  <2> QED
    BY <2>1, <2>2 DEF PlacedRight, CitesRight, TextOf
<1> QED
  BY <1>2, <1>3 DEF ChunksPlaced, PlacesInv

\* Every chunk names the place of its text: a document whose parsing kept its
\* order is cut into chunks that hold all its text, and cite the lines, the pages and
\* the element the text stands at; what a chunk repeats as a header is the region that
\* its row refers to, whole; and a data file keeps an even sample of the chunks.
THEOREM CitationsHold ==
  ASSUME \A d \in Documents : ParsedInOrder(d) PROVE ChunkSpec => []ChunksPlaced
BY PlacesInit, PlacesKept, PlacesImply, PTL DEF ChunkSpec

(***************************************************************************)
(* Search.  For every corpus and any caches: the statistics a search goes  *)
(* by are those of its generation, and an expansion with the identifier of *)
(* the evidence shows what the search has shown.                           *)
(***************************************************************************)

Words == UNION {Requests[a].words : a \in DOMAIN Requests}
TrueEntries ==
    {[gen |-> g, freq |-> [w \in W |-> Frequency(g, w)]] : g \in Generations, W \in SUBSET Words}

\* What is cached is true of its generation, and so is what a search took of it.
SearchInv ==
    /\ generation \in Generations
    /\ termCache \in Seq(TrueEntries)
    /\ find.phase \in {"idle", "gather", "hydrate", "results", "done"}
    /\ find.phase = "done" => find.rows = <<>>
    /\ find.phase \in {"gather", "hydrate", "results"} =>
          find.gen \in Generations /\ find.ask \in DOMAIN Requests
    /\ find.phase \in {"gather", "hydrate"} => {"phase", "gen", "ask", "terms"} \subseteq DOMAIN find
    /\ TermsTrue
    /\ cited # None => cited.evidence[3][3] = cited.text
    /\ find.phase # "idle" => expanded = None
    /\ EvidenceHonest

LEMMA SearchInitInv == SearchInit => SearchInv
BY DEF SearchInit, SearchInv, NoSearch, TermsTrue, EvidenceHonest, TrueEntries

LEMMA EntryIsTrue ==
  ASSUME NEW g \in Generations, NEW W \in SUBSET Words, NEW freq,
         freq = [w \in W |-> Frequency(g, w)]
  PROVE  [gen |-> g, freq |-> freq] \in TrueEntries
<1>1. \E h \in Generations, V \in SUBSET Words :
         [gen |-> g, freq |-> freq] = [gen |-> h, freq |-> [w \in V |-> Frequency(h, w)]]
  OBVIOUS
<1> QED
  BY <1>1 DEF TrueEntries

LEMMA TrueOf ==
  ASSUME NEW entry \in TrueEntries
  PROVE  /\ entry.gen \in Generations /\ DOMAIN entry.freq \in SUBSET Words
         /\ \A w \in DOMAIN entry.freq : entry.freq[w] = Frequency(entry.gen, w)
BY DEF TrueEntries

\* Expansion compares the identifier, which covers the text.
LEMMA ExpandKeeps ==
  ASSUME SearchInv, NEW expected \in BOOLEAN, NEW radius, Expand(expected, radius)
  PROVE  SearchInv'
<1>1. /\ find.phase = "idle" /\ cited # None /\ expanded' = Outcome(cited, expected, radius)
      /\ UNCHANGED <<generation, termCache, floorCache, find, cited>>
  BY DEF Expand
<1>2. EvidenceHonest'
  <2> SUFFICES ASSUME expanded' # None, "found" \in DOMAIN expanded', expanded'.found, expanded'.expected
               PROVE  expanded'.text = cited.text
    BY <1>1 DEF EvidenceHonest
  <2> DEFINE i == CHOOSE x \in TargetRows(cited) : TRUE
  <2>1. CASE ~IndexOf[generation].table
    <3>1. expanded' = [found |-> FALSE]
      BY <1>1, <2>1 DEF Outcome
    <3> QED
      BY <3>1
  <2>2. CASE IndexOf[generation].table /\ IndexOf[generation].manifest # "current"
    <3>1. expanded' = [error |-> "stale"]
      BY <1>1, <2>2 DEF Outcome
    <3> QED
      BY <3>1
  <2>3. CASE /\ IndexOf[generation].table /\ IndexOf[generation].manifest = "current"
             /\ TargetRows(cited) = {}
    <3>1. expanded' = [found |-> FALSE]
      BY <1>1, <2>3 DEF Outcome
    <3> QED
      BY <3>1
  <2>4. CASE /\ IndexOf[generation].table /\ IndexOf[generation].manifest = "current"
             /\ TargetRows(cited) # {}
    <3>1. expanded' = IF Citation(Row(generation, i)) # cited.citation THEN [error |-> "coordinates"]
               ELSE IF expected /\ EvidenceOf(Row(generation, i)) # cited.evidence
               THEN [error |-> "EVIDENCE_CHANGED"]
               ELSE [found |-> TRUE, text |-> Row(generation, i).text, expected |-> expected,
                     gen |-> generation, passages |-> PassagesAround(i, radius)]
      BY <1>1, <2>4 DEF Outcome
    <3>2. CASE Citation(Row(generation, i)) # cited.citation
      BY <3>1, <3>2
    <3>3. CASE Citation(Row(generation, i)) = cited.citation /\ expected
               /\ EvidenceOf(Row(generation, i)) # cited.evidence
      BY <3>1, <3>3
    <3>4. CASE Citation(Row(generation, i)) = cited.citation
               /\ ~(expected /\ EvidenceOf(Row(generation, i)) # cited.evidence)
      <4>1. expanded' = [found |-> TRUE, text |-> Row(generation, i).text, expected |-> expected,
                         gen |-> generation, passages |-> PassagesAround(i, radius)]
        BY <3>1, <3>4
      <4>2. EvidenceOf(Row(generation, i)) = cited.evidence /\ expanded'.text = Row(generation, i).text
        BY <3>4, <4>1
      <4>3. cited.evidence[3][3] = cited.text
        BY <1>1 DEF SearchInv
      <4>4. EvidenceOf(Row(generation, i))[3][3] = Row(generation, i).text
        BY DEF EvidenceOf
      <4> QED
        BY <4>2, <4>3, <4>4
    <3> QED
      BY <3>2, <3>3, <3>4
  <2> QED
    BY <2>1, <2>2, <2>3, <2>4
<1> QED
  BY <1>1, <1>2 DEF SearchInv, TermsTrue

LEMMA ActivateKeeps == ASSUME SearchInv, Activate PROVE SearchInv'
BY DEF SearchInv, Activate, TermsTrue, EvidenceHonest

LEMMA ReturnKeeps == ASSUME SearchInv, Return PROVE SearchInv'
<1>1. /\ find.phase \in {"results", "done"} /\ expanded = None /\ expanded' = None
      /\ find'.phase = "idle" /\ UNCHANGED <<generation, termCache>>
  BY DEF SearchInv, Return, NoSearch
<1>2. cited' # None => cited'.evidence[3][3] = cited'.text
  <2>1. CASE find.rows = <<>>
    BY <2>1 DEF SearchInv, Return
  <2>2. CASE find.rows # <<>>
    <3>1. PICK row \in {Row(find.gen, i) : i \in ToSet(find.rows)} :
            cited' = [path |-> row.path, chunk |-> row.chunk, citation |-> Citation(row),
                      evidence |-> EvidenceOf(row), text |-> row.text]
      BY <2>2 DEF Return
    <3>2. cited'.evidence = EvidenceOf(row) /\ cited'.text = row.text
      BY <3>1
    <3> QED
      BY <3>2 DEF EvidenceOf
  <2> QED
    BY <2>1, <2>2
<1> QED
  BY <1>1, <1>2 DEF SearchInv, TermsTrue, EvidenceHonest

LEMMA BeginKeeps == ASSUME SearchInv, NEW ask \in DOMAIN Requests, Begin(ask) PROVE SearchInv'
<1>1. cited' = None /\ expanded' = None /\ UNCHANGED <<generation, termCache, floorCache>>
  BY DEF Begin
<1>2. \/ find'.phase = "done" /\ find'.rows = <<>>
      \/ /\ find'.phase = "gather" /\ find'.gen = generation /\ find'.ask = ask /\ find'.terms = None
         /\ {"phase", "gen", "ask", "terms"} \subseteq DOMAIN find'
  BY DEF Begin, Ended
<1> QED
  BY <1>1, <1>2 DEF SearchInv, TermsTrue, EvidenceHonest

\* The other steps of a search leave its generation and its statistics.
Goes(f, g) ==
    /\ g.phase \in {"gather", "hydrate", "results", "done"}
    /\ g.phase = "done" => g.rows = <<>>
    /\ g.phase \in {"gather", "hydrate", "results"} =>
          /\ f.phase \in {"gather", "hydrate"} /\ g.gen = f.gen /\ g.ask = f.ask
          /\ DOMAIN f \subseteq DOMAIN g
          /\ \/ g.terms = f.terms
             \/ f.terms # None /\ g.terms.freq = f.terms.freq

LEMMA GoesKeeps ==
  ASSUME SearchInv, Goes(find, find'), find.phase # "idle",
         UNCHANGED <<generation, termCache, cited, expanded>>
  PROVE  SearchInv'
BY DEF SearchInv, Goes, TermsTrue, EvidenceHonest

LEMMA CountKeeps == ASSUME SearchInv, NEW counted, CountTerms(counted) PROVE SearchInv'
<1> DEFINE g == find.gen
           index == IndexOf[g]
           tokens == Tokens(Asked(find))
           known == IF CachedTerms(g) = {} THEN << >>
                    ELSE termCache[CHOOSE k \in CachedTerms(g) : TRUE].freq
           missing == tokens \ DOMAIN known
           freq == [w \in DOMAIN known \cup (counted \cap missing) |->
                      IF w \in DOMAIN known THEN known[w] ELSE Frequency(g, w)]
           entry == [gen |-> g, freq |-> freq]
           grown == IF CachedTerms(g) = {} THEN Append(termCache, entry)
                    ELSE [k \in DOMAIN termCache |-> IF termCache[k].gen = g THEN entry ELSE termCache[k]]
<1>1. /\ find.phase = "gather" /\ counted \subseteq tokens
      /\ UNCHANGED <<generation, floorCache, cited, expanded>>
  BY DEF CountTerms, Gathering
<1>2. g \in Generations /\ find.ask \in DOMAIN Requests /\ termCache \in Seq(TrueEntries)
      /\ expanded = None
  BY <1>1 DEF SearchInv
<1>3. tokens \in SUBSET Words
  BY <1>2 DEF Tokens, Asked, Words
<1>4. DOMAIN known \in SUBSET Words /\ \A w \in DOMAIN known : known[w] = Frequency(g, w)
  <2>1. CASE CachedTerms(g) = {}
    BY <2>1
  <2>2. CASE CachedTerms(g) # {}
    <3>1. PICK k \in CachedTerms(g) : known = termCache[k].freq
      BY <2>2
    <3>2. termCache[k] \in TrueEntries /\ termCache[k].gen = g
      BY <1>2, <3>1 DEF CachedTerms
    <3> HIDE DEF known
    <3> QED
      BY <3>1, <3>2, TrueOf
  <2> QED
    BY <2>1, <2>2
<1> HIDE DEF known
<1>5. entry \in TrueEntries /\ \A w \in DOMAIN freq : freq[w] = Frequency(g, w)
  <2>1. \A w \in DOMAIN freq : freq[w] = Frequency(g, w)
    BY <1>4
  <2>2. DOMAIN freq \in SUBSET Words /\ freq = [w \in DOMAIN freq |-> Frequency(g, w)]
    BY <1>1, <1>3, <1>4, <2>1
  <2> HIDE DEF freq
  <2> QED
    BY <1>2, <2>1, <2>2, EntryIsTrue
<1>6. CASE ~index.folded \/ index.unindexed
  <2>1. find' = [find EXCEPT !.waits = find.waits \ {"terms"}] /\ termCache' = termCache
    BY <1>6 DEF CountTerms
  <2>2. Goes(find, find')
    BY <1>1, <2>1 DEF Goes
  <2> QED
    BY <1>1, <2>1, <2>2, GoesKeeps
<1>7. CASE ~(~index.folded \/ index.unindexed)
  <2>1. /\ counted \subseteq missing
        /\ termCache' = IF Len(grown) > MaxCached THEN Tail(grown) ELSE grown
        /\ find' = [find EXCEPT
                      !.waits = find.waits \ {"terms"},
                      !.terms = IF counted # missing THEN None
                                ELSE [count |-> Len(Corpus[g]), fuzzy |-> {},
                                      freq |-> [w \in tokens |-> freq[w]]]]
    BY <1>7 DEF CountTerms, known
  <2> HIDE DEF entry, missing
  <2>2. grown \in Seq(TrueEntries) /\ grown # <<>>
    <3>1. CASE CachedTerms(g) = {}
      BY <1>2, <1>5, <3>1, AppendProperties
    <3>2. CASE CachedTerms(g) # {}
      BY <1>2, <1>5, <3>2 DEF CachedTerms
    <3> QED
      BY <3>1, <3>2
  <2> HIDE DEF grown
  <2>3. termCache' \in Seq(TrueEntries)
    BY <2>1, <2>2, HeadTailProperties
  <2>4. find'.phase = "gather" /\ find'.gen = g /\ find'.ask = find.ask /\ DOMAIN find' = DOMAIN find
        /\ find'.terms = IF counted # missing THEN None
                                ELSE [count |-> Len(Corpus[g]), fuzzy |-> {},
                                      freq |-> [w \in tokens |-> freq[w]]]
    <3> HIDE DEF freq, tokens
    <3> QED
      BY <1>1, <2>1
  <2>5. find'.terms # None => \A w \in DOMAIN find'.terms.freq : find'.terms.freq[w] = Frequency(g, w)
    <3> SUFFICES ASSUME counted = missing
                 PROVE  \A w \in DOMAIN find'.terms.freq : find'.terms.freq[w] = Frequency(g, w)
      BY <2>4
    <3>1. find'.terms.freq = [w \in tokens |-> freq[w]]
      BY <2>4
    <3>2. \A w \in tokens : w \in DOMAIN freq
      BY DEF missing
    <3> HIDE DEF freq, tokens
    <3> QED
      BY <1>5, <3>1, <3>2
  <2> HIDE DEF g
  <2>6. TermsTrue'
    BY <2>4, <2>5 DEF TermsTrue
  <2>7. EvidenceHonest'
    BY <1>1, <1>2 DEF EvidenceHonest
  <2> QED
    BY <1>1, <1>2, <2>3, <2>4, <2>6, <2>7 DEF SearchInv, g
<1> QED
  BY <1>6, <1>7

LEMMA FloorGoes == ASSUME SearchInv, NEW measured, NoiseFloor(measured) PROVE SearchInv'
<1>1. /\ find.phase = "gather" /\ UNCHANGED <<generation, termCache, cited, expanded>>
      /\ \E floor : find' = [find EXCEPT !.waits = find.waits \ {"floor"}, !.floor = floor]
  BY DEF NoiseFloor, Gathering
<1>2. Goes(find, find')
  BY <1>1 DEF Goes
<1> QED
  BY <1>1, <1>2, GoesKeeps

LEMMA KeywordGoes ==
  ASSUME SearchInv, NEW scan, NEW failing, KeywordCandidates(scan, failing) PROVE SearchInv'
<1>1. /\ find.phase = "gather" /\ UNCHANGED <<generation, termCache, cited, expanded>>
      /\ \E lexical, exact :
            find' = [[find EXCEPT !.waits = find.waits \ {"lexical"}, !.scan = scan, !.failing = failing]
                       EXCEPT !.lexical = lexical, !.exact = exact]
  BY DEF KeywordCandidates, Gathering
<1>2. Goes(find, find')
  BY <1>1 DEF Goes
<1> QED
  BY <1>1, <1>2, GoesKeeps

LEMMA VectorGoes == ASSUME SearchInv, VectorCandidates PROVE SearchInv'
<1>1. /\ find.phase = "gather" /\ UNCHANGED <<generation, termCache, cited, expanded>>
      /\ \E vector, waits : find' = [find EXCEPT !.vector = vector, !.waits = waits]
  BY DEF VectorCandidates, Gathering
<1>2. Goes(find, find')
  BY <1>1 DEF Goes
<1> QED
  BY <1>1, <1>2, GoesKeeps

LEMMA OthersGo == ASSUME SearchInv, OtherDocuments PROVE SearchInv'
<1>1. /\ find.phase = "gather" /\ UNCHANGED <<generation, termCache, cited, expanded>>
      /\ \E vector, waits : find' = [find EXCEPT !.waits = waits, !.vector = vector]
  BY DEF OtherDocuments, Gathering
<1>2. Goes(find, find')
  BY <1>1 DEF Goes
<1> QED
  BY <1>1, <1>2, GoesKeeps

LEMMA FailGoes == ASSUME SearchInv, CandidatesFail PROVE SearchInv'
<1>1. /\ find.phase = "gather" /\ UNCHANGED <<generation, termCache, cited, expanded>>
      /\ \E waits : find' = [find EXCEPT !.waits = waits, !.failed = TRUE]
  BY DEF CandidatesFail
<1>2. Goes(find, find')
  BY <1>1 DEF Goes
<1> QED
  BY <1>1, <1>2, GoesKeeps

LEMMA ThrowGoes == ASSUME SearchInv, NEW aborted, Throw(aborted) PROVE SearchInv'
<1>1. /\ find.phase \in {"gather", "hydrate"} /\ UNCHANGED <<generation, termCache, cited, expanded>>
      /\ find' = [phase |-> "done", rows |-> <<>>]
  BY DEF Throw, Ended
<1>2. Goes(find, find')
  BY <1>1 DEF Goes
<1> QED
  BY <1>1, <1>2, GoesKeeps

LEMMA SelectGoes == ASSUME SearchInv, Select PROVE SearchInv'
<1> DEFINE terms == WithFuzzyMatches(find.terms, Asked(find), find.gen, Candidates(find))
           s == [find EXCEPT !.terms = terms]
<1>1. /\ find.phase = "gather" /\ UNCHANGED <<generation, termCache, cited, expanded>>
      /\ find' = [s EXCEPT !.phase = "hydrate", !.rows = Answer(s)]
  BY DEF Select
<1>2. \/ terms = find.terms
      \/ find.terms # None /\ terms.freq = find.terms.freq
  BY DEF WithFuzzyMatches
<1>3. PICK rows : find' = [s EXCEPT !.phase = "hydrate", !.rows = rows]
  BY <1>1
<1> HIDE DEF terms
<1>4. Goes(find, find')
  <2>1. {"phase", "gen", "ask", "terms"} \subseteq DOMAIN find
    BY <1>1 DEF SearchInv
  <2>2. find'.phase = "hydrate" /\ find'.gen = find.gen /\ find'.ask = find.ask
        /\ find'.terms = terms /\ DOMAIN find' = DOMAIN find
    BY <1>3, <2>1
  <2> QED
    BY <1>1, <1>2, <2>2 DEF Goes
<1> QED
  BY <1>1, <1>4, GoesKeeps

LEMMA DeliverGoes == ASSUME SearchInv, Deliver PROVE SearchInv'
<1>1. /\ find.phase = "hydrate" /\ UNCHANGED <<generation, termCache, cited, expanded>>
      /\ \E contexts, weak :
            find' = [find EXCEPT !.phase = "results", !.contexts = contexts, !.weak = weak]
  BY DEF Deliver
<1>2. Goes(find, find')
  <2>1. {"phase", "gen", "ask", "terms"} \subseteq DOMAIN find
    BY <1>1 DEF SearchInv
  <2>2. find'.phase = "results" /\ find'.gen = find.gen /\ find'.ask = find.ask
        /\ find'.terms = find.terms /\ DOMAIN find' = DOMAIN find
    BY <1>1, <2>1
  <2> QED
    BY <1>1, <2>2 DEF Goes
<1> QED
  BY <1>1, <1>2, GoesKeeps

LEMMA SearchInvKept == SearchInv /\ [SearchNext]_searchVars => SearchInv'
<1> SUFFICES ASSUME SearchInv, [SearchNext]_searchVars PROVE SearchInv'
  OBVIOUS
<1>1. CASE \E ask \in DOMAIN Requests : Begin(ask)
  BY <1>1, BeginKeeps
<1>2. CASE \E counted \in IF find.phase = "gather" THEN SUBSET Tokens(Asked(find)) ELSE {} :
              CountTerms(counted)
  BY <1>2, CountKeeps
<1>3. CASE \E measured \in {IndexOf[g].noise : g \in Generations} \cup {None} : NoiseFloor(measured)
  BY <1>3, FloorGoes
<1>4. CASE \E scan \in BOOLEAN, failing \in {{}, {1}} : KeywordCandidates(scan, failing)
  BY <1>4, KeywordGoes
<1>5. CASE VectorCandidates \/ OtherDocuments
  BY <1>5, VectorGoes, OthersGo
<1>6. CASE CandidatesFail \/ \E aborted \in BOOLEAN : Throw(aborted)
  BY <1>6, FailGoes, ThrowGoes
<1>7. CASE Select \/ Deliver \/ Return \/ Activate
  BY <1>7, SelectGoes, DeliverGoes, ReturnKeeps, ActivateKeeps
<1>8. CASE \E expected \in BOOLEAN, radius \in 0 .. 1 : Expand(expected, radius)
  BY <1>8, ExpandKeeps
<1>9. CASE UNCHANGED searchVars
  BY <1>9 DEF searchVars, SearchInv, TermsTrue, EvidenceHonest
<1> QED
  BY <1>1, <1>2, <1>3, <1>4, <1>5, <1>6, <1>7, <1>8, <1>9 DEF SearchNext

\* For any corpus, any number of generations, searches, failed counts and
\* evictions: the word statistics of a search are those of its own generation
\* (query.ts, queryTermFrequencies), and a citation that is expanded with the
\* identifier of its evidence shows the passage of the search or nothing.
THEOREM SearchesStayTrue == SearchSpec => [](TermsTrue /\ EvidenceHonest)
<1>1. SearchInv => TermsTrue /\ EvidenceHonest
  BY DEF SearchInv
<1> QED
  BY <1>1, SearchInitInv, SearchInvKept, PTL DEF SearchSpec

=============================================================================
