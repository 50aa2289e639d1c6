------------------------------ MODULE Chunking ------------------------------
(***************************************************************************)
(* How a parsed document is cut into passages (chunking.ts), and how a     *)
(* large data file is sampled (ingest.ts, capDataFileChunks).              *)
(*                                                                         *)
(* A document is its length, the offsets of its white space and of the     *)
(* places where a chunk may end, its regions in order, its fenced blocks,  *)
(* its pages, and the offsets between the nodes of a JSON text.  Offsets   *)
(* start at 0; an interval excludes its end.                               *)
(***************************************************************************)
EXTENDS Integers, Sequences, FiniteSets

CONSTANTS
    Documents,     \* the parsed documents
    ChunkSize,
    ChunkOverlap,
    MaxChunks,     \* MAX_INGEST_CHUNKS_PER_FILE
    Sample,        \* maxChunksPerDataFile
    NoHeader       \* a region whose rows have no header

VARIABLES
    doc,      \* the document being cut
    region,   \* the region the cursor is in
    cursor,   \* where the next chunk starts
    chunks,   \* the chunks so far
    kept,     \* the places of the chunks that are kept of a data file
    cutting   \* "cutting", "cut", "sampled", "failed" or "aborted"

chunkVars == <<doc, region, cursor, chunks, kept, cutting>>

\* What parsing promises: an interval has a length.  The header of a row is a
\* number that parsing counted (OfficeText), and need not be that of a header.
WellFormed(d) ==
    /\ d.length \in Nat \ {0}
    /\ \A o \in d.blanks : o \in Nat
    /\ Len(d.regions) \in Nat \ {0} /\ DOMAIN d.regions = 1 .. Len(d.regions)
    /\ \A k \in DOMAIN d.regions :
          /\ d.regions[k].from \in Nat /\ d.regions[k].to \in Nat
          /\ d.regions[k].from < d.regions[k].to
          /\ d.regions[k].header # NoHeader => d.regions[k].header \in Nat
    /\ \A f \in d.fences : f.from \in Nat /\ f.to \in Nat /\ f.from < f.to
    /\ \A e \in d.paragraphs \cup d.sentences \cup d.lineBreaks \cup d.spaces : e \in Nat

\* What parsing promises of the order: the text is in the regions, a line starts
\* behind a break, pages follow one another, and so do the elements with a place.
ParsedInOrder(d) ==
    /\ \A o \in 0 .. d.length - 1 : o \in d.blanks \cup d.joints
          \/ \E k \in DOMAIN d.regions : d.regions[k].from <= o /\ o < d.regions[k].to
    /\ IsFiniteSet(d.lineBreaks) /\ d.lineStarts = {0} \cup {b + 1 : b \in d.lineBreaks}
    /\ Len(d.pages) \in Nat /\ DOMAIN d.pages = 1 .. Len(d.pages)
    /\ \A k \in DOMAIN d.pages : d.pages[k].from \in Nat /\ d.pages[k].to \in Nat
    /\ \A j, k \in DOMAIN d.pages : j < k =>
          d.pages[j].from <= d.pages[k].from /\ d.pages[j].to <= d.pages[k].to
    /\ d.located => \A j, k \in DOMAIN d.regions : j < k => d.regions[j].to <= d.regions[k].from

ASSUME ChunkingAssumption ==
    /\ ChunkSize \in Nat \ {0} /\ ChunkOverlap \in Nat /\ ChunkOverlap < ChunkSize
    /\ MaxChunks \in Nat /\ Sample \in Nat \ {0}
    /\ \A d \in Documents : WellFormed(d)

Here == doc.regions[region]
HardEnd == IF cursor + ChunkSize < Here.to THEN cursor + ChunkSize ELSE Here.to

-----------------------------------------------------------------------------
(* Where a chunk ends.                                                      *)

\* fenceAtOffset, and only where the whole fence would fit a chunk.
FencesAcross(offset) ==
    {f \in doc.fences : /\ f.from < offset /\ offset < f.to
                        /\ f.to <= Here.to /\ f.to - f.from <= ChunkSize}

\* The last of these marks in the window, if it lies beyond a share of a chunk.
LastBreak(marks, width, percent) ==
    LET window == {e \in marks : cursor < e /\ e + width <= HardEnd}
    IN  {e \in window : (e - cursor) * 100 > ChunkSize * percent /\ \A f \in window : f <= e}

\* chooseChunkEnd: before a fence that would be cut, else at the end of a
\* paragraph, a sentence, a line or a word, the first of these that there is.
ChunkEnds ==
    IF HardEnd = Here.to THEN {HardEnd}
    ELSE IF FencesAcross(HardEnd) # {}
    THEN {IF f.from > cursor THEN f.from ELSE f.to : f \in FencesAcross(HardEnd)}
    ELSE IF LastBreak(doc.paragraphs, 2, 45) # {} THEN LastBreak(doc.paragraphs, 2, 45)
    ELSE IF LastBreak(doc.sentences, 1, 55) # {} THEN LastBreak(doc.sentences, 1, 55)
    ELSE IF LastBreak(doc.lineBreaks, 1, 65) # {} THEN LastBreak(doc.lineBreaks, 1, 65)
    ELSE IF LastBreak(doc.spaces, 1, 75) # {} THEN LastBreak(doc.spaces, 1, 75)
    ELSE {HardEnd}

Larger(a, b) == IF a > b THEN a ELSE b

\* Variant for the checks: skips the character at the end, as if it were white space.
NextCursor_SkipBlank(end) == end + 1

\* No overlap into a fence; elsewhere at least one character of progress.
NextCursor(end) ==
    IF \E f \in doc.fences : f.from = end THEN end
    ELSE Larger(Larger(end - ChunkOverlap, cursor + 1), Here.from)

AllBlank(from, to) == \A o \in from .. to - 1 : o \in doc.blanks

\* trimmedSpan: from the first to the last character that is not white space.
Trimmed(from, to) ==
    LET text == {o \in from .. to - 1 : o \notin doc.blanks}
    IN  {[from |-> a, to |-> b + 1] : a \in {o \in text : \A p \in text : o <= p},
                                      b \in {o \in text : \A p \in text : p <= o}}

-----------------------------------------------------------------------------
(* Where a chunk is found in its document.                                  *)

\* lineNumberForOffset: the line starts are sorted.
LineNumber(offset) == Larger(1, Cardinality({s \in doc.lineStarts : s <= offset}))

\* firstIntervalEndingAfter, in intervals that are sorted by their ends.
EndingAfter(intervals, offset) == Cardinality({k \in DOMAIN intervals : intervals[k].to <= offset}) + 1

\* pageRangeForSpan: pages follow until one starts behind the span.
PageRange(span) ==
    LET first == EndingAfter(doc.pages, span.from)
        inside(k) == doc.pages[k].from < span.to
        run == {k \in first .. Len(doc.pages) : \A l \in first .. k : inside(l)}
    IN  {doc.pages[k].number : k \in run}

\* sourceLocationForSpan, for documents whose parser gave the regions.
Location(span) ==
    LET k == EndingAfter(doc.regions, span.from)
    IN  IF doc.located /\ k <= Len(doc.regions) /\ doc.regions[k].from < span.to THEN {k} ELSE {}

\* The first chunk of the header's region, where it holds all of the header;
\* there is none of a region that comes later or is this one.
HeaderChunk ==
    LET own == {c \in DOMAIN chunks : Here.header < region /\ chunks[c].region = Here.header}
    IN  {c \in own : /\ \A e \in own : c <= e
                     /\ chunks[c].to >= doc.regions[Here.header].to}

Chunk(span) ==
    [from |-> span.from, to |-> span.to, region |-> region, index |-> Len(chunks),
     lines |-> <<LineNumber(span.from), LineNumber(Larger(span.from, span.to - 1))>>,
     pages |-> PageRange(span), location |-> Location(span),
     header |-> IF Here.header = NoHeader THEN {} ELSE HeaderChunk]

-----------------------------------------------------------------------------
(* Cutting (chunkDocument).                                                 *)

ChunkInit ==
    /\ doc \in Documents
    /\ region = 1 /\ cursor = doc.regions[1].from
    /\ chunks = <<>> /\ kept = <<>> /\ cutting = "cutting"

\* The cursor moves on behind a chunk, or to the next region.
MoveOn(end) ==
    IF end < Here.to
    THEN cursor' = NextCursor(end) /\ UNCHANGED <<region, cutting>>
    ELSE IF region < Len(doc.regions)
    THEN region' = region + 1 /\ cursor' = doc.regions[region + 1].from /\ UNCHANGED cutting
    ELSE cutting' = "cut" /\ UNCHANGED <<region, cursor>>

Cut ==
    /\ cutting = "cutting"
    /\ Len(chunks) < MaxChunks
    /\ \E end \in ChunkEnds :
          /\ \E span \in Trimmed(cursor, end) : chunks' = Append(chunks, Chunk(span))
          /\ MoveOn(end)
    /\ UNCHANGED <<doc, kept>>

SkipBlank ==
    /\ cutting = "cutting"
    /\ \E end \in ChunkEnds : AllBlank(cursor, end) /\ MoveOn(end)
    /\ UNCHANGED <<doc, chunks, kept>>

\* Too many chunks for one file, which then counts as failed.
TooMany ==
    /\ cutting = "cutting" /\ Len(chunks) >= MaxChunks
    /\ \E end \in ChunkEnds : ~AllBlank(cursor, end)
    /\ cutting' = "failed"
    /\ UNCHANGED <<doc, region, cursor, chunks, kept>>

AbortCutting ==
    /\ cutting = "cutting"
    /\ cutting' = "aborted"
    /\ UNCHANGED <<doc, region, cursor, chunks, kept>>

\* Variant for the checks: the sample counts from the first chunk.
SampledPlaces_FromFirst(n) ==
    LET head == (Sample + 1) \div 2  rest == Sample - head
    IN  [i \in 1 .. Sample |-> IF i <= head THEN i
                               ELSE 1 + ((2 * (i - head) - 1) * n) \div (2 * rest)]

\* capDataFileChunks: the first half, and evenly spaced ones of the others.
SampledPlaces(n) ==
    LET head == (Sample + 1) \div 2  rest == Sample - head
    IN  [i \in 1 .. Sample |->
            IF i <= head THEN i
            ELSE 1 + head + ((2 * (i - head) - 1) * (n - head)) \div (2 * rest)]

SampleData ==
    /\ cutting = "cut" /\ doc.data
    /\ cutting' = "sampled"
    /\ kept' = IF Len(chunks) <= Sample THEN [i \in 1 .. Len(chunks) |-> i]
               ELSE SampledPlaces(Len(chunks))
    /\ UNCHANGED <<doc, region, cursor, chunks>>

ChunkNext == Cut \/ SkipBlank \/ TooMany \/ AbortCutting \/ SampleData

ChunkSpec == ChunkInit /\ [][ChunkNext]_chunkVars

-----------------------------------------------------------------------------
(* Properties.                                                              *)

Intact == cutting \in {"cutting", "cut"}
PassedBy(k, o) == k < region \/ o < cursor \/ cutting = "cut"

\* chunkDocument: no text falls between two chunks, whatever ends they were
\* given: all that lies behind the cursor is in a chunk.
NothingLost ==
    Intact => \A k \in 1 .. region : \A o \in doc.regions[k].from .. doc.regions[k].to - 1 :
        PassedBy(k, o) /\ o \notin doc.blanks
            => \E c \in DOMAIN chunks : chunks[c].from <= o /\ o < chunks[c].to

\* structuralSpans: in the end all text is in a chunk, but for the joints between
\* the nodes of a JSON text.
TextComplete ==
    cutting = "cut" => \A o \in 0 .. doc.length - 1 :
        o \in doc.blanks \/ o \in doc.joints
            \/ \E c \in DOMAIN chunks : chunks[c].from <= o /\ o < chunks[c].to

\* No chunk is longer than the embedding was promised, or leaves its region.
WithinSize ==
    \A c \in DOMAIN chunks :
        /\ chunks[c].from < chunks[c].to /\ chunks[c].to - chunks[c].from <= ChunkSize
        /\ chunks[c].region \in DOMAIN doc.regions
        /\ doc.regions[chunks[c].region].from <= chunks[c].from
        /\ chunks[c].to <= doc.regions[chunks[c].region].to

ChunksCover == NothingLost /\ WithinSize

\* A citation points at the text: a chunk names the pages it touches, the lines
\* of its first and last character and its own region, and a header it repeats is
\* the region that its row refers to, whole (whether that is the header of its
\* table is for the parser: HeadersBelong in Extraction).
PlacedRight ==
    \A c \in DOMAIN chunks :
        LET chunk == chunks[c]
            touched == {k \in DOMAIN doc.pages :
                           doc.pages[k].from < chunk.to /\ doc.pages[k].to > chunk.from}
            line(o) == Cardinality({b \in doc.lineBreaks : b < o}) + 1
        IN  /\ chunk.pages = {doc.pages[k].number : k \in touched}
            /\ chunk.lines = <<line(chunk.from), line(chunk.to - 1)>>
            /\ doc.located => chunk.location = {chunk.region}
            /\ \A h \in chunk.header :
                  LET own == doc.regions[doc.regions[chunk.region].header]
                      text == {o \in own.from .. own.to - 1 : o \notin doc.blanks}
                      head == chunks[h]
                  IN  \A o \in text : head.from <= o /\ o < head.to

\* capDataFileChunks: a sample of the promised size: the first half of it the
\* first chunks, and then no gap wider than an even spacing of the others.
SampleEven ==
    cutting = "sampled" =>
      LET n == Len(chunks)
          head == (Sample + 1) \div 2
          gap(i) == (IF i = Len(kept) THEN n + 1 ELSE kept[i + 1]) - kept[i]
      IN  /\ Len(kept) = IF n <= Sample THEN n ELSE Sample
          /\ \A i \in DOMAIN kept :
                /\ kept[i] \in 1 .. n /\ gap(i) >= 1
                /\ i <= head \/ n <= Sample => kept[i] = i
                /\ i >= head /\ Sample > head => gap(i) <= (n - head) \div (Sample - head) + 1

ChunksPlaced == TextComplete /\ PlacedRight /\ SampleEven

=============================================================================
