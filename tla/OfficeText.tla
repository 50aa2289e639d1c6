----------------------------- MODULE OfficeText -----------------------------
(***************************************************************************)
(* The regions of archived documents (parsing.ts): slides, spreadsheets    *)
(* and books.  A text is its length, a part of an archive its number.      *)
(***************************************************************************)
EXTENDS Helpers

Part(length, place, header) == [length |-> length, place |-> place, header |-> header]

\* joinLocatedParts: parts without text leave no region; a blank line between
\* the others.
JoinLocatedParts(parts) ==
    LET join(regions, part) ==
          LET from == IF regions = <<>> THEN 0 ELSE Last(regions).to + 2
          IN  IF part.length = 0 THEN regions
              ELSE Append(regions, [from |-> from, to |-> from + part.length,
                                    place |-> part.place, header |-> part.header])
    IN  FoldLeft(join, <<>>, parts)

-----------------------------------------------------------------------------
(* Slides.  A deck has the lengths of its slides by number, the slide whose *)
(* notes file each slide refers to, and the slides as they are presented,   *)
(* or None.                                                                 *)

\* numberedOfficeParts: only those with text.
NumberedSlides(deck) == Ascending({n \in DOMAIN deck.slides : deck.slides[n] > 0})

\* Variant for the checks: a slide that is presented twice is read twice.
OrderedSlides_Repeated(deck) ==
    LET natural == NumberedSlides(deck)
        presented == SelectSeq(deck.order, LAMBDA n : n \in ToSet(natural))
    IN  IF deck.order = None \/ presented = <<>> THEN natural ELSE AppendNew(presented, natural)

\* orderedPresentationSlides
OrderedSlides(deck) ==
    LET natural == NumberedSlides(deck)
        presented == SelectSeq(deck.order, LAMBDA n : n \in ToSet(natural))
        ordered == AppendNew(<<>>, SelectSeq([k \in DOMAIN presented |-> k],
                      LAMBDA k : \A l \in 1 .. k - 1 : presented[l] # presented[k]))
        first == [k \in DOMAIN ordered |-> presented[ordered[k]]]
    IN  IF deck.order = None \/ presented = <<>> THEN natural ELSE AppendNew(first, natural)

\* presentationSlideNotes, else the notes of the same number.
NotesOf(deck, n) ==
    IF deck.notesOf[n] # None THEN deck.notes[deck.notesOf[n]] ELSE deck.notes[n]

\* parsePptx: a slide is numbered by its place among those with text.
DeckRegions(deck) ==
    LET slides == OrderedSlides(deck)
        length(n) == deck.slides[n] + (IF NotesOf(deck, n) > 0 THEN 2 + NotesOf(deck, n) ELSE 0)
    IN  JoinLocatedParts([k \in DOMAIN slides |->
            Part(length(slides[k]), [slide |-> slides[k], start |-> k], None)])

-----------------------------------------------------------------------------
(* Books: the lengths of the entries in natural order, and the spine.       *)

\* epubReadingOrder: entries that the spine leaves out are not read.
ReadingOrder(book) ==
    LET there == SelectSeq(book.spine, LAMBDA e : e \in DOMAIN book.entries)
        firsts == SelectSeq([k \in DOMAIN there |-> k],
                     LAMBDA k : \A l \in 1 .. k - 1 : there[l] # there[k])
    IN  IF book.spine = None \/ there = <<>> THEN [e \in DOMAIN book.entries |-> e]
        ELSE [k \in DOMAIN firsts |-> there[firsts[k]]]

\* parseEpub
BookRegions(book) ==
    LET order == ReadingOrder(book)
    IN  JoinLocatedParts([k \in DOMAIN order |->
            Part(book.entries[order[k]], [entry |-> order[k], start |-> k], None)])

-----------------------------------------------------------------------------
(* Spreadsheets: sheets of rows.  A row is "empty"; "blank" or "blanks",     *)
(* with white space alone in one cell or in several; "texts", two or more   *)
(* cells, all text; or "data".                                              *)

RowLength(row, first) == (IF row \in {"blank", "blanks"} THEN 0 ELSE 3) + IF first THEN 2 ELSE 0

\* parseXlsx: the first row of texts is the header of those behind it, up to an
\* empty row.  Cells of white space are texts, too.  It is referred to by its place
\* among the parts.
SheetParts(sheets) ==
    LET place(s, r) == [sheet |-> s, row |-> r]
        first(s, r) == \A q \in 1 .. r - 1 : sheets[s][q] = "empty"
        next(state, s, r) ==
          IF sheets[s][r] = "empty" THEN [state EXCEPT !.header = None]
          ELSE LET parts == Append(state.parts,
                               Part(RowLength(sheets[s][r], first(s, r)), place(s, r), state.header))
               IN  [parts |-> parts,
                    header |-> IF state.header = None /\ sheets[s][r] \in {"texts", "blanks"} THEN Len(parts)
                               ELSE state.header]
        rows(state, s) ==
          FoldLeft(LAMBDA st, r : next(st, s, r), [state EXCEPT !.header = None],
                   [r \in DOMAIN sheets[s] |-> r])
    IN  FoldLeft(rows, [parts |-> <<>>, header |-> None], [s \in DOMAIN sheets |-> s]).parts

SheetRegions(sheets) == JoinLocatedParts(SheetParts(sheets))

-----------------------------------------------------------------------------
(* Limits of an archive: entries of text and their sizes.                   *)

\* includeOfficeTextEntry and assertOfficeArchiveLimits: an entry that is too
\* large is not counted, but rejects the archive all the same.
ArchiveAccepted(sizes, maxEntry, maxCount, maxTotal) ==
    LET fits == SelectSeq(sizes, LAMBDA size : size <= maxEntry)
        total(n) == SumOver(1 .. n, LAMBDA k : fits[k])
    IN  /\ Len(fits) = Len(sizes)
        /\ \A n \in DOMAIN fits : n <= maxCount /\ total(n) <= maxTotal

=============================================================================
