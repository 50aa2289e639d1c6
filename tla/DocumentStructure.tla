-------------------------- MODULE DocumentStructure --------------------------
(***************************************************************************)
(* How a text falls into sections, nodes and entries before it is cut into *)
(* passages (document-structure.ts).                                       *)
(*                                                                         *)
(* A text is a sequence of lines [kind, level, length, gaps]: its kind is  *)
(* "text", "blank", "atx", "setext", "fence", "entry" (a line that is      *)
(* valid JSON) or "broken"; the level is that of a heading, or the marker  *)
(* of a fence; the length counts the line break.  Offsets start at 0.      *)
(***************************************************************************)
EXTENDS Helpers

\* textLines: where a line starts; the line after the last starts at the end.
LineStart(lines, k) == SumOver(1 .. k - 1, LAMBDA l : lines[l].length)
LineEnd(lines, k) == LineStart(lines, k + 1)
LengthOf(lines) == LineEnd(lines, Len(lines))
\* Before the line break, which the last line lacks.
ContentEnd(lines, k) == LineEnd(lines, k) - IF k = Len(lines) THEN 0 ELSE 1

InOrder(lines) == [k \in DOMAIN lines |-> k]

\* markdownFenceSpans: a fence closes at the next one with its marker; the last
\* one may stay open.
FenceSpans(lines) ==
    LET step(s, k) ==
            IF lines[k].kind # "fence" THEN s
            ELSE IF s.open = None THEN [s EXCEPT !.open = k]
            ELSE IF lines[s.open].level = lines[k].level
            THEN [open |-> None,
                  spans |-> Append(s.spans, [from |-> LineStart(lines, s.open),
                                             to |-> LineEnd(lines, k)])]
            ELSE s
        end == FoldLeft(step, [open |-> None, spans |-> <<>>], InOrder(lines))
    IN  IF end.open = None THEN end.spans
        ELSE Append(end.spans, [from |-> LineStart(lines, end.open), to |-> LengthOf(lines)])

\* The headings outside of fences; a setext one starts at the line above it.
Headings(lines) ==
    LET step(s, k) ==
            CASE lines[k].kind = "fence" ->
                   [s EXCEPT !.marker = IF @ = None THEN lines[k].level
                                        ELSE IF @ = lines[k].level THEN None ELSE @]
              [] lines[k].kind = "atx" /\ s.marker = None ->
                   [s EXCEPT !.found = Append(@, [line |-> k, level |-> lines[k].level])]
              [] /\ lines[k].kind = "setext" /\ s.marker = None
                 /\ k > 1 /\ lines[k - 1].kind # "blank" ->
                   [s EXCEPT !.found = Append(@, [line |-> k - 1, level |-> lines[k].level])]
              [] OTHER -> s
    IN  FoldLeft(step, [marker |-> None, found |-> <<>>], InOrder(lines)).found

\* The hierarchy array, by level: a heading cuts it at its own level.
Hierarchy(headings) ==
    LET set(levels, k) ==
            [l \in {j \in DOMAIN levels : j < headings[k].level} \cup {headings[k].level} |->
                IF l = headings[k].level THEN k ELSE levels[l]]
    IN  [k \in DOMAIN headings |-> FoldLeft(set, << >>, [j \in 1 .. k |-> j])]

\* The context path of a heading: the headings it stands under, and itself.
ContextPath(headings, k) ==
    LET levels == Hierarchy(headings)[k]
    IN  {levels[l] : l \in DOMAIN levels}

Region(from, to, context) == [from |-> from, to |-> to, context |-> context, header |-> None]

\* markdownSectionSpans: one section for each heading, and what comes before.
MarkdownSections(lines) ==
    LET headings == Headings(lines)
        start(k) == LineStart(lines, headings[k].line)
        section(k) ==
            Region(start(k), IF k = Len(headings) THEN LengthOf(lines) ELSE start(k + 1),
                   ContextPath(headings, k))
        opening == IF headings # <<>> /\ start(1) > 0 THEN <<Region(0, start(1), {})>> ELSE <<>>
    IN  SelectSeq(opening \o [k \in DOMAIN headings |-> section(k)],
                  LAMBDA r : r.to > r.from)

\* jsonlEntrySpans: entries in groups that fit a chunk; nothing when a line is
\* not JSON.
EntryGroups(lines, chunkSize) ==
    LET step(groups, k) ==
            IF lines[k].kind = "blank" THEN groups
            ELSE IF groups # <<>> /\ ContentEnd(lines, k) - Last(groups).from <= chunkSize
            THEN [groups EXCEPT ![Len(groups)].to = ContentEnd(lines, k),
                                ![Len(groups)].context = @ \cup {k}]
            ELSE Append(groups, Region(LineStart(lines, k), ContentEnd(lines, k), {k}))
    IN  IF \E k \in DOMAIN lines : lines[k].kind \notin {"entry", "blank"} THEN <<>>
        ELSE FoldLeft(step, <<>>, InOrder(lines))

\* selectJsonNodes: whole nodes that fit, else their children.  A tree maps each
\* node to [from, to, parent, kids]; a kid that is a member starts at its key.
SelectNodes(tree, chunkSize) ==
    LET select[n \in DOMAIN tree] ==
            IF tree[n].to - tree[n].from <= chunkSize \/ tree[n].kids = <<>> THEN <<n>>
            ELSE FlattenSeq([k \in DOMAIN tree[n].kids |-> select[tree[n].kids[k]]])
    IN  select[1]

\* groupJsonNodes: neighbours under one parent, while they fit together.
NodeGroups(tree, chunkSize) ==
    LET step(groups, n) ==
            IF /\ groups # <<>> /\ Last(groups).parent = tree[n].parent
               /\ tree[n].to - Last(groups).from <= chunkSize
            THEN [groups EXCEPT ![Len(groups)].to = tree[n].to,
                                ![Len(groups)].context = {tree[n].parent}]
            ELSE Append(groups, [from |-> tree[n].from, to |-> tree[n].to, context |-> {n},
                                 header |-> None, parent |-> tree[n].parent])
    IN  FoldLeft(step, <<>>, SelectNodes(tree, chunkSize))

=============================================================================
