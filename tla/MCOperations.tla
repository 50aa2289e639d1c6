---------------------------- MODULE MCOperations ----------------------------
(* The operations of the program that share no state: a search, the cutting of *)
(* a document, inventories of the sources, the server of an agent.  Each is    *)
(* followed in behaviours of its own, with the safety properties of them all.  *)
EXTENDS Search, Chunking, DocumentStructure, OfficeText, Discovery, McpServer

CONSTANTS d1, d2, d3, w1, w2, w3, w4, the,         \* searches
          nfc, nfd, tool, conf, dep, x, y, big, r1, r2,  \* inventories
          p1, p2, p3, q1, q2                    \* the agent

VARIABLE doing

-----------------------------------------------------------------------------
(* Three documents, in a generation indexed with a model and in one with     *)
(* hashed vectors; d2 is a translation of d1.                                 *)

RowAt(path, chunk, text, from, words, names, distance, header, prior) ==
    [path |-> path, chunk |-> chunk, text |-> text, lines |-> chunk, from |-> from, to |-> from + 10,
     words |-> words, names |-> names, distance |-> distance, header |-> header,
     checksum |-> path, prior |-> prior]
MCCorpus ==
    <<<<RowAt(d1, 0, 1, 0, {w1, w2}, {w1}, 9, None, 20),
        RowAt(d1, 1, 2, 8, {w1}, {}, 3, 0, 20),
        RowAt(d1, 2, 3, 20, {w2}, {}, 2, 0, 20),
        RowAt(d2, 0, 1, 0, {w1, w2}, {}, 9, None, 20),
        RowAt(d3, 0, 5, 0, {w3}, {w3}, 8, None, 17),
        RowAt(d3, 1, 6, 10, {w1, w3}, {}, 5, None, 17),
        RowAt(d3, 2, 7, 20, {the}, {}, 9, None, 17)>>,
      <<RowAt(d1, 0, 1, 0, {w1, w2}, {w1}, 3, None, 20),
        RowAt(d1, 1, 8, 8, {w2}, {}, 4, 0, 20),
        RowAt(d1, 2, 3, 20, {w2, w3}, {}, 6, 0, 20),
        RowAt(d3, 0, 5, 0, {w3}, {w3}, 8, None, 17),
        RowAt(d3, 1, 6, 10, {w1, w3}, {}, 5, None, 17)>>>>
Hash == [semantic |-> FALSE, vectorWeight |-> 1, lexicalWeight |-> 20, maximum |-> None, strong |-> None,
         free |-> None, minimum |-> 0, weak |-> 30, lexicalOnly |-> 30, absent |-> 50]
Model == [semantic |-> TRUE, vectorWeight |-> 20, lexicalWeight |-> 20, maximum |-> 5, strong |-> 4,
          free |-> 3, minimum |-> 30, weak |-> 30, lexicalOnly |-> 50, absent |-> 100]
GoodIndex == [table |-> TRUE, manifest |-> "current", folded |-> TRUE, unindexed |-> FALSE, fts |-> TRUE,
              floor |-> None, noise |-> 4, policy |-> Model]
MCIndexOf == <<GoodIndex, [GoodIndex EXCEPT !.noise = None, !.policy = Hash]>>
Query(words, ids, rare, topK, cap) ==
    [words |-> words, ids |-> ids, rare |-> rare,
     like |-> [w \in {w1, w2, w3, w4, the} |-> IF w = w4 THEN {w2} ELSE {}],
     named |-> {}, exact |-> None, topK |-> topK, cap |-> cap, profile |-> "fast", radius |-> 0,
     includes |-> {}, excludes |-> {}, scope |-> None, collapse |-> FALSE]
MCRequests == <<
    [Query({w4, the}, {}, <<w4>>, 2, 1) EXCEPT !.radius = 1],
    [Query({w1, w2}, {}, <<>>, 3, 1) EXCEPT !.includes = {{d1, d2}, {}}, !.collapse = TRUE],
    Query({w1}, {w1}, <<>>, 1, 2),
    [Query({w1}, {}, <<>>, 2, 1) EXCEPT !.excludes = {d2}, !.named = {d3}, !.exact = d3, !.radius = 1],
    Query({w1}, {}, <<>>, 0, 2)>>
MCPaths == {d1, d2, d3}
MCRank == [p \in MCPaths |-> IF p = d2 THEN 1 ELSE 0]
MCLocale == [p \in MCPaths |-> IF p = d2 THEN d1 ELSE p]

-----------------------------------------------------------------------------
(* All Markdown, paged and JSONL texts of up to four lines, tables, and a    *)
(* JSON text.                                                                *)

Line(kind, level, length, gaps) == [kind |-> kind, level |-> level, length |-> length, gaps |-> gaps]
Prose == Line("text", 0, 7, {2})
Word == Line("text", 0, 4, {})
Empty == Line("blank", 0, 1, {})
Title == Line("atx", 1, 3, {})
Sub == Line("atx", 2, 3, {})
Under == Line("setext", 1, 3, {})
Fence == Line("fence", 1, 2, {})
Entry == Line("entry", 0, 4, {})

Breaks(lines) == {LineEnd(lines, k) - 1 : k \in 1 .. Len(lines) - 1}
GapsOf(lines) == UNION {{LineStart(lines, k) + g : g \in lines[k].gaps} : k \in DOMAIN lines}
Doc(lines, regions, fences, pages, data) ==
    [length |-> LengthOf(lines),
     blanks |-> Breaks(lines) \cup GapsOf(lines)
                \cup {LineStart(lines, k) : k \in {k \in DOMAIN lines : lines[k].kind = "blank"}},
     regions |-> IF regions = <<>> THEN <<Region(0, LengthOf(lines), {})>> ELSE regions, fences |-> fences,
     paragraphs |-> {n \in Breaks(lines) : n + 1 \in Breaks(lines)},
     sentences |-> GapsOf(lines), spaces |-> GapsOf(lines),
     lineBreaks |-> Breaks(lines), lineStarts |-> {0} \cup {n + 1 : n \in Breaks(lines)},
     pages |-> pages, located |-> FALSE, data |-> data, joints |-> {}]
Texts(S, n) == UNION {[1 .. k -> S] : k \in 1 .. n}
Page(from, to, n) == [from |-> from, to |-> to, number |-> n]
Markdown == {Doc(l, MarkdownSections(l), ToSet(FenceSpans(l)), <<>>, FALSE) :
                l \in Texts({Prose, Empty, Title, Under, Fence}, 4)}
Paged == {Doc(l, <<>>, {}, <<Page(0, 3, 1), Page(5, 5, 2), Page(6, 12, 3), Page(13, 40, 4)>>, FALSE) :
                l \in Texts({Prose, Empty, Word}, 4)}
Jsonl == {Doc(l, EntryGroups(l, ChunkSize), {}, <<>>, TRUE) : l \in Texts({Entry, Empty, Prose}, 4)}
Table(sheets) ==
    LET rows == SheetRegions(sheets)
        gaps == UNION {{rows[k].to, rows[k].to + 1} : k \in 1 .. Len(rows) - 1}
    IN  [length |-> Last(rows).to, blanks |-> gaps, fences |-> {}, paragraphs |-> {g + 1 : g \in gaps},
         sentences |-> {}, spaces |-> gaps, lineBreaks |-> gaps, lineStarts |-> {0} \cup {g + 1 : g \in gaps},
         regions |-> [k \in DOMAIN rows |-> [from |-> rows[k].from, to |-> rows[k].to,
                                             context |-> {rows[k].place.sheet}, header |-> rows[k].header]],
         pages |-> <<>>, located |-> TRUE, data |-> TRUE, joints |-> {}]
Tables == {Table(s) : s \in {<<<<"texts", "data", "empty", "texts", "data">>>>,
                             <<<<"data", "blank", "texts", "data", "data">>>>,
                             <<<<"data", "blanks", "data", "data", "data">>>>}}
\* {"a":[12,34,56],"b":7890123456}
Node(from, to, parent, kids) == [from |-> from, to |-> to, parent |-> parent, kids |-> kids]
Tree == <<Node(0, 31, 0, <<2, 3>>), Node(1, 15, 1, <<4, 5, 6>>), Node(16, 30, 1, <<>>),
          Node(6, 8, 2, <<>>), Node(9, 11, 2, <<>>), Node(12, 14, 2, <<>>)>>
Json == {[Doc(<<Line("text", 0, 31, {})>>, NodeGroups(Tree, ChunkSize), {}, <<>>, TRUE)
            EXCEPT !.joints = {0, 1, 2, 3, 4, 5, 8, 11, 14, 15, 30}]}
MCDocuments == Json \cup Markdown \cup Paged \cup Jsonl \cup Tables

ASSUME DocumentsInOrder == \A d \in Documents : ParsedInOrder(d)

\* sectionContexts: the headings above a line are those no later one has closed.
Ancestors(h, k) == {j \in 1 .. k : \A l \in j + 1 .. k : h[j].level < h[l].level}
ASSUME HeadingsAssumption ==
    \A l \in Texts({Title, Sub, Word}, 4) :
        LET h == Headings(l) IN \A k \in DOMAIN h : ContextPath(h, k) = Ancestors(h, k)

-----------------------------------------------------------------------------
(* Two names of one citation path, a tool's file, a configuration and a      *)
(* dependency.                                                               *)

PlaceAt(key, names) ==
    [key |-> key, names |-> names, readme |-> FALSE, sensitive |-> FALSE, supported |-> TRUE]
MCPlace == nfc :> PlaceAt("a", {}) @@ nfd :> PlaceAt("a", {}) @@ tool :> PlaceAt("t", {"claude"})
           @@ conf :> PlaceAt("c", {"git"}) @@ dep :> PlaceAt("d", {})
Selects(kind, files, names) == [kind |-> kind, files |-> files, names |-> names]
Excludes(files, below) == [kind |-> "ignore", files |-> files, names |-> {}, below |-> below]
MCSettings ==
    [raw |-> Selects("path", {nfc, nfd, dep}, {}),
     sources |-> <<Selects("glob", {tool, nfc}, {}), Selects("glob", {conf}, {"claude"}),
                   Selects("path", {conf}, {"git"})>>,
     legacy |-> <<Excludes({dep}, {<<0, nfc>>})>>,
     defaults |-> TRUE, strict |-> FALSE, save |-> TRUE, concurrency |-> 2]

-----------------------------------------------------------------------------
(* Three passages of one document that two questions find in two orders.     *)

MCWeight == p1 :> 3 @@ p2 :> 2 @@ p3 :> 2
MCRanked == q1 :> <<p1, p2, p3>> @@ q2 :> <<p2, p1>>
MCQuestion == q1 :> 1 @@ q2 :> 2
MCWindow == [p \in {p1, p2, p3} |-> <<p1, p2, p3>>]
AskSearch(questions, topK, compact, budget) ==
    [tool |-> "search", questions |-> questions, topK |-> topK, compact |-> compact, budget |-> budget]
MCMcpRequests ==
    {AskSearch(<<q1, q2>>, 2, TRUE, 6), AskSearch(<<q1>>, 1, FALSE, 3),
     [tool |-> "expand", passage |-> p1, expected |-> 1, budget |-> 4], [tool |-> "status"]}
MCMcpConfigs ==
    <<[seen |-> "collapse", enforced |-> FALSE, autoIngest |-> TRUE],
      [seen |-> "exclude", enforced |-> TRUE, autoIngest |-> FALSE]>>
MCWorkspaces == <<"own", "foreign">>

Symmetry == Permutations(Inventories)

-----------------------------------------------------------------------------

\* What a search finds is in the index, and enough.
AnswersSound == ResultsSound /\ PoolSuffices

SearchIdle ==
    /\ generation = 1 /\ termCache = <<>> /\ floorCache = <<>>
    /\ find = NoSearch /\ cited = None /\ expanded = None
ChunkIdle ==
    /\ doc = CHOOSE d \in Documents : TRUE
    /\ region = 1 /\ cursor = 0 /\ chunks = <<>> /\ kept = <<>> /\ cutting = "aborted"

DiscoveryIdle == DiscoveryInit({}, x)
McpIdle == McpInit /\ scope.known = 1 /\ ~scope.lists

\* Roots of the environment that the agent lists besides are as good as its first answer.
Inits ==
    \/ doing = "search" /\ SearchInit /\ ChunkIdle /\ DiscoveryIdle /\ McpIdle
    \/ doing = "chunk" /\ SearchIdle /\ ChunkInit /\ DiscoveryIdle /\ McpIdle
    \/ doing = "inventory" /\ SearchIdle /\ ChunkIdle /\ DiscoveryInit({nfc, tool, conf}, x) /\ McpIdle
    \/ doing = "agent" /\ SearchIdle /\ ChunkIdle /\ DiscoveryIdle
          /\ McpInit /\ (scope.known = 1 => ~scope.lists)

OperationsNext ==
    /\ UNCHANGED doing
    /\ \/ doing = "search" /\ SearchNext /\ UNCHANGED <<chunkVars, discoveryVars, mcpVars>>
       \/ doing = "chunk" /\ ChunkNext /\ UNCHANGED <<searchVars, discoveryVars, mcpVars>>
       \/ doing = "inventory" /\ DiscoveryNext /\ UNCHANGED <<searchVars, chunkVars, mcpVars>>
       \/ doing = "agent" /\ McpNext /\ UNCHANGED <<searchVars, chunkVars, discoveryVars>>

operationsVars == <<doing, searchVars, chunkVars, discoveryVars, mcpVars>>
OperationsSpec == Inits /\ [][OperationsNext]_operationsVars
AgentSpec == Inits /\ doing = "agent" /\ [][OperationsNext]_operationsVars
=============================================================================
