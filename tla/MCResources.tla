---------------------------- MODULE MCResources ----------------------------
(* What the calls of a process share: the cached pipelines with the model on  *)
(* disk, and the commands of the readers.  They have no state in common, and  *)
(* each is followed in behaviours of its own.                                 *)
EXTENDS Embeddings, Extraction

CONSTANTS o1, c1, c2, p1, p2, e1, e2, e3, m1

VARIABLE watched

\* Calls, a client and pulls on the two devices of a model.
MCKeys == {[model |-> m1, device |-> "cpu"], [model |-> m1, device |-> "webgpu"]}
MCModelOf == [c \in Clients |-> m1]

\* Decks with notes and strange orders, books with and without a spine,
\* workbooks with headers, and PDFs with pages that have no text.
MCDecks ==
    {[slides |-> <<3, 0, 2>>, notes |-> <<0, 1, 2>>, notesOf |-> <<None, None, 2>>, order |-> order] :
        order \in {None, <<3, 1, 3, 2>>, <<2>>, <<1>>}}
MCBooks == {[entries |-> <<2, 0, 3>>, spine |-> spine] : spine \in {None, <<3, 1, 3, 4>>, <<4>>}}
MCWorkbooks ==
    {<<<<"texts", "data", "empty", "data", "texts", "data">>, <<"data", "texts", "data">>>>,
     <<<<"data", "blank", "texts", "data">>>>, <<<<"data", "blanks", "data", "data">>>>}
MCPdfs == {[pages |-> 3, blank |-> {1, 2, 3}], [pages |-> 3, blank |-> {1, 3}],
           [pages |-> 1, blank |-> {}], [pages |-> 4, blank |-> {1}]}

ResourcesInit == watched \in {"pipelines", "commands"} /\ EmbeddingInit /\ ExtractionInit

ResourcesNext ==
    /\ UNCHANGED watched
    /\ \/ watched = "pipelines" /\ EmbeddingNext /\ UNCHANGED extractionVars
       \/ watched = "commands" /\ ExtractionNext /\ UNCHANGED embeddingVars

ResourcesSpec ==
    /\ ResourcesInit /\ [][ResourcesNext]_<<watched, embeddingVars, extractionVars>>
    /\ EmbeddingFairness /\ ExtractionFairness

-----------------------------------------------------------------------------

\* What was begun ends: a pipeline nobody uses is disposed, a command returns or is killed.
BegunEnds == DisposalsEnd /\ CommandsEnd
=============================================================================
