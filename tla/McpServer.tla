----------------------------- MODULE McpServer -----------------------------
(***************************************************************************)
(* The MCP server of one connection (mcp.ts, mcp-scope.ts): calls that run   *)
(* side by side, the client they share and that is replaced when the        *)
(* configuration changes, the passages the session has seen, the workspace  *)
(* of the agent, and the ingestion that a search may start.                 *)
(***************************************************************************)
EXTENDS McpOutput

CONSTANTS
    McpCalls,        \* 1 .. n
    McpRequests,     \* what a call may ask
    McpConfigs,      \* the configurations the file has, one after the other
    Ranked,          \* [questions -> sequences of passages]
    Question,        \* [questions -> Nat]: the size of a question
    Window,          \* [passages -> sequences of passages]: the window of an expansion
    Workspaces,      \* the workspaces of the agent, one after the other: "own" or "foreign"
    MaxChanges,      \* bound on the changes of the world: of configuration, workspace and texts
    McpEvents        \* what else may happen: "abort", "ioError", "rootsFail", "reordered"

ASSUME McpAssumption ==
    /\ McpEvents \subseteq {"abort", "ioError", "rootsFail", "reordered"}
    /\ \A w \in DOMAIN Workspaces : Workspaces[w] \in {"own", "foreign"}

VARIABLES
    settings,  \* the number of the present configuration
    calls,     \* the calls and their answers
    clients,   \* the promises of clients: previous ones are closed first
    current,   \* clientPromise: its number, or 0
    memory,    \* McpSessionMemory
    passages,  \* [passages -> the version of their text, or None]
    auto,      \* the ingestion that a search may start
    scope,     \* what is known of the workspace: roots are numbered, and 0 when there are none
    server,    \* "open", "stopping", "closing" or "closed"
    received,  \* (history) the passages and versions whose text was sent
    windows    \* (history) the passages in the windows of the expansions, sent or trimmed

mcpVars == <<settings, calls, clients, current, memory, passages, auto, scope, server, received, windows>>

NoCall == [phase |-> "none", request |-> None, config |-> None, since |-> 0, refresh |-> 0, judged |-> 0,
           client |-> 0, extra |-> 0, lists |-> <<>>, answer |-> {}]

McpInit ==
    /\ settings = 1
    /\ calls = [c \in McpCalls |-> NoCall]
    /\ clients = <<>> /\ current = 0
    /\ memory = {} /\ received = {} /\ windows = {}
    /\ passages = [p \in DOMAIN WeightOf |-> 1]
    /\ auto = [running |-> FALSE, recent |-> FALSE]
    /\ \E known \in {0, 1}, lists \in BOOLEAN :
          scope = [announced |-> 1, known |-> known, lists |-> lists,
                   asked |-> IF lists THEN {1} ELSE {}, listed |-> {}]
    /\ server = "open"

\* What remains of a call that was refused or has failed.
Ends(c, phase) == calls' = [calls EXCEPT ![c] = [NoCall EXCEPT !.phase = phase]]
Changes == settings + scope.announced - 2
           + Cardinality({p \in DOMAIN passages : passages[p] # 1})
OnlyCalls == UNCHANGED <<settings, clients, current, memory, passages, auto, scope, server, received, windows>>

-----------------------------------------------------------------------------
(* Workspace (WorkspaceScope).                                              *)

\* At first the roots are those of the environment, or none.  A server whose agent lists its roots
\* asks for them at once, and again when the agent moves on (refresh).
RootsChanged ==
    /\ scope.announced < Len(Workspaces) /\ Changes < MaxChanges
    /\ scope' = [scope EXCEPT !.announced = @ + 1,
                              !.asked = @ \cup IF scope.lists THEN {scope.announced + 1} ELSE {}]
    /\ UNCHANGED <<settings, calls, clients, current, memory, passages, auto, server, received, windows>>

\* An answer has the roots of some moment since the question; requests are
\* answered in their order, unless the agent answers them side by side.  One that fails, or
\* has no roots, leaves what is known.
RootsListed(r) ==
    /\ r \in scope.asked
    /\ \/ "reordered" \in McpEvents
       \/ \A q \in scope.asked : r <= q
    /\ \/ \E roots \in (IF "reordered" \in McpEvents THEN r ELSE Most(r, scope.known)) .. scope.announced :
             scope' = [scope EXCEPT !.asked = @ \ {r}, !.known = roots, !.listed = @ \cup {r}]
       \/ "rootsFail" \in McpEvents /\ scope' = [scope EXCEPT !.asked = @ \ {r}]
    /\ UNCHANGED <<settings, calls, clients, current, memory, passages, auto, server, received, windows>>

\* Without any roots the relation is unknown, and the call is allowed.
Relation(roots) ==
    IF roots = 0 THEN "unknown" ELSE IF Workspaces[roots] = "own" THEN "related" ELSE "unrelated"
Allowed(config) == Relation(scope.known) # "unrelated" \/ ~config.enforced

\* The listing that a verdict awaits: the last one that was begun.
Pending == IF scope.lists THEN scope.announced ELSE 0

-----------------------------------------------------------------------------
(* Calls up to their client.                                                *)

BeginCall(c) ==
    /\ calls[c].phase = "none" /\ server = "open"
    /\ c > 1 => calls[c - 1].phase # "none"  \* calls are numbered as they come
    /\ \E request \in McpRequests :
          calls' = [calls EXCEPT ![c] =
            [NoCall EXCEPT !.phase = "asked", !.request = request, !.config = settings,
                           !.since = scope.known, !.refresh = Pending]]
    /\ OnlyCalls

\* getClient: the client of the same configuration, or a new one that first
\* closes the previous one.
NewClient(config) == [config |-> config, previous |-> current, state |-> "waiting"]

GetClient(c) ==
    LET config == calls[c].config
        extra == IF McpConfigs[config].seen = "include" \/ calls[c].request.tool # "search" THEN 0
                 ELSE Least(Cardinality(memory), calls[c].request.topK)
        same == current # 0 /\ clients[current].config = config
        promise == IF same THEN current ELSE Len(clients) + 1
    IN  IF server \in {"closing", "closed"}
        THEN Ends(c, "failed") /\ UNCHANGED <<clients, current>>
        ELSE /\ calls' = [calls EXCEPT ![c].phase = "waiting", ![c].extra = extra, ![c].client = promise,
                                     ![c].judged = scope.known]
             /\ clients' = IF same THEN clients ELSE Append(clients, NewClient(config))
             /\ current' = promise

\* Variant for the checks: a verdict goes by what is known when it is asked for.
Awaited_Never(c) == TRUE

\* verdict, for which the listing that was begun last is awaited.
Awaited(c) == calls[c].refresh \notin scope.asked

Admit(c) ==
    /\ calls[c].phase = "asked" /\ Awaited(c)
    /\ IF calls[c].request.tool # "status" /\ ~Allowed(McpConfigs[calls[c].config])
       THEN Ends(c, "refused") /\ UNCHANGED <<clients, current>>
       ELSE GetClient(c)
    /\ UNCHANGED <<settings, memory, passages, auto, scope, server, received, windows>>

ReachClient(c) ==
    /\ calls[c].phase = "waiting"
    /\ \/ clients[calls[c].client].state = "open" /\ calls' = [calls EXCEPT ![c].phase = "searching"]
       \/ clients[calls[c].client].state \in {"closing", "closed", "failed"} /\ Ends(c, "failed")
    /\ OnlyCalls

-----------------------------------------------------------------------------
(* Answers.                                                                 *)

\* One question of a call is answered, by the index of the moment.
Retrieve(c) ==
    /\ calls[c].phase = "searching" /\ calls[c].request.tool = "search"
    /\ LET call == calls[c]
           questions == call.request.questions
           list == SelectSeq(Ranked[questions[Len(call.lists) + 1]], LAMBDA p : passages[p] # None)
       IN  /\ Len(call.lists) < Len(questions)
           /\ calls' = [calls EXCEPT ![c].lists =
                 Append(@, [k \in DOMAIN Take(list, call.request.topK + call.extra) |->
                              Item(list[k], passages[list[k]], "found")])]
    /\ OnlyCalls

Chosen(call) == Grouped(call.lists, memory, McpConfigs[call.config].seen, call.request.topK)
SizesOf(request) == [k \in DOMAIN request.questions |-> Question[request.questions[k]]]

\* The items of a search's answer; None when even the questions are too large.
Answered(call) ==
    LET groups == Chosen(call)
        compact == call.request.compact
        presented == [k \in DOMAIN groups |-> Presented(groups[k], IF compact THEN "snippet" ELSE "full")]
        fitted == FitSearchGroups(presented, SizesOf(call.request), call.request.budget)
    IN  IF Len(groups) = 1
        THEN ToSet(FitSearchPayload(Preferred(groups[1], compact, call.request.budget), call.request.budget))
        ELSE IF GroupBytes(fitted, SizesOf(call.request)) > call.request.budget THEN None
        ELSE UNION {ToSet(group) : group \in ToSet(fitted)}

Sent(items) == received \cup {<<i.passage, i.version>> : i \in {i \in items : Telling(i)}}

\* Variant for the checks: everything that was chosen counts as seen.
Remembered_AllChosen(call, items) ==
    memory \cup UNION {{i.passage : i \in {i \in ToSet(g) : i.form # "stub"}} : g \in ToSet(Chosen(call))}

\* Only passages that reached the agent count as seen.
Remembered(call, items) == memory \cup {i.passage : i \in {i \in items : Telling(i)}}

AutoIngest(call) ==
    IF McpConfigs[call.config].autoIngest /\ ~auto.running /\ ~auto.recent /\ server = "open"
    THEN [running |-> TRUE, recent |-> TRUE] ELSE auto

AnswerSearch(c) ==
    LET call == calls[c] IN
    /\ call.phase = "searching" /\ call.request.tool = "search"
    /\ Len(call.lists) = Len(call.request.questions)
    /\ \E items \in {Answered(call)} :
          IF items = None
          THEN Ends(c, "failed") /\ UNCHANGED <<memory, received, auto>>
          ELSE /\ calls' = [calls EXCEPT ![c].phase = "answered", ![c].answer = items]
               /\ memory' = Remembered(call, items)
               /\ received' = Sent(items)
               /\ auto' \in {auto, AutoIngest(call)}  \* whether a source has changed
    /\ UNCHANGED <<settings, clients, current, passages, scope, server, windows>>

\* expandCitation with the window around the passage, all of which counts as
\* seen before it is cut down to the budget.
AnswerExpand(c) ==
    LET call == calls[c]
        wanted == call.request.passage
        window == SelectSeq(Window[wanted], LAMBDA p : passages[p] # None)
        found == [k \in DOMAIN window |-> Item(window[k], passages[window[k]], "found")]
        names == {wanted} \cup IF passages[wanted] = None THEN {} ELSE ToSet(window)
        items == IF passages[wanted] = None THEN {}
                 ELSE ToSet(FitExpandedCitation(found, CHOOSE k \in DOMAIN window : window[k] = wanted,
                                                call.request.budget))
    IN
    /\ call.phase = "searching" /\ call.request.tool = "expand"
    /\ IF call.request.expected \notin {None, passages[wanted]} /\ passages[wanted] # None
       THEN Ends(c, "failed") /\ UNCHANGED <<memory, received, windows>>
       ELSE /\ calls' = [calls EXCEPT ![c].phase = "answered", ![c].answer = items]
            /\ memory' = memory \cup names
            /\ received' = Sent(items)
            /\ windows' = windows \cup names
    /\ UNCHANGED <<settings, clients, current, passages, auto, scope, server>>

AnswerStatus(c) ==
    /\ calls[c].phase = "searching" /\ calls[c].request.tool = "status"
    /\ calls' = [calls EXCEPT ![c].phase = "answered"]
    /\ OnlyCalls

\* An abort, or an error of the index.
CallFails(c) ==
    /\ "abort" \in McpEvents
    /\ calls[c].phase \in {"asked", "waiting", "searching"}
    /\ Ends(c, "failed")
    /\ OnlyCalls

-----------------------------------------------------------------------------
(* The client and the end of the server.                                    *)

InUse(p) == \E c \in McpCalls : calls[c].client = p /\ calls[c].phase = "searching"
Becomes(p, state) == clients' = [clients EXCEPT ![p].state = state]
OnlyClients == UNCHANGED <<settings, calls, memory, passages, auto, scope, received, windows>>

\* Variant for the checks: a new client does not wait for the previous one.
PreviousGone_Unawaited(p) == TRUE

PreviousGone(p) == clients[p].previous # 0 => clients[clients[p].previous].state \in {"closed", "failed"}

\* What a new promise does with the client before it.
Replace(p) ==
    /\ p \in DOMAIN clients /\ clients[p].state = "waiting"
    /\ \/ /\ PreviousGone(p)
          /\ IF server \in {"closing", "closed"}
             THEN Becomes(p, "failed") /\ current' = IF current = p THEN 0 ELSE current
             ELSE Becomes(p, "creating") /\ UNCHANGED current
       \/ /\ clients[p].previous # 0 /\ clients[clients[p].previous].state = "open"
          /\ Becomes(clients[p].previous, "closing") /\ UNCHANGED current
    /\ UNCHANGED server
    /\ OnlyClients

Created(p) ==
    /\ p \in DOMAIN clients /\ clients[p].state = "creating"
    /\ \/ Becomes(p, "open") /\ UNCHANGED current
       \/ /\ "ioError" \in McpEvents
          /\ Becomes(p, "failed") /\ current' = IF current = p THEN 0 ELSE current
    /\ UNCHANGED server
    /\ OnlyClients

\* RagmirClient.close waits for its operations.
ClientCloses(p) ==
    /\ p \in DOMAIN clients /\ clients[p].state = "closing" /\ ~InUse(p)
    /\ Becomes(p, "closed")
    /\ UNCHANGED <<current, server>>
    /\ OnlyClients

\* The connection ends: the ingestion is aborted, and then the client closed.
Stop == server = "open" /\ server' = "stopping" /\ UNCHANGED <<clients, current>> /\ OnlyClients

CloseClients ==
    /\ server = "stopping" /\ ~auto.running
    /\ server' = "closing"
    /\ UNCHANGED <<clients, current>>
    /\ OnlyClients

\* What close() waits for; current changes no more, but by a failure.
CloseLast ==
    /\ server = "closing"
    /\ IF current # 0 /\ clients[current].state = "open"
       THEN Becomes(current, "closing") /\ UNCHANGED server
       ELSE /\ current # 0 => clients[current].state \in {"closed", "failed"}
            /\ server' = "closed" /\ UNCHANGED clients
    /\ UNCHANGED current
    /\ OnlyClients

-----------------------------------------------------------------------------
(* The world.                                                               *)

EditConfig ==
    /\ settings < Len(McpConfigs) /\ Changes < MaxChanges
    /\ settings' = settings + 1
    /\ UNCHANGED <<calls, clients, current, memory, passages, auto, scope, server, received, windows>>

\* Another process, or the ingestion of a search, has changed the index.
Reindex(p) ==
    /\ passages[p] = 1 /\ Changes < MaxChanges
    /\ \E version \in {None, 2} : passages' = [passages EXCEPT ![p] = version]
    /\ UNCHANGED <<settings, calls, clients, current, memory, auto, scope, server, received, windows>>

AutoIngestEnds ==
    /\ auto.running /\ auto' = [auto EXCEPT !.running = FALSE]
    /\ UNCHANGED <<settings, calls, clients, current, memory, passages, scope, server, received, windows>>

MinutePasses ==
    /\ auto.recent /\ auto' = [auto EXCEPT !.recent = FALSE]
    /\ UNCHANGED <<settings, calls, clients, current, memory, passages, scope, server, received, windows>>

McpNext ==
    \/ RootsChanged \/ (\E r \in scope.asked : RootsListed(r))
    \/ \E c \in McpCalls :
          BeginCall(c) \/ Admit(c) \/ ReachClient(c) \/ Retrieve(c)
          \/ AnswerSearch(c) \/ AnswerExpand(c) \/ AnswerStatus(c) \/ CallFails(c)
    \/ \E p \in DOMAIN clients : Replace(p) \/ Created(p) \/ ClientCloses(p)
    \/ Stop \/ CloseClients \/ CloseLast
    \/ EditConfig \/ (\E p \in DOMAIN passages : Reindex(p)) \/ AutoIngestEnds \/ MinutePasses

McpSpec == McpInit /\ [][McpNext]_mcpVars

-----------------------------------------------------------------------------
(* Properties.                                                              *)

\* createMcpClientLifecycle: one client at a time, calls run on the client of
\* the configuration they have read, and a closed server has nothing open.
ClientsSound ==
    /\ \A p, q \in DOMAIN clients :
          {clients[p].state, clients[q].state} \subseteq {"creating", "open", "closing"} => p = q
    /\ \A c \in McpCalls : calls[c].phase = "searching" =>
          /\ clients[calls[c].client].state \in {"open", "closing"}
          /\ clients[calls[c].client].config = calls[c].config
    /\ server = "closed" =>
          /\ ~auto.running
          /\ \A p \in DOMAIN clients : clients[p].state \in {"closed", "failed"}

\* What the agent was told, and what was in the window of an expansion: of that, the budget may
\* have dropped passages, which are remembered all the same (MemoryReached).
Told == {r[1] : r \in received} \cup windows

\* McpSessionMemory: what counts as seen was sent by a search, whatever calls were trimmed or
\* failed, or was in the window of an expansion that was answered.
MemoryTrue == memory \subseteq Told

\* "Only passages that reached the agent count as seen; budget trimming may drop some." (mcp.ts:551)
MemoryReached == memory \subseteq {r[1] : r \in received}

\* WorkspaceScope.verdict: with mcpAllowedRoots, a call that is admitted was judged by roots that
\* are related, or by none; and never by older ones than those known when it began, nor than those
\* of the listing that it had to await, if that brought any.  So it is admitted without roots only
\* while the agent has never shared them, or could not.
ScopeKept ==
    \A c \in McpCalls :
        calls[c].phase \in {"waiting", "searching", "answered"} =>
          LET call == calls[c] IN
          /\ call.since <= call.judged
          /\ call.refresh \in scope.listed => call.refresh <= call.judged
          /\ call.request.tool # "status" /\ McpConfigs[call.config].enforced
                => Relation(call.judged) # "unrelated"

McpSound == ClientsSound /\ MemoryTrue /\ ScopeKept

\* applySeenResults: a stub stands for a passage that the agent was told, or for one
\* that the same batch has found twice.
StubsExplained ==
    \A c \in McpCalls : \A i \in calls[c].answer :
        i.form = "stub" =>
           \/ i.passage \in Told
           \/ \E j, k \in DOMAIN calls[c].lists :
                 /\ j < k
                 /\ i.passage \in {r.passage : r \in ToSet(calls[c].lists[j])}
                                   \cap {r.passage : r \in ToSet(calls[c].lists[k])}

\* docs/agent-integration.md: "Within one MCP session, passages already
\* returned come back as short seen stubs": a stub stands for a text that the
\* agent has, in this version.
StubsKnown ==
    \A c \in McpCalls : \A i \in calls[c].answer :
        i.form = "stub" => <<i.passage, i.version>> \in received

=============================================================================
