----------------------------- MODULE Embeddings -----------------------------
(***************************************************************************)
(* Embedding with Transformers.js (embeddings.ts): the cache of pipelines  *)
(* of a process, the leases of the embedding calls, the clients that own a *)
(* model, and the installation of a model by a pull.                       *)
(*                                                                         *)
(* An action is what the event loop runs between two awaits.  Creations of *)
(* pipelines and the downloads of pulls change the global environment of   *)
(* the library and therefore queue for it.                                 *)
(***************************************************************************)
EXTENDS Helpers

CONSTANTS
    Calls,         \* calls of embedTexts()
    Clients,       \* RagmirClient objects, which retain their model
    Pulls,         \* calls of pullEmbeddingModel()
    Elsewhere,     \* those of another process, which come in the middle of a swap of this one
    Keys,          \* cache keys: a model and a device
    Entries,       \* TransformersPipelineEntry objects
    MaxPipelines,  \* MAX_TRANSFORMERS_PIPELINES
    Remote,        \* transformersAllowRemoteModels
    Events,        \* what else may happen: "crash", "rollback"
    ModelOf        \* the model of each client

ASSUME EmbeddingsAssumption ==
    /\ MaxPipelines \in Nat \ {0}
    /\ None \notin Entries \cup Pulls \cup Keys /\ Entries \cap Pulls = {}
    /\ "old" \notin Pulls \cup {None}
    /\ IsFiniteSet(Calls) /\ ModelOf \in [Clients -> {k.model : k \in Keys}]
    /\ Remote \in BOOLEAN
    /\ Events \subseteq {"crash", "rollback"}
    /\ \A k \in Keys : k.device \in {"cpu", "webgpu"}

VARIABLES
    entry,     \* the pipeline entries
    cache,     \* transformersPipelines, the key used last at the end
    queue,     \* the jobs that wait for or have the environment of the library
    env,       \* whose settings the environment has; None: those of the start
    saved,     \* the settings each job found
    pc,        \* where each embedding call is
    on,        \* its entry
    client,    \* where each client is
    awaited,   \* the entries whose disposal a closing client awaits
    owners,    \* transformersModelOwners
    pull,      \* where each pull is
    aside,     \* what each pull has renamed to its previous-directory
    model,     \* what stands at the path of the model: "old", a pull, or None
    died       \* a swap was cut off, by a crash or by a rename that failed twice

pipelines == <<entry, cache>>
library == <<queue, env, saved>>
calls == <<pc, on>>
holders == <<client, awaited, owners>>
install == <<pull, aside, model, died>>
embeddingVars == <<pipelines, library, calls, holders, install>>

NoEntry == [key |-> None, creation |-> "none", retry |-> FALSE, leases |-> 0,
            retired |-> FALSE, disposal |-> "none"]

EmbeddingInit ==
    /\ entry = [e \in Entries |-> NoEntry]
    /\ cache = <<>>
    /\ queue = <<>> /\ env = None
    /\ saved = [j \in Entries \cup Pulls |-> None]
    /\ pc = [c \in Calls |-> "idle"]
    /\ on = [c \in Calls |-> None]
    /\ client = [c \in Clients |-> "new"]
    /\ awaited = [c \in Clients |-> {}]
    /\ owners = [m \in {k.model : k \in Keys} |-> 0]
    /\ pull = [p \in Pulls |-> "idle"]
    /\ aside = [p \in Pulls |-> None]
    /\ model = "old"
    /\ died = FALSE

-----------------------------------------------------------------------------
(* Entries.                                                                *)

\* An object that is not in use: new, or forgotten by all.
Unreachable(e) ==
    /\ entry[e].leases = 0
    /\ ~\E i \in DOMAIN cache : cache[i] = e
    /\ \A c \in Calls : on[c] # e
    /\ \A c \in Clients : e \notin awaited[c]
    /\ \/ entry[e].creation \in {"none", "failed"}
       \/ entry[e].disposal = "done"

\* What the map of the cache has under a key.
Cached(k) ==
    LET found == {e \in ToSet(cache) : entry[e].key = k}
    IN  IF found = {} THEN None ELSE CHOOSE e \in found : TRUE

\* A sequence without one of its members.
Position(e, among) == CHOOSE i \in DOMAIN among : among[i] = e
Without(among, e) == IF e \in ToSet(among) THEN RemoveAt(among, Position(e, among)) ELSE among

\* evictTransformersPipelines: the one used longest ago goes; the one just made is the last.
Evicted(entries) == IF Len(entries) <= MaxPipelines THEN None ELSE entries[1]

\* retireTransformersPipeline: a retired entry is in no cache, and its disposal begins.
Retired(record) ==
    [record EXCEPT !.retired = TRUE, !.disposal = IF @ = "none" THEN "begun" ELSE @]
Retire(entries, gone) == [e \in Entries |-> IF e \in gone THEN Retired(entries[e]) ELSE entries[e]]

-----------------------------------------------------------------------------
(* Embedding calls.                                                        *)

\* acquireTransformersPipeline finds the entry of the key.
AcquireCached(c, k) ==
    /\ pc[c] = "idle"
    /\ Cached(k) # None
    /\ cache' = Append(Without(cache, Cached(k)), Cached(k))
    /\ entry' = [entry EXCEPT ![Cached(k)].leases = @ + 1]
    /\ on' = [on EXCEPT ![c] = Cached(k)]
    /\ pc' = [pc EXCEPT ![c] = "acquiring"]
    /\ UNCHANGED <<library, holders, install>>

\* The object of a creation, for which there has to be one in Entries.
Queued(k) == [key |-> k, creation |-> "queued", retry |-> k.device # "cpu", leases |-> 1,
              retired |-> FALSE, disposal |-> "none"]
NewEntry == CHOOSE e \in Entries : Unreachable(e)

\* It finds none: a creation is queued, and what exceeds the cache is retired.
AcquireNew(c, k) ==
    /\ pc[c] = "idle"
    /\ Cached(k) = None
    /\ \E e \in Entries : Unreachable(e)
    /\ LET longer == Append(cache, NewEntry)
       IN  /\ entry' = Retire([entry EXCEPT ![NewEntry] = Queued(k)], {Evicted(longer)})
           /\ cache' = Without(longer, Evicted(longer))
    /\ queue' = Append(queue, NewEntry)
    /\ on' = [on EXCEPT ![c] = NewEntry]
    /\ pc' = [pc EXCEPT ![c] = "acquiring"]
    /\ UNCHANGED <<env, saved, holders, install>>

\* The pipeline is there, and the batches of the call run on it.
Acquired(c) ==
    /\ pc[c] = "acquiring"
    /\ entry[on[c]].creation = "ready"
    /\ pc' = [pc EXCEPT ![c] = "embedding"]
    /\ UNCHANGED <<pipelines, library, on, holders, install>>

\* Variant for the checks: the last lease of a retired pipeline is kept.
Release_Kept(c) ==
    /\ entry' = [entry EXCEPT ![on[c]].leases = IF entry[on[c]].retired THEN @ ELSE @ - 1]
    /\ pc' = [pc EXCEPT ![c] = IF entry[on[c]].retired THEN "leaving" ELSE "settled"]
    /\ on' = [on EXCEPT ![c] = IF entry[on[c]].retired THEN @ ELSE None]

\* releaseTransformersLease: a call on a retired pipeline also awaits its disposal.
Release(c) ==
    /\ entry' = [entry EXCEPT ![on[c]].leases = @ - 1]
    /\ pc' = [pc EXCEPT ![c] = IF entry[on[c]].retired THEN "leaving" ELSE "settled"]
    /\ on' = [on EXCEPT ![c] = IF entry[on[c]].retired THEN @ ELSE None]

\* The creation failed: the call throws, after the callback that forgets the entry.
AcquireFails(c) ==
    /\ pc[c] = "acquiring"
    /\ entry[on[c]].creation = "failed"
    /\ ~\E i \in DOMAIN cache : cache[i] = on[c]
    /\ Release(c)
    /\ UNCHANGED <<cache, library, holders, install>>

\* The batches are done, or one of them throws, or the call is aborted between two.
EndEmbedding(c) ==
    /\ pc[c] = "embedding"
    /\ Release(c)
    /\ UNCHANGED <<cache, library, holders, install>>

Leave(c) ==
    /\ pc[c] = "leaving"
    /\ entry[on[c]].disposal = "done"
    /\ pc' = [pc EXCEPT ![c] = "settled"]
    /\ on' = [on EXCEPT ![c] = None]
    /\ UNCHANGED <<pipelines, library, holders, install>>

-----------------------------------------------------------------------------
(* Creations and disposals.                                                *)

\* Variant for the checks: a job does not wait for those before it.
Turn_Any(j) == j \in ToSet(queue)

\* withTransformersEnvironment: the jobs run one after the other.
Turn(j) == queue # <<>> /\ queue[1] = j

\* createTransformersExtractor takes note of the environment and sets its own.
BeginJob(j) ==
    /\ Turn(j)
    /\ saved' = [saved EXCEPT ![j] = env]
    /\ env' = j
    /\ IF j \in Entries
       THEN /\ entry[j].creation = "queued"
            /\ entry' = [entry EXCEPT ![j].creation = "loading"]
            /\ UNCHANGED pull
       ELSE /\ pull[j] = "queued"
            /\ pull' = [pull EXCEPT ![j] = "loading"]
            /\ UNCHANGED entry
    /\ UNCHANGED <<cache, queue, calls, holders, aside, model, died>>

\* The environment gets the settings back that the job has found.
RestoreEnvironment(j) == env' = saved[j] /\ saved' = [saved EXCEPT ![j] = None]

\* The pipeline is loaded, from the model directory or from the network.
CreationReady(e) ==
    /\ entry[e].creation = "loading"
    /\ model # None \/ Remote
    /\ entry' = [entry EXCEPT ![e].creation = "ready"]
    /\ queue' = Without(queue, e)
    /\ RestoreEnvironment(e)
    /\ UNCHANGED <<cache, calls, holders, install>>

\* It cannot be loaded: on a device other than the CPU there is a second attempt, on
\* the CPU and behind the jobs that wait.
Failed(record) ==
    [record EXCEPT !.creation = IF record.retry THEN "queued" ELSE "failed", !.retry = FALSE]
CreationFails(e) ==
    /\ entry[e].creation = "loading"
    /\ entry' = [entry EXCEPT ![e] = Failed(@)]
    /\ queue' = IF entry[e].retry THEN Append(Without(queue, e), e) ELSE Without(queue, e)
    /\ RestoreEnvironment(e)
    /\ UNCHANGED <<cache, calls, holders, install>>

\* The callback of a failed creation.
Forget(e) ==
    /\ entry[e].creation = "failed"
    /\ \E i \in DOMAIN cache : cache[i] = e
    /\ cache' = Without(cache, e)
    /\ UNCHANGED <<entry, library, calls, holders, install>>

\* The disposal of a retired entry: after its last lease and its creation.  A creation
\* that failed left nothing to dispose of.
BeginDisposal(e) ==
    /\ entry[e].disposal = "begun"
    /\ entry[e].leases = 0
    /\ entry[e].creation \in {"ready", "failed"}
    /\ entry' = [entry EXCEPT ![e].disposal =
                    IF entry[e].creation = "ready" THEN "running" ELSE "done"]
    /\ UNCHANGED <<cache, library, calls, holders, install>>

\* The session is released, or its disposal throws, which is ignored; of the entry only
\* the promise of its disposal is still of use.
Disposed == [NoEntry EXCEPT !.retired = TRUE, !.disposal = "done"]
EndDisposal(e) ==
    /\ entry[e].disposal = "running"
    /\ entry' = [entry EXCEPT ![e] = Disposed]
    /\ UNCHANGED <<cache, library, calls, holders, install>>

-----------------------------------------------------------------------------
(* Clients and the whole cache.                                            *)

\* retainEmbeddingModel, when a client is made.
RetainModel(c) ==
    /\ client[c] = "new"
    /\ client' = [client EXCEPT ![c] = "open"]
    /\ owners' = [owners EXCEPT ![ModelOf[c]] = @ + 1]
    /\ UNCHANGED <<pipelines, library, calls, awaited, install>>

\* A client is closed: the last owner of a model retires its pipelines, on both devices.
ReleaseModel(c) ==
    /\ client[c] = "open"
    /\ owners' = [owners EXCEPT ![ModelOf[c]] = @ - 1]
    /\ LET found(device) == IF owners[ModelOf[c]] > 1 THEN None
                          ELSE Cached([model |-> ModelOf[c], device |-> device])
           gone == {found("cpu"), found("webgpu")} \ {None}
       IN  /\ entry' = Retire(entry, gone)
           /\ cache' = Without(Without(cache, found("cpu")), found("webgpu"))
           /\ awaited' = [awaited EXCEPT ![c] = gone]
    /\ client' = [client EXCEPT ![c] = "releasing"]
    /\ UNCHANGED <<library, calls, install>>

ModelReleased(c) ==
    /\ client[c] = "releasing"
    /\ \A e \in awaited[c] : entry[e].disposal = "done"
    /\ client' = [client EXCEPT ![c] = "closed"]
    /\ awaited' = [awaited EXCEPT ![c] = {}]
    /\ UNCHANGED <<pipelines, library, calls, owners, install>>

\* clearTransformersCache and disposeTransformersCache, when an index is destroyed.
ClearCache ==
    /\ cache # <<>>
    /\ entry' = Retire(entry, ToSet(cache))
    /\ cache' = <<>>
    /\ UNCHANGED <<library, calls, holders, install>>

-----------------------------------------------------------------------------
(* Pulls.                                                                  *)

BeginPull(p) ==
    /\ pull[p] = "idle" /\ p \notin Elsewhere
    /\ pull' = [pull EXCEPT ![p] = "queued"]
    /\ queue' = Append(queue, p)
    /\ UNCHANGED <<pipelines, env, saved, calls, holders, aside, model, died>>

\* The download into the private cache ends, and the model is loaded from it, or not.
Downloaded(p) ==
    /\ pull[p] = "loading"
    /\ pull' = [pull EXCEPT ![p] = "checking"] \/ pull' = [pull EXCEPT ![p] = "ended"]
    /\ queue' = Without(queue, p)
    /\ RestoreEnvironment(p)
    /\ UNCHANGED <<pipelines, calls, holders, aside, model, died>>

\* A pull of another process finds no model and renames its snapshot there.
PullElsewhere(p) ==
    /\ pull[p] = "idle" /\ p \in Elsewhere
    /\ model = None
    /\ model' = p
    /\ pull' = [pull EXCEPT ![p] = "ended"]
    /\ UNCHANGED <<pipelines, library, calls, holders, aside, died>>

\* The snapshot is refused (a file is missing, or its digest is another), or
\* replaceDirectory finds out whether there is a model.
CheckSnapshot(p) ==
    /\ pull[p] = "checking"
    /\ \/ pull' = [pull EXCEPT ![p] = "ended"]
       \/ pull' = [pull EXCEPT ![p] = IF model # None THEN "aside" ELSE "swap"]
    /\ UNCHANGED <<pipelines, library, calls, holders, aside, model, died>>

\* The model is renamed, unless it has gone meanwhile or cannot be renamed.
MoveAside(p) ==
    /\ pull[p] = "aside"
    /\ \/ /\ model # None
          /\ aside' = [aside EXCEPT ![p] = model]
          /\ model' = None
          /\ pull' = [pull EXCEPT ![p] = "swap"]
       \/ /\ pull' = [pull EXCEPT ![p] = "ended"]
          /\ UNCHANGED <<aside, model>>
    /\ UNCHANGED <<pipelines, library, calls, holders, died>>

\* The snapshot takes the place of the model.  If that fails, or another pull has put
\* its model there, the previous model has to come back.
SwapIn(p) ==
    /\ pull[p] = "swap"
    /\ \/ /\ model = None
          /\ model' = p
          /\ pull' = [pull EXCEPT ![p] = IF aside[p] = None THEN "ended" ELSE "cleanup"]
       \/ /\ pull' = [pull EXCEPT ![p] = IF aside[p] = None THEN "ended" ELSE "rollback"]
          /\ UNCHANGED model
    /\ UNCHANGED <<pipelines, library, calls, holders, aside, died>>

\* The previous model comes back, unless there is another, or this rename fails too.
Rollback(p) ==
    /\ pull[p] = "rollback"
    /\ pull' = [pull EXCEPT ![p] = "ended"]
    /\ \/ /\ model = None
          /\ model' = aside[p]
          /\ aside' = [aside EXCEPT ![p] = None]
          /\ UNCHANGED died
       \/ model # None /\ UNCHANGED <<model, aside, died>>
       \/ "rollback" \in Events /\ died' = TRUE /\ UNCHANGED <<model, aside>>
    /\ UNCHANGED <<pipelines, library, calls, holders>>

RemovePrevious(p) ==
    /\ pull[p] = "cleanup"
    /\ aside' = [aside EXCEPT ![p] = None]
    /\ pull' = [pull EXCEPT ![p] = "ended"]
    /\ UNCHANGED <<pipelines, library, calls, holders, model, died>>

\* The process dies, and another one goes on with the calls, clients and pulls to come.
\* Only files outlive it, so a death is of interest while there is a pull.
Crash ==
    /\ "crash" \in Events
    /\ \E p \in Pulls \ Elsewhere : pull[p] \notin {"idle", "ended"}
    /\ entry' = [e \in Entries |-> NoEntry]
    /\ cache' = <<>>
    /\ queue' = <<>> /\ env' = None
    /\ pc' = [c \in Calls |-> IF pc[c] = "idle" THEN "idle" ELSE "settled"]
    /\ on' = [c \in Calls |-> None]
    /\ client' = [c \in Clients |-> IF client[c] = "new" THEN "new" ELSE "closed"]
    /\ awaited' = [c \in Clients |-> {}]
    /\ owners' = [m \in DOMAIN owners |-> 0]
    /\ pull' = [p \in Pulls |-> IF pull[p] = "idle" \/ p \in Elsewhere THEN pull[p] ELSE "ended"]
    /\ died' = (died \/ \E p \in Pulls \ Elsewhere : pull[p] \in {"swap", "rollback"})
    /\ saved' = [j \in DOMAIN saved |-> None]
    /\ UNCHANGED <<aside, model>>

CallSteps(c) == Acquired(c) \/ AcquireFails(c) \/ EndEmbedding(c) \/ Leave(c)

EntrySteps(e) ==
    CreationReady(e) \/ CreationFails(e) \/ Forget(e) \/ BeginDisposal(e) \/ EndDisposal(e)

EmbeddingNext ==
    \/ \E c \in Calls, k \in Keys : AcquireCached(c, k) \/ AcquireNew(c, k)
    \/ \E c \in Calls : Acquired(c) \/ AcquireFails(c) \/ EndEmbedding(c) \/ Leave(c)
    \/ \E j \in Entries \cup Pulls : BeginJob(j)
    \/ \E e \in Entries : CreationReady(e) \/ CreationFails(e) \/ Forget(e)
    \/ \E e \in Entries : BeginDisposal(e) \/ EndDisposal(e)
    \/ \E c \in Clients : RetainModel(c) \/ ReleaseModel(c) \/ ModelReleased(c)
    \/ ClearCache
    \/ \E p \in Pulls : BeginPull(p) \/ PullElsewhere(p) \/ Downloaded(p) \/ CheckSnapshot(p)
    \/ \E p \in Pulls : MoveAside(p) \/ SwapIn(p) \/ Rollback(p) \/ RemovePrevious(p)
    \/ Crash

EmbeddingSpec == EmbeddingInit /\ [][EmbeddingNext]_embeddingVars

\* Promises settle: loads, disposals, downloads and the embedding of a batch end.
EmbeddingFairness ==
    /\ \A c \in Calls : WF_embeddingVars(CallSteps(c))
    /\ \A e \in Entries : WF_embeddingVars(EntrySteps(e))
    /\ WF_embeddingVars(\E j \in Entries \cup Pulls : BeginJob(j))
    /\ \A p \in Pulls : WF_embeddingVars(Downloaded(p))
    /\ \A c \in Clients : WF_embeddingVars(ModelReleased(c))

EmbeddingFairSpec == EmbeddingSpec /\ EmbeddingFairness

-----------------------------------------------------------------------------
(* Properties.                                                             *)

\* A pipeline is not disposed of while a call embeds with it or is about to; one that is
\* not retired is in the cache, which keeps its size, so that no session is forgotten; and
\* what is loaded is loaded under its own settings (acquire-, evict-, release- and
\* retireTransformersPipeline, withTransformersEnvironment).
PipelinesSafe ==
    /\ \A c \in Calls : pc[c] \in {"acquiring", "embedding"} =>
          entry[on[c]].disposal \in {"none", "begun"}
    /\ \A e \in Entries : entry[e].creation = "ready" /\ ~entry[e].retired => e \in ToSet(cache)
    /\ Len(cache) <= MaxPipelines
    /\ \A e \in Entries : entry[e].creation = "loading" => env = e
    /\ \A p \in Pulls : pull[p] = "loading" => env = p
    /\ queue = <<>> => env = None

\* Whatever fails or dies in a pull, a complete model remains, in its place or aside;
\* and unless a swap was cut off, it is in its place when no pull is swapping
\* (replaceDirectory).
ModelKept ==
    /\ model # None \/ \E p \in Pulls : aside[p] # None
    /\ model = None => died \/ \E p \in Pulls : pull[p] \in {"swap", "rollback"}

\* What runs in the process is there, and what the next process needs too.
EmbeddingSound == PipelinesSafe /\ ModelKept

\* Nobody is owed anything: no call or client awaits, and what is retired is disposed of.
NothingOwed ==
    /\ \A e \in Entries : entry[e].retired => entry[e].disposal = "done"
    /\ \A c \in Calls : pc[c] \in {"idle", "settled"}
    /\ \A c \in Clients : client[c] # "releasing"

\* A retired pipeline is disposed of once its last lease is released, and every call and
\* every client that awaits a disposal goes on: as the calls are finitely many, there is
\* again and again a moment when nothing is owed (releaseTransformersLease,
\* disposeTransformersModel).
DisposalsEnd == []<>NothingOwed

=============================================================================
