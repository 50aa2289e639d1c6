---------------------------- MODULE WorkloadQueue ----------------------------
(***************************************************************************)
(* Workload admission (workload.ts): one queue per project and workload    *)
(* bounds the operations that run and those that wait.  An operation may   *)
(* ask for admission to another workload while it holds its slot: a search *)
(* and an ingestion embed texts (query.ts, ingest.ts, embeddings.ts).      *)
(*                                                                         *)
(* Admission is synchronous JavaScript, so an action is a whole call of    *)
(* run(), finish() or rejectQueued(), with the drain it ends in.  A queue  *)
(* object leaves the map workloadQueues when it is idle, and the next call *)
(* makes another one: the members of Objects, for each workload.            *)
(***************************************************************************)
EXTENDS Naturals, FiniteSets, SequencesExt

CONSTANTS
    Requests,    \* calls of a client
    Workloads,   \* WorkloadKind
    Path,        \* the workloads that a request goes through, the outermost first
    Objects,     \* WorkloadQueue objects, for one project
    Limits,      \* the limits that the configurations in use give
    NoObject     \* no object in the map

ASSUME WorkloadAssumption ==
    /\ IsFiniteSet(Requests)
    /\ Path \in [Requests -> Seq(Workloads)]
    /\ \A r \in Requests : IsInjective(Path[r])
    /\ \A l \in Limits : l.concurrency \in Nat \ {0} /\ l.maxQueue \in Nat
    /\ Limits # {}
    /\ NoObject \notin Objects

VARIABLES
    held,     \* the number of slots each request holds, along its path
    active,   \* the requests that run in each object, for each workload
    queued,   \* those that wait, the first to be admitted first
    limit,    \* the limit that each workload was last given, for the object in the map
    mapped    \* the object that workloadQueues holds for each workload

workloadVars == <<held, active, queued, limit, mapped>>

WorkloadInit ==
    /\ held = [r \in Requests |-> 0]
    /\ active = [w \in Workloads |-> [o \in Objects |-> {}]]
    /\ queued = [w \in Workloads |-> [o \in Objects |-> <<>>]]
    /\ limit = [w \in Workloads |-> CHOOSE l \in Limits : TRUE]
    /\ mapped = [w \in Workloads |-> NoObject]

Waiting(r) == \E w \in Workloads, o \in Objects : r \in ToSet(queued[w][o])

\* A request asks for the workloads of its path one inside the other.
Asks(r, w) == ~Waiting(r) /\ held[r] < Len(Path[r]) /\ Path[r][held[r] + 1] = w

-----------------------------------------------------------------------------

\* Variant for the checks: one operation too many is started.
Admitted_OffByOne(running, waiting, l) ==
    {i \in DOMAIN waiting : Cardinality(running) + i <= l.concurrency + 1}

\* Variant for the checks: the last slot is never given.
Admitted_Strict(running, waiting, l) ==
    {i \in DOMAIN waiting : Cardinality(running) + i < l.concurrency}

\* The entries that drain() starts: from the head, while a slot is free.
Admitted(running, waiting, l) ==
    {i \in DOMAIN waiting : Cardinality(running) + i <= l.concurrency}

\* onIdle is called: nothing runs and nothing waits.
Idle(running, waiting) == running = {} /\ waiting = <<>>

\* drain() and its onIdle, from the given contents of the object: the requests
\* that run in it hold one slot more than before, those that ended one less.
Drain(w, o, running, waiting, l) ==
    LET admitted == Admitted(running, waiting, l)
        started == {waiting[i] : i \in admitted}
        rest == SubSeq(waiting, Cardinality(admitted) + 1, Len(waiting))
    IN  /\ active' = [active EXCEPT ![w][o] = running \cup started]
        /\ queued' = [queued EXCEPT ![w][o] = rest]
        /\ held' = [r \in Requests |-> IF r \in started THEN held[r] + 1
                                       ELSE IF r \in active[w][o] \ running THEN held[r] - 1
                                       ELSE held[r]]
        /\ mapped' = IF mapped[w] # o THEN mapped
                     ELSE [mapped EXCEPT ![w] = IF Idle(running \cup started, rest)
                                                THEN NoObject ELSE o]

\* runWorkload: the object in the map, or a new one.
Queue(w) ==
    IF mapped[w] # NoObject THEN mapped[w]
    ELSE CHOOSE o \in Objects : Idle(active[w][o], queued[w][o])

\* run(): the request starts at once if nobody waits and a slot is free; it is
\* rejected as overloaded if the queue is full, which changes only the limit;
\* else it waits, and the queue is drained under the limit it brings.
Run(r, w, o, l) ==
    /\ Asks(r, w)
    /\ o = Queue(w)
    /\ limit' = [limit EXCEPT ![w] = l]
    /\ \/ /\ queued[w][o] = <<>> /\ Cardinality(active[w][o]) < l.concurrency
          /\ active' = [active EXCEPT ![w][o] = @ \cup {r}]
          /\ held' = [held EXCEPT ![r] = @ + 1]
          /\ mapped' = [mapped EXCEPT ![w] = o]
          /\ UNCHANGED queued
       \/ /\ queued[w][o] # <<>> \/ Cardinality(active[w][o]) >= l.concurrency
          /\ Len(queued[w][o]) >= l.maxQueue
          /\ mapped' = [mapped EXCEPT ![w] = o]
          /\ UNCHANGED <<active, queued, held>>
       \/ /\ queued[w][o] # <<>> \/ Cardinality(active[w][o]) >= l.concurrency
          /\ Len(queued[w][o]) < l.maxQueue
          /\ Drain(w, o, active[w][o], Append(queued[w][o], r), l)

\* Variant for the checks: the slot is given back without a drain.
FinishWork_NoDrain(r, w, o) ==
    /\ r \in active[w][o] /\ Path[r][held[r]] = w /\ ~Waiting(r)
    /\ active' = [active EXCEPT ![w][o] = @ \ {r}]
    /\ held' = [held EXCEPT ![r] = @ - 1]
    /\ UNCHANGED <<queued, limit, mapped>>

\* The operation of a request ends, well or not, after those inside it.
FinishWork(r, w, o) ==
    /\ r \in active[w][o] /\ Path[r][held[r]] = w /\ ~Waiting(r)
    /\ Drain(w, o, active[w][o] \ {r}, queued[w][o], limit[w])
    /\ UNCHANGED limit

\* The signal of a waiting request is aborted, or its deadline passes.
RejectQueued(r, w, o) ==
    /\ \E index \in DOMAIN queued[w][o] :
          /\ queued[w][o][index] = r
          /\ Drain(w, o, active[w][o], RemoveAt(queued[w][o], index), limit[w])
    /\ UNCHANGED limit

\* run() with a signal that is already aborted: the limit is taken, and a new
\* object stays in the map.
RunAborted(r, w, o, l) ==
    /\ Asks(r, w)
    /\ o = Queue(w)
    /\ limit' = [limit EXCEPT ![w] = l]
    /\ mapped' = [mapped EXCEPT ![w] = o]
    /\ UNCHANGED <<held, active, queued>>

WorkloadNext ==
    \E r \in Requests, w \in Workloads, o \in Objects :
        \/ \E l \in Limits : Run(r, w, o, l) \/ RunAborted(r, w, o, l)
        \/ FinishWork(r, w, o)
        \/ RejectQueued(r, w, o)

WorkloadSpec == WorkloadInit /\ [][WorkloadNext]_workloadVars

\* Operations end: an operation embeds finitely many batches one after the
\* other, so one that can end again and again does (strong fairness).  Nothing is
\* assumed of deadlines and signals: waiting must end without them.
WorkloadFairness ==
    \A r \in Requests : \A w \in ToSet(Path[r]) :
        SF_workloadVars(\E o \in Objects : FinishWork(r, w, o))

-----------------------------------------------------------------------------
(* Properties.                                                              *)

\* A request runs in one object for each slot it holds ...
SlotsInv ==
    \A r \in Requests, w \in Workloads :
        Cardinality({o \in Objects : r \in active[w][o]}) =
            IF \E k \in 1 .. held[r] : Path[r][k] = w THEN 1 ELSE 0

\* ... and waits once, for the workload that comes next on its path ...
QueuesInv ==
    \A w \in Workloads, o \in Objects :
        /\ IsInjective(queued[w][o])
        /\ \A r \in ToSet(queued[w][o]) : held[r] < Len(Path[r]) /\ Path[r][held[r] + 1] = w

\* ... and an object is out of the map only when it is idle.
MapInv ==
    \A w \in Workloads : \A o \in Objects \ {mapped[w]} :
        active[w][o] = {} /\ queued[w][o] = <<>>

ActiveIn(w) == UNION {active[w][o] : o \in Objects}
EnteredNow(w) == ActiveIn(w)' \ ActiveIn(w)

\* docs/configuration.md: the number of active operations of a workload is
\* bounded.  An operation starts only within the limit that was given last,
\* counting every operation of the workload, also those of an object that has
\* left the map.
Ceiling ==
    [][\A w \in Workloads : EnteredNow(w) # {} =>
          \E o \in Objects : EnteredNow(w) \subseteq active'[w][o]
                          /\ Cardinality(ActiveIn(w)') <= limit'[w].concurrency]_workloadVars

\* Requests start in the order in which they came: when one starts, nobody who
\* came before it goes on waiting, whether it waited too or starts on arrival.
CameBefore(w, o, r) ==
    LET q == queued[w][o]
    IN  {q[i] : i \in {k \in DOMAIN q : \A j \in DOMAIN q : q[j] = r => k < j}}

FirstComeFirstStarted ==
    [][\A w \in Workloads : \A r \in EnteredNow(w) : \A o \in Objects :
          CameBefore(w, o, r) \cap ToSet(queued'[w][o]) = {}]_workloadVars

\* Nobody is left waiting beside a free slot by a step that admits, queues,
\* rejects or ends an operation, even when the limit was raised before it.  (A
\* call that is rejected at once raises the limit and drains nothing.)
NoIdleSlot ==
    [][\A w \in Workloads, o \in Objects :
          <<active[w][o], queued[w][o]>>' # <<active[w][o], queued[w][o]>>
          /\ queued'[w][o] # <<>>
             => Cardinality(active'[w][o]) >= limit'[w].concurrency]_workloadVars

\* runWorkload: slots and queues stay consistent (a rejected entry is gone, an
\* operation gives back the slot it got, no object is forgotten while it has
\* work), starts keep to the limit and to the order of arrival, and no slot is
\* left free beside a queue.
AdmissionSound ==
    [](SlotsInv /\ QueuesInv /\ MapInv) /\ Ceiling /\ FirstComeFirstStarted /\ NoIdleSlot

\* A request that waits, with whatever slots it holds meanwhile, is served or
\* rejected: the workloads are asked for in an order that excludes a circle.
EveryoneServed == \A r \in Requests : Waiting(r) ~> ~Waiting(r)
=============================================================================
