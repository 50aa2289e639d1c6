----------------------------- MODULE WriteQueue -----------------------------
(***************************************************************************)
(* The queue inside a process of withIndexWriteLock (index-write-lock.ts): *)
(* the calls made for one storage directory follow each other through a    *)
(* chain of promises, and the one whose turn has come competes for the     *)
(* lock of the host.  That lock is the abstract WriteMutex, which module   *)
(* WriterLock implements.                                                  *)
(***************************************************************************)
CONSTANTS
    Calls,      \* the calls of withIndexWriteLock, each made at most once
    Procs,      \* the processes of the host
    ProcOf,     \* the process that makes each call
    NoCall      \* no call: a missing entry of writeQueues

ASSUME CallsAssumption == ProcOf \in [Calls -> Procs] /\ NoCall \notin Calls

VARIABLES
    stage,      \* where each call stands
    prev,       \* the call whose tail it awaits ("previous"), or NoCall
    released,   \* the calls that ran releaseQueue: their "current" is resolved
    resolved,   \* the calls whose "tail" has resolved
    last,       \* writeQueues: the call whose tail is registered, per process
    holders,    \* the processes that hold the lock of the host
    alive,      \* the processes that have not died
    before      \* history: the calls of its process made before each call

vars == <<stage, prev, released, resolved, last, holders, alive, before>>

Host == INSTANCE WriteMutex WITH Writers <- Procs, writing <- holders

\* The stages of a call whose turn has come and that has not settled yet.
InTurn == {"acquiring", "running", "releasing"}

TypeOK ==
    /\ stage \in [Calls -> {"out", "queued", "left"} \cup InTurn]
    /\ prev \in [Calls -> Calls \cup {NoCall}]
    /\ released \in SUBSET Calls
    /\ resolved \in SUBSET Calls
    /\ last \in [Procs -> Calls \cup {NoCall}]
    /\ holders \in SUBSET Procs
    /\ alive \in SUBSET Procs
    /\ before \in [Calls -> SUBSET Calls]

Init ==
    /\ stage = [c \in Calls |-> "out"]
    /\ prev = [c \in Calls |-> NoCall]
    /\ released = {}
    /\ resolved = {}
    /\ last = [p \in Procs |-> NoCall]
    /\ Host!Init
    /\ alive = Procs
    /\ before = [c \in Calls |-> {}]

\* The calls that process p has made so far.
Made(p) == {c \in Calls : ProcOf[c] = p /\ stage[c] # "out"}

Go(c, from, to) ==
    /\ ProcOf[c] \in alive
    /\ stage[c] = from
    /\ stage' = [stage EXCEPT ![c] = to]

-----------------------------------------------------------------------------

\* The synchronous part of the call: read the map, register the new tail.
Call(c) ==
    /\ Go(c, "out", "queued")
    /\ prev' = [prev EXCEPT ![c] = last[ProcOf[c]]]
    /\ last' = [last EXCEPT ![ProcOf[c]] = c]
    /\ before' = [before EXCEPT ![c] = Made(ProcOf[c])]
    /\ UNCHANGED <<released, resolved, holders, alive>>

\* previous is Promise.resolve() when the map had no entry.
PreviousResolved(c) == prev[c] = NoCall \/ prev[c] \in resolved

\* waitForTurn returns.
Turn(c) ==
    /\ PreviousResolved(c)
    /\ Go(c, "queued", "acquiring")
    /\ UNCHANGED <<prev, released, resolved, last, holders, alive, before>>

\* Variant for the checks: waitForTurn stands before the try, and a call that
\* gives up never runs releaseQueue.
GiveUp_OutsideTry(c) ==
    /\ Go(c, "queued", "left")
    /\ UNCHANGED <<prev, released, resolved, last, holders, alive, before>>

\* The deadline passes or the signal aborts while the call is queued: it
\* leaves through the finally blocks, without a lease.
GiveUp(c) ==
    /\ Go(c, "queued", "left")
    /\ released' = released \cup {c}
    /\ UNCHANGED <<prev, resolved, last, holders, alive, before>>

\* acquireInterprocessLock returns a lease, and the operation starts.
Acquire(c) ==
    /\ Host!Enter(ProcOf[c])
    /\ Go(c, "acquiring", "running")
    /\ UNCHANGED <<prev, released, resolved, last, alive, before>>

\* acquireInterprocessLock throws: aborted, INDEX_BUSY or an I/O error.
AcquireFails(c) ==
    /\ Go(c, "acquiring", "left")
    /\ released' = released \cup {c}
    /\ UNCHANGED <<prev, resolved, last, holders, alive, before>>

\* Variant for the checks: "return operation(...)" without await releases the
\* lock as soon as the operation has started.
Finish_NoAwait(c) ==
    /\ \/ Host!Leave(ProcOf[c]) /\ Go(c, "running", "running")
       \/ Go(c, "running", "releasing") /\ UNCHANGED holders
    /\ UNCHANGED <<prev, released, resolved, last, alive, before>>

\* The operation returns or throws, and the lease is being released.
Finish(c) ==
    /\ Host!Leave(ProcOf[c])
    /\ Go(c, "running", "releasing")
    /\ UNCHANGED <<prev, released, resolved, last, alive, before>>

\* release() has returned or thrown: the inner finally runs releaseQueue.
ReleaseQueue(c) ==
    /\ Go(c, "releasing", "left")
    /\ released' = released \cup {c}
    /\ UNCHANGED <<prev, resolved, last, holders, alive, before>>

\* Variant for the checks: the tail is "current" alone, not chained to previous.
ResolveTail_Unchained(c) ==
    /\ ProcOf[c] \in alive /\ c \in released \ resolved
    /\ resolved' = resolved \cup {c}
    /\ UNCHANGED <<stage, prev, released, last, holders, alive, before>>

\* tail = previous.then(() => current): both have to be resolved.
ResolveTail(c) ==
    /\ ProcOf[c] \in alive /\ c \in released \ resolved
    /\ PreviousResolved(c)
    /\ resolved' = resolved \cup {c}
    /\ UNCHANGED <<stage, prev, released, last, holders, alive, before>>

\* Variant for the checks: the map is compared with previous instead of tail.
ForgetTail_Previous(c) ==
    /\ ProcOf[c] \in alive /\ c \in resolved
    /\ last[ProcOf[c]] = prev[c]
    /\ last' = [last EXCEPT ![ProcOf[c]] = NoCall]
    /\ UNCHANGED <<stage, prev, released, resolved, holders, alive, before>>

\* The last call of the queue removes its entry from the map.
ForgetTail(c) ==
    /\ ProcOf[c] \in alive /\ c \in resolved
    /\ last[ProcOf[c]] = c
    /\ last' = [last EXCEPT ![ProcOf[c]] = NoCall]
    /\ UNCHANGED <<stage, prev, released, resolved, holders, alive, before>>

\* A process dies with all its calls; the lock of the host recovers from it.
Crash(p) ==
    /\ p \in alive
    /\ alive' = alive \ {p}
    /\ holders' = holders \ {p}
    /\ UNCHANGED <<stage, prev, released, resolved, last, before>>

Proceed(c) == Turn(c) \/ ReleaseQueue(c) \/ ResolveTail(c) \/ ForgetTail(c)

Next ==
    \/ \E c \in Calls : \/ Call(c) \/ GiveUp(c) \/ Acquire(c) \/ AcquireFails(c)
                        \/ Finish(c) \/ Proceed(c)
    \/ \E p \in Procs : Crash(p)

Spec == Init /\ [][Next]_vars

\* Promise reactions run; acquireInterprocessLock answers before its deadline
\* one way or the other; an operation settles.  A call stands before one of
\* these at a time.  Nothing obliges a queued call to give up.
Fairness ==
    \A c \in Calls : WF_vars(Proceed(c) \/ Acquire(c) \/ AcquireFails(c) \/ Finish(c))

FairSpec == Spec /\ Fairness

-----------------------------------------------------------------------------
(* Properties.                                                              *)

\* Calls of one process take their turns in the order they were made: none
\* has its turn before every earlier one has settled, even when some of the
\* earlier ones gave up while queued.  Hence one contender per process for the
\* lock of the host, as module WriterLock takes for granted.
FirstComeFirstServed ==
    \A d \in Calls : \A c \in before[d] :
        ProcOf[d] \in alive /\ stage[d] \in InTurn => stage[c] = "left"

\* Queue and lock together implement the abstract mutex between the calls of
\* all processes: no two operations overlap.
Running == {c \in Calls : stage[c] = "running" /\ ProcOf[c] \in alive}

Mutex == INSTANCE WriteMutex WITH Writers <- Calls, writing <- Running

ImplementsMutex == Mutex!Spec

\* A call that gives up does not hold up those behind it: while operations
\* settle, every queued call gets its turn without any timeout.
TurnComes ==
    \A c \in Calls : stage[c] = "queued" ~> stage[c] # "queued" \/ ProcOf[c] \notin alive

\* writeQueues keeps no entry for a storage directory nobody writes to.
IdleQueueForgotten ==
    \A p \in Procs :
        (\A c \in Made(p) : stage[c] = "left")
            ~> (last[p] = NoCall \/ p \notin alive \/ \E c \in Made(p) : stage[c] # "left")

\* The chain of promises moves on, and goes with the last of its calls (withIndexWriteLock).
WritesProceed == TurnComes /\ IdleQueueForgotten

-----------------------------------------------------------------------------
(* The inductive invariant: a chain of tails in the order of the calls.     *)

\* A call has resolved its tail only after every call made before it.
ChainInv ==
    /\ \A c \in Calls : \A d \in before[c] : stage[d] # "out"
    /\ \A c, d \in Calls : ProcOf[c] = ProcOf[d] /\ stage[c] # "out" /\ stage[d] # "out"
                            => c = d \/ c \in before[d] \/ d \in before[c]
    /\ \A c \in Calls : c \in resolved => c \in released /\ before[c] \subseteq resolved
    /\ \A c \in Calls : c \in released <=> stage[c] = "left"
    /\ \A c \in Calls : prev[c] = NoCall => before[c] \subseteq resolved
    /\ \A c \in Calls : prev[c] # NoCall => before[c] = before[prev[c]] \cup {prev[c]}
    /\ \A c \in Calls : stage[c] \in InTurn => PreviousResolved(c)

\* The registered tail is that of the latest call; without one all are resolved.
TailInv ==
    \A p \in Procs :
        /\ last[p] = NoCall => Made(p) \subseteq resolved
        /\ last[p] # NoCall => Made(p) = before[last[p]] \cup {last[p]}

\* The lock of the host is held for the one operation that runs.
HolderInv ==
    /\ \A p, q \in holders : p = q
    /\ holders \subseteq alive
    /\ \A c \in Calls : stage[c] = "running" /\ ProcOf[c] \in alive => ProcOf[c] \in holders
    /\ \A p \in holders : \E c \in Calls : stage[c] = "running" /\ ProcOf[c] = p

IInv == TypeOK /\ ChainInv /\ TailInv /\ HolderInv
=============================================================================
