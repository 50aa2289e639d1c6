----------------------------- MODULE WriterLock -----------------------------
(***************************************************************************)
(* The inter-process half of withIndexWriteLock (index-write-lock.ts): the *)
(* directory .writer-lock that serialises index writers on one host, and   *)
(* the directory .writer-lock-recovery under which a waiting process       *)
(* removes a lock whose owner is gone.                                     *)
(*                                                                         *)
(* Every process runs one contender at a time (module WriteQueue models    *)
(* the queue of the callers inside a process).  One action is one          *)
(* file-system call or one synchronous decision between two awaits, so two *)
(* processes interleave wherever the code awaits.                          *)
(***************************************************************************)
EXTENDS Naturals

CONSTANTS
    Procs,       \* the operating-system processes of the host
    MaxRuns,     \* bound: a process that generated this many tokens calls no more
    Events,      \* what may happen around the protocol, a subset of AllEvents
    Absent,      \* a directory that does not exist
    Fresh,       \* a directory without owner.json, younger than 30 seconds
    Stale,       \* a directory without owner.json, 30 seconds old or more
    NoOwner      \* what readOwner returns when there is no valid owner.json

AllEvents ==
    { "deadline",         \* waitTimeoutMs elapses: INDEX_BUSY
      "abort",            \* the caller's AbortSignal fires
      "exit",             \* a process with no call in progress ends
      "ioError",          \* owner.json cannot be written
      "crash",            \* a process dies outside the two windows below
      "crashCreating",    \* ... while its lock directory has no owner.json
      "crashRecovering",  \* ... while it works under the recovery directory
      "slow",             \* a live creator takes 30 seconds to write owner.json
      "pidReuse",         \* a new process gets the pid of a dead one
      "signal",           \* SIGINT or SIGTERM reaches a process holding the lock
      "destroy" }         \* the operation under the lock is destroyIndex

\* A token names one owner.json: the process that wrote it and a fresh number
\* (a randomUUID() in the code; its pid field is the first component).
Tokens == Procs \X Nat

\* The four constants are distinct and none of them is a token.
ASSUME SentinelAssumption ==
    /\ Absent \notin Tokens /\ Fresh \notin Tokens
    /\ Stale \notin Tokens  /\ NoOwner \notin Tokens
    /\ Absent # Fresh /\ Absent # Stale /\ Fresh # Stale
    /\ NoOwner \notin {Absent, Fresh, Stale}

ASSUME BoundAssumption == MaxRuns \in Nat /\ Events \subseteq AllEvents

VARIABLES
    lock,    \* the directory .writer-lock: Absent, Fresh, Stale or its owner's token
    rec,     \* the directory .writer-lock-recovery, likewise
    pc,      \* where each process stands in acquire and release
    runs,    \* how many tokens each process has generated; the last is in use
    obs,     \* the owner of the lock read at line 109 (observedOwner)
    seen,    \* the owner read last: currentOwner (211) or the recovery owner (231)
    won,     \* whether recoverAbandonedWriterLock removed the lock
    beat,    \* the heartbeat has checked the token and is about to write
    sig,     \* the progress of the signal handler's own release
    reused   \* dead processes whose pid belongs to another process again

vars == <<lock, rec, pc, runs, obs, seen, won, beat, sig, reused>>

Dirs == Tokens \cup {Absent, Fresh, Stale}

\* The steps of acquiring and releasing the lock itself.
LockSide == {"own", "undo", "hold", "release", "remove"}

\* The steps made while the recovery directory is this process's own.
RecoverySide == {"ownRec", "undoRec", "reread", "rejudge", "reclaim", "leave", "dropRec"}

\* The other steps of the loop of acquireInterprocessLock.
Waiting == {"probe", "create", "observe", "judge", "recover", "wait",
            "readRec", "judgeRec", "checkRec", "clearRec"}

Token(p) == <<p, runs[p]>>

Live(p) == pc[p] # "dead"

\* process.kill(pid, 0): a recycled pid answers for the dead owner.
OwnerProcessIsAlive(t) == Live(t[1]) \/ t[1] \in reused

ReadOwner(dir) == IF dir \in Tokens THEN dir ELSE NoOwner

\* Variant for the checks: a directory without owner.json is stale at any age.
LockIsRecoverable_AnyAge(dir, owner) ==
    IF owner # NoOwner THEN ~OwnerProcessIsAlive(owner) ELSE dir # Absent

\* lockIsRecoverable: an owner is judged by its process alone, a directory
\* without a readable owner by its age.
LockIsRecoverable(dir, owner) ==
    IF owner # NoOwner THEN ~OwnerProcessIsAlive(owner) ELSE dir = Stale

TypeOK ==
    /\ lock \in Dirs
    /\ rec \in Dirs
    /\ pc \in [Procs -> {"idle", "dead"} \cup LockSide \cup RecoverySide \cup Waiting]
    /\ runs \in [Procs -> Nat]
    /\ obs \in [Procs -> Tokens \cup {NoOwner}]
    /\ seen \in [Procs -> Tokens \cup {NoOwner}]
    /\ won \in [Procs -> BOOLEAN]
    /\ beat \in [Procs -> BOOLEAN]
    /\ sig \in [Procs -> {"none", "read", "remove", "kill"}]
    /\ reused \in SUBSET Procs

Init ==
    /\ lock = Absent
    /\ rec = Absent
    /\ pc = [p \in Procs |-> "idle"]
    /\ runs = [p \in Procs |-> 0]
    /\ obs = [p \in Procs |-> NoOwner]
    /\ seen = [p \in Procs |-> NoOwner]
    /\ won = [p \in Procs |-> FALSE]
    /\ beat = [p \in Procs |-> FALSE]
    /\ sig = [p \in Procs |-> "none"]
    /\ reused = {}

-----------------------------------------------------------------------------
(* The loop of acquireInterprocessLock.                                    *)

Goto(p, from, to) == pc[p] = from /\ pc' = [pc EXCEPT ![p] = to]

Branch(p, from, test, yes, no) == Goto(p, from, IF test THEN yes ELSE no)

\* A caller whose turn has come in its process enters the loop.  A process
\* that is being stopped by a signal is not followed into another call.
Call(p) ==
    /\ runs[p] < MaxRuns
    /\ sig[p] = "none"
    /\ Goto(p, "idle", "probe")
    /\ UNCHANGED <<lock, rec, runs, obs, seen, won, beat, sig, reused>>

\* throwIfAborted at the head of the loop and in waitForDelay.
Abort(p) ==
    /\ "abort" \in Events
    /\ \E from \in {"probe", "wait"} : Goto(p, from, "idle")
    /\ UNCHANGED <<lock, rec, runs, obs, seen, won, beat, sig, reused>>

\* Line 100: a recovery directory keeps newcomers away from the lock.
ProbeRecovery(p) ==
    /\ Branch(p, "probe", rec = Absent, "create", "readRec")
    /\ UNCHANGED <<lock, rec, runs, obs, seen, won, beat, sig, reused>>

\* Variant for the checks: mkdir with { recursive: true } reports no EEXIST.
CreateLock_Recursive(p) ==
    /\ lock' = IF lock = Absent THEN Fresh ELSE lock
    /\ runs' = [runs EXCEPT ![p] = @ + 1]
    /\ Goto(p, "create", "own")
    /\ UNCHANGED <<rec, obs, seen, won, beat, sig, reused>>

\* tryCreateLease: mkdir decides between the contenders; EEXIST sends the
\* loser to look at the owner.
CreateLock(p) ==
    \/ /\ lock = Absent
       /\ lock' = Fresh
       /\ runs' = [runs EXCEPT ![p] = @ + 1]
       /\ Goto(p, "create", "own")
       /\ UNCHANGED <<rec, obs, seen, won, beat, sig, reused>>
    \/ /\ lock # Absent
       /\ Goto(p, "create", "observe")
       /\ UNCHANGED <<lock, rec, runs, obs, seen, won, beat, sig, reused>>

\* writeOwner goes by path: it succeeds in whatever directory is there.
OwnLock(p) ==
    /\ lock # Absent
    /\ lock' = Token(p)
    /\ Goto(p, "own", "hold")
    /\ UNCHANGED <<rec, runs, obs, seen, won, beat, sig, reused>>

OwnLockFails(p) ==
    /\ lock = Absent \/ "ioError" \in Events
    /\ Goto(p, "own", "undo")
    /\ UNCHANGED <<lock, rec, runs, obs, seen, won, beat, sig, reused>>

\* The catch of tryCreateLease removes the path without looking, and the call
\* fails with the error.
UndoLock(p) ==
    /\ lock' = Absent
    /\ Goto(p, "undo", "idle")
    /\ UNCHANGED <<rec, runs, obs, seen, won, beat, sig, reused>>

ObserveOwner(p) ==
    /\ obs' = [obs EXCEPT ![p] = ReadOwner(lock)]
    /\ Goto(p, "observe", "judge")
    /\ UNCHANGED <<lock, rec, runs, seen, won, beat, sig, reused>>

\* Variant for the checks: a lock without owner.json is never recovered.
JudgeOwner_OwnedOnly(p) ==
    /\ Branch(p, "judge", obs[p] # NoOwner /\ LockIsRecoverable(lock, obs[p]), "recover", "wait")
    /\ UNCHANGED <<lock, rec, runs, obs, seen, won, beat, sig, reused>>

JudgeOwner(p) ==
    /\ Branch(p, "judge", LockIsRecoverable(lock, obs[p]), "recover", "wait")
    /\ UNCHANGED <<lock, rec, runs, obs, seen, won, beat, sig, reused>>

Poll(p) ==
    /\ Goto(p, "wait", "probe")
    /\ UNCHANGED <<lock, rec, runs, obs, seen, won, beat, sig, reused>>

Busy(p) ==
    /\ "deadline" \in Events
    /\ Goto(p, "wait", "idle")
    /\ UNCHANGED <<lock, rec, runs, obs, seen, won, beat, sig, reused>>

-----------------------------------------------------------------------------
(* recoverAbandonedWriterLock: remove a dead owner's lock, one process at   *)
(* a time.                                                                  *)

\* Variant for the checks: two processes may both create the recovery directory.
CreateRecovery_Recursive(p) ==
    /\ rec' = IF rec = Absent THEN Fresh ELSE rec
    /\ runs' = [runs EXCEPT ![p] = @ + 1]
    /\ Goto(p, "recover", "ownRec")
    /\ UNCHANGED <<lock, obs, seen, won, beat, sig, reused>>

CreateRecovery(p) ==
    \/ /\ rec = Absent
       /\ rec' = Fresh
       /\ runs' = [runs EXCEPT ![p] = @ + 1]
       /\ Goto(p, "recover", "ownRec")
       /\ UNCHANGED <<lock, obs, seen, won, beat, sig, reused>>
    \/ /\ rec # Absent
       /\ Goto(p, "recover", "wait")
       /\ UNCHANGED <<lock, rec, runs, obs, seen, won, beat, sig, reused>>

OwnRecovery(p) ==
    /\ rec # Absent
    /\ rec' = Token(p)
    /\ Goto(p, "ownRec", "reread")
    /\ UNCHANGED <<lock, runs, obs, seen, won, beat, sig, reused>>

OwnRecoveryFails(p) ==
    /\ rec = Absent \/ "ioError" \in Events
    /\ Goto(p, "ownRec", "undoRec")
    /\ UNCHANGED <<lock, rec, runs, obs, seen, won, beat, sig, reused>>

UndoRecovery(p) ==
    /\ rec' = Absent
    /\ Goto(p, "undoRec", "idle")
    /\ UNCHANGED <<lock, runs, obs, seen, won, beat, sig, reused>>

RereadOwner(p) ==
    /\ seen' = [seen EXCEPT ![p] = ReadOwner(lock)]
    /\ Goto(p, "reread", "rejudge")
    /\ UNCHANGED <<lock, rec, runs, obs, won, beat, sig, reused>>

\* Lines 212-221: the two owners are compared only when both were read.
SameOwner(p) == obs[p] = NoOwner \/ seen[p] = NoOwner \/ obs[p] = seen[p]

\* Variant for the checks: the lock is removed on the strength of the first
\* reading alone.
RejudgeOwner_NoReread(p) ==
    /\ Goto(p, "rejudge", "reclaim")
    /\ won' = [won EXCEPT ![p] = FALSE]
    /\ UNCHANGED <<lock, rec, runs, obs, seen, beat, sig, reused>>

RejudgeOwner(p) ==
    /\ Branch(p, "rejudge",
              LockIsRecoverable(lock, seen[p]) /\ SameOwner(p), "reclaim", "leave")
    /\ won' = [won EXCEPT ![p] = FALSE]
    /\ UNCHANGED <<lock, rec, runs, obs, seen, beat, sig, reused>>

ReclaimLock(p) ==
    /\ lock' = Absent
    /\ won' = [won EXCEPT ![p] = TRUE]
    /\ Goto(p, "reclaim", "leave")
    /\ UNCHANGED <<rec, runs, obs, seen, beat, sig, reused>>

\* removeOwnedDirectory, called with this process's own token: read, then remove.
\* A recovery that won goes round the loop at once.
AfterRecovery(p) == IF won[p] THEN "probe" ELSE "wait"

\* Variant for the checks: the recovery directory is dropped on success only,
\* not in the finally block.
LeaveRecovery_OnSuccess(p) ==
    /\ Branch(p, "leave", won[p] /\ rec = Token(p), "dropRec", AfterRecovery(p))
    /\ UNCHANGED <<lock, rec, runs, obs, seen, won, beat, sig, reused>>

LeaveRecovery(p) ==
    /\ Branch(p, "leave", rec = Token(p), "dropRec", AfterRecovery(p))
    /\ UNCHANGED <<lock, rec, runs, obs, seen, won, beat, sig, reused>>

DropRecovery(p) ==
    /\ rec' = Absent
    /\ Goto(p, "dropRec", AfterRecovery(p))
    /\ UNCHANGED <<lock, runs, obs, seen, won, beat, sig, reused>>

-----------------------------------------------------------------------------
(* recoverAbandonedRecoveryLock: remove the recovery directory of a process *)
(* that died under it.                                                      *)

ReadRecoveryOwner(p) ==
    /\ seen' = [seen EXCEPT ![p] = ReadOwner(rec)]
    /\ Goto(p, "readRec", "judgeRec")
    /\ UNCHANGED <<lock, rec, runs, obs, won, beat, sig, reused>>

JudgeRecoveryOwner(p) ==
    /\ Branch(p, "judgeRec", LockIsRecoverable(rec, seen[p]), "checkRec", "observe")
    /\ UNCHANGED <<lock, rec, runs, obs, seen, won, beat, sig, reused>>

\* removeOwnedDirectory with the observed token: undefined removes whatever
\* is there.
CheckRecoveryOwner(p) ==
    /\ Branch(p, "checkRec", seen[p] \in {NoOwner, rec}, "clearRec", "observe")
    /\ UNCHANGED <<lock, rec, runs, obs, seen, won, beat, sig, reused>>

ClearRecovery(p) ==
    /\ rec' = Absent
    /\ Goto(p, "clearRec", "observe")
    /\ UNCHANGED <<lock, runs, obs, seen, won, beat, sig, reused>>

-----------------------------------------------------------------------------
(* The lease: heartbeat and release.                                        *)

\* The interval is armed until release() clears it.
HeartbeatCheck(p) ==
    /\ pc[p] = "hold" /\ sig[p] = "none" /\ ~beat[p]
    /\ lock = Token(p)
    /\ beat' = [beat EXCEPT ![p] = TRUE]
    /\ UNCHANGED <<lock, rec, pc, runs, obs, seen, won, sig, reused>>

\* A heartbeat in flight ends before release goes on; its write fails quietly
\* when the directory has gone.
HeartbeatWrite(p) ==
    /\ beat[p] /\ Live(p)
    /\ lock' = IF lock = Absent THEN Absent ELSE Token(p)
    /\ beat' = [beat EXCEPT ![p] = FALSE]
    /\ UNCHANGED <<rec, pc, runs, obs, seen, won, sig, reused>>

\* The operation settles, whatever its outcome.  When the signal handler has
\* started the release, this release returns at once.
FinishOperation(p) ==
    /\ Branch(p, "hold", sig[p] = "none", "release", "idle")
    /\ UNCHANGED <<lock, rec, runs, obs, seen, won, beat, sig, reused>>

\* Variant for the checks: release does not await the heartbeat in flight.
ReleaseLease_NoAwait(p) ==
    /\ Branch(p, "release", lock = Token(p), "remove", "idle")
    /\ UNCHANGED <<lock, rec, runs, obs, seen, won, beat, sig, reused>>

ReleaseLease(p) ==
    /\ ~beat[p]
    /\ Branch(p, "release", lock = Token(p), "remove", "idle")
    /\ UNCHANGED <<lock, rec, runs, obs, seen, won, beat, sig, reused>>

RemoveLock(p) ==
    /\ lock' = Absent
    /\ Goto(p, "remove", "idle")
    /\ UNCHANGED <<rec, runs, obs, seen, won, beat, sig, reused>>

\* destroyIndex removes the storage directory, lock included, and is still
\* deleting the rest of the tree afterwards.
DestroyUnlinksLock(p) ==
    /\ "destroy" \in Events
    /\ pc[p] = "hold"
    /\ lock' = Absent
    /\ rec' = Absent
    /\ UNCHANGED <<pc, runs, obs, seen, won, beat, sig, reused>>

-----------------------------------------------------------------------------
(* The signal handler: it releases every lease while the operation goes on, *)
(* then kills the process.                                                  *)

Signal(p) ==
    /\ "signal" \in Events
    /\ pc[p] = "hold" /\ sig[p] = "none"
    /\ sig' = [sig EXCEPT ![p] = "read"]
    /\ UNCHANGED <<lock, rec, pc, runs, obs, seen, won, beat, reused>>

SignalReads(p) ==
    /\ Live(p) /\ sig[p] = "read" /\ ~beat[p]
    /\ sig' = [sig EXCEPT ![p] = IF lock = Token(p) THEN "remove" ELSE "kill"]
    /\ UNCHANGED <<lock, rec, pc, runs, obs, seen, won, beat, reused>>

SignalRemoves(p) ==
    /\ Live(p) /\ sig[p] = "remove"
    /\ lock' = Absent
    /\ sig' = [sig EXCEPT ![p] = "kill"]
    /\ UNCHANGED <<rec, pc, runs, obs, seen, won, beat, reused>>

SignalKills(p) ==
    /\ Live(p) /\ sig[p] = "kill"
    /\ pc' = [pc EXCEPT ![p] = "dead"]
    /\ UNCHANGED <<lock, rec, runs, obs, seen, won, beat, sig, reused>>

-----------------------------------------------------------------------------
(* What happens to processes and directories from outside.                  *)

\* What a process that dies leaves of the directory it was removing:
\* removeTree deletes owner.json before the directory.
HalfRemoved(dir) == IF dir = Absent THEN {Absent} ELSE {dir, Fresh}

CrashWindow(p) ==
    CASE pc[p] \in {"own", "undo", "remove"} -> "crashCreating"
      [] pc[p] \in RecoverySide \cup {"clearRec"} -> "crashRecovering"
      [] OTHER -> "crash"

Crash(p) ==
    /\ Live(p) /\ pc[p] # "idle"
    /\ CrashWindow(p) \in Events
    /\ pc' = [pc EXCEPT ![p] = "dead"]
    /\ lock' \in IF pc[p] \in {"undo", "remove", "reclaim"} THEN HalfRemoved(lock) ELSE {lock}
    /\ rec' \in IF pc[p] \in {"undoRec", "dropRec", "clearRec"} THEN HalfRemoved(rec) ELSE {rec}
    /\ UNCHANGED <<runs, obs, seen, won, beat, sig, reused>>

Exit(p) ==
    /\ "exit" \in Events
    /\ Goto(p, "idle", "dead")
    /\ UNCHANGED <<lock, rec, runs, obs, seen, won, beat, sig, reused>>

ReusePid(p) ==
    /\ "pidReuse" \in Events
    /\ ~Live(p)
    /\ reused' = reused \cup {p}
    /\ UNCHANGED <<lock, rec, pc, runs, obs, seen, won, beat, sig>>

\* Half a minute passes over a directory without owner.json.  A live process
\* that is still filling or removing it needs far less unless it is "slow".
AgeLock ==
    /\ lock = Fresh
    /\ "slow" \in Events \/ \A p \in Procs : pc[p] \notin {"own", "undo"}
    /\ lock' = Stale
    /\ UNCHANGED <<rec, pc, runs, obs, seen, won, beat, sig, reused>>

AgeRecovery ==
    /\ rec = Fresh
    /\ "slow" \in Events \/ \A p \in Procs : pc[p] \notin {"ownRec", "undoRec"}
    /\ rec' = Stale
    /\ UNCHANGED <<lock, pc, runs, obs, seen, won, beat, sig, reused>>

-----------------------------------------------------------------------------

Acquire(p) ==
    \/ ProbeRecovery(p) \/ CreateLock(p) \/ OwnLock(p) \/ OwnLockFails(p) \/ UndoLock(p)
    \/ ObserveOwner(p) \/ JudgeOwner(p) \/ Poll(p)

Recover(p) ==
    \/ CreateRecovery(p) \/ OwnRecovery(p) \/ OwnRecoveryFails(p) \/ UndoRecovery(p)
    \/ RereadOwner(p) \/ RejudgeOwner(p) \/ ReclaimLock(p) \/ LeaveRecovery(p) \/ DropRecovery(p)
    \/ ReadRecoveryOwner(p) \/ JudgeRecoveryOwner(p) \/ CheckRecoveryOwner(p) \/ ClearRecovery(p)

Release(p) ==
    \/ ReleaseLease(p) \/ RemoveLock(p)
    \/ SignalReads(p) \/ SignalRemoves(p) \/ SignalKills(p)

Operate(p) == HeartbeatCheck(p) \/ FinishOperation(p) \/ DestroyUnlinksLock(p)

Environment(p) ==
    \/ Call(p) \/ Abort(p) \/ Busy(p)
    \/ Signal(p) \/ Crash(p) \/ Exit(p) \/ ReusePid(p)

Next ==
    \/ \E p \in Procs :
          \/ Acquire(p) \/ Recover(p) \/ Release(p) \/ HeartbeatWrite(p)
          \/ Operate(p) \/ Environment(p)
    \/ AgeLock
    \/ AgeRecovery

Spec == Init /\ [][Next]_vars

\* The event loop of a process that is not dead keeps running, so every step
\* that only awaits the file system or a poll timer is taken, and time passes.
\* Nothing obliges an operation to end, a caller to call or give up, a signal
\* to come or a process to die.
Fairness ==
    /\ \A p \in Procs :
          /\ WF_vars(Acquire(p) \/ Recover(p) \/ Release(p))
          /\ WF_vars(HeartbeatWrite(p))
    /\ WF_vars(AgeLock)
    /\ WF_vars(AgeRecovery)

FairSpec == Spec /\ Fairness

-----------------------------------------------------------------------------
(* Properties.                                                              *)

\* docs/api-reference.md: the writer lock "serializes index writers across
\* local OS processes": two processes never run their operation at once.
MutualExclusion ==
    \A p, q \in Procs : pc[p] = "hold" /\ pc[q] = "hold" => p = q

\* The detailed protocol implements the abstract mutex: the processes whose
\* operation runs enter and leave it one at a time.
Writing == {p \in Procs : pc[p] = "hold"}

Mutex == INSTANCE WriteMutex WITH Writers <- Procs, writing <- Writing

ImplementsMutex == Mutex!Spec

\* While its operation runs, and until its release has removed it, a process
\* finds its own token in the lock: nobody took the directory from under it.
LeaseIntact ==
    \A p \in Procs : pc[p] \in {"hold", "remove"} => lock = Token(p)

\* Only one process at a time works under the recovery directory, so that the
\* owner read at line 211 is still the owner removed at line 222.
RecoveryExclusion ==
    \A p, q \in Procs :
        pc[p] \in RecoverySide /\ pc[q] \in RecoverySide => p = q

LeaseSound == LeaseIntact /\ RecoveryExclusion

\* A token leaves the lock only by its own process's release, or after that
\* process has died: no live writer is evicted.
OwnerKeepsLock ==
    \A p \in Procs : lock = Token(p) /\ lock' # lock => pc[p] \in {"dead", "remove"}

LiveOwnerKeepsLock == [][OwnerKeepsLock]_vars

\* A process whose call has returned, or whose signal handler is about to kill
\* it, is no longer the owner of record: no heartbeat or late write brings its
\* token back.
ReleasedMeansGone ==
    \A p \in Procs :
        (sig[p] = "kill" \/ (pc[p] = "idle" /\ sig[p] = "none")) => lock # Token(p)

\* The lock is there and no living process will remove it.
LockAbandoned ==
    /\ lock # Absent
    /\ \A p \in Procs : pc[p] \in LockSide => lock # Token(p) /\ pc[p] \notin {"own", "undo"}

\* Some process is on its way to the lock, or removes what keeps it from it.
SomebodyWaits == \E p \in Procs : pc[p] \in Waiting \cup RecoverySide

\* docs/cli-reference.md: "a dead owner is recovered from its PID and
\* heartbeat".  While some process is left that waits or recovers, a lock that
\* a dead process left behind, with or without owner.json, is eventually
\* removed; and the recovery directory, whose presence keeps everyone from the
\* lock, never stays for good, whenever its creator died.  To have begun a
\* recovery is not enough.  A pid that another process has taken over makes a
\* dead owner look alive for as long as that one lives.
AbandonedRecovered ==
    /\ (LockAbandoned /\ SomebodyWaits) ~> (~LockAbandoned \/ ~SomebodyWaits \/ reused # {})
    /\ (rec # Absent /\ SomebodyWaits) ~> (rec = Absent \/ ~SomebodyWaits \/ reused # {})

-----------------------------------------------------------------------------
(* The inductive invariant behind the safety properties.  It holds when the *)
(* events are the ones the protocol tolerates: a process does not die inside *)
(* the two windows, a live one fills its directory in time, and neither a   *)
(* signal nor destroyIndex removes the lock under a running operation.      *)

Tolerated == {"deadline", "abort", "exit", "ioError", "crash", "pidReuse"}

\* The lock belongs to the one process in its creation or under its lease.
LockInv ==
    /\ lock # Stale
    /\ lock = Fresh => \E p \in Procs : pc[p] \in {"own", "undo"}
    /\ \A p \in Procs : pc[p] \in {"own", "undo"} => lock = Fresh
    /\ \A p \in Procs : pc[p] \in {"hold", "release", "remove"} => lock = Token(p)
    /\ \A p, q \in Procs : pc[p] \in LockSide /\ pc[q] \in LockSide => p = q
    /\ lock \in Tokens => \/ pc[lock[1]] = "dead"
                         \/ /\ pc[lock[1]] \in {"hold", "release", "remove"}
                            /\ lock = Token(lock[1])
    /\ \A p \in Procs : beat[p] /\ Live(p) => pc[p] \in {"hold", "release"}
    /\ \A p \in Procs : sig[p] = "none"

\* The recovery directory belongs to the one living process working under it.
RecoveryInv ==
    /\ rec # Stale
    /\ rec = Fresh => \E p \in Procs : pc[p] \in {"ownRec", "undoRec"}
    /\ \A p \in Procs : pc[p] \in {"ownRec", "undoRec"} => rec = Fresh
    /\ \A p \in Procs :
          pc[p] \in RecoverySide \ {"ownRec", "undoRec"} => rec = Token(p)
    /\ RecoveryExclusion
    /\ rec \in Tokens => pc[rec[1]] \in RecoverySide
    /\ \A p \in Procs : pc[p] # "clearRec"

\* What a process remembers: a recovery is only ever begun for a dead owner,
\* and the owner compared at line 218 is still in the lock.
MemoryInv ==
    /\ \A p \in Procs : pc[p] = "checkRec" =>
          seen[p] \in Tokens /\ pc[seen[p][1]] = "dead"
    /\ \A p \in Procs : pc[p] \in RecoverySide \cup {"recover"} =>
          obs[p] \in Tokens /\ pc[obs[p][1]] = "dead"
    /\ \A p \in Procs : pc[p] = "rejudge" /\ seen[p] = obs[p] => lock = obs[p]
    /\ \A p \in Procs : pc[p] = "reclaim" => lock = obs[p]

IInv == TypeOK /\ LockInv /\ RecoveryInv /\ MemoryInv
=============================================================================
