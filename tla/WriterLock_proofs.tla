------------------------- MODULE WriterLock_proofs -------------------------
(* Proofs about WriterLock, for any set of processes and any bounds.       *)
EXTENDS WriterLock, TLAPS

\* Every step, of whichever process and with whichever events, keeps every
\* variable in its type.
LEMMA TypeStep == TypeOK /\ [Next]_vars => TypeOK'
<1> SUFFICES ASSUME TypeOK, [Next]_vars PROVE TypeOK'
  OBVIOUS
<1> USE SentinelAssumption DEF TypeOK, Dirs, LockSide, RecoverySide, Waiting
<1>1. ASSUME NEW p \in Procs, Acquire(p) PROVE TypeOK'
  BY <1>1 DEF Acquire, Goto, Branch, ProbeRecovery, CreateLock, OwnLock, OwnLockFails,
     UndoLock, ObserveOwner, JudgeOwner, Poll, Token, Tokens, ReadOwner
<1>2. ASSUME NEW p \in Procs, Recover(p) PROVE TypeOK'
  <2> USE DEF Goto, Branch, AfterRecovery, Token, Tokens, ReadOwner
  <2>1. CASE CreateRecovery(p)  BY <2>1 DEF CreateRecovery
  <2>2. CASE OwnRecovery(p)  BY <2>2 DEF OwnRecovery
  <2>3. CASE OwnRecoveryFails(p)  BY <2>3 DEF OwnRecoveryFails
  <2>4. CASE UndoRecovery(p)  BY <2>4 DEF UndoRecovery
  <2>5. CASE RereadOwner(p)  BY <2>5 DEF RereadOwner
  <2>6. CASE RejudgeOwner(p)  BY <2>6 DEF RejudgeOwner
  <2>7. CASE ReclaimLock(p)  BY <2>7 DEF ReclaimLock
  <2>8. CASE LeaveRecovery(p)  BY <2>8 DEF LeaveRecovery
  <2>9. CASE DropRecovery(p)  BY <2>9 DEF DropRecovery
  <2>10. CASE ReadRecoveryOwner(p)  BY <2>10 DEF ReadRecoveryOwner
  <2>11. CASE JudgeRecoveryOwner(p)  BY <2>11 DEF JudgeRecoveryOwner
  <2>12. CASE CheckRecoveryOwner(p)  BY <2>12 DEF CheckRecoveryOwner
  <2>13. CASE ClearRecovery(p)  BY <2>13 DEF ClearRecovery
  <2> QED BY <1>2, <2>1, <2>2, <2>3, <2>4, <2>5, <2>6, <2>7, <2>8, <2>9, <2>10, <2>11, <2>12, <2>13 DEF Recover
<1>3. ASSUME NEW p \in Procs, Release(p) PROVE TypeOK'
  BY <1>3 DEF Release, Goto, Branch, ReleaseLease, RemoveLock, SignalReads, SignalRemoves,
     SignalKills
<1>4. ASSUME NEW p \in Procs, HeartbeatWrite(p) PROVE TypeOK'
  BY <1>4 DEF HeartbeatWrite, Token, Tokens
<1>5. ASSUME NEW p \in Procs, Operate(p) PROVE TypeOK'
  BY <1>5 DEF Operate, Goto, Branch, HeartbeatCheck, FinishOperation, DestroyUnlinksLock
<1>6. ASSUME NEW p \in Procs, Environment(p) PROVE TypeOK'
  BY <1>6 DEF Environment, Goto, Branch, Call, Abort, Busy, Signal, Crash, Exit, ReusePid,
     HalfRemoved
<1>7. CASE AgeLock
  BY <1>7 DEF AgeLock
<1>8. CASE AgeRecovery
  BY <1>8 DEF AgeRecovery
<1>9. CASE UNCHANGED vars
  BY <1>9 DEF vars
<1> QED
  BY <1>1, <1>2, <1>3, <1>4, <1>5, <1>6, <1>7, <1>8, <1>9 DEF Next

\* The type invariant, whatever events are allowed.
THEOREM TypeCorrect == Spec => []TypeOK
<1>1. Init => TypeOK
  BY DEF Init, TypeOK, Dirs
<1> QED
  BY <1>1, TypeStep, PTL DEF Spec

\* The lock changes hands only between a process and nobody.
LEMMA LockStep ==
  ASSUME Events \subseteq Tolerated, IInv, [Next]_vars
  PROVE  LockInv'
<1> USE SentinelAssumption DEF IInv, TypeOK, LockInv, RecoveryInv, MemoryInv, Dirs, Tokens, LockSide, RecoverySide, Waiting, Tolerated, Goto, Branch, Token, Live, AfterRecovery, ReadOwner
<1>1. ASSUME NEW p \in Procs, Acquire(p) PROVE LockInv'
  <2>1. CASE ProbeRecovery(p)  BY <2>1 DEF ProbeRecovery
  <2>2. CASE CreateLock(p)  BY <2>2 DEF CreateLock
  <2>3. CASE OwnLock(p)  BY <2>3 DEF OwnLock
  <2>4. CASE OwnLockFails(p)  BY <2>4 DEF OwnLockFails
  <2>5. CASE UndoLock(p)  BY <2>5 DEF UndoLock
  <2>6. CASE ObserveOwner(p)  BY <2>6 DEF ObserveOwner
  <2>7. CASE JudgeOwner(p)  BY <2>7 DEF JudgeOwner
  <2>8. CASE Poll(p)  BY <2>8 DEF Poll
  <2> QED BY <1>1, <2>1, <2>2, <2>3, <2>4, <2>5, <2>6, <2>7, <2>8 DEF Acquire
<1>2. ASSUME NEW p \in Procs, Recover(p) PROVE LockInv'
  <2>1. CASE CreateRecovery(p)  BY <2>1 DEF CreateRecovery
  <2>2. CASE OwnRecovery(p)  BY <2>2 DEF OwnRecovery
  <2>3. CASE OwnRecoveryFails(p)  BY <2>3 DEF OwnRecoveryFails
  <2>4. CASE UndoRecovery(p)  BY <2>4 DEF UndoRecovery
  <2>5. CASE RereadOwner(p)  BY <2>5 DEF RereadOwner
  <2>6. CASE RejudgeOwner(p)  BY <2>6 DEF RejudgeOwner, LockIsRecoverable, SameOwner
  <2>7. CASE ReclaimLock(p)  BY <2>7 DEF ReclaimLock
  <2>8. CASE LeaveRecovery(p)  BY <2>8 DEF LeaveRecovery
  <2>9. CASE DropRecovery(p)  BY <2>9 DEF DropRecovery
  <2>10. CASE ReadRecoveryOwner(p)  BY <2>10 DEF ReadRecoveryOwner
  <2>11. CASE JudgeRecoveryOwner(p)  BY <2>11 DEF JudgeRecoveryOwner
  <2>12. CASE CheckRecoveryOwner(p)  BY <2>12 DEF CheckRecoveryOwner
  <2>13. CASE ClearRecovery(p)  BY <2>13 DEF ClearRecovery
  <2> QED BY <1>2, <2>1, <2>2, <2>3, <2>4, <2>5, <2>6, <2>7, <2>8, <2>9, <2>10, <2>11, <2>12, <2>13 DEF Recover
<1>3. ASSUME NEW p \in Procs, Release(p) PROVE LockInv'
  <2>1. CASE ReleaseLease(p)  BY <2>1 DEF ReleaseLease
  <2>2. CASE RemoveLock(p)  BY <2>2 DEF RemoveLock
  <2>3. CASE SignalReads(p)  BY <2>3 DEF SignalReads
  <2>4. CASE SignalRemoves(p)  BY <2>4 DEF SignalRemoves
  <2>5. CASE SignalKills(p)  BY <2>5 DEF SignalKills
  <2> QED BY <1>3, <2>1, <2>2, <2>3, <2>4, <2>5 DEF Release
<1>4. ASSUME NEW p \in Procs, Operate(p) PROVE LockInv'
  <2>1. CASE HeartbeatCheck(p)  BY <2>1 DEF HeartbeatCheck
  <2>2. CASE FinishOperation(p)  BY <2>2 DEF FinishOperation
  <2>3. CASE DestroyUnlinksLock(p)  BY <2>3 DEF DestroyUnlinksLock
  <2> QED BY <1>4, <2>1, <2>2, <2>3 DEF Operate
<1>5. ASSUME NEW p \in Procs, Environment(p) PROVE LockInv'
  <2>1. CASE Call(p)  BY <2>1 DEF Call
  <2>2. CASE Abort(p)  BY <2>2 DEF Abort
  <2>3. CASE Busy(p)  BY <2>3 DEF Busy
  <2>4. CASE Signal(p)  BY <2>4 DEF Signal
  <2>5. CASE Crash(p)  BY <2>5 DEF Crash, CrashWindow, HalfRemoved
  <2>6. CASE Exit(p)  BY <2>6 DEF Exit
  <2>7. CASE ReusePid(p)  BY <2>7 DEF ReusePid
  <2> QED BY <1>5, <2>1, <2>2, <2>3, <2>4, <2>5, <2>6, <2>7 DEF Environment
<1>6. ASSUME NEW p \in Procs, HeartbeatWrite(p) PROVE LockInv'
  BY <1>6 DEF HeartbeatWrite
<1>7. CASE AgeLock
  BY <1>7 DEF AgeLock
<1>8. CASE AgeRecovery
  BY <1>8 DEF AgeRecovery
<1>9. CASE UNCHANGED vars
  BY <1>9 DEF vars
<1> QED
  BY <1>1, <1>2, <1>3, <1>4, <1>5, <1>6, <1>7, <1>8, <1>9 DEF Next

\* So does the recovery directory.
LEMMA RecoveryStep ==
  ASSUME Events \subseteq Tolerated, IInv, [Next]_vars
  PROVE  RecoveryInv'
<1> USE SentinelAssumption DEF IInv, TypeOK, RecoveryInv, MemoryInv, RecoveryExclusion, Dirs, Tokens, LockSide, RecoverySide, Waiting, Tolerated, Goto, Branch, Token, Live, AfterRecovery, ReadOwner
<1>1. ASSUME NEW p \in Procs, Acquire(p) PROVE RecoveryInv'
  <2>1. CASE ProbeRecovery(p)  BY <2>1 DEF ProbeRecovery
  <2>2. CASE CreateLock(p)  BY <2>2 DEF CreateLock
  <2>3. CASE OwnLock(p)  BY <2>3 DEF OwnLock
  <2>4. CASE OwnLockFails(p)  BY <2>4 DEF OwnLockFails
  <2>5. CASE UndoLock(p)  BY <2>5 DEF UndoLock
  <2>6. CASE ObserveOwner(p)  BY <2>6 DEF ObserveOwner
  <2>7. CASE JudgeOwner(p)  BY <2>7 DEF JudgeOwner
  <2>8. CASE Poll(p)  BY <2>8 DEF Poll
  <2> QED BY <1>1, <2>1, <2>2, <2>3, <2>4, <2>5, <2>6, <2>7, <2>8 DEF Acquire
<1>2. ASSUME NEW p \in Procs, Recover(p) PROVE RecoveryInv'
  <2>1. CASE CreateRecovery(p)  BY <2>1 DEF CreateRecovery
  <2>2. CASE OwnRecovery(p)  BY <2>2 DEF OwnRecovery
  <2>3. CASE OwnRecoveryFails(p)  BY <2>3 DEF OwnRecoveryFails
  <2>4. CASE UndoRecovery(p)  BY <2>4 DEF UndoRecovery
  <2>5. CASE RereadOwner(p)  BY <2>5 DEF RereadOwner
  <2>6. CASE RejudgeOwner(p)  BY <2>6 DEF RejudgeOwner
  <2>7. CASE ReclaimLock(p)  BY <2>7 DEF ReclaimLock
  <2>8. CASE LeaveRecovery(p)  BY <2>8 DEF LeaveRecovery
  <2>9. CASE DropRecovery(p)  BY <2>9 DEF DropRecovery
  <2>10. CASE ReadRecoveryOwner(p)  BY <2>10 DEF ReadRecoveryOwner
  <2>11. CASE JudgeRecoveryOwner(p)  BY <2>11 DEF JudgeRecoveryOwner
  <2>12. CASE CheckRecoveryOwner(p)  BY <2>12 DEF CheckRecoveryOwner
  <2>13. CASE ClearRecovery(p)  BY <2>13 DEF ClearRecovery
  <2> QED BY <1>2, <2>1, <2>2, <2>3, <2>4, <2>5, <2>6, <2>7, <2>8, <2>9, <2>10, <2>11, <2>12, <2>13 DEF Recover
<1>3. ASSUME NEW p \in Procs, Release(p) PROVE RecoveryInv'
  <2>1. CASE ReleaseLease(p)  BY <2>1 DEF ReleaseLease
  <2>2. CASE RemoveLock(p)  BY <2>2 DEF RemoveLock
  <2>3. CASE SignalReads(p)  BY <2>3 DEF SignalReads
  <2>4. CASE SignalRemoves(p)  BY <2>4 DEF SignalRemoves
  <2>5. CASE SignalKills(p)  BY <2>5 DEF SignalKills, LockInv
  <2> QED BY <1>3, <2>1, <2>2, <2>3, <2>4, <2>5 DEF Release
<1>4. ASSUME NEW p \in Procs, Operate(p) PROVE RecoveryInv'
  <2>1. CASE HeartbeatCheck(p)  BY <2>1 DEF HeartbeatCheck
  <2>2. CASE FinishOperation(p)  BY <2>2 DEF FinishOperation
  <2>3. CASE DestroyUnlinksLock(p)  BY <2>3 DEF DestroyUnlinksLock
  <2> QED BY <1>4, <2>1, <2>2, <2>3 DEF Operate
<1>5. ASSUME NEW p \in Procs, Environment(p) PROVE RecoveryInv'
  <2>1. CASE Call(p)  BY <2>1 DEF Call
  <2>2. CASE Abort(p)  BY <2>2 DEF Abort
  <2>3. CASE Busy(p)  BY <2>3 DEF Busy
  <2>4. CASE Signal(p)  BY <2>4 DEF Signal
  <2>5. CASE Crash(p)  BY <2>5 DEF Crash, CrashWindow, HalfRemoved
  <2>6. CASE Exit(p)  BY <2>6 DEF Exit
  <2>7. CASE ReusePid(p)  BY <2>7 DEF ReusePid
  <2> QED BY <1>5, <2>1, <2>2, <2>3, <2>4, <2>5, <2>6, <2>7 DEF Environment
<1>6. ASSUME NEW p \in Procs, HeartbeatWrite(p) PROVE RecoveryInv'
  BY <1>6 DEF HeartbeatWrite
<1>7. CASE AgeLock
  BY <1>7 DEF AgeLock
<1>8. CASE AgeRecovery
  BY <1>8 DEF AgeRecovery
<1>9. CASE UNCHANGED vars
  BY <1>9 DEF vars
<1> QED
  BY <1>1, <1>2, <1>3, <1>4, <1>5, <1>6, <1>7, <1>8, <1>9 DEF Next

\* What a process remembers of an owner stays true, for the dead stay dead.
LEMMA MemoryStep ==
  ASSUME Events \subseteq Tolerated, IInv, [Next]_vars
  PROVE  MemoryInv'
<1> USE SentinelAssumption DEF IInv, TypeOK, LockInv, RecoveryInv, MemoryInv, RecoveryExclusion, Dirs, Tokens, LockSide, RecoverySide, Waiting, Tolerated, Goto, Branch, Token, Live, AfterRecovery, ReadOwner
<1>1. ASSUME NEW p \in Procs, Acquire(p) PROVE MemoryInv'
  <2>1. CASE ProbeRecovery(p)  BY <2>1 DEF ProbeRecovery
  <2>2. CASE CreateLock(p)  BY <2>2 DEF CreateLock
  <2>3. CASE OwnLock(p)  BY <2>3 DEF OwnLock
  <2>4. CASE OwnLockFails(p)  BY <2>4 DEF OwnLockFails
  <2>5. CASE UndoLock(p)  BY <2>5 DEF UndoLock
  <2>6. CASE ObserveOwner(p)  BY <2>6 DEF ObserveOwner
  <2>7. CASE JudgeOwner(p)  BY <2>7 DEF JudgeOwner, LockIsRecoverable, OwnerProcessIsAlive
  <2>8. CASE Poll(p)  BY <2>8 DEF Poll
  <2> QED BY <1>1, <2>1, <2>2, <2>3, <2>4, <2>5, <2>6, <2>7, <2>8 DEF Acquire
<1>2. ASSUME NEW p \in Procs, Recover(p) PROVE MemoryInv'
  <2>1. CASE CreateRecovery(p)  BY <2>1 DEF CreateRecovery
  <2>2. CASE OwnRecovery(p)  BY <2>2 DEF OwnRecovery
  <2>3. CASE OwnRecoveryFails(p)  BY <2>3 DEF OwnRecoveryFails
  <2>4. CASE UndoRecovery(p)  BY <2>4 DEF UndoRecovery
  <2>5. CASE RereadOwner(p)  BY <2>5 DEF RereadOwner
  <2>6. CASE RejudgeOwner(p)  BY <2>6 DEF RejudgeOwner, LockIsRecoverable, SameOwner
  <2>7. CASE ReclaimLock(p)  BY <2>7 DEF ReclaimLock
  <2>8. CASE LeaveRecovery(p)  BY <2>8 DEF LeaveRecovery
  <2>9. CASE DropRecovery(p)  BY <2>9 DEF DropRecovery
  <2>10. CASE ReadRecoveryOwner(p)  BY <2>10 DEF ReadRecoveryOwner
  <2>11. CASE JudgeRecoveryOwner(p)  BY <2>11 DEF JudgeRecoveryOwner, LockIsRecoverable, OwnerProcessIsAlive
  <2>12. CASE CheckRecoveryOwner(p)  BY <2>12 DEF CheckRecoveryOwner
  <2>13. CASE ClearRecovery(p)  BY <2>13 DEF ClearRecovery
  <2> QED BY <1>2, <2>1, <2>2, <2>3, <2>4, <2>5, <2>6, <2>7, <2>8, <2>9, <2>10, <2>11, <2>12, <2>13 DEF Recover
<1>3. ASSUME NEW p \in Procs, Release(p) PROVE MemoryInv'
  <2>1. CASE ReleaseLease(p)  BY <2>1 DEF ReleaseLease
  <2>2. CASE RemoveLock(p)  BY <2>2 DEF RemoveLock
  <2>3. CASE SignalReads(p)  BY <2>3 DEF SignalReads
  <2>4. CASE SignalRemoves(p)  BY <2>4 DEF SignalRemoves
  <2>5. CASE SignalKills(p)  BY <2>5 DEF SignalKills
  <2> QED BY <1>3, <2>1, <2>2, <2>3, <2>4, <2>5 DEF Release
<1>4. ASSUME NEW p \in Procs, Operate(p) PROVE MemoryInv'
  <2>1. CASE HeartbeatCheck(p)  BY <2>1 DEF HeartbeatCheck
  <2>2. CASE FinishOperation(p)  BY <2>2 DEF FinishOperation
  <2>3. CASE DestroyUnlinksLock(p)  BY <2>3 DEF DestroyUnlinksLock
  <2> QED BY <1>4, <2>1, <2>2, <2>3 DEF Operate
<1>5. ASSUME NEW p \in Procs, Environment(p) PROVE MemoryInv'
  <2>1. CASE Call(p)  BY <2>1 DEF Call
  <2>2. CASE Abort(p)  BY <2>2 DEF Abort
  <2>3. CASE Busy(p)  BY <2>3 DEF Busy
  <2>4. CASE Signal(p)  BY <2>4 DEF Signal
  <2>5. CASE Crash(p)  BY <2>5 DEF Crash, CrashWindow, HalfRemoved
  <2>6. CASE Exit(p)  BY <2>6 DEF Exit
  <2>7. CASE ReusePid(p)  BY <2>7 DEF ReusePid
  <2> QED BY <1>5, <2>1, <2>2, <2>3, <2>4, <2>5, <2>6, <2>7 DEF Environment
<1>6. ASSUME NEW p \in Procs, HeartbeatWrite(p) PROVE MemoryInv'
  BY <1>6 DEF HeartbeatWrite
<1>7. CASE AgeLock
  BY <1>7 DEF AgeLock
<1>8. CASE AgeRecovery
  BY <1>8 DEF AgeRecovery
<1>9. CASE UNCHANGED vars
  BY <1>9 DEF vars
<1> QED
  BY <1>1, <1>2, <1>3, <1>4, <1>5, <1>6, <1>7, <1>8, <1>9 DEF Next

\* The inductive invariant is one, under the tolerated events.
LEMMA Invariance ==
  ASSUME Events \subseteq Tolerated
  PROVE  Spec => []IInv
<1>1. Init => IInv
  <2> SUFFICES ASSUME Init PROVE IInv
    OBVIOUS
  <2>1. TypeOK
    BY DEF Init, TypeOK, Dirs
  <2>2. LockInv
    BY SentinelAssumption DEF Init, LockInv, LockSide
  <2>3. RecoveryInv /\ MemoryInv
    BY SentinelAssumption DEF Init, RecoveryInv, RecoveryExclusion, MemoryInv, RecoverySide
  <2> QED
    BY <2>1, <2>2, <2>3 DEF IInv
<1>2. IInv /\ [Next]_vars => IInv'
  BY TypeStep, LockStep, RecoveryStep, MemoryStep DEF IInv
<1> QED
  BY <1>1, <1>2, PTL DEF Spec

\* Two processes never run their operation at once, a running writer's lock is
\* never taken, and only one process at a time recovers a lock, for any number
\* of processes and calls, as long as no process dies inside the two windows.
THEOREM Exclusion ==
  ASSUME Events \subseteq Tolerated
  PROVE  Spec => [](MutualExclusion /\ LeaseSound)
<1>1. IInv => MutualExclusion /\ LeaseSound
  BY DEF IInv, LockInv, RecoveryInv, MutualExclusion, LeaseSound, LeaseIntact, LockSide
<1> QED
  BY <1>1, Invariance, PTL

\* The lock names a running operation's owner for as long as it runs, and only one process at a
\* time works under the recovery directory.
THEOREM LeaseKept ==
  ASSUME Events \subseteq Tolerated
  PROVE  Spec => []LeaseSound
  BY Exclusion, PTL

\* After a call has returned, no write of its process brings its token back.
THEOREM Gone ==
  ASSUME Events \subseteq Tolerated
  PROVE  Spec => []ReleasedMeansGone
<1>1. IInv => ReleasedMeansGone
  <2> SUFFICES ASSUME IInv, NEW p \in Procs, sig[p] = "kill" \/ pc[p] = "idle", lock = Token(p)
               PROVE  FALSE
    BY DEF ReleasedMeansGone
  <2>1. Token(p) \in Tokens /\ Token(p)[1] = p
    BY DEF IInv, TypeOK, Token, Tokens
  <2>2. pc[p] = "dead" \/ pc[p] \in {"hold", "release", "remove"}
    BY <2>1 DEF IInv, LockInv
  <2> QED
    BY <2>2 DEF IInv, LockInv
<1> QED
  BY <1>1, Invariance, PTL

\* The two ways the lock changes that are not a process's own: both need a
\* dead owner or a directory without one.
LEMMA LockChanges ==
  ASSUME Events \subseteq Tolerated, IInv, [Next]_vars, lock' # lock, lock \in Tokens
  PROVE  \E p \in Procs : \/ pc[p] = "remove" /\ lock = Token(p)
                          \/ pc[p] = "reclaim" /\ lock = obs[p]
<1> USE SentinelAssumption DEF IInv, LockInv, MemoryInv, Goto, Branch, Tolerated
<1>1. ASSUME NEW p \in Procs, Acquire(p) PROVE pc[p] = "remove" \/ pc[p] = "reclaim"
  BY <1>1 DEF Acquire, ProbeRecovery, CreateLock, OwnLock, OwnLockFails, UndoLock,
     ObserveOwner, JudgeOwner, Poll, Tokens
<1>2. ASSUME NEW p \in Procs, Recover(p) PROVE pc[p] = "reclaim"
  BY <1>2 DEF Recover, CreateRecovery, OwnRecovery, OwnRecoveryFails, UndoRecovery,
     RereadOwner, RejudgeOwner, ReclaimLock, LeaveRecovery, DropRecovery,
     ReadRecoveryOwner, JudgeRecoveryOwner, CheckRecoveryOwner, ClearRecovery
<1>3. ASSUME NEW p \in Procs, Release(p) PROVE pc[p] = "remove"
  BY <1>3 DEF Release, ReleaseLease, RemoveLock, SignalReads, SignalRemoves, SignalKills
<1>4. ASSUME NEW p \in Procs, HeartbeatWrite(p) PROVE FALSE
  BY <1>4 DEF HeartbeatWrite
<1>5. ASSUME NEW p \in Procs, Operate(p) PROVE FALSE
  BY <1>5 DEF Operate, HeartbeatCheck, FinishOperation, DestroyUnlinksLock
<1>6. ASSUME NEW p \in Procs, Environment(p) PROVE FALSE
  <2>1. ~Crash(p)
    BY DEF Crash, CrashWindow, RecoverySide
  <2> QED
    BY <1>6, <2>1 DEF Environment, Call, Abort, Busy, Signal, Exit, ReusePid
<1>7. CASE AgeLock \/ AgeRecovery \/ UNCHANGED vars
  BY <1>7 DEF AgeLock, AgeRecovery, vars
<1> QED
  BY <1>1, <1>2, <1>3, <1>4, <1>5, <1>6, <1>7 DEF Next

\* Whoever removes or overwrites the lock of a process, that process is dead
\* or is removing it itself.
THEOREM NoEviction ==
  ASSUME Events \subseteq Tolerated
  PROVE  Spec => LiveOwnerKeepsLock
<1>1. IInv /\ [Next]_vars => [OwnerKeepsLock]_vars
  <2> SUFFICES ASSUME IInv, [Next]_vars, NEW p \in Procs, lock = Token(p), lock' # lock
               PROVE  pc[p] \in {"dead", "remove"}
    BY DEF OwnerKeepsLock
  <2>1. Token(p) \in Tokens
    BY DEF IInv, TypeOK, Token, Tokens
  <2>2. PICK q \in Procs : \/ pc[q] = "remove" /\ lock = Token(q)
                           \/ pc[q] = "reclaim" /\ lock = obs[q]
    BY <2>1, LockChanges
  <2>3. CASE pc[q] = "remove" /\ lock = Token(q)
    BY <2>3 DEF Token
  <2>4. CASE pc[q] = "reclaim" /\ lock = obs[q]
    BY <2>4 DEF IInv, MemoryInv, RecoverySide, Token
  <2> QED
    BY <2>2, <2>3, <2>4
<1> QED
  BY <1>1, Invariance, PTL DEF Spec, LiveOwnerKeepsLock

\* The directory protocol implements the abstract mutex.
THEOREM Refinement ==
  ASSUME Events \subseteq Tolerated
  PROVE  Spec => ImplementsMutex
<1>1. Init => Mutex!Init
  BY DEF Init, Mutex!Init, Writing
<1>2. IInv /\ [Next]_vars => [Mutex!Next]_Writing
  <2> SUFFICES ASSUME IInv, [Next]_vars, Writing' # Writing
               PROVE  \E p \in Procs : \/ Writing = {} /\ Writing' = {p}
                                       \/ p \in Writing /\ Writing' = Writing \ {p}
    BY DEF Mutex!Next, Mutex!Enter, Mutex!Leave
  <2> USE DEF IInv, TypeOK, LockInv, Writing, Goto, Branch, Tolerated
  <2>1. ASSUME NEW p \in Procs, Acquire(p) PROVE Writing = {} /\ Writing' = {p}
    <3>1. OwnLock(p)
      BY <2>1 DEF Acquire, ProbeRecovery, CreateLock, OwnLockFails, UndoLock,
         ObserveOwner, JudgeOwner, Poll
    <3> QED
      BY <3>1 DEF OwnLock, LockSide
  <2>2. ASSUME NEW p \in Procs, Recover(p) PROVE FALSE
    BY <2>2 DEF Recover, CreateRecovery, OwnRecovery, OwnRecoveryFails, UndoRecovery,
       RereadOwner, RejudgeOwner, ReclaimLock, LeaveRecovery, DropRecovery, AfterRecovery,
       ReadRecoveryOwner, JudgeRecoveryOwner, CheckRecoveryOwner, ClearRecovery
  <2>3. ASSUME NEW p \in Procs, Release(p) PROVE FALSE
    BY <2>3 DEF Release, ReleaseLease, RemoveLock, SignalReads, SignalRemoves, SignalKills
  <2>4. ASSUME NEW p \in Procs, HeartbeatWrite(p) PROVE FALSE
    BY <2>4 DEF HeartbeatWrite
  <2>5. ASSUME NEW p \in Procs, Operate(p) PROVE p \in Writing /\ Writing' = Writing \ {p}
    BY <2>5 DEF Operate, HeartbeatCheck, FinishOperation, DestroyUnlinksLock
  <2>6. ASSUME NEW p \in Procs, Environment(p) PROVE p \in Writing /\ Writing' = Writing \ {p}
    BY <2>6 DEF Environment, Call, Abort, Busy, Signal, Crash, Exit, ReusePid
  <2>7. CASE AgeLock \/ AgeRecovery \/ UNCHANGED vars
    BY <2>7 DEF AgeLock, AgeRecovery, vars
  <2> QED
    BY <2>1, <2>2, <2>3, <2>4, <2>5, <2>6, <2>7 DEF Next
<1> QED
  BY <1>1, <1>2, Invariance, PTL DEF Spec, ImplementsMutex, Mutex!Spec
=============================================================================
