------------------------------ MODULE Queues_proofs ------------------------------
(* Proofs about the two queues of a process: the one before the writer lock    *)
(* (WriteQueue), for any calls of any processes, and that of workload admission *)
(* (WorkloadQueue), for any requests, workloads and limits.                     *)
EXTENDS WriteQueue, WorkloadQueue, FiniteSetTheorems, SequenceTheorems, TLAPS

-----------------------------------------------------------------------------
(* The queue before the writer lock.                                        *)

\* Every step keeps every variable in its type.
LEMMA TypeStep == IInv /\ [Next]_vars => TypeOK'
<1> SUFFICES ASSUME IInv, [Next]_vars PROVE TypeOK'
  OBVIOUS
<1> USE CallsAssumption DEF IInv, TypeOK, InTurn, Go, Made, Host!Enter, Host!Leave
<1>1. ASSUME NEW c \in Calls, Call(c) PROVE TypeOK'
  BY <1>1 DEF Call
<1>2. ASSUME NEW c \in Calls, Turn(c) PROVE TypeOK'
  BY <1>2 DEF Turn
<1>3. ASSUME NEW c \in Calls, GiveUp(c) PROVE TypeOK'
  BY <1>3 DEF GiveUp
<1>4. ASSUME NEW c \in Calls, Acquire(c) PROVE TypeOK'
  BY <1>4 DEF Acquire
<1>5. ASSUME NEW c \in Calls, AcquireFails(c) PROVE TypeOK'
  BY <1>5 DEF AcquireFails
<1>6. ASSUME NEW c \in Calls, Finish(c) PROVE TypeOK'
  BY <1>6 DEF Finish
<1>7. ASSUME NEW c \in Calls, ReleaseQueue(c) PROVE TypeOK'
  BY <1>7 DEF ReleaseQueue
<1>8. ASSUME NEW c \in Calls, ResolveTail(c) PROVE TypeOK'
  BY <1>8 DEF ResolveTail
<1>9. ASSUME NEW c \in Calls, ForgetTail(c) PROVE TypeOK'
  BY <1>9 DEF ForgetTail
<1>10. ASSUME NEW p \in Procs, Crash(p) PROVE TypeOK'
  BY <1>10 DEF Crash
<1>11. CASE UNCHANGED vars
  BY <1>11 DEF vars
<1> QED
  BY <1>1, <1>2, <1>3, <1>4, <1>5, <1>6, <1>7, <1>8, <1>9, <1>10, <1>11 DEF Next, Proceed

\* Every step keeps the chain of tails.
LEMMA ChainStep == IInv /\ [Next]_vars => ChainInv'
<1> SUFFICES ASSUME IInv, [Next]_vars PROVE ChainInv'
  OBVIOUS
<1> USE CallsAssumption DEF IInv, TypeOK, ChainInv, TailInv, InTurn, Go, Made, PreviousResolved, Host!Enter, Host!Leave
<1>1. ASSUME NEW c \in Calls, Call(c) PROVE ChainInv'
  BY <1>1 DEF Call
<1>2. ASSUME NEW c \in Calls, Turn(c) PROVE ChainInv'
  BY <1>2 DEF Turn
<1>3. ASSUME NEW c \in Calls, GiveUp(c) PROVE ChainInv'
  BY <1>3 DEF GiveUp
<1>4. ASSUME NEW c \in Calls, Acquire(c) PROVE ChainInv'
  BY <1>4 DEF Acquire
<1>5. ASSUME NEW c \in Calls, AcquireFails(c) PROVE ChainInv'
  BY <1>5 DEF AcquireFails
<1>6. ASSUME NEW c \in Calls, Finish(c) PROVE ChainInv'
  BY <1>6 DEF Finish
<1>7. ASSUME NEW c \in Calls, ReleaseQueue(c) PROVE ChainInv'
  BY <1>7 DEF ReleaseQueue
<1>8. ASSUME NEW c \in Calls, ResolveTail(c) PROVE ChainInv'
  BY <1>8 DEF ResolveTail
<1>9. ASSUME NEW c \in Calls, ForgetTail(c) PROVE ChainInv'
  BY <1>9 DEF ForgetTail
<1>10. ASSUME NEW p \in Procs, Crash(p) PROVE ChainInv'
  BY <1>10 DEF Crash
<1>11. CASE UNCHANGED vars
  BY <1>11 DEF vars
<1> QED
  BY <1>1, <1>2, <1>3, <1>4, <1>5, <1>6, <1>7, <1>8, <1>9, <1>10, <1>11 DEF Next, Proceed

\* Every step keeps the registered tail that of the latest call.
LEMMA TailStep == IInv /\ [Next]_vars => TailInv'
<1> SUFFICES ASSUME IInv, [Next]_vars PROVE TailInv'
  OBVIOUS
<1> USE CallsAssumption DEF IInv, TypeOK, ChainInv, TailInv, InTurn, Go, Made, PreviousResolved, Host!Enter, Host!Leave
<1>1. ASSUME NEW c \in Calls, Call(c) PROVE TailInv'
  BY <1>1 DEF Call
<1>2. ASSUME NEW c \in Calls, Turn(c) PROVE TailInv'
  BY <1>2 DEF Turn
<1>3. ASSUME NEW c \in Calls, GiveUp(c) PROVE TailInv'
  BY <1>3 DEF GiveUp
<1>4. ASSUME NEW c \in Calls, Acquire(c) PROVE TailInv'
  BY <1>4 DEF Acquire
<1>5. ASSUME NEW c \in Calls, AcquireFails(c) PROVE TailInv'
  BY <1>5 DEF AcquireFails
<1>6. ASSUME NEW c \in Calls, Finish(c) PROVE TailInv'
  BY <1>6 DEF Finish
<1>7. ASSUME NEW c \in Calls, ReleaseQueue(c) PROVE TailInv'
  BY <1>7 DEF ReleaseQueue
<1>8. ASSUME NEW c \in Calls, ResolveTail(c) PROVE TailInv'
  BY <1>8 DEF ResolveTail
<1>9. ASSUME NEW c \in Calls, ForgetTail(c) PROVE TailInv'
  BY <1>9 DEF ForgetTail
<1>10. ASSUME NEW p \in Procs, Crash(p) PROVE TailInv'
  BY <1>10 DEF Crash
<1>11. CASE UNCHANGED vars
  BY <1>11 DEF vars
<1> QED
  BY <1>1, <1>2, <1>3, <1>4, <1>5, <1>6, <1>7, <1>8, <1>9, <1>10, <1>11 DEF Next, Proceed

\* The invariant makes turns exclusive inside a process.
LEMMA OneInTurn ==
  ASSUME IInv, NEW c \in Calls, NEW d \in Calls, ProcOf[c] = ProcOf[d],
         stage[c] \in InTurn, stage[d] \in InTurn
  PROVE  c = d
<1>1. ASSUME NEW e \in Calls, stage[e] \in InTurn PROVE before[e] \subseteq released
  BY <1>1 DEF IInv, TypeOK, ChainInv, PreviousResolved
<1> QED
  BY <1>1 DEF IInv, TypeOK, ChainInv, InTurn

\* Every step keeps the lock of the host with the operation that runs.
LEMMA HolderStep == IInv /\ [Next]_vars => HolderInv'
<1> SUFFICES ASSUME IInv, [Next]_vars PROVE HolderInv'
  OBVIOUS
<1> USE CallsAssumption DEF IInv, TypeOK, HolderInv, InTurn, Go, Host!Enter, Host!Leave
<1>1. ASSUME NEW c \in Calls, Call(c) PROVE HolderInv'
  BY <1>1 DEF Call
<1>2. ASSUME NEW c \in Calls, Turn(c) PROVE HolderInv'
  BY <1>2 DEF Turn
<1>3. ASSUME NEW c \in Calls, GiveUp(c) PROVE HolderInv'
  BY <1>3 DEF GiveUp
<1>4. ASSUME NEW c \in Calls, Acquire(c) PROVE HolderInv'
  BY <1>4 DEF Acquire
<1>5. ASSUME NEW c \in Calls, AcquireFails(c) PROVE HolderInv'
  BY <1>5 DEF AcquireFails
<1>6. ASSUME NEW c \in Calls, Finish(c) PROVE HolderInv'
  <2>1. holders' = {}
    BY <1>6 DEF Finish
  <2>2. ASSUME NEW d \in Calls, stage'[d] = "running", ProcOf[d] \in alive PROVE FALSE
    <3>1. stage[d] = "running" /\ d # c /\ stage[c] = "running"
      BY <1>6, <2>2 DEF Finish
    <3>2. ProcOf[d] = ProcOf[c]
      BY <1>6, <2>2, <3>1 DEF Finish
    <3> QED
      BY <3>1, <3>2, OneInTurn
  <2> QED
    BY <1>6, <2>1, <2>2 DEF Finish
<1>7. ASSUME NEW c \in Calls, ReleaseQueue(c) PROVE HolderInv'
  BY <1>7 DEF ReleaseQueue
<1>8. ASSUME NEW c \in Calls, ResolveTail(c) PROVE HolderInv'
  BY <1>8 DEF ResolveTail
<1>9. ASSUME NEW c \in Calls, ForgetTail(c) PROVE HolderInv'
  BY <1>9 DEF ForgetTail
<1>10. ASSUME NEW p \in Procs, Crash(p) PROVE HolderInv'
  BY <1>10 DEF Crash
<1>11. CASE UNCHANGED vars
  BY <1>11 DEF vars
<1> QED
  BY <1>1, <1>2, <1>3, <1>4, <1>5, <1>6, <1>7, <1>8, <1>9, <1>10, <1>11 DEF Next, Proceed

\* IInv holds in every reachable state.
THEOREM Invariance == Spec => []IInv
<1>1. Init => IInv
  BY CallsAssumption DEF Init, Host!Init, IInv, TypeOK, ChainInv, TailInv, HolderInv, InTurn,
     Made
<1>2. IInv /\ [Next]_vars => IInv'
  <2> SUFFICES ASSUME IInv, [Next]_vars PROVE IInv'
    OBVIOUS
  <2> QED
    BY TypeStep, ChainStep, TailStep, HolderStep DEF IInv
<1> QED
  BY <1>1, <1>2, PTL DEF Spec

\* Calls of one process take their turns in order, however many there are and
\* whichever of them give up.
THEOREM Order == Spec => []FirstComeFirstServed
<1>1. IInv => FirstComeFirstServed
  BY DEF IInv, TypeOK, ChainInv, PreviousResolved, FirstComeFirstServed
<1> QED
  BY <1>1, Invariance, PTL

\* At most one operation runs on the host.
LEMMA OneRuns ==
  ASSUME IInv, NEW c \in Running, NEW d \in Running
  PROVE  c = d
<1>1. ProcOf[c] = ProcOf[d]
  BY DEF IInv, HolderInv, Running
<1> QED
  BY <1>1, OneInTurn DEF Running, InTurn

\* Over a lock that is a mutex between processes, the queue is one between the
\* calls of all processes.
THEOREM Refinement == Spec => ImplementsMutex
<1>1. Init => Mutex!Init
  BY DEF Init, Mutex!Init, Running
<1>2. IInv /\ [Next]_vars => [Mutex!Next]_Running
  <2> SUFFICES ASSUME IInv, [Next]_vars PROVE [Mutex!Next]_Running
    OBVIOUS
  <2> USE CallsAssumption DEF IInv, TypeOK, HolderInv, Go, Running
  <2>1. ASSUME NEW c \in Calls,
               Call(c) \/ GiveUp(c) \/ AcquireFails(c) \/ Turn(c) \/ ReleaseQueue(c)
        PROVE  UNCHANGED Running
    BY <2>1 DEF Call, GiveUp, AcquireFails, Turn, ReleaseQueue
  <2>2. ASSUME NEW c \in Calls, ResolveTail(c) \/ ForgetTail(c)
        PROVE  UNCHANGED Running
    BY <2>2 DEF ResolveTail, ForgetTail
  <2>3. ASSUME NEW c \in Calls, Acquire(c) PROVE Mutex!Enter(c)
    <3>1. Running = {}
      BY <2>3 DEF Acquire, Host!Enter
    <3>2. Running' = {c}
      BY <2>3, <3>1 DEF Acquire
    <3> QED
      BY <3>1, <3>2 DEF Mutex!Enter
  <2>4. ASSUME NEW c \in Calls, Finish(c) PROVE Mutex!Leave(c)
    BY <2>4 DEF Finish, Mutex!Leave
  <2>5. ASSUME NEW p \in Procs, Crash(p), p \notin holders PROVE UNCHANGED Running
    BY <2>5 DEF Crash
  <2>6. ASSUME NEW p \in Procs, Crash(p), p \in holders
        PROVE  \E c \in Calls : Mutex!Leave(c)
    <3>1. PICK c \in Calls : stage[c] = "running" /\ ProcOf[c] = p
      BY <2>6
    <3>2. c \in Running
      BY <2>6, <3>1 DEF Crash
    <3>3. \A d \in Running : d = c
      BY <3>2, OneRuns
    <3>4. Running' = Running \ {c}
      BY <2>6, <3>1, <3>3 DEF Crash
    <3> QED
      BY <3>2, <3>4 DEF Mutex!Leave
  <2>7. CASE UNCHANGED vars
    BY <2>7 DEF vars
  <2> QED
    BY <2>1, <2>2, <2>3, <2>4, <2>5, <2>6, <2>7 DEF Next, Proceed, Mutex!Next
<1> QED
  BY <1>1, <1>2, Invariance, PTL DEF Spec, ImplementsMutex, Mutex!Spec

-----------------------------------------------------------------------------
(* Workload admission: the inductive invariant.                             *)

WorkloadTypes ==
    /\ held \in [Requests -> Nat]
    /\ active \in [Workloads -> [Objects -> SUBSET Requests]]
    /\ queued \in [Workloads -> [Objects -> Seq(Requests)]]
    /\ limit \in [Workloads -> Limits]
    /\ mapped \in [Workloads -> Objects \cup {NoObject}]

\* A request runs where its path, as far as it got, says it does.
Holds(r, w) == \E k \in 1 .. held[r] : Path[r][k] = w

Placed ==
    \A r \in Requests :
        /\ held[r] <= Len(Path[r])
        /\ \A w \in Workloads : (\E o \in Objects : r \in active[w][o]) <=> Holds(r, w)

WInv == WorkloadTypes /\ Placed /\ QueuesInv /\ MapInv

\* The workload that a request asks for next.
Comes(r, w) == held[r] < Len(Path[r]) /\ Path[r][held[r] + 1] = w

-----------------------------------------------------------------------------
(* Sequences.                                                               *)

Started(waiting, n) == {waiting[i] : i \in 1 .. n}
Rest(waiting, n) == SubSeq(waiting, n + 1, Len(waiting))

\* The first n of a queue, and the others.
LEMMA Split ==
  ASSUME NEW S, NEW s \in Seq(S), IsInjective(s), NEW n \in 0 .. Len(s)
  PROVE  /\ Rest(s, n) \in Seq(S) /\ IsInjective(Rest(s, n))
         /\ Len(Rest(s, n)) = Len(s) - n
         /\ ToSet(Rest(s, n)) = ToSet(s) \ Started(s, n)
         /\ Started(s, n) \subseteq ToSet(s) /\ Started(s, n) \in SUBSET S
         /\ IsFiniteSet(Started(s, n)) /\ Cardinality(Started(s, n)) = n
<1> DEFINE t == Rest(s, n)
           len == Len(s)
<1>0. len \in Nat /\ \A i \in 1 .. len : s[i] \in S
  OBVIOUS
<1>1. DOMAIN s = 1 .. len /\ \A i, j \in 1 .. len : s[i] = s[j] => i = j
  BY DEF IsInjective
<1>2. t \in Seq(S) /\ Len(t) = len - n /\ \A i \in 1 .. len - n : t[i] = s[n + i]
  <2>1. n + 1 \in Int /\ len \in Int /\ \A i \in n + 1 .. len : s[i] \in S
    BY <1>0
  <2>2. /\ t \in Seq(S)
        /\ Len(t) = IF n + 1 <= len THEN len - (n + 1) + 1 ELSE 0
        /\ \A i \in 1 .. len - (n + 1) + 1 : t[i] = s[n + 1 + i - 1]
    BY <2>1, SubSeqProperties DEF Rest
  <2> HIDE DEF t, len
  <2>3. n \in 0 .. len
    BY DEF len
  <2> QED
    BY <1>0, <2>2, <2>3
<1> HIDE DEF t, len
<1>n. n \in 0 .. len
  BY DEF len
<1>d. DOMAIN t = 1 .. len - n
  BY <1>2
<1>3. IsInjective(t)
  BY <1>0, <1>1, <1>2, <1>n, <1>d DEF IsInjective
<1>4. ToSet(t) = ToSet(s) \ Started(s, n)
  <2>1. ASSUME NEW i \in 1 .. len - n PROVE t[i] \in ToSet(s) /\ t[i] \notin Started(s, n)
    <3>1. n + i \in 1 .. len /\ t[i] = s[n + i]
      BY <1>0, <1>2, <1>n
    <3>2. ASSUME NEW j \in 1 .. n PROVE s[j] # s[n + i]
      BY <1>0, <1>1, <1>n, <3>1
    <3> QED
      BY <1>1, <3>1, <3>2 DEF ToSet, Started
  <2>2. ASSUME NEW i \in 1 .. len, s[i] \notin Started(s, n) PROVE s[i] \in ToSet(t)
    <3>1. i > n
      BY <2>2, <1>n DEF Started
    <3>2. i - n \in 1 .. len - n /\ t[i - n] = s[i]
      BY <1>0, <1>2, <1>n, <3>1
    <3> QED
      BY <1>d, <3>2 DEF ToSet
  <2>3. \A x \in ToSet(t) : x \in ToSet(s) /\ x \notin Started(s, n)
    BY <1>d, <2>1 DEF ToSet
  <2>4. \A x \in ToSet(s) : x \notin Started(s, n) => x \in ToSet(t)
    BY <1>1, <2>2 DEF ToSet
  <2> QED
    BY <2>3, <2>4
<1>5. Started(s, n) \subseteq ToSet(s) /\ Started(s, n) \in SUBSET S
  BY <1>0, <1>1, <1>n DEF Started, ToSet
<1>6. IsFiniteSet(Started(s, n)) /\ Cardinality(Started(s, n)) = n
  <2> DEFINE f == [i \in 1 .. n |-> s[i]]
             T == Started(s, n)
  <2>1. f \in [1 .. n -> T]
    BY DEF Started
  <2>2. \A x \in T : \E i \in 1 .. n : f[i] = x
    BY DEF Started
  <2>3. \A i, j \in 1 .. n : f[i] = f[j] => i = j
    BY <1>0, <1>1, <1>n
  <2> HIDE DEF f, T
  <2>4. f \in Bijection(1 .. n, T)
    BY <2>1, <2>2, <2>3 DEF Bijection, Injection, Surjection, IsInjective
  <2>5. ExistsBijection(1 .. n, T)
    BY <2>4 DEF ExistsBijection
  <2>6. Cardinality(T) = n
    BY <2>5, FS_CountingElements
  <2>7. IsFiniteSet(1 .. n)
    BY FS_Interval
  <2> QED
    BY <2>5, <2>6, <2>7, FS_Bijection DEF T
<1> QED
  BY <1>2, <1>3, <1>4, <1>5, <1>6 DEF t, len

\* A sequence without one of its places.
LEMMA Removed ==
  ASSUME NEW S, NEW s \in Seq(S), NEW p \in 1 .. Len(s)
  PROVE  LET w == RemoveAt(s, p)
         IN  /\ w \in Seq(S) /\ Len(w) = Len(s) - 1
             /\ \A i \in 1 .. Len(s) - 1 : w[i] = IF i < p THEN s[i] ELSE s[i + 1]
<1> DEFINE n == Len(s)
           w == RemoveAt(s, p)
<1>1. n \in Nat /\ p \in 1 .. n /\ \A i \in 1 .. n : s[i] \in S
  OBVIOUS
<1>2. /\ SubSeq(s, 1, p - 1) \in Seq(S) /\ Len(SubSeq(s, 1, p - 1)) = p - 1
      /\ \A i \in 1 .. p - 1 : SubSeq(s, 1, p - 1)[i] = s[i]
  BY <1>1
<1>3. /\ SubSeq(s, p + 1, n) \in Seq(S) /\ Len(SubSeq(s, p + 1, n)) = n - p
      /\ \A i \in 1 .. n - p : SubSeq(s, p + 1, n)[i] = s[p + i]
  <2>1. p + 1 \in Int /\ n \in Int /\ \A i \in p + 1 .. n : s[i] \in S
    BY <1>1
  <2>2. /\ SubSeq(s, p + 1, n) \in Seq(S)
        /\ Len(SubSeq(s, p + 1, n)) = IF p + 1 <= n THEN n - (p + 1) + 1 ELSE 0
        /\ \A i \in 1 .. n - (p + 1) + 1 : SubSeq(s, p + 1, n)[i] = s[p + 1 + i - 1]
    BY <2>1, SubSeqProperties
  <2> QED
    BY <1>1, <2>2
<1>4. w = SubSeq(s, 1, p - 1) \o SubSeq(s, p + 1, n)
  BY DEF RemoveAt
<1> HIDE DEF w, n
<1>5. w \in Seq(S) /\ Len(w) = n - 1
  BY <1>1, <1>2, <1>3, <1>4
<1>6. ASSUME NEW i \in 1 .. n - 1 PROVE w[i] = IF i < p THEN s[i] ELSE s[i + 1]
  <2> DEFINE a == SubSeq(s, 1, p - 1)
             b == SubSeq(s, p + 1, n)
  <2>1. /\ a \in Seq(S) /\ Len(a) = p - 1 /\ b \in Seq(S) /\ w = a \o b
        /\ \A k \in 1 .. p - 1 : a[k] = s[k]
        /\ \A k \in 1 .. n - p : b[k] = s[p + k]
    BY <1>2, <1>3, <1>4
  <2> HIDE DEF a, b
  <2>2. CASE i < p
    BY <1>1, <2>1, <2>2
  <2>3. CASE i >= p
    <3>1. w[i] = b[i - (p - 1)] /\ i - (p - 1) \in 1 .. n - p
      <4>1. i \in 1 .. n - 1 /\ i \in p .. n - 1 /\ i - (p - 1) \in 1 .. n - p
        BY <1>1, <2>3
      <4>2. Len(b) = n - p
        BY <1>3 DEF b
      <4>3. i \in Len(a) + 1 .. Len(a) + Len(b)
        BY <1>1, <2>1, <4>1, <4>2
      <4> QED
        BY <2>1, <4>1, <4>3
    <3>2. p + (i - (p - 1)) = i + 1
      BY <1>1
    <3> QED
      BY <1>1, <2>1, <2>3, <3>1, <3>2
  <2> QED
    BY <1>1, <2>2, <2>3
<1> QED
  BY <1>5, <1>6 DEF w, n

-----------------------------------------------------------------------------
(* drain().                                                                 *)

\* As many start as there are free slots, or as wait.
LEMMA AdmittedPrefix ==
  ASSUME NEW running, Cardinality(running) \in Nat, NEW S, NEW waiting \in Seq(S),
         NEW l \in Limits
  PROVE  \E n \in 0 .. Len(waiting) :
            /\ Admitted(running, waiting, l) = 1 .. n
            /\ Cardinality(Admitted(running, waiting, l)) = n
            /\ n > 0 => Cardinality(running) + n <= l.concurrency
            /\ n < Len(waiting) => Cardinality(running) + n >= l.concurrency
<1> DEFINE c == Cardinality(running)
           m == l.concurrency
           len == Len(waiting)
           n == IF c + len <= m THEN len ELSE IF c >= m THEN 0 ELSE m - c
<1>1. c \in Nat /\ m \in Nat /\ len \in Nat /\ DOMAIN waiting = 1 .. len
  BY WorkloadAssumption
<1>2. Admitted(running, waiting, l) = {i \in 1 .. len : c + i <= m}
  BY <1>1 DEF Admitted
<1> HIDE DEF c, m, len
<1>3. n \in 0 .. len /\ {i \in 1 .. len : c + i <= m} = 1 .. n
  BY <1>1
<1>4. Cardinality(1 .. n) = n
  <2>1. ASSUME NEW k \in Nat PROVE Cardinality(1 .. k) = k
    BY FS_Interval
  <2> QED
    BY <1>1, <2>1
<1>5. (n > 0 => c + n <= m) /\ (n < len => c + n >= m)
  BY <1>1
<1> QED
  BY <1>2, <1>3, <1>4, <1>5 DEF c, m, len

\* What the contents of an object must be for a drain.
Ready(w, o, running, waiting) ==
    /\ mapped[w] = o
    /\ running \subseteq active[w][o]
    /\ \A r \in active[w][o] \ running : held[r] > 0 /\ Path[r][held[r]] = w /\ ~Waiting(r)
    /\ waiting \in Seq(Requests) /\ IsInjective(waiting)
    /\ \A r \in ToSet(waiting) : Comes(r, w)
    /\ \A i \in DOMAIN waiting : \A u \in CameBefore(w, o, waiting[i]) \cap ToSet(waiting) :
          \E k \in 1 .. i - 1 : waiting[k] = u

\* Nobody asks for a workload while holding a slot of it.
LEMMA NotTwice ==
  ASSUME WInv, NEW r \in Requests, NEW w \in Workloads, Comes(r, w)
  PROVE  ~Holds(r, w) /\ \A o \in Objects : r \notin active[w][o]
<1>1. held[r] \in Nat /\ Path[r] \in Seq(Workloads) /\ IsInjective(Path[r])
  BY WorkloadAssumption DEF WInv, WorkloadTypes
<1>2. ~Holds(r, w)
  BY <1>1 DEF Holds, Comes, IsInjective
<1> QED
  BY <1>2 DEF WInv, Placed

\* The effect of a drain that starts n of those that wait.
Drained(w, o, running, waiting, l, n) ==
    /\ active' = [active EXCEPT ![w][o] = running \cup Started(waiting, n)]
    /\ queued' = [queued EXCEPT ![w][o] = Rest(waiting, n)]
    /\ held' = [r \in Requests |-> IF r \in Started(waiting, n) THEN held[r] + 1
                                   ELSE IF r \in active[w][o] \ running THEN held[r] - 1
                                   ELSE held[r]]
    /\ mapped' = [mapped EXCEPT ![w] = IF Idle(running \cup Started(waiting, n), Rest(waiting, n))
                                       THEN NoObject ELSE o]
    /\ n > 0 => Cardinality(running \cup Started(waiting, n)) <= l.concurrency
    /\ n < Len(waiting) => Cardinality(running \cup Started(waiting, n)) >= l.concurrency

LEMMA DrainDoes ==
  ASSUME WInv, NEW w \in Workloads, NEW o \in Objects, NEW running, NEW waiting,
         Ready(w, o, running, waiting), NEW l \in Limits, Drain(w, o, running, waiting, l)
  PROVE  \E n \in 0 .. Len(waiting) : Drained(w, o, running, waiting, l, n)
<1> USE DEF WInv
<1>1. running \in SUBSET Requests /\ waiting \in Seq(Requests) /\ mapped[w] = o
  BY DEF Ready, WorkloadTypes
<1>2. IsFiniteSet(running) /\ Cardinality(running) \in Nat
  BY <1>1, WorkloadAssumption, FS_Subset, FS_CardinalityType
<1>3. PICK n \in 0 .. Len(waiting) :
            /\ Admitted(running, waiting, l) = 1 .. n
            /\ Cardinality(Admitted(running, waiting, l)) = n
            /\ n > 0 => Cardinality(running) + n <= l.concurrency
            /\ n < Len(waiting) => Cardinality(running) + n >= l.concurrency
  BY <1>1, <1>2, AdmittedPrefix
<1> DEFINE start == Started(waiting, n)
<1>4. IsFiniteSet(start) /\ Cardinality(start) = n /\ start \subseteq ToSet(waiting)
  BY <1>1, Split DEF Ready
<1>5. running \cap start = {}
  <2>1. \A r \in ToSet(waiting) : r \in Requests
    BY <1>1 DEF ToSet
  <2> QED
    BY <1>4, <2>1, NotTwice DEF Ready
<1>6. Cardinality(running \cup start) = Cardinality(running) + n
  <2> HIDE DEF start
  <2>1. Cardinality(running \cup start)
           = Cardinality(running) + Cardinality(start) - Cardinality(running \cap start)
    BY <1>2, <1>4, FS_Union
  <2> QED
    <3>1. Cardinality(running \cap start) = Cardinality({})
      BY <1>5, Zenon
    <3>2. Cardinality({}) = 0
      BY FS_EmptySet
    <3> QED
      BY <1>2, <1>4, <2>1, <3>1, <3>2
<1>7. /\ active' = [active EXCEPT ![w][o] = running \cup start]
      /\ queued' = [queued EXCEPT ![w][o] = Rest(waiting, n)]
      /\ held' = [r \in Requests |-> IF r \in start THEN held[r] + 1
                                     ELSE IF r \in active[w][o] \ running THEN held[r] - 1
                                     ELSE held[r]]
      /\ mapped' = [mapped EXCEPT ![w] = IF Idle(running \cup start, Rest(waiting, n))
                                         THEN NoObject ELSE o]
  <2>1. {waiting[i] : i \in Admitted(running, waiting, l)} = start
    BY <1>3 DEF Started
  <2>2. SubSeq(waiting, Cardinality(Admitted(running, waiting, l)) + 1, Len(waiting)) = Rest(waiting, n)
    BY <1>3 DEF Rest
  <2> HIDE DEF start
  <2> QED
    BY <1>1, <2>1, <2>2 DEF Drain
<1> HIDE DEF start
<1>8. /\ n > 0 => Cardinality(running \cup start) <= l.concurrency
      /\ n < Len(waiting) => Cardinality(running \cup start) >= l.concurrency
  BY <1>2, <1>3, <1>6
<1> QED
  BY <1>7, <1>8 DEF start, Drained

-----------------------------------------------------------------------------
(* The effect of a drain.                                                   *)

\* What a step must not do to a workload: the three action properties.
StartsWithin(w) ==
    EnteredNow(w) # {} =>
       \E o \in Objects : EnteredNow(w) \subseteq active'[w][o]
                       /\ Cardinality(ActiveIn(w)') <= limit'[w].concurrency

StartsInOrder(w) ==
    \A r \in EnteredNow(w) : \A o \in Objects :
       CameBefore(w, o, r) \cap ToSet(queued'[w][o]) = {}

KeepsBusy(w) ==
    \A o \in Objects :
       <<active[w][o], queued[w][o]>>' # <<active[w][o], queued[w][o]>> /\ queued'[w][o] # <<>>
          => Cardinality(active'[w][o]) >= limit'[w].concurrency

StepSound == \A w \in Workloads : StartsWithin(w) /\ StartsInOrder(w) /\ KeepsBusy(w)

\* A workload whose objects a step leaves alone.
LEMMA Untouched ==
  ASSUME NEW w \in Workloads, UNCHANGED <<active[w], queued[w]>>
  PROVE  StartsWithin(w) /\ StartsInOrder(w) /\ KeepsBusy(w)
<1>1. EnteredNow(w) = {}
  BY DEF EnteredNow, ActiveIn
<1> QED
  BY <1>1 DEF StartsWithin, StartsInOrder, KeepsBusy

LEMMA DrainKeeps ==
  ASSUME WInv, NEW w \in Workloads, NEW o \in Objects, NEW running, NEW waiting,
         Ready(w, o, running, waiting), NEW l \in Limits, Drain(w, o, running, waiting, l),
         limit' \in [Workloads -> Limits], limit'[w] = l
  PROVE  WInv' /\ StepSound
<1> DEFINE ended == active[w][o] \ running
<1>0. PICK n \in 0 .. Len(waiting) : Drained(w, o, running, waiting, l, n)
  BY DrainDoes
<1>1. /\ active' = [active EXCEPT ![w][o] = running \cup Started(waiting, n)]
      /\ queued' = [queued EXCEPT ![w][o] = Rest(waiting, n)]
      /\ held' = [r \in Requests |-> IF r \in Started(waiting, n) THEN held[r] + 1
                                     ELSE IF r \in active[w][o] \ running THEN held[r] - 1
                                     ELSE held[r]]
      /\ mapped' = [mapped EXCEPT ![w] = IF Idle(running \cup Started(waiting, n), Rest(waiting, n))
                                         THEN NoObject ELSE o]
      /\ n > 0 => Cardinality(running \cup Started(waiting, n)) <= l.concurrency
      /\ n < Len(waiting) => Cardinality(running \cup Started(waiting, n)) >= l.concurrency
  BY <1>0 DEF Drained
<1> USE DEF WInv
<1> DEFINE start == Started(waiting, n)
           rest == Rest(waiting, n)
<1>2. /\ rest \in Seq(Requests) /\ IsInjective(rest) /\ Len(rest) = Len(waiting) - n
      /\ ToSet(rest) = ToSet(waiting) \ start
      /\ start \subseteq ToSet(waiting) /\ start \in SUBSET Requests
  BY Split DEF Ready
<1>3. /\ mapped[w] = o /\ running \subseteq active[w][o] /\ waiting \in Seq(Requests)
      /\ \A r \in ended : held[r] > 0 /\ Path[r][held[r]] = w /\ ~Waiting(r)
      /\ \A r \in ToSet(waiting) : Comes(r, w)
  BY DEF Ready
<1> HIDE DEF start, rest
<1>4. \A r \in ToSet(waiting) : r \in Requests /\ \A p \in Objects : r \notin active[w][p]
  BY <1>3, NotTwice DEF ToSet
<1>5. start \cap ended = {} /\ ended \subseteq Requests
  BY <1>2, <1>4 DEF WorkloadTypes
<1> HIDE DEF ended
<1>6. /\ \A v \in Workloads, p \in Objects :
            active'[v][p] = IF v = w /\ p = o THEN running \cup start ELSE active[v][p]
      /\ \A v \in Workloads, p \in Objects :
            queued'[v][p] = IF v = w /\ p = o THEN rest ELSE queued[v][p]
      /\ \A v \in Workloads :
            mapped'[v] = IF v = w THEN IF Idle(running \cup start, rest) THEN NoObject ELSE o
                                  ELSE mapped[v]
  BY <1>1 DEF WorkloadTypes, start, rest
<1>7. \A r \in Requests : held'[r] = IF r \in start THEN held[r] + 1
                                     ELSE IF r \in ended THEN held[r] - 1 ELSE held[r]
  BY <1>1 DEF start, ended
<1>8. \A p \in Objects : p # o => active[w][p] = {} /\ queued[w][p] = <<>>
  BY <1>3 DEF MapInv
<1>t. WorkloadTypes'
  <2>1. active' \in [Workloads -> [Objects -> SUBSET Requests]]
    <3>1. running \cup start \in SUBSET Requests
      BY <1>2, <1>3 DEF WorkloadTypes
    <3> QED
      BY <1>1, <3>1 DEF WorkloadTypes, start
  <2>2. queued' \in [Workloads -> [Objects -> Seq(Requests)]]
    BY <1>1, <1>2 DEF WorkloadTypes, rest
  <2>3. mapped' \in [Workloads -> Objects \cup {NoObject}]
    BY <1>1 DEF WorkloadTypes
  <2>4. held' \in [Requests -> Nat]
    <3>1. \A r \in Requests : held'[r] \in Nat
      <4> SUFFICES ASSUME NEW r \in Requests PROVE held'[r] \in Nat
        OBVIOUS
      <4>1. held[r] \in Nat /\ (r \in ended => held[r] > 0)
        BY <1>3 DEF WorkloadTypes
      <4> QED
        BY <1>7, <4>1
    <3> QED
      BY <1>1, <3>1
  <2> QED
    BY <2>1, <2>2, <2>3, <2>4 DEF WorkloadTypes
<1>p. Placed'
  <2> SUFFICES ASSUME NEW r \in Requests
               PROVE  /\ held'[r] <= Len(Path[r])
                      /\ \A v \in Workloads : (\E p \in Objects : r \in active'[v][p]) <=> Holds(r, v)'
    BY DEF Placed
  <2>1. /\ held[r] \in Nat /\ Path[r] \in Seq(Workloads) /\ held[r] <= Len(Path[r])
        /\ \A i, j \in 1 .. Len(Path[r]) : Path[r][i] = Path[r][j] => i = j
        /\ \A v \in Workloads : (\E p \in Objects : r \in active[v][p]) <=> Holds(r, v)
    BY WorkloadAssumption DEF WorkloadTypes, Placed, IsInjective
  <2>2. CASE r \in start
    <3>1. Comes(r, w) /\ held'[r] = held[r] + 1
      BY <1>2, <1>3, <1>7, <2>2
    <3>2. \A v \in Workloads : Holds(r, v)' <=> Holds(r, v) \/ v = w
      BY <2>1, <3>1 DEF Holds, Comes
    <3>3. \A v \in Workloads : (\E p \in Objects : r \in active'[v][p]) <=> (\E p \in Objects : r \in active[v][p]) \/ v = w
      BY <1>6, <2>2, <1>2, <1>4
    <3> QED
      BY <2>1, <3>1, <3>2, <3>3 DEF Comes
  <2>3. CASE r \in ended
    <3>1. held'[r] = held[r] - 1 /\ held[r] > 0 /\ Path[r][held[r]] = w /\ r \notin start
      BY <1>3, <1>5, <1>7, <2>3
    <3>2. \A v \in Workloads : Holds(r, v)' <=> Holds(r, v) /\ v # w
      <4>1. held[r] \in 1 .. Len(Path[r]) /\ Len(Path[r]) \in Nat
        BY <2>1, <3>1
      <4>2. \A i \in 1 .. held[r] : i \in 1 .. held'[r] <=> i # held[r]
        BY <2>1, <3>1
      <4>3. \A i \in 1 .. held[r] : i \in 1 .. Len(Path[r])
        BY <2>1
      <4>4. \A i \in 1 .. held[r] : Path[r][i] = w <=> i = held[r]
        BY <2>1, <3>1, <4>1, <4>3
      <4>5. \A i \in 1 .. held'[r] : i \in 1 .. held[r]
        BY <2>1, <3>1
      <4> QED
        BY <4>2, <4>4, <4>5 DEF Holds
    <3>3. \A v \in Workloads : (\E p \in Objects : r \in active'[v][p]) <=> (\E p \in Objects : r \in active[v][p]) /\ v # w
      BY <1>6, <1>8, <2>3, <3>1 DEF ended
    <3> QED
      BY <2>1, <3>1, <3>2, <3>3
  <2>4. CASE r \notin start /\ r \notin ended
    <3>1. held'[r] = held[r]
      BY <1>7, <2>4
    <3>2. \A v \in Workloads : Holds(r, v)' <=> Holds(r, v)
      BY <3>1 DEF Holds
    <3>3. \A v \in Workloads, p \in Objects : r \in active'[v][p] <=> r \in active[v][p]
      BY <1>3, <1>6, <2>4 DEF ended
    <3> QED
      BY <2>1, <3>1, <3>2, <3>3
  <2> QED
    BY <2>2, <2>3, <2>4
<1>q. QueuesInv'
  <2> SUFFICES ASSUME NEW v \in Workloads, NEW p \in Objects
               PROVE  /\ IsInjective(queued'[v][p])
                      /\ \A r \in ToSet(queued'[v][p]) :
                            held'[r] < Len(Path[r]) /\ Path[r][held'[r] + 1] = v
    BY DEF QueuesInv
  <2>1. CASE v = w /\ p = o
    <3>1. queued'[v][p] = rest
      BY <1>6, <2>1
    <3>2. ASSUME NEW r \in ToSet(rest) PROVE held'[r] = held[r] /\ Comes(r, w)
      BY <1>2, <1>3, <1>4, <1>7 DEF ended
    <3> QED
      BY <1>2, <2>1, <3>1, <3>2 DEF Comes
  <2>2. CASE ~(v = w /\ p = o)
    <3>1. queued'[v][p] = queued[v][p] /\ IsInjective(queued[v][p])
      BY <1>6, <2>2 DEF QueuesInv
    <3>2. ASSUME NEW r \in ToSet(queued[v][p]) PROVE held'[r] = held[r] /\ Comes(r, v)
      <4>1. Comes(r, v) /\ r \in Requests /\ Waiting(r)
        <5>1. Comes(r, v)
          BY DEF QueuesInv, Comes
        <5>2. Waiting(r)
          BY DEF Waiting
        <5>3. queued[v][p] \in Seq(Requests)
          BY DEF WorkloadTypes
        <5>4. r \in Requests
          BY <5>3 DEF ToSet
        <5> QED
          BY <5>1, <5>2, <5>4
      <4>2. r \notin ended
        BY <1>3, <4>1
      <4>3. r \notin start
        <5>1. SUFFICES ASSUME r \in start PROVE FALSE
          OBVIOUS
        <5>2. v = w
          BY <1>2, <1>3, <4>1, <5>1 DEF Comes
        <5>3. queued[v][p] = <<>>
          BY <1>8, <2>2, <5>2
        <5> QED
          BY <5>3 DEF ToSet
      <4> QED
        BY <1>7, <4>1, <4>2, <4>3
    <3> QED
      BY <3>1, <3>2 DEF Comes
  <2> QED
    BY <2>1, <2>2
<1>m. MapInv'
  <2> SUFFICES ASSUME NEW v \in Workloads, NEW p \in Objects, p # mapped'[v]
               PROVE  active'[v][p] = {} /\ queued'[v][p] = <<>>
    BY DEF MapInv
  <2>1. CASE v = w /\ p = o
    BY <1>6, <2>1 DEF Idle
  <2>2. CASE v = w /\ p # o
    BY <1>6, <1>8, <2>2
  <2>3. CASE v # w
    BY <1>6, <2>3 DEF MapInv
  <2> QED
    BY <2>1, <2>2, <2>3
<1>s. StepSound
  <2>1. ASSUME NEW v \in Workloads, v # w PROVE StartsWithin(v) /\ StartsInOrder(v) /\ KeepsBusy(v)
    <3>1. UNCHANGED <<active[v], queued[v]>>
      BY <1>1, <2>1 DEF WorkloadTypes
    <3> QED
      BY <3>1, Untouched
  <2>2. ActiveIn(w) = active[w][o] /\ ActiveIn(w)' = active'[w][o] /\ active'[w][o] = running \cup start
    <3>1. \A p \in Objects : p # o => active'[w][p] = {}
      BY <1>6, <1>8
    <3> QED
      BY <1>6, <1>8, <3>1 DEF ActiveIn
  <2>3. EnteredNow(w) \subseteq start
    BY <1>3, <2>2 DEF EnteredNow
  <2>4. StartsWithin(w)
    <3>1. CASE n > 0
      BY <1>1, <2>2, <3>1 DEF StartsWithin, EnteredNow, start
    <3>2. CASE ~(n > 0)
      <4>1. start = {}
        BY <3>2 DEF start, Started
      <4> QED
        BY <2>3, <4>1 DEF StartsWithin
    <3> QED
      BY <3>1, <3>2
  <2>5. StartsInOrder(w)
    <3> SUFFICES ASSUME NEW r \in start, NEW p \in Objects, NEW u \in CameBefore(w, p, r),
                        u \in ToSet(queued'[w][p])
                 PROVE  FALSE
      BY <2>3 DEF StartsInOrder
    <3>1. p = o
      <4>1. SUFFICES ASSUME p # o PROVE FALSE
        OBVIOUS
      <4>2. queued'[w][p] = <<>>
        BY <1>6, <1>8, <4>1
      <4> QED
        BY <4>2 DEF ToSet
    <3>2. u \in ToSet(waiting) /\ u \notin start
      BY <1>2, <1>6, <3>1
    <3>3. PICK i \in 1 .. n : r = waiting[i]
      BY DEF start, Started
    <3>4. i \in DOMAIN waiting
      BY <1>3
    <3>5. PICK k \in 1 .. i - 1 : waiting[k] = u
      BY <3>1, <3>2, <3>3, <3>4 DEF Ready
    <3>6. k \in 1 .. n
      BY <3>5
    <3> QED
      BY <3>2, <3>5, <3>6 DEF start, Started
  <2>6. KeepsBusy(w)
    <3> SUFFICES ASSUME NEW p \in Objects, queued'[w][p] # <<>>,
                        <<active[w][p], queued[w][p]>>' # <<active[w][p], queued[w][p]>>
                 PROVE  Cardinality(active'[w][p]) >= limit'[w].concurrency
      BY DEF KeepsBusy
    <3>1. p = o
      BY <1>6
    <3>2. Len(rest) # 0
      BY <1>2, <1>6, <3>1
    <3>3. n < Len(waiting)
      BY <1>2, <1>3, <3>2
    <3> QED
      BY <1>1, <2>2, <3>1, <3>3 DEF start
  <2> QED
    BY <2>1, <2>4, <2>5, <2>6 DEF StepSound
<1> QED
  BY <1>t, <1>p, <1>q, <1>m, <1>s

-----------------------------------------------------------------------------
(* The calls.                                                               *)

\* The object that a call finds or makes.
LEMMA TheQueue ==
  ASSUME WInv, NEW w \in Workloads, NEW o \in Objects, o = Queue(w)
  PROVE  /\ \A p \in Objects : p # o => active[w][p] = {} /\ queued[w][p] = <<>>
         /\ active[w][o] # {} \/ queued[w][o] # <<>> => mapped[w] = o
  BY WorkloadAssumption DEF WInv, MapInv, Queue, WorkloadTypes

\* An object that has work is in the map.
LEMMA WorkIsMapped ==
  ASSUME WInv, NEW w \in Workloads, NEW o \in Objects, active[w][o] # {} \/ queued[w][o] # <<>>
  PROVE  mapped[w] = o
  BY DEF WInv, MapInv

\* The order of a queue is that of arrival.
LEMMA QueueOrdered ==
  ASSUME WInv, NEW w \in Workloads, NEW o \in Objects, NEW i \in DOMAIN queued[w][o],
         NEW r, r = queued[w][o][i], NEW u \in CameBefore(w, o, r)
  PROVE  \E k \in 1 .. i - 1 : queued[w][o][k] = u
<1> DEFINE q == queued[w][o]
<1>1. q \in Seq(Requests) /\ DOMAIN q = 1 .. Len(q) /\ Len(q) \in Nat
  BY DEF WInv, WorkloadTypes
<1>2. PICK k \in DOMAIN q : u = q[k] /\ \A j \in DOMAIN q : q[j] = q[i] => k < j
  BY DEF CameBefore
<1> HIDE DEF q
<1>3. k < i
  BY <1>2 DEF q
<1> QED
  BY <1>1, <1>2, <1>3 DEF q

\* A call that only takes the limit, and puts its object into the map.
LEMMA LimitTaken ==
  ASSUME WInv, NEW w \in Workloads, NEW o \in Objects, NEW l \in Limits, o = Queue(w),
         limit' = [limit EXCEPT ![w] = l], mapped' = [mapped EXCEPT ![w] = o],
         UNCHANGED <<held, active, queued>>
  PROVE  WInv' /\ StepSound
<1>1. WorkloadTypes' /\ Placed' /\ QueuesInv'
  BY DEF WInv, WorkloadTypes, Placed, QueuesInv, Holds
<1>2. MapInv'
  <2>1. \A p \in Objects : p # o => active[w][p] = {} /\ queued[w][p] = <<>>
    BY TheQueue
  <2> QED
    BY <2>1 DEF WInv, MapInv, WorkloadTypes
<1> QED
  BY <1>1, <1>2, Untouched DEF WInv, StepSound

LEMMA StartAtOnce ==
  ASSUME WInv, NEW r \in Requests, NEW w \in Workloads, NEW o \in Objects, NEW l \in Limits,
         Asks(r, w), o = Queue(w), limit' = [limit EXCEPT ![w] = l],
         queued[w][o] = <<>>, Cardinality(active[w][o]) < l.concurrency,
         active' = [active EXCEPT ![w][o] = @ \cup {r}], held' = [held EXCEPT ![r] = @ + 1],
         mapped' = [mapped EXCEPT ![w] = o], UNCHANGED queued
  PROVE  WInv' /\ StepSound
<1> USE DEF WInv
<1>1. /\ Comes(r, w) /\ held[r] \in Nat /\ \A p \in Objects : r \notin active[w][p]
      /\ ~Waiting(r)
  BY NotTwice DEF Asks, Comes, WorkloadTypes
<1>2. \A p \in Objects : p # o => active[w][p] = {} /\ queued[w][p] = <<>>
  BY TheQueue
<1>3. /\ \A v \in Workloads, p \in Objects :
            active'[v][p] = IF v = w /\ p = o THEN active[w][o] \cup {r} ELSE active[v][p]
      /\ \A x \in Requests : held'[x] = IF x = r THEN held[r] + 1 ELSE held[x]
      /\ \A v \in Workloads : mapped'[v] = IF v = w THEN o ELSE mapped[v]
  BY DEF WorkloadTypes
<1>4. WorkloadTypes'
  BY <1>1 DEF WorkloadTypes
<1>5. Placed'
  <2> SUFFICES ASSUME NEW x \in Requests
               PROVE  /\ held'[x] <= Len(Path[x])
                      /\ \A v \in Workloads : (\E p \in Objects : x \in active'[v][p]) <=> Holds(x, v)'
    BY DEF Placed
  <2>1. /\ held[x] \in Nat /\ Path[x] \in Seq(Workloads) /\ held[x] <= Len(Path[x])
        /\ \A v \in Workloads : (\E p \in Objects : x \in active[v][p]) <=> Holds(x, v)
    BY WorkloadAssumption DEF WorkloadTypes, Placed
  <2>2. CASE x = r
    <3>1. \A v \in Workloads : Holds(r, v)' <=> Holds(r, v) \/ v = w
      BY <1>1, <1>3, <2>1, <2>2 DEF Holds, Comes
    <3>2. \A v \in Workloads :
             (\E p \in Objects : r \in active'[v][p]) <=> (\E p \in Objects : r \in active[v][p]) \/ v = w
      BY <1>3
    <3> QED
      BY <1>1, <1>3, <2>1, <2>2, <3>1, <3>2 DEF Comes
  <2>3. CASE x # r
    <3>1. \A v \in Workloads : Holds(x, v)' <=> Holds(x, v)
      BY <1>3, <2>3 DEF Holds
    <3>2. \A v \in Workloads, p \in Objects : x \in active'[v][p] <=> x \in active[v][p]
      BY <1>3, <2>3
    <3> QED
      BY <1>3, <2>1, <2>3, <3>1, <3>2
  <2> QED
    BY <2>2, <2>3
<1>6. QueuesInv'
  <2> SUFFICES ASSUME NEW v \in Workloads, NEW p \in Objects
               PROVE  /\ IsInjective(queued[v][p])
                      /\ \A x \in ToSet(queued[v][p]) :
                            held'[x] < Len(Path[x]) /\ Path[x][held'[x] + 1] = v
    BY DEF QueuesInv
  <2>1. ASSUME NEW x \in ToSet(queued[v][p]) PROVE held'[x] = held[x]
    <3>1. x # r
      BY <1>1 DEF Waiting
    <3>2. queued[v][p] \in Seq(Requests)
      BY DEF WorkloadTypes
    <3>3. x \in Requests
      BY <3>2 DEF ToSet
    <3> QED
      BY <1>3, <3>1, <3>3
  <2> QED
    BY <2>1 DEF QueuesInv
<1>7. MapInv'
  BY <1>2, <1>3 DEF MapInv
<1>8. StepSound
  <2>1. ASSUME NEW v \in Workloads, v # w PROVE StartsWithin(v) /\ StartsInOrder(v) /\ KeepsBusy(v)
    <3>1. UNCHANGED <<active[v], queued[v]>>
      BY <2>1 DEF WorkloadTypes
    <3> QED
      BY <3>1, Untouched
  <2>2. ActiveIn(w) = active[w][o] /\ ActiveIn(w)' = active'[w][o] /\ active'[w][o] = active[w][o] \cup {r}
    <3>1. \A p \in Objects : p # o => active'[w][p] = {}
      BY <1>2, <1>3
    <3> QED
      BY <1>2, <1>3, <3>1 DEF ActiveIn
  <2>3. StartsWithin(w)
    <3>1. active[w][o] \in SUBSET Requests
      BY DEF WorkloadTypes
    <3>2. IsFiniteSet(active[w][o]) /\ Cardinality(active[w][o]) \in Nat
      BY <3>1, WorkloadAssumption, FS_Subset, FS_CardinalityType
    <3>3. Cardinality(active[w][o] \cup {r}) = Cardinality(active[w][o]) + 1
      BY <1>1, <3>2, FS_AddElement
    <3>4. Cardinality(active[w][o] \cup {r}) <= l.concurrency /\ limit'[w] = l
      BY <3>2, <3>3, WorkloadAssumption DEF WorkloadTypes
    <3>5. Cardinality(ActiveIn(w)') <= limit'[w].concurrency
      BY <2>2, <3>4
    <3> QED
      BY <2>2, <3>5 DEF StartsWithin, EnteredNow
  <2>4. StartsInOrder(w) /\ KeepsBusy(w)
    <3>1. \A p \in Objects : queued'[w][p] = <<>>
      BY <1>2
    <3>2. \A p \in Objects : ToSet(queued'[w][p]) = {}
      BY <3>1 DEF ToSet
    <3> QED
      BY <3>1, <3>2 DEF StartsInOrder, KeepsBusy
  <2> QED
    BY <2>1, <2>3, <2>4 DEF StepSound
<1> QED
  BY <1>4, <1>5, <1>6, <1>7, <1>8

LEMMA RunKeeps ==
  ASSUME WInv, NEW r \in Requests, NEW w \in Workloads, NEW o \in Objects, NEW l \in Limits,
         Run(r, w, o, l)
  PROVE  WInv' /\ StepSound
<1> DEFINE q == queued[w][o]
           a == active[w][o]
<1>0. /\ Asks(r, w) /\ o = Queue(w) /\ limit' = [limit EXCEPT ![w] = l]
      /\ limit' \in [Workloads -> Limits] /\ limit'[w] = l
      /\ q \in Seq(Requests) /\ a \in SUBSET Requests
  BY DEF Run, WInv, WorkloadTypes
<1>1. CASE q = <<>> /\ Cardinality(a) < l.concurrency
  <2>1. /\ active' = [active EXCEPT ![w][o] = @ \cup {r}] /\ held' = [held EXCEPT ![r] = @ + 1]
        /\ mapped' = [mapped EXCEPT ![w] = o] /\ UNCHANGED queued
    <3>1. Cardinality(a) \in Nat
      BY <1>0, WorkloadAssumption, FS_Subset, FS_CardinalityType
    <3> QED
      BY <1>1, <3>1, WorkloadAssumption DEF Run
  <2> QED
    BY <1>0, <1>1, <2>1, StartAtOnce
<1>2. CASE UNCHANGED <<active, queued, held>> /\ mapped' = [mapped EXCEPT ![w] = o]
  BY <1>0, <1>2, LimitTaken
<1>3. CASE /\ q # <<>> \/ Cardinality(a) >= l.concurrency
           /\ Drain(w, o, a, Append(q, r), l)
  <2>1. mapped[w] = o
    <3>1. a # {} \/ q # <<>>
      <4>1. Cardinality({}) = 0
        BY FS_EmptySet
      <4>2. l.concurrency \in Nat \ {0}
        BY WorkloadAssumption
      <4>3. a = {} => Cardinality(a) = Cardinality({})
        BY Zenon
      <4> QED
        BY <1>3, <4>1, <4>2, <4>3
    <3> QED
      BY <1>0, <3>1, TheQueue
  <2>2. Comes(r, w) /\ r \notin ToSet(q)
    BY <1>0 DEF Asks, Comes, Waiting
  <2>3. IsInjective(q) /\ \A x \in ToSet(q) : Comes(x, w)
    BY DEF WInv, QueuesInv, Comes
  <2> DEFINE s == Append(q, r)
             len == Len(q)
  <2>4. /\ s \in Seq(Requests) /\ len \in Nat
        /\ DOMAIN s = 1 .. len + 1 /\ DOMAIN q = 1 .. len
        /\ \A i \in 1 .. len : s[i] = q[i]
        /\ s[len + 1] = r
    BY <1>0
  <2> HIDE DEF s, q, len, a
  <2>5. IsInjective(s)
    <3> SUFFICES ASSUME NEW i \in 1 .. len + 1, NEW j \in 1 .. len + 1, s[i] = s[j] PROVE i = j
      BY <2>4 DEF IsInjective
    <3>1. \A k \in 1 .. len : s[k] # r
      BY <2>2, <2>4 DEF ToSet
    <3>2. CASE i \in 1 .. len /\ j \in 1 .. len
      BY <2>3, <2>4, <3>2 DEF IsInjective
    <3>3. CASE i = len + 1 \/ j = len + 1
      BY <2>4, <3>1, <3>3
    <3> QED
      BY <2>4, <3>2, <3>3
  <2>6. \A x \in ToSet(s) : Comes(x, w)
    <3> SUFFICES ASSUME NEW i \in 1 .. len + 1 PROVE Comes(s[i], w)
      BY <2>4 DEF ToSet
    <3>1. CASE i \in 1 .. len
      BY <2>3, <2>4, <3>1 DEF ToSet
    <3>2. CASE i = len + 1
      BY <2>2, <2>4, <3>2
    <3> QED
      BY <2>4, <3>1, <3>2
  <2>7. \A i \in DOMAIN s : \A u \in CameBefore(w, o, s[i]) \cap ToSet(s) :
           \E k \in 1 .. i - 1 : s[k] = u
    <3> SUFFICES ASSUME NEW i \in 1 .. len + 1, NEW u \in CameBefore(w, o, s[i])
                 PROVE  \E k \in 1 .. i - 1 : s[k] = u
      BY <2>4
    <3>1. CASE i \in 1 .. len
      <4>0. i \in DOMAIN q /\ s[i] = q[i]
        BY <2>4, <3>1
      <4>1. PICK k \in 1 .. i - 1 : q[k] = u
        BY <4>0, QueueOrdered DEF q
      <4> QED
        BY <2>4, <3>1, <4>1
    <3>2. CASE i = len + 1
      <4>1. PICK k \in DOMAIN q : u = q[k]
        BY DEF CameBefore, q
      <4> QED
        BY <2>4, <3>2, <4>1
    <3> QED
      BY <2>4, <3>1, <3>2
  <2>8. Ready(w, o, a, s)
    BY <2>1, <2>4, <2>5, <2>6, <2>7 DEF Ready, a
  <2> QED
    BY <1>0, <1>3, <2>8, DrainKeeps DEF s
<1> QED
  BY <1>1, <1>2, <1>3 DEF Run

LEMMA FinishKeeps ==
  ASSUME WInv, NEW r \in Requests, NEW w \in Workloads, NEW o \in Objects, FinishWork(r, w, o)
  PROVE  WInv' /\ StepSound
<1> DEFINE q == queued[w][o]
           a == active[w][o]
<1>0. /\ r \in a /\ Path[r][held[r]] = w /\ ~Waiting(r) /\ Drain(w, o, a \ {r}, q, limit[w])
      /\ limit' = limit /\ limit' \in [Workloads -> Limits] /\ limit[w] \in Limits
      /\ q \in Seq(Requests)
  BY DEF FinishWork, WInv, WorkloadTypes
<1>1. mapped[w] = o
  BY <1>0, WorkIsMapped
<1>2. held[r] > 0
  <2>1. held[r] \in Nat /\ Holds(r, w)
    BY <1>0 DEF WInv, WorkloadTypes, Placed
  <2> QED
    BY <2>1 DEF Holds
<1>3. IsInjective(q) /\ \A x \in ToSet(q) : Comes(x, w)
  BY DEF WInv, QueuesInv, Comes
<1>4. \A i \in DOMAIN q : \A u \in CameBefore(w, o, q[i]) : \E k \in 1 .. i - 1 : q[k] = u
  BY QueueOrdered
<1>5. Ready(w, o, a \ {r}, q)
  BY <1>0, <1>1, <1>2, <1>3, <1>4 DEF Ready
<1> HIDE DEF q, a
<1> QED
  BY <1>0, <1>5, DrainKeeps

LEMMA RejectKeeps ==
  ASSUME WInv, NEW r \in Requests, NEW w \in Workloads, NEW o \in Objects, RejectQueued(r, w, o)
  PROVE  WInv' /\ StepSound
<1> DEFINE q == queued[w][o]
           a == active[w][o]
           len == Len(q)
<1>0. /\ limit' = limit /\ limit' \in [Workloads -> Limits] /\ limit[w] \in Limits
      /\ q \in Seq(Requests)
  BY DEF RejectQueued, WInv, WorkloadTypes
<1>1. PICK index \in 1 .. len : Drain(w, o, a, RemoveAt(q, index), limit[w])
  BY <1>0 DEF RejectQueued
<1> DEFINE s == RemoveAt(q, index)
<1>2. s \in Seq(Requests) /\ Len(s) = len - 1
      /\ \A i \in 1 .. len - 1 : s[i] = IF i < index THEN q[i] ELSE q[i + 1]
  BY <1>0, Removed
<1>3. mapped[w] = o
  <2>1. q # <<>>
    BY <1>1
  <2> QED
    BY <2>1, WorkIsMapped
<1>4. DOMAIN q = 1 .. len /\ len \in Nat /\ index \in 1 .. len
  BY <1>0
<1>5. IsInjective(q) /\ \A x \in ToSet(q) : Comes(x, w)
  BY DEF WInv, QueuesInv, Comes
<1> HIDE DEF s, len, q, a
<1>6. DOMAIN s = 1 .. len - 1
  BY <1>2, <1>4
<1>7. ASSUME NEW i \in 1 .. len - 1
      PROVE  \E k \in 1 .. len : s[i] = q[k] /\ k = IF i < index THEN i ELSE i + 1
  <2>1. CASE i < index
    BY <1>2, <1>4, <2>1
  <2>2. CASE i >= index
    BY <1>2, <1>4, <2>2
  <2> QED
    BY <1>4, <2>1, <2>2
<1>8. ASSUME NEW i \in 1 .. len - 1, NEW k \in 1 .. len, s[i] = q[k]
      PROVE  k = IF i < index THEN i ELSE i + 1
  <2>1. PICK m \in 1 .. len : s[i] = q[m] /\ m = IF i < index THEN i ELSE i + 1
    BY <1>7
  <2>2. m = k
    BY <1>4, <1>5, <1>8, <2>1 DEF IsInjective
  <2> QED
    BY <2>1, <2>2
<1>9. IsInjective(s)
  <2> SUFFICES ASSUME NEW i \in 1 .. len - 1, NEW j \in 1 .. len - 1, s[i] = s[j] PROVE i = j
    BY <1>6 DEF IsInjective
  <2>1. PICK k \in 1 .. len : s[i] = q[k] /\ k = IF i < index THEN i ELSE i + 1
    BY <1>7
  <2>2. k = IF j < index THEN j ELSE j + 1
    BY <1>8, <2>1
  <2> QED
    BY <1>4, <2>1, <2>2
<1>10. \A x \in ToSet(s) : Comes(x, w)
  <2> SUFFICES ASSUME NEW i \in 1 .. len - 1 PROVE Comes(s[i], w)
    BY <1>6 DEF ToSet
  <2> QED
    BY <1>4, <1>5, <1>7 DEF ToSet
<1>11. \A i \in DOMAIN s : \A u \in CameBefore(w, o, s[i]) \cap ToSet(s) :
          \E k \in 1 .. i - 1 : s[k] = u
  <2> SUFFICES ASSUME NEW i \in 1 .. len - 1, NEW u \in CameBefore(w, o, s[i]), u \in ToSet(s)
               PROVE  \E k \in 1 .. i - 1 : s[k] = u
    BY <1>6
  <2>1. PICK m \in 1 .. len : s[i] = q[m] /\ m = IF i < index THEN i ELSE i + 1
    BY <1>7
  <2>m. m \in DOMAIN q /\ s[i] = q[m]
    BY <1>4, <2>1
  <2>2. PICK k \in 1 .. m - 1 : q[k] = u
    BY <2>m, QueueOrdered DEF q
  <2>3. PICK j \in 1 .. len - 1 : s[j] = u
    BY <1>6 DEF ToSet
  <2>4. k \in 1 .. len
    BY <2>1, <2>2, <1>4
  <2>5. k = IF j < index THEN j ELSE j + 1
    BY <1>8, <2>2, <2>3, <2>4
  <2>6. j \in 1 .. i - 1
    BY <1>4, <2>1, <2>2, <2>5
  <2> QED
    BY <2>3, <2>6
<1>12. Ready(w, o, a, s)
  BY <1>2, <1>3, <1>9, <1>10, <1>11 DEF Ready, a
<1> QED
  BY <1>0, <1>1, <1>12, DrainKeeps DEF s

LEMMA WorkloadNextKeeps ==
  ASSUME WInv, [WorkloadNext]_workloadVars
  PROVE  WInv' /\ StepSound
<1>1. CASE UNCHANGED workloadVars
  BY <1>1, Untouched
     DEF workloadVars, WInv, WorkloadTypes, Placed, QueuesInv, MapInv, Holds, StepSound
<1>2. ASSUME NEW r \in Requests, NEW w \in Workloads, NEW o \in Objects, NEW l \in Limits,
             RunAborted(r, w, o, l)
      PROVE  WInv' /\ StepSound
  BY <1>2, LimitTaken DEF RunAborted
<1> QED
  BY <1>1, <1>2, RunKeeps, FinishKeeps, RejectKeeps DEF WorkloadNext

LEMMA WorkloadInitInv == WorkloadInit => WInv
<1> SUFFICES ASSUME WorkloadInit PROVE WInv
  OBVIOUS
<1>1. WorkloadTypes
  BY WorkloadAssumption DEF WorkloadInit, WorkloadTypes
<1>2. Placed
  BY WorkloadAssumption DEF WorkloadInit, Placed, Holds
<1>3. QueuesInv /\ MapInv
  BY DEF WorkloadInit, QueuesInv, MapInv, IsInjective, ToSet
<1> QED
  BY <1>1, <1>2, <1>3 DEF WInv

LEMMA WorkloadInvariant == WorkloadSpec => []WInv
<1>1. WInv /\ [WorkloadNext]_workloadVars => WInv'
  BY WorkloadNextKeeps
<1> QED
  BY <1>1, WorkloadInitInv, PTL DEF WorkloadSpec

-----------------------------------------------------------------------------
(* The properties.                                                          *)

\* A request runs in one object for each slot it holds.
LEMMA OneObject ==
  ASSUME WInv
  PROVE  SlotsInv
<1> SUFFICES ASSUME NEW r \in Requests, NEW w \in Workloads
             PROVE  Cardinality({o \in Objects : r \in active[w][o]}) = IF Holds(r, w) THEN 1 ELSE 0
  BY DEF SlotsInv, Holds
<1> DEFINE S == {o \in Objects : r \in active[w][o]}
<1>1. (\E o \in Objects : r \in active[w][o]) <=> Holds(r, w)
  BY DEF WInv, Placed
<1>2. CASE Holds(r, w)
  <2>1. PICK o \in Objects : r \in active[w][o]
    BY <1>1, <1>2
  <2>2. S = {o}
    BY <2>1, WorkIsMapped
  <2> HIDE DEF S
  <2>3. Cardinality(S) = 1
    <3>1. Cardinality(S) = Cardinality({o})
      BY <2>2, Zenon
    <3> QED
      BY <3>1, FS_Singleton
  <2> QED
    BY <1>2, <2>3 DEF S
<1>3. CASE ~Holds(r, w)
  <2>1. S = {}
    BY <1>1, <1>3
  <2> HIDE DEF S
  <2>2. Cardinality(S) = 0
    <3>1. Cardinality(S) = Cardinality({})
      BY <2>1, Zenon
    <3> QED
      BY <3>1, FS_EmptySet
  <2> QED
    BY <1>3, <2>2 DEF S
<1> QED
  BY <1>2, <1>3

\* Nobody waits beside a free slot after a step that admits, queues, rejects or ends an
\* operation (workload.ts, drain).
LEMMA SlotsUsed == WorkloadSpec => NoIdleSlot
<1> DEFINE Busy == \A w \in Workloads, o \in Objects :
              <<active[w][o], queued[w][o]>>' # <<active[w][o], queued[w][o]>>
              /\ queued'[w][o] # <<>>
                 => Cardinality(active'[w][o]) >= limit'[w].concurrency
<1>1. WInv /\ [WorkloadNext]_workloadVars => Busy
  BY WorkloadNextKeeps DEF StepSound, KeepsBusy
<1>2. WInv /\ [WorkloadNext]_workloadVars => [Busy]_workloadVars
  BY <1>1
<1> QED
  BY <1>2, WorkloadInvariant, PTL DEF WorkloadSpec, NoIdleSlot

\* Slots and queues stay consistent, starts keep to the limit and to the order of
\* arrival, and no slot stays free beside a queue (workload.ts, runWorkload and the
\* queue it uses).
THEOREM Admission == WorkloadSpec => AdmissionSound
<1> DEFINE Within == \A w \in Workloads : EnteredNow(w) # {} =>
              \E o \in Objects : EnteredNow(w) \subseteq active'[w][o]
                              /\ Cardinality(ActiveIn(w)') <= limit'[w].concurrency
           InOrder == \A w \in Workloads : \A r \in EnteredNow(w) : \A o \in Objects :
              CameBefore(w, o, r) \cap ToSet(queued'[w][o]) = {}
<1>1. WInv => SlotsInv /\ QueuesInv /\ MapInv
  BY OneObject DEF WInv
<1>2. WInv /\ [WorkloadNext]_workloadVars => Within /\ InOrder
  BY WorkloadNextKeeps DEF StepSound, StartsWithin, StartsInOrder
<1>3. WInv /\ [WorkloadNext]_workloadVars => [Within]_workloadVars /\ [InOrder]_workloadVars
  BY <1>2
<1> QED
  BY <1>1, <1>3, WorkloadInvariant, SlotsUsed, PTL
     DEF WorkloadSpec, AdmissionSound, Ceiling, FirstComeFirstStarted
=============================================================================
