------------------------------ MODULE MCQueues ------------------------------
(* The two queues of a process: the one before the writer lock, and those of *)
(* the workloads.  They have no state in common, and each is followed in     *)
(* behaviours of its own.                                                    *)
EXTENDS WriteQueue, WorkloadQueue, TLC

CONSTANTS p1, p2, c1, c2, c3, d1, s1, s2, s3, i1, o1, o2

VARIABLE followed

\* Two processes; three calls in the first, one in the second.
MCProcs == {p1, p2}
MCCalls == {c1, c2, c3, d1}
MCProcOf == [c \in MCCalls |-> IF c = d1 THEN p2 ELSE p1]

\* Three searches and an ingestion, all but one of which embed texts, under
\* two configurations.
MCRequests == {s1, s2, s3, i1}
MCPath == s1 :> <<"search", "embedding">> @@ s2 :> <<"search", "embedding">>
          @@ s3 :> <<"search">> @@ i1 :> <<"ingestion", "embedding">>
MCWorkloads == {"search", "embedding", "ingestion"}
MCLimits == {[concurrency |-> 2, maxQueue |-> 2], [concurrency |-> 1, maxQueue |-> 1]}

QueuesInit == followed \in {"writes", "workloads"} /\ Init /\ WorkloadInit

QueuesNext ==
    /\ UNCHANGED followed
    /\ \/ followed = "writes" /\ Next /\ UNCHANGED workloadVars
       \/ followed = "workloads" /\ WorkloadNext /\ UNCHANGED vars

QueuesSpec ==
    /\ QueuesInit /\ [][QueuesNext]_<<followed, vars, workloadVars>>
    /\ Fairness /\ WorkloadFairness
=============================================================================
