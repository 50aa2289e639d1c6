------------------------------ MODULE MCProject ------------------------------
(* What a project keeps on disk: the generations of its index, the table and  *)
(* indices of one, its settings, the kit of its agents and its Git hook, and   *)
(* what doctor and upgrade make of it; and the snapshots of the index that a    *)
(* client keeps.  Each is followed in behaviours of its own, with the          *)
(* properties of them all.                                                     *)
EXTENDS GenerationRetention, Maintenance, AgentKit, ProjectConfig, Readiness, ClientSnapshots, TLC

CONSTANTS r1, t1, t2,
          r2, i1, s1, s2, s3    \* the client, whose reads are r1 and r2

VARIABLE kept

-----------------------------------------------------------------------------
(* A new table, and one that an earlier version made without indices that the *)
(* present policy wants.                                                      *)

MCCommits == {[removed |-> 0, added |-> 2], [removed |-> 1, added |-> 0]}
SmallTable == CommittedTable(NewTable, [removed |-> 0, added |-> 2], TRUE)
Indexed == Applied(SmallTable, {"create-vector-index", "create-relative-path-index"})
MaintainedInit ==
    LET policy == AdaptiveVectorIndexPolicy(2)
    IN  /\ tables = [n \in 1 .. MaxTables |-> IF n = 1 THEN Indexed ELSE None] /\ active = 1
        /\ saved = [table |-> 1, mutations |-> 1, signature |-> policy]
        /\ manifest = [table |-> 1, vector |-> policy, honest |-> TRUE, commits |-> 1]
        /\ job = Idle /\ jobs = [begun |-> 0, commits |-> 0]

MCAgents == <<"claude", "kimi">>

\* The writes of the manifest files, by the client and by others.
MCMaxWrites == [previous |-> 2, canonical |-> 1]

-----------------------------------------------------------------------------

KitEmpty ==
    AgentKitInit /\ ~kit.retired /\ \A a \in Agents : skill[a] = "none" /\ retired[a] = "none"
ConfigNew == ConfigInit /\ \A at \in ConfigFiles : settings[at] = None
IndexNew == ReadinessInit /\ \A f \in Sources : source[f].content = "one"

ProjectInit ==
    /\ Init /\ ClientInit
    /\ \/ /\ kept = "generations" /\ MaintenanceInit /\ KitEmpty /\ ConfigNew /\ IndexNew
       \/ /\ kept = "snapshots" /\ MaintenanceInit /\ KitEmpty /\ ConfigNew /\ IndexNew
       \/ /\ kept = "table" /\ (MaintenanceInit \/ MaintainedInit) /\ KitEmpty /\ ConfigNew /\ IndexNew
       \/ /\ kept = "kit" /\ MaintenanceInit /\ AgentKitInit /\ ConfigNew /\ IndexNew
       \/ /\ kept = "hook" /\ MaintenanceInit /\ KitEmpty /\ ConfigNew /\ IndexNew
       \/ /\ kept = "settings" /\ MaintenanceInit /\ KitEmpty /\ ConfigInit /\ IndexNew
       \/ /\ kept = "index" /\ MaintenanceInit /\ KitEmpty /\ ConfigNew /\ IndexNew

ProjectNext ==
    /\ UNCHANGED kept
    /\ \/ kept = "generations" /\ Next
          /\ UNCHANGED <<maintenanceVars, agentKitVars, configVars, readinessVars, clientVars>>
       \/ kept = "table" /\ MaintenanceNext
          /\ UNCHANGED <<vars, agentKitVars, configVars, readinessVars, clientVars>>
       \/ kept = "kit" /\ KitNext
          /\ UNCHANGED <<vars, maintenanceVars, hookVars, configVars, readinessVars, clientVars>>
       \/ kept = "hook" /\ HookNext
          /\ UNCHANGED <<vars, maintenanceVars, kitVars, configVars, readinessVars, clientVars>>
       \/ kept = "settings" /\ ConfigNext
          /\ UNCHANGED <<vars, maintenanceVars, agentKitVars, readinessVars, clientVars>>
       \/ kept = "index" /\ ReadinessNext
          /\ UNCHANGED <<vars, maintenanceVars, agentKitVars, configVars, clientVars>>
       \/ kept = "snapshots" /\ ClientNext
          /\ UNCHANGED <<vars, maintenanceVars, agentKitVars, configVars, readinessVars>>

projectVars == <<kept, vars, maintenanceVars, agentKitVars, configVars, readinessVars, clientVars>>
ProjectSpec == ProjectInit /\ [][ProjectNext]_projectVars /\ ClientFairness
=============================================================================
