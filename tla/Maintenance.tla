----------------------------- MODULE Maintenance -----------------------------
(***************************************************************************)
(* The maintenance of the table of rows (storage-maintenance.ts,            *)
(* vector-index.ts): what an ingestion does to the table and its indices    *)
(* before it activates them, what `rgr storage optimize` does, the counts    *)
(* they keep in storage-maintenance.json, and what the manifest then tells   *)
(* searches of the vector index.  LanceDB is external: a commit leaves the   *)
(* indices behind, a compaction may catch them up, each call may fail.       *)
(***************************************************************************)
EXTENDS Helpers, FiniteSets

CONSTANTS
    CompactionRows,     \* MINIMUM_AUTOMATIC_COMPACTION_ROWS
    MutationThreshold,  \* MUTATION_COMPACTION_THRESHOLD
    FewFragments,       \* MINIMUM_FRAGMENT_COUNT
    ManyFragments,      \* AUTOMATIC_COMPACTION_FRAGMENT_COUNT
    PileUp,             \* VERSION_PILEUP_THRESHOLD
    AnnRows,            \* ANN_MINIMUM_ROWS
    LargeRows,          \* L_CORPUS_ROWS
    ScalarRows,         \* SCALAR_INDEX_MINIMUM_ROWS
    MinPartitions,      \* the 16 of adaptiveVectorIndexPolicy
    MaxProbes,          \* its 32
    Commits,            \* the [removed, added] of a commit
    MaxRows,            \* bound on the rows of a table
    MaxCommits,         \* bound on the commits
    MaxTables,          \* bound on rebuilds
    MaxJobs             \* bound on ingestions and optimizations

VARIABLES
    tables,    \* [1 .. MaxTables -> the table, or None]
    active,    \* what activeIndexTableName answers: a table of the manifest
    saved,     \* storage-maintenance.json, or None
    manifest,  \* the vectorIndex of the manifest, with what it was written of (history)
    job,       \* the owner of the writer lock
    jobs       \* how many there were, and how many commits

maintenanceVars == <<tables, active, saved, manifest, job, jobs>>

Idle == [phase |-> "idle"]
MaintenanceInit ==
    /\ tables = [n \in 1 .. MaxTables |-> None] /\ active = 1
    /\ saved = None /\ manifest = None /\ job = Idle /\ jobs = [begun |-> 0, commits |-> 0]

-----------------------------------------------------------------------------
(* The state of a table.                                                    *)

Index(indexed, unindexed, as) == [indexed |-> indexed, unindexed |-> unindexed, as |-> as]
Covers(index, rows) == index # None /\ index.unindexed = 0 /\ index.indexed = rows
TextComplete(t) == IF t.text = None THEN t.rows = 0 ELSE Covers(t.text, t.rows)

\* uncounted (history): the commits since the last compaction that no saved count has.
NewTable == [rows |-> 0, fragments |-> 0, small |-> 0, versions |-> 1, text |-> None, vector |-> None,
             scalar |-> None, commits |-> 0, since |-> 0, uncounted |-> 0]

\* A commit takes its rows away from an index and adds to what the index has not seen.
Behind(index, c) ==
    IF index = None THEN None
    ELSE LET gone == Least(c.removed, index.indexed)
         IN  Index(index.indexed - gone, index.unindexed - (c.removed - gone) + c.added, index.as)

\* An empty table without a full-text index gets a positional one with its first rows.
CommittedTable(t, c, trained) ==
    LET n == t.rows - c.removed + c.added
    IN  [t EXCEPT !.rows = n, !.fragments = @ + 1, !.small = @ + 1, !.versions = @ + 1,
                  !.vector = Behind(@, c), !.scalar = Behind(@, c),
                  !.text = IF @ # None THEN Behind(@, c) ELSE IF trained THEN Index(n, 0, "positions") ELSE None,
                  !.commits = @ + 1, !.since = @ + 1]

-----------------------------------------------------------------------------
(* What is due.                                                             *)

RequiresCompaction(t) ==
    /\ 4 * t.small >= t.fragments
    /\ \/ t.fragments >= ManyFragments
       \/ t.rows >= CompactionRows /\ t.fragments >= FewFragments
PilesUp(t) == t.versions > PileUp
MaintenanceActions(t, mutations, forced) ==
    LET due == \/ forced \/ PilesUp(t) \/ RequiresCompaction(t)
               \/ t.rows >= CompactionRows /\ mutations >= MutationThreshold
    IN  (IF due THEN {"compact-fragments"} ELSE {})
        \cup (IF TextComplete(t) THEN {} ELSE {"refresh-full-text-index"})

Root(n) == CHOOSE r \in 0 .. n : r * r - r < n /\ n <= r * r + r
AdaptiveVectorIndexPolicy(rows) ==
    IF rows < AnnRows THEN [strategy |-> "exact", partitions |-> 0, probes |-> 0, exhaustive |-> FALSE]
    ELSE LET partitions == Most(MinPartitions, Root(rows))
         IN  [strategy |-> "ivf-pq", partitions |-> partitions,
              probes |-> IF rows >= LargeRows THEN partitions ELSE Least(partitions, MaxProbes),
              exhaustive |-> rows >= LargeRows]

VectorAction_AnySignature(t, signature) ==
    LET policy == AdaptiveVectorIndexPolicy(t.rows)
    IN  IF policy.strategy = "exact" THEN IF t.vector # None THEN {"drop-vector-index"} ELSE {}
        ELSE IF t.vector = None THEN {"create-vector-index"}
        ELSE IF ~Covers(t.vector, t.rows) THEN {"refresh-vector-index"} ELSE {}
VectorAction(t, signature) ==
    LET policy == AdaptiveVectorIndexPolicy(t.rows)
    IN  IF policy.strategy = "exact" THEN IF t.vector # None THEN {"drop-vector-index"} ELSE {}
        ELSE IF t.vector = None THEN {"create-vector-index"}
        ELSE IF signature # policy \/ ~Covers(t.vector, t.rows) THEN {"refresh-vector-index"} ELSE {}
ScalarAction(t) ==
    IF t.rows < ScalarRows THEN IF t.scalar # None THEN {"drop-relative-path-index"} ELSE {}
    ELSE IF t.scalar = None THEN {"create-relative-path-index"}
    ELSE IF ~Covers(t.scalar, t.rows) THEN {"refresh-relative-path-index"} ELSE {}
AdaptiveIndexActions(t, signature) == VectorAction(t, signature) \cup ScalarAction(t)

Applied(t, done) ==
    [t EXCEPT !.vector = IF "drop-vector-index" \in done THEN None
                         ELSE IF done \cap {"create-vector-index", "refresh-vector-index"} # {}
                              THEN Index(t.rows, 0, AdaptiveVectorIndexPolicy(t.rows).partitions) ELSE @,
              !.scalar = IF "drop-relative-path-index" \in done THEN None
                         ELSE IF done \cap {"create-relative-path-index", "refresh-relative-path-index"} # {}
                              THEN Index(t.rows, 0, "btree") ELSE @]

VectorManifest_Unapplied(t, policyApplied) ==
    LET policy == AdaptiveVectorIndexPolicy(t.rows)
    IN  IF policy.strategy = "ivf-pq" THEN policy ELSE AdaptiveVectorIndexPolicy(0)
VectorManifest(t, policyApplied) ==
    LET policy == AdaptiveVectorIndexPolicy(t.rows)
    IN  IF policyApplied /\ policy.strategy = "ivf-pq" /\ Covers(t.vector, t.rows) THEN policy
        ELSE AdaptiveVectorIndexPolicy(0)

-----------------------------------------------------------------------------
(* Ingestions and optimizations, one after the other under the writer lock.  *)

Maintained == tables[job.table]
Working(phase) == job.phase = phase
Unchanged == UNCHANGED <<active, saved, manifest, jobs>>
Of_AnyTable(state, n, field) == IF state # None THEN state[field] ELSE None
Of(state, n, field) == IF state # None /\ state.table = n THEN state[field] ELSE None

\* A rebuild writes a table of its own; an earlier one that was cut short may be resumed.
StartIngest(n) ==
    /\ Working("idle") /\ jobs.begun < MaxJobs
    /\ \/ n = active
       \/ manifest # None /\ n = active + 1 /\ n <= MaxTables
    /\ job' = [phase |-> "writing", by |-> "ingest", table |-> n, commits |-> 0]
    /\ jobs' = [jobs EXCEPT !.begun = @ + 1]
    /\ \/ UNCHANGED tables
       \/ n # active /\ tables' = [tables EXCEPT ![n] = None]
    /\ UNCHANGED <<active, saved, manifest>>

\* updateRowsInTable: without a table the rows make one.
CommitRows(c, trained) ==
    /\ Working("writing")
    /\ LET t == IF Maintained = None THEN NewTable ELSE Maintained
       IN  /\ jobs.commits < MaxCommits
           /\ c.removed <= t.rows /\ t.rows + c.added <= MaxRows
           /\ Maintained = None => c.added > 0
           /\ tables' = [tables EXCEPT ![job.table] = CommittedTable(t, c, trained)]
    /\ job' = [job EXCEPT !.commits = @ + 1]
    /\ jobs' = [jobs EXCEPT !.commits = @ + 1]
    /\ UNCHANGED <<active, saved, manifest>>

\* maintainOpenStorageTable: what it reads and plans first.
Inspected(by, n, additional) ==
    LET t == tables[n]
        counted == Of(saved, n, "mutations")
        mutations == (IF counted = None THEN 0 ELSE counted) + additional
        signature == Of(saved, n, "signature")
    IN  [phase |-> IF by = "preview" THEN "reported" ELSE "compact", by |-> by, table |-> n,
         commits |-> additional, mutations |-> mutations, signature |-> signature,
         before |-> t.text, planned |-> MaintenanceActions(t, mutations, by # "ingest"),
         compacted |-> FALSE, failed |-> FALSE,
         honest |-> t.vector # None /\ signature # None => signature.partitions = t.vector.as,
         vector |-> VectorManifest(t, VectorAction(t, signature) = {})]
Missing(by, n) == [phase |-> "missing", by |-> by, table |-> n, commits |-> 0]

Maintain ==
    /\ Working("writing")
    /\ job' = IF Maintained = None THEN Missing("ingest", job.table) ELSE Inspected("ingest", job.table, job.commits)
    \* A state of another table counts nothing of this one.
    /\ tables' = IF Maintained # None /\ Of(saved, job.table, "mutations") = None
                 THEN [tables EXCEPT ![job.table].uncounted = @ + (Maintained.since - job.commits - @)] ELSE tables
    /\ Unchanged

OptimizeStorage(by) ==
    /\ Working("idle") /\ jobs.begun < MaxJobs
    /\ job' = IF tables[active] = None THEN Missing(by, active) ELSE Inspected(by, active, 0)
    /\ tables' = IF tables[active] # None /\ Of(saved, active, "mutations") = None
                 THEN [tables EXCEPT ![active].uncounted = tables[active].since] ELSE tables
    /\ jobs' = [jobs EXCEPT !.begun = @ + 1]
    /\ UNCHANGED <<active, saved, manifest>>

\* optimize: one fragment, old versions pruned or not yet, indices caught up or not.
Compacted(t, versions, caughtUp) ==
    LET Caught(index) == IF caughtUp /\ index # None THEN Index(t.rows, 0, index.as) ELSE index
    IN  [t EXCEPT !.fragments = 1, !.small = 0, !.versions = versions, !.since = 0, !.uncounted = 0,
                  !.text = Caught(@), !.vector = Caught(@), !.scalar = Caught(@)]
Optimize(phase) ==
    /\ Working(phase) /\ "compact-fragments" \in job.planned
    /\ \E versions \in {1, Maintained.versions}, caughtUp \in BOOLEAN :
          tables' = [tables EXCEPT ![job.table] = Compacted(Maintained, versions, caughtUp)]
    /\ job' = [job EXCEPT !.phase = "lexical", !.compacted = TRUE]
    /\ Unchanged

OptimizeFails(phase) ==
    /\ Working(phase) /\ "compact-fragments" \in job.planned
    /\ job' = [job EXCEPT !.phase = "lexical", !.failed = TRUE]
    /\ UNCHANGED tables /\ Unchanged

\* The decoder error of positional postings: an index without positions, and once more.
PositionalError ==
    /\ Working("compact") /\ "compact-fragments" \in job.planned /\ job.before # None
    /\ \/ /\ tables' = [tables EXCEPT ![job.table].text = Index(Maintained.rows, 0, "plain")]
          /\ job' = [job EXCEPT !.phase = "recompact", !.planned = @ \cup {"refresh-full-text-index"}]
       \/ /\ job' = [job EXCEPT !.phase = "lexical", !.failed = TRUE]
          /\ UNCHANGED tables
    /\ Unchanged

NothingToCompact ==
    /\ Working("compact") /\ "compact-fragments" \notin job.planned
    /\ job' = [job EXCEPT !.phase = "lexical"]
    /\ UNCHANGED tables /\ Unchanged

RefreshLexical ==
    /\ Working("lexical")
    /\ \/ /\ "refresh-full-text-index" \in job.planned
          /\ tables' = [tables EXCEPT ![job.table].text = Index(Maintained.rows, 0, "positions")]
          /\ job' = [job EXCEPT !.phase = "adapt", !.planned = {}]
       \/ /\ job' = [job EXCEPT !.phase = "adapt", !.failed = @ \/ "refresh-full-text-index" \in job.planned]
          /\ UNCHANGED tables
    /\ Unchanged

\* maintainAdaptiveIndices: any of its actions may fail.
MaintainAdaptiveIndices ==
    /\ Working("adapt")
    /\ LET planned == AdaptiveIndexActions(Maintained, job.signature)
           vectorAction == VectorAction(Maintained, job.signature)
       IN  \E done \in SUBSET planned :
              LET after == Applied(Maintained, done)
              IN  /\ tables' = [tables EXCEPT ![job.table] = after]
                  /\ job' = [job EXCEPT !.phase = "save", !.failed = @ \/ done # planned,
                                        !.honest = @ \/ vectorAction \cap done # {},
                                        !.vector = VectorManifest(after, vectorAction \subseteq done)]
    /\ Unchanged

SaveState ==
    /\ Working("save")
    /\ LET policy == AdaptiveVectorIndexPolicy(Maintained.rows)
       IN  saved' = [table |-> job.table, mutations |-> IF job.compacted THEN 0 ELSE job.mutations,
                     signature |-> IF job.vector.strategy = policy.strategy THEN policy ELSE job.signature]
    /\ job' = [job EXCEPT !.phase = "reported"]
    /\ UNCHANGED <<tables, active, manifest, jobs>>
SaveFails ==
    /\ Working("save")
    /\ job' = [job EXCEPT !.phase = "reported", !.failed = TRUE]
    /\ tables' = [tables EXCEPT ![job.table].uncounted = Least(@ + job.commits, Maintained.since)]
    /\ Unchanged

\* ingestFiles activates the table with what maintenance found of its vector index.
Activate ==
    /\ Working("reported") /\ job.by = "ingest"
    /\ manifest' = [table |-> job.table, vector |-> job.vector, honest |-> job.honest, commits |-> Maintained.commits]
    /\ active' = job.table
    \* The generation before it is not maintained again.
    /\ tables' = [tables EXCEPT ![active] = IF active = job.table THEN @ ELSE None]
    /\ job' = Idle
    /\ UNCHANGED <<saved, jobs>>
Report ==
    /\ \/ Working("missing")
       \/ Working("reported") /\ job.by # "ingest"
    /\ job' = Idle
    /\ UNCHANGED tables /\ Unchanged

\* A crash, or an error that ends the run: what it has committed stays.
Cut ==
    /\ ~Working("idle")
    /\ tables' = IF Maintained = None \/ Working("reported") THEN tables
                 ELSE [tables EXCEPT ![job.table].uncounted = Least(@ + job.commits, Maintained.since)]
    /\ job' = Idle
    /\ Unchanged

MaintenanceNext ==
    \/ \E n \in 1 .. MaxTables : StartIngest(n)
    \/ \E c \in Commits, trained \in BOOLEAN : CommitRows(c, trained)
    \/ Maintain
    \/ \E by \in {"optimize", "preview"} : OptimizeStorage(by)
    \/ \E phase \in {"compact", "recompact"} : Optimize(phase) \/ OptimizeFails(phase)
    \/ PositionalError \/ NothingToCompact \/ RefreshLexical \/ MaintainAdaptiveIndices
    \/ SaveState \/ SaveFails \/ Activate \/ Report \/ Cut

MaintenanceSpec == MaintenanceInit /\ [][MaintenanceNext]_maintenanceVars

\* What a table, an index and the two files hold, and what the constants of the code are.
Policies == {AdaptiveVectorIndexPolicy(n) : n \in 0 .. MaxRows}
IndicesAs(kinds) == [indexed : Int, unindexed : Int, as : kinds]
TextIndices == IndicesAs({"positions", "plain"})
VectorIndices == IndicesAs({policy.partitions : policy \in Policies})
ScalarIndices == IndicesAs({"btree"})
TableRecords == [rows : 0 .. MaxRows, fragments : Nat, small : Nat, versions : Nat, text : TextIndices \cup {None},
                 vector : VectorIndices \cup {None}, scalar : ScalarIndices \cup {None}, commits : Nat,
                 since : Nat, uncounted : Int]
StateFiles == [table : 1 .. MaxTables, mutations : Nat, signature : Policies \cup {None}]
ManifestFiles == [table : 1 .. MaxTables, vector : Policies, honest : BOOLEAN, commits : Nat]
ASSUME MaintenanceAssumption ==
    /\ {CompactionRows, FewFragments, ManyFragments, LargeRows, ScalarRows, MaxRows} \subseteq Nat
    /\ {MutationThreshold, PileUp, AnnRows, MaxTables} \subseteq Nat \ {0}
    /\ Commits \subseteq [removed : Nat, added : Nat]
    /\ None \notin Nat /\ None \notin Policies
    /\ None \notin TextIndices /\ None \notin VectorIndices /\ None \notin ScalarIndices
    /\ None \notin TableRecords /\ None \notin StateFiles /\ None \notin ManifestFiles

-----------------------------------------------------------------------------
(* Properties.                                                              *)

\* A search that the manifest sends through the vector index finds every row in it, with the
\* partitions its probes were chosen for unless an earlier lost write made the policy lie.
VectorTrue ==
    (manifest # None /\ tables[manifest.table].commits = manifest.commits /\ manifest.vector.strategy = "ivf-pq")
        => LET t == tables[manifest.table]
           IN  /\ Covers(t.vector, t.rows)
               /\ manifest.honest => t.vector.as = manifest.vector.partitions

Clean == Working("reported") /\ job.by # "preview" /\ ~job.failed

\* A clean run leaves a complete full-text index, and leaves one with positions wherever it
\* found one, even when it had to compact without them.
FullTextSound ==
    Clean => /\ TextComplete(Maintained)
             /\ (job.before = None \/ job.before.as = "positions")
                    => Maintained.text = None \/ Maintained.text.as = "positions"

\* In a large table the commits that no compaction has seen stay below the threshold, but for
\* those whose count was lost.
CommitsBounded ==
    Clean /\ Maintained.rows >= CompactionRows => Maintained.since - Maintained.uncounted < MutationThreshold

\* A clean run is done: the next one, if nothing is committed, has nothing to do (but prune
\* versions that are still too young).
NothingLeft ==
    Clean => /\ MaintenanceActions([Maintained EXCEPT !.versions = 1], saved.mutations, FALSE) = {}
             /\ AdaptiveIndexActions(Maintained, saved.signature) = {}

\* What maintenance promises of a table and of the manifest that is written of it.
MaintenanceSound == VectorTrue /\ FullTextSound /\ CommitsBounded /\ NothingLeft
=============================================================================
