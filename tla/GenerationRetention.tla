------------------------- MODULE GenerationRetention -------------------------
(***************************************************************************)
(* Index generations: the ingestion run that stages and activates a table  *)
(* (ingest.ts, store.ts), the collection that drops tables nobody needs    *)
(* (generation-retention.ts), and the readers that lease the table they    *)
(* read (query.ts, evaluate.ts, generation-retention.ts).                  *)
(*                                                                         *)
(* Writers hold the writer lock, which module WriterLock describes, so at  *)
(* most one of them is active; readers take no lock and interleave with it *)
(* at every await.  Rows, checksums and sizes are left out: a table is     *)
(* known by its name, its place in the order of modification and its age.  *)
(***************************************************************************)
EXTENDS Naturals, FiniteSets, SequencesExt

CONSTANTS
    Readers,       \* reading operations
    Local,         \* those of the process that collects: it counts their leases
    Confirming,    \* those that go through withActiveGenerationReadLease
    MaxRetained,   \* MAX_RETAINED_GENERATIONS, 3 in the code
    MaxTable,      \* bound: table names are 0..MaxTable, 0 being config.tableName
    Events,        \* what may happen, a subset of AllEvents
    NoTable,       \* no table name: a missing manifest, a null previousTableName
    NoRun          \* no ingestion state

AllEvents ==
    { "fail",        \* an ingestion run or a collection throws, or is aborted
      "crash",       \* the process of the writer or of a reader dies
      "torn",        \* a collection reads a lease file that is still being written
      "longRead",    \* an operation reads for days, past the term of its lease
      "readOnly",    \* a lease file cannot be created
      "evaluate" }   \* persistQualityReport rewrites the manifest

ASSUME RetentionAssumption ==
    /\ Local \subseteq Readers /\ Confirming \subseteq Readers
    /\ MaxRetained \in Nat /\ MaxTable \in Nat
    /\ Events \subseteq AllEvents
    /\ NoTable \notin Nat

Tables == 0 .. MaxTable
Runs == [mode : {"rebuild", "incremental"}, status : {"running", "failed", "completed"},
         table : Tables, before : Tables \cup {NoTable}, rows : BOOLEAN]

ASSUME RunAssumption == NoRun \notin Runs

VARIABLES
    order,      \* the tables that exist, the last modified first
    age,        \* by lastModifiedAt: "young" < 5 min, "aged", "expired" > 7 days
    canonical,  \* the table that the activation manifest names, or NoTable
    previous,   \* the table that the previous manifest names, or NoTable
    disk,       \* the ingestion state on disk, or NoRun
    run,        \* the ingestion state of the run in progress, or NoRun
    next,       \* the next generation name
    wpc,        \* where the writer stands
    gc,         \* what the collection in progress has found out
    stage,      \* where each reader stands
    tab,        \* the table each reader has chosen
    file,       \* each reader's lease file
    late        \* the readers whose lease is past its term, 24 hours

vars == <<order, age, canonical, previous, disk, run, next, wpc, gc, stage, tab, file, late>>

Existing == ToSet(order)

\* activeIndexTableName: the canonical manifest, else the previous one, else
\* the name in the configuration.
Active == IF canonical # NoTable THEN canonical
          ELSE IF previous # NoTable THEN previous ELSE 0

NoCollection == [active |-> NoTable, kept |-> {}, names |-> {}, todo |-> {}, doomed |-> {},
                 settled |-> {}, safe |-> FALSE, early |-> {}, overdue |-> {}]

TypeOK ==
    /\ order \in Seq(Tables)
    /\ age \in [Tables -> {"young", "aged", "expired"}]
    /\ canonical \in Tables \cup {NoTable} /\ previous \in Tables \cup {NoTable}
    /\ disk \in Runs \cup {NoRun} /\ run \in Runs \cup {NoRun}
    /\ next \in 1 .. MaxTable + 1
    /\ wpc \in {"idle", "drop", "persist", "write", "previous", "canonical",
               "leases", "inspect", "recheck", "reclaim", "finish"}
    /\ gc \in [active : Tables \cup {NoTable}, kept : SUBSET (Tables \cup {NoTable}),
              names : SUBSET (Tables \cup {NoTable}), todo : SUBSET Readers,
              doomed : SUBSET Tables, settled : SUBSET Tables, safe : BOOLEAN,
              early : SUBSET Readers, overdue : SUBSET Readers]
    /\ stage \in [Readers -> {"idle", "opened", "leasing", "confirm", "reading", "dead"}]
    /\ tab \in [Readers -> Tables \cup {NoTable}]
    /\ file \in [Readers -> {"none", "torn", "valid"}]
    /\ late \in SUBSET Readers

Init ==
    /\ order = <<>>
    /\ age = [t \in Tables |-> "young"]
    /\ canonical = NoTable /\ previous = NoTable
    /\ disk = NoRun /\ run = NoRun
    /\ next = 1
    /\ wpc = "idle"
    /\ gc = NoCollection
    /\ stage = [r \in Readers |-> "idle"]
    /\ tab = [r \in Readers |-> NoTable]
    /\ file = [r \in Readers |-> "none"]
    /\ late = {}

readerVars == <<stage, tab, file, late>>
manifestVars == <<canonical, previous>>
tableVars == <<order, age>>

WriterGo(from, to) == wpc = from /\ wpc' = to

-----------------------------------------------------------------------------
(* The ingestion run (ingestUnlocked).                                      *)

\* A rebuild that stopped before its table became the active one.
Abandoned(state) ==
    /\ state # NoRun
    /\ state.mode = "rebuild" /\ state.table # Active /\ state.status # "completed"

\* canResumeIngestion, and the staged table is there unless no row was committed.
CanResume(same, rebuild) ==
    /\ disk # NoRun /\ same
    /\ disk.status # "completed"
    /\ rebuild => disk.mode = "rebuild"
    /\ disk.rows => disk.table \in Existing

\* createIngestionRunState: an incremental run works on the active table.
NewRun(rebuild, compatible) ==
    IF rebuild \/ (Active \in Existing /\ ~compatible)
    THEN [mode |-> "rebuild", status |-> "running", table |-> next, before |-> Active,
          rows |-> FALSE]
    ELSE [mode |-> "incremental", status |-> "running", table |-> Active, before |-> NoTable,
          rows |-> Active \in Existing]

\* The run starts: "same" says that sources and policy are those of the stored
\* run, "compatible" that the manifest allows reuse.
BeginIngest(rebuild, same, compatible) ==
    /\ IF CanResume(same, rebuild)
       THEN /\ WriterGo("idle", "persist")
            /\ run' = [disk EXCEPT !.status = "running"]
            /\ UNCHANGED next
       ELSE /\ WriterGo("idle", IF Abandoned(disk) THEN "drop" ELSE "persist")
            /\ run' = NewRun(rebuild, compatible)
            /\ run'.mode = "rebuild" => next <= MaxTable
            /\ next' = IF run'.mode = "rebuild" THEN next + 1 ELSE next
    /\ UNCHANGED <<tableVars, manifestVars, disk, gc, readerVars>>

\* The tables without one.
Position(t) == CHOOSE i \in DOMAIN order : order[i] = t
OrderWithout(t) == IF t \in Existing THEN RemoveAt(order, Position(t)) ELSE order

\* A table goes away, with its age.
Discard(t) ==
    /\ order' = OrderWithout(t)
    /\ age' = [age EXCEPT ![t] = "young"]

\* dropRowsTable: the table of an abandoned rebuild.
DropAbandoned ==
    /\ WriterGo("drop", "persist")
    /\ Discard(disk.table)
    /\ UNCHANGED <<manifestVars, disk, run, next, gc, readerVars>>

PersistRun ==
    /\ WriterGo("persist", "write")
    /\ disk' = run
    /\ UNCHANGED <<tableVars, manifestVars, run, next, gc, readerVars>>

\* updateRowsInTable: rows of one file reach the table, creating it if need be;
\* the progress is persisted next.
WriteRows ==
    /\ WriterGo("write", "persist")
    /\ order' = <<run.table>> \o OrderWithout(run.table)
    /\ age' = [age EXCEPT ![run.table] = "young"]
    /\ run' = [run EXCEPT !.rows = TRUE]
    /\ UNCHANGED <<manifestVars, disk, next, gc, readerVars>>

\* The table is validated and the manifests are about to be written.
Validate ==
    /\ WriterGo("write", "previous")
    /\ UNCHANGED <<tableVars, manifestVars, disk, run, next, gc, readerVars>>

\* persistQualityReport rewrites the manifest of the active table.
Evaluate ==
    /\ "evaluate" \in Events
    /\ canonical # NoTable \/ previous # NoTable
    /\ WriterGo("idle", "previous")
    /\ UNCHANGED <<tableVars, manifestVars, disk, run, next, gc, readerVars>>

Target == IF run = NoRun THEN Active ELSE run.table

\* writeIndexManifest: the manifest in force becomes the previous one ...
WritePrevious ==
    /\ WriterGo("previous", "canonical")
    /\ previous' = IF canonical = NoTable /\ previous = NoTable THEN Target ELSE Active
    /\ UNCHANGED <<tableVars, canonical, disk, run, next, gc, readerVars>>

\* Variant for the checks: only a run that is still "running" is resumable.
ResumableGeneration_RunningOnly(state, active) ==
    IF state # NoRun /\ state.mode = "rebuild" /\ state.table # active
       /\ state.status = "running"
    THEN {state.table} ELSE {}

ResumableGeneration(state, active) ==
    IF state # NoRun /\ state.mode = "rebuild" /\ state.table # active
       /\ state.status # "completed"
    THEN {state.table} ELSE {}

\* Variant for the checks: only an unfinished run can be rolled back.
RollbackGeneration_Unfinished(state, active) ==
    IF state # NoRun /\ state.mode = "rebuild" /\ state.table = active
       /\ state.status # "completed"
       /\ state.before \notin {NoTable, active}
    THEN {state.before} ELSE {}

RollbackGeneration(state, active) ==
    IF state # NoRun /\ state.mode = "rebuild" /\ state.table = active
       /\ state.before \notin {NoTable, active}
    THEN {state.before} ELSE {}

\* activeLeaseTableNames begins: the leases counted in this process, and the
\* lease files to look at.
CountedLeases ==
    {tab[r] : r \in {x \in Local : stage[x] \in {"leasing", "confirm", "reading"}}}

LeaseFiles == {r \in Readers : file[r] # "none"}

\* The collection starts: the roles that the stored or the running state gives,
\* the first listing of the lease files, and the time (nowMs) against which both
\* listings hold the terms of the leases.
StartCollection(state, active) ==
    gc' = [NoCollection EXCEPT
             !.active = active,
             !.kept = {active} \cup ResumableGeneration(state, active)
                               \cup RollbackGeneration(state, active),
             !.names = CountedLeases,
             !.todo = LeaseFiles,
             !.overdue = late]

\* ... and the new one takes its place, which activates the table.  A run goes
\* on with its collection, a quality report is done.
WriteCanonical ==
    /\ WriterGo("canonical", IF run = NoRun THEN "idle" ELSE "leases")
    /\ canonical' = Target
    /\ IF run = NoRun THEN UNCHANGED gc ELSE StartCollection(run, Target)
    /\ UNCHANGED <<tableVars, previous, disk, run, next, readerVars>>

FinishRun ==
    /\ WriterGo("finish", "idle")
    /\ disk' = [run EXCEPT !.status = "completed"]
    /\ run' = NoRun
    /\ UNCHANGED <<tableVars, manifestVars, next, gc, readerVars>>

\* The catch of ingestUnlocked stores the failure of a running run, if it can.
FailRun ==
    /\ "fail" \in Events
    /\ wpc \in {"drop", "persist", "write", "previous", "canonical", "finish"} /\ wpc' = "idle"
    /\ disk' \in IF run = NoRun \/ wpc \in {"drop", "finish"} THEN {disk}
                 ELSE {disk, [run EXCEPT !.status = "failed"]}
    /\ run' = NoRun
    /\ UNCHANGED <<tableVars, manifestVars, next, gc, readerVars>>

CrashWriter ==
    /\ "crash" \in Events
    /\ wpc # "idle" /\ wpc' = "idle"
    /\ run' = NoRun
    /\ gc' = NoCollection
    /\ UNCHANGED <<tableVars, manifestVars, disk, next, readerVars>>

-----------------------------------------------------------------------------
(* The collection (collectWithConnection).                                  *)

\* collectGenerationGarbage, called on its own, takes the state from disk.
Collect ==
    /\ WriterGo("idle", "leases")
    /\ StartCollection(disk, Active)
    /\ UNCHANGED <<tableVars, manifestVars, disk, run, next, readerVars>>

\* The lease was past its term when the collection took its time.
Overdue(r) == r \in gc.overdue /\ r \in late

\* Variant for the checks: only the pid of the collecting process counts.
ReadLease_OwnPid(r) ==
    /\ wpc \in {"leases", "recheck"} /\ r \in gc.todo
    /\ file[r] = "torn" /\ stage[r] # "dead" => "torn" \in Events
    /\ IF file[r] = "valid" /\ r \in Local /\ ~Overdue(r)
       THEN /\ gc' = [gc EXCEPT !.todo = @ \ {r}, !.names = @ \cup {tab[r]}]
            /\ UNCHANGED file
       ELSE /\ gc' = [gc EXCEPT !.todo = @ \ {r}]
            /\ file' = [file EXCEPT ![r] = "none"]
    /\ UNCHANGED <<tableVars, manifestVars, disk, run, next, wpc, stage, tab, late>>

\* One lease file is read (activeLease): the lease of a living process counts until
\* its term; any other file is removed, that of a reader past its term too, and one
\* that its owner is still writing.
ReadLease(r) ==
    /\ wpc \in {"leases", "recheck"} /\ r \in gc.todo
    /\ file[r] = "torn" /\ stage[r] # "dead" => "torn" \in Events
    /\ IF file[r] = "valid" /\ stage[r] # "dead" /\ ~Overdue(r)
       THEN /\ gc' = [gc EXCEPT !.todo = @ \ {r}, !.names = @ \cup {tab[r]}]
            /\ UNCHANGED file
       ELSE /\ gc' = [gc EXCEPT !.todo = @ \ {r}]
            /\ file' = [file EXCEPT ![r] = "none"]
    /\ UNCHANGED <<tableVars, manifestVars, disk, run, next, wpc, stage, tab, late>>

LeasesRead ==
    /\ wpc = "leases" /\ gc.todo = {} /\ wpc' = "inspect"
    /\ UNCHANGED <<tableVars, manifestVars, disk, run, next, gc, readerVars>>

\* Variant for the checks: protected generations do not use up retained slots.
RetainedSlots_Constant(protected) == MaxRetained

RetainedSlots(protected) ==
    IF Cardinality(protected) < MaxRetained THEN MaxRetained - Cardinality(protected) ELSE 0

\* The tables that the classification calls "orphaned": past their grace, and
\* too old or beyond the slots left by the protected ones.
Eligible(cand, protected) == {t \in cand \ protected : age[t] # "young"}
Recent(cand, protected) == {t \in Eligible(cand, protected) : age[t] = "aged"}

\* The place of a table among some, the last modified of which is the first.
Rank(t, among) == Cardinality({u \in among : Position(u) <= Position(t)})

Orphaned(cand, protected) ==
    {t \in Eligible(cand, protected) :
        t \in Recent(cand, protected) =>
            Rank(t, Recent(cand, protected)) > RetainedSlots(protected)}

\* The tables are inspected and classified, and the lease files listed again.
\* A table that cannot be inspected is no candidate; without the active table
\* among the candidates nothing is dropped.
Inspect ==
    /\ WriterGo("inspect", "recheck")
    /\ \E cand \in IF "fail" \in Events THEN SUBSET Existing ELSE {Existing} :
          LET protected == gc.kept \cup gc.names
              safe == cand = {} \/ gc.active \in cand
          IN  gc' = [active |-> gc.active, kept |-> protected, safe |-> safe,
                     doomed |-> IF safe THEN Orphaned(cand, protected) ELSE {},
                     settled |-> {t \in cand : age[t] # "young"},
                     names |-> CountedLeases, todo |-> LeaseFiles,
                     early |-> {r \in Readers : stage[r] = "reading" /\ (r \in Local \/ ~Overdue(r))},
                     overdue |-> gc.overdue]
    /\ UNCHANGED <<tableVars, manifestVars, disk, run, next, readerVars>>

LeasesReread ==
    /\ wpc = "recheck" /\ gc.todo = {} /\ wpc' = "reclaim"
    /\ UNCHANGED <<tableVars, manifestVars, disk, run, next, gc, readerVars>>

\* dropTable, which may fail, of an orphaned table that has no lease by now.
DropTable(t) ==
    /\ wpc = "reclaim" /\ t \in gc.doomed \ gc.names
    /\ gc' = [gc EXCEPT !.doomed = @ \ {t}]
    /\ \/ Discard(t)
       \/ "fail" \in Events /\ UNCHANGED tableVars
    /\ UNCHANGED <<manifestVars, disk, run, next, wpc, readerVars>>

Collected == wpc = "reclaim" /\ gc.doomed \subseteq gc.names

\* A collection that throws does not fail the run it belongs to.
EndCollection ==
    /\ \/ Collected
       \/ "fail" \in Events /\ wpc \in {"leases", "inspect", "recheck"}
    /\ wpc' = IF run = NoRun THEN "idle" ELSE "finish"
    /\ gc' = NoCollection
    /\ UNCHANGED <<tableVars, manifestVars, disk, run, next, readerVars>>

-----------------------------------------------------------------------------
(* Readers.                                                                 *)

ReaderGo(r, from, to) == stage[r] = from /\ stage' = [stage EXCEPT ![r] = to]

writerVars == <<order, canonical, previous, disk, run, next, wpc, gc>>

\* loadIndexReadSnapshot opens the table of the manifest in force; under
\* withActiveGenerationReadLease only its name is read.
Open(r) ==
    /\ r \in Confirming \/ Active \in Existing
    /\ ReaderGo(r, "idle", "opened")
    /\ tab' = [tab EXCEPT ![r] = Active]
    /\ UNCHANGED <<writerVars, age, file, late>>

\* acquireGenerationReadLease counts the lease and creates its file, or does
\* without one where it cannot be created ...
Lease(r) ==
    /\ ReaderGo(r, "opened", "leasing")
    /\ \/ file' = [file EXCEPT ![r] = "torn"]
       \/ "readOnly" \in Events /\ UNCHANGED file
    /\ UNCHANGED <<writerVars, age, tab, late>>

\* ... and writes it, into nothing when there is no file, or no longer one.
WriteLease(r) ==
    /\ ReaderGo(r, "leasing", IF r \in Confirming THEN "confirm" ELSE "reading")
    /\ file' = [file EXCEPT ![r] = IF @ = "torn" THEN "valid" ELSE "none"]
    /\ UNCHANGED <<writerVars, age, tab, late>>

GiveBack(r) ==
    /\ file' = [file EXCEPT ![r] = "none"]
    /\ tab' = [tab EXCEPT ![r] = NoTable]
    /\ late' = late \ {r}

\* Variant for the checks: the name is not read again after the lease.
Confirm_Unchecked(r) ==
    /\ ReaderGo(r, "confirm", "reading")
    /\ UNCHANGED <<writerVars, age, tab, file, late>>

\* withActiveGenerationReadLease reads the active name again; when it has
\* changed the lease goes back and the loop starts over.
Confirm(r) ==
    \/ /\ Active = tab[r]
       /\ ReaderGo(r, "confirm", "reading")
       /\ UNCHANGED <<writerVars, age, tab, file, late>>
    \/ /\ Active # tab[r]
       /\ ReaderGo(r, "confirm", "idle")
       /\ GiveBack(r)
       /\ UNCHANGED <<writerVars, age>>

\* release(), in the finally of the operation.
ReleaseLease(r) ==
    /\ ReaderGo(r, "reading", "idle")
    /\ GiveBack(r)
    /\ UNCHANGED <<writerVars, age>>

\* The process of a reader dies and leaves its file; the term of a dead process's
\* lease is no matter.
CrashReader(r) ==
    /\ "crash" \in Events
    /\ r \notin Local /\ stage[r] \notin {"idle", "dead"}
    /\ stage' = [stage EXCEPT ![r] = "dead"]
    /\ late' = late \ {r}
    /\ UNCHANGED <<writerVars, age, tab, file>>

\* The term of a lease, GENERATION_LEASE_DURATION_MS, is over; nothing renews it.
\* (A collection ends long before the term of a lease that was taken during it.)
ExpireLease(r) ==
    /\ "longRead" \in Events
    /\ stage[r] \in {"leasing", "confirm", "reading"} /\ r \notin late \cup gc.overdue
    /\ late' = late \cup {r}
    /\ UNCHANGED <<writerVars, age, stage, tab, file>>

\* Time passes: a table grows older, never past one that was modified before.
Older == [young |-> "aged", aged |-> "expired"]

GrowOld ==
    /\ \E i \in DOMAIN order :
          /\ age[order[i]] # "expired"
          /\ \A j \in i + 1 .. Len(order) : age[order[j]] # age[order[i]]
          /\ \/ age[order[i]] = "young"
             \/ "longRead" \in Events
             \/ \A r \in Readers : stage[r] \in {"idle", "dead"}
          /\ age' = [age EXCEPT ![order[i]] = Older[@]]
    /\ UNCHANGED <<writerVars, readerVars>>

-----------------------------------------------------------------------------

Ingest ==
    \/ \E rebuild, same, compatible \in BOOLEAN : BeginIngest(rebuild, same, compatible)
    \/ DropAbandoned \/ PersistRun \/ WriteRows \/ Validate
    \/ WritePrevious \/ WriteCanonical \/ FinishRun \/ FailRun
    \/ Evaluate

Collection ==
    \/ Collect \/ LeasesRead \/ Inspect \/ LeasesReread \/ EndCollection
    \/ \E r \in Readers : ReadLease(r)
    \/ \E t \in Tables : DropTable(t)

Read(r) ==
    \/ Open(r) \/ Lease(r) \/ WriteLease(r) \/ Confirm(r) \/ ReleaseLease(r)
    \/ CrashReader(r) \/ ExpireLease(r)

Next == Ingest \/ Collection \/ CrashWriter \/ GrowOld \/ \E r \in Readers : Read(r)

Spec == Init /\ [][Next]_vars

-----------------------------------------------------------------------------
(* Properties.                                                              *)

Gone(t) == t \in Existing /\ t \notin ToSet(order')

\* docs/cli-reference.md: "actively leased tables are never reclaimed", "dead or
\* expired leases are ignored".  A reader that held its lease when a collection
\* looked at the leases for the second time does not lose its table to that
\* collection, unless the lease was past its term when the collection began; the
\* leases of the collecting process itself know no term.
LeaseRespected ==
    \A r \in gc.early : stage[r] = "reading" => ~Gone(tab[r])

LeasedTablesKept == [][LeaseRespected]_vars

\* A reader that confirmed the active table after leasing it keeps that table,
\* whatever is activated and collected meanwhile, until the term of its lease, or
\* for as long as it reads if it is in the collecting process.
ConfirmedReaderServed ==
    \A r \in Confirming :
        stage[r] = "reading" /\ (r \in Local \/ r \notin late) => ~Gone(tab[r])

ConfirmedReaderKeepsTable == [][ConfirmedReaderServed]_vars

\* docs/cli-reference.md: "Older generated tables remain available for searches
\* that already opened them".
OpenedServed ==
    \A r \in Readers \ Confirming :
        stage[r] \in {"opened", "leasing", "reading"} => ~Gone(tab[r])

SearchKeepsTable == [][OpenedServed]_vars

\* The active table and the staged table of a run that can be resumed are never
\* dropped by a collection, at whatever point a run failed or a process died.
RolesKept ==
    [][wpc = "reclaim" =>
         /\ ~Gone(Active)
         /\ \A state \in {disk, run} \ {NoRun} :
               state.status # "completed" /\ state.mode = "rebuild" => ~Gone(state.table)]_vars

\* docs/troubleshooting.md: when the canonical manifest is lost, Ragmir "uses
\* the last validated previous generation".  The table it names is still there.
FallbackExists == previous # NoTable /\ previous \in Existing => ~Gone(previous)

FallbackKept == [][FallbackExists]_vars

\* docs/cli-reference.md: generations past their grace period "are bounded to
\* three tables", unless the protected ones are more.
BoundedGenerations ==
    Collected /\ gc.safe /\ "fail" \notin Events =>
        LET kept == Cardinality((gc.settled \cap Existing) \ gc.names)
        IN  kept <= MaxRetained \/ kept <= Cardinality(gc.kept)
=============================================================================
