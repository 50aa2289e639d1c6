------------------------------ MODULE IngestRun ------------------------------
(***************************************************************************)
(* An ingestion under the writer lock (ingest.ts), the durable state that  *)
(* lets the next one resume it (ingestion-state.ts), and the table, the    *)
(* list of empty files and the manifest it writes (store.ts).              *)
(*                                                                         *)
(* A source file holds a version, which stands for its text and for the    *)
(* checksum of that text; Chunks says how many chunks a version has, zero  *)
(* for a file without text.  The rows of a file record the checksum of the *)
(* inventory and the text that was read later, at the parse.               *)
(*                                                                         *)
(* Abstracted: bytes and modification times (equal when the checksum is),  *)
(* row ids, the order of the files, the index policy, the maintenance and  *)
(* the calibration of the table (a step that may fail), the two files of a *)
(* manifest (GenerationRetention has them), and the difference between the *)
(* statuses "running", "interrupted" and "failed", all resumed alike: such *)
(* a run is open.                                                          *)
(***************************************************************************)
EXTENDS Naturals, FiniteSets

CONSTANTS Files,      \* relative paths that may hold a source
          Versions,   \* what a source may contain
          Chunks,     \* [Versions -> Nat], the chunks of a version
          BatchSize,  \* files of a window
          Policies,   \* values of incrementalFailurePolicy
          Events,     \* what else may happen, see the actions
          MaxEdits,   \* bound: changes of a source
          MaxFaults,  \* bound: crashes, failed steps and failed parses
          None,       \* no source, no rows, no record
          Missing,    \* no such table
          ParseError  \* a file that could not be parsed

ASSUME ChunksAssumption == Chunks \in [Versions -> Nat]
ASSUME BatchAssumption == BatchSize \in Nat \ {0}
ASSUME BoundsAssumption == MaxFaults \in Nat /\ MaxEdits \in Nat
ASSUME FilesAssumption == IsFiniteSet(Files)

VARIABLES source,    \* [Files -> Versions or None], the files on disk
          tables,    \* the rows of each table, or Missing
          manifest,  \* the activation manifest
          empties,   \* empty-text-files.json: checksum of each empty file
          saved,     \* the run state on disk
          journal,   \* whether its journal is readable
          run,       \* the run state in memory
          pc,        \* where the run is
          unsaved,   \* the run state in memory is about to be persisted
          resumed,   \* its resumed flag
          snapshotPersisted, \* its runtime flag: later writes append to the journal
          policy,    \* the failure policy of the call
          todo,      \* files this call has still to process
          parsed,    \* the texts of the current window
          removed,   \* paths whose rows are still to be removed
          edits, faults

disk == <<tables, manifest, empties, saved, journal>>
memory == <<run, pc, unsaved, resumed, snapshotPersisted, policy, todo, parsed, removed>>
flags == <<resumed, snapshotPersisted, policy>>
vars == <<source, disk, memory, edits, faults>>

BaseTable == 0
TableNames == 0 .. 2   \* config.tableName and two generations: older names are free again
Rows == [sum : Versions, text : Versions]
NoRows == [f \in Files |-> None]
NoManifest == [table |-> BaseTable, files |-> NoRows, written |-> FALSE]
Stages == {"pending", "parsed", "embedded", "indexed", "error"}

FileStates ==
  [sum : Versions, stage : Stages, chunks : Nat, goodSum : Versions \cup {None},
   goodChunks : Nat, stale : BOOLEAN, reused : BOOLEAN]

MapsFiles(g, S) == DOMAIN g \subseteq Files /\ g \in [DOMAIN g -> S]

IsRunState(r) ==
  /\ r = [table |-> r.table, mode |-> r.mode, status |-> r.status, files |-> r.files]
  /\ r.table \in TableNames /\ r.mode \in {"incremental", "rebuild"}
  /\ r.status \in {"open", "completed"} /\ MapsFiles(r.files, FileStates)

ListedFiles == [sum : Versions, chunks : Nat]

\* The markers are none of the values they stand beside.
ASSUME NoneAssumption == None \notin Versions /\ ParseError \notin Versions
ASSUME RowsAssumption == None \notin Rows \cup ListedFiles /\ Missing \notin [Files -> Rows \cup {None}]
ASSUME StatesAssumption ==
  None \notin [table : TableNames, mode : {"incremental", "rebuild"}, status : {"open", "completed"},
               files : UNION {[S -> FileStates] : S \in SUBSET Files}]

\* new, and old where new says nothing.
Over(new, old) ==
  [x \in DOMAIN new \cup DOMAIN old |-> IF x \in DOMAIN new THEN new[x] ELSE old[x]]

-----------------------------------------------------------------------------
(* What the run reads.                                                     *)

ActiveTable == manifest.table
Present == {f \in Files : source[f] # None}

RowsOf(t, f) == IF tables[t] = Missing THEN None ELSE tables[t][f]
ChunksOf(rows) == IF rows = None THEN 0 ELSE Chunks[rows.text]

\* Variant for the checks: the merge deletes nothing.
UpdateRows_KeepsOld(t, new, paths) ==
  IF tables[t] = Missing
  THEN IF DOMAIN new = {} THEN Missing ELSE Over(new, NoRows)
  ELSE Over(new, tables[t])

\* updateRowsInTable: one merge that inserts new and drops every other row of paths.
UpdateRows(t, new, paths) ==
  IF tables[t] = Missing
  THEN IF DOMAIN new = {} THEN Missing ELSE Over(new, NoRows)
  ELSE Over(new, [f \in Files |-> IF f \in paths THEN None ELSE tables[t][f]])

\* indexedFilesFromState and emptyTextRecords: what a run state says of the table.
ListedFile(s) ==
  IF s.stage = "indexed" /\ s.chunks > 0 THEN [sum |-> s.sum, chunks |-> s.chunks]
  ELSE IF s.stale /\ s.goodSum # None /\ s.goodChunks > 0 THEN [sum |-> s.goodSum, chunks |-> s.goodChunks]
  ELSE None
Listed(r) == [f \in Files |-> IF f \in DOMAIN r.files THEN ListedFile(r.files[f]) ELSE None]

EmptyFile(s) ==
  IF s.stage = "indexed" /\ s.chunks = 0 THEN s.sum
  ELSE IF s.stale /\ s.goodSum # None /\ s.goodChunks = 0 THEN s.goodSum
  ELSE None
EmptyFiles(r) == [f \in Files |-> IF f \in DOMAIN r.files THEN EmptyFile(r.files[f]) ELSE None]

\* validateIngestionTable: the rows by path and checksum are those the run state lists.
Matches(rows, listed) ==
  IF listed = None THEN rows = None
  ELSE rows # None /\ rows.sum = listed.sum /\ ChunksOf(rows) = listed.chunks
ValidTable(r) == \A f \in Files : Matches(RowsOf(r.table, f), Listed(r)[f])

-----------------------------------------------------------------------------
(* The durable run state.                                                  *)

\* isIngestionFileState: what a reader accepts.
ReadableFile(s) ==
  /\ s.reused => s.stage = "indexed"
  /\ s.goodSum = None => s.goodChunks = 0
  /\ s.stale => s.goodSum # None /\ s.goodSum # s.sum /\ s.stage # "indexed"
  /\ s.stage = "indexed" => s.goodSum = s.sum /\ s.goodChunks = s.chunks /\ ~s.stale

ReadableState(r) == \A f \in DOMAIN r.files : ReadableFile(r.files[f])

\* readIngestionState: a malformed line, or a record it does not accept, discards it all.
StoredState ==
  IF saved # None /\ journal # "malformed" /\ ReadableState(saved) THEN saved ELSE None

\* writeIngestionState: the first write of a run and its last one replace the snapshot and
\* remove the journal.  The others append, and nothing closes a line cut short before them.
Compacted(r) == saved' = r /\ journal' = "clean"
Appended(r) == saved' = r /\ journal' = IF journal = "clean" THEN "clean" ELSE "malformed"
Written(r) == IF snapshotPersisted THEN Appended(r) ELSE Compacted(r)

\* canResumeIngestion, with the table its indexed files need.
Resumable(s, rebuild) ==
  /\ s # None
  /\ s.status = "open"
  /\ rebuild => s.mode = "rebuild"
  /\ DOMAIN s.files = Present
  /\ \A f \in Present : s.files[f].sum = source[f]
  /\ \/ tables[s.table] # Missing
     \/ ~\E f \in Present : s.files[f].stage = "indexed" /\ s.files[f].chunks > 0

\* Variant for the checks: the record of an empty file is taken for any version of it.
Committed_AnyEmpty(s, f) ==
  LET rows == RowsOf(s.table, f) IN
  /\ s.files[f].stage \notin {"indexed", "error"}
  /\ IF s.files[f].chunks > 0
     THEN rows # None /\ rows.sum = s.files[f].sum /\ ChunksOf(rows) = s.files[f].chunks
     ELSE s.mode = "incremental" /\ empties[f] # None

\* Variant for the checks: the rows of a commit that was not recorded are not looked at.
Committed_StateOnly(s, f) == s.files[f].stage = "embedded" /\ s.files[f].chunks = 0

\* reconcileCommittedFiles: a file whose rows are complete was committed, whatever its state says.
Committed(s, f) ==
  LET rows == RowsOf(s.table, f) IN
  /\ s.files[f].stage \notin {"indexed", "error"}
  /\ IF s.files[f].chunks > 0
     THEN rows # None /\ rows.sum = s.files[f].sum /\ ChunksOf(rows) = s.files[f].chunks
     ELSE s.mode = "incremental" /\ empties[f] = s.files[f].sum

\* Variant for the checks: the file stays marked as stale.
AsIndexed_StillStale(s) ==
  [s EXCEPT !.stage = "indexed", !.goodSum = s.sum, !.goodChunks = s.chunks]

AsIndexed(s) ==
  [s EXCEPT !.stage = "indexed", !.goodSum = s.sum, !.goodChunks = s.chunks, !.stale = FALSE]

\* resumeIngestionState: whatever is not indexed starts again.
AsPending(s) ==
  [s EXCEPT !.stage = "pending", !.chunks = s.goodChunks,
            !.stale = s.goodSum # None /\ s.goodSum # s.sum]

ResumedRun(s) ==
  [s EXCEPT !.files = [f \in DOMAIN s.files |->
               IF s.files[f].stage = "indexed" THEN s.files[f]
               ELSE IF Committed(s, f) THEN AsIndexed(s.files[f])
               ELSE AsPending(s.files[f])]]

-----------------------------------------------------------------------------
(* A new run.                                                              *)

Compatible(rebuild) == ~rebuild /\ manifest.written
CanReuse(rebuild) == Compatible(rebuild) /\ tables[ActiveTable] # Missing

PreviousListed(rebuild) == IF CanReuse(rebuild) THEN manifest.files ELSE NoRows
PreviousEmpty(rebuild) == IF CanReuse(rebuild) THEN empties ELSE NoRows

\* previousFiles: the empty files come last in the map and win.
Previous(rebuild, f) ==
  IF PreviousEmpty(rebuild)[f] # None THEN [sum |-> PreviousEmpty(rebuild)[f], chunks |-> 0]
  ELSE PreviousListed(rebuild)[f]

\* Variant for the checks: a file with text is reused whatever its checksum.
Reusable_ByPath(rebuild, f) ==
  \/ PreviousListed(rebuild)[f] # None
  \/ PreviousEmpty(rebuild)[f] # None /\ PreviousEmpty(rebuild)[f] = source[f]

\* reusablePaths: the manifest or the list of empty files has the checksum of the source.
Reusable(rebuild, f) ==
  \/ PreviousListed(rebuild)[f] # None /\ PreviousListed(rebuild)[f].sum = source[f]
  \/ PreviousEmpty(rebuild)[f] # None /\ PreviousEmpty(rebuild)[f] = source[f]

NewMode(rebuild) ==
  IF rebuild \/ (tables[ActiveTable] # Missing /\ ~Compatible(rebuild)) THEN "rebuild" ELSE "incremental"

\* createIngestionRunState for one file.
NewFile(rebuild, f) ==
  LET previous == IF NewMode(rebuild) = "incremental" THEN Previous(rebuild, f) ELSE None
      reused == NewMode(rebuild) = "incremental" /\ Reusable(rebuild, f)
      goodSum == IF reused THEN source[f] ELSE IF previous # None THEN previous.sum ELSE None
      goodChunks == IF previous # None THEN previous.chunks ELSE 0 IN
  [sum |-> source[f], stage |-> IF reused THEN "indexed" ELSE "pending", chunks |-> goodChunks,
   goodSum |-> goodSum, goodChunks |-> goodChunks,
   stale |-> goodSum # None /\ goodSum # source[f], reused |-> reused]

\* Variant for the checks: a rebuild writes to the active table.
NewTable_Active(mode) == ActiveTable

NewTable(mode) ==
  IF mode = "incremental" THEN ActiveTable
  ELSE CHOOSE t \in TableNames \ {BaseTable} : t # ActiveTable

NewRun(rebuild) ==
  [table |-> NewTable(NewMode(rebuild)), mode |-> NewMode(rebuild), status |-> "open",
   files |-> [f \in Present |-> NewFile(rebuild, f)]]

\* A table that neither the manifest nor a run names cannot be reached again from here: the
\* staged table of a run that is given up is dropped, and an orphan is as good as dropped.
Only(t) == [u \in TableNames |-> IF u = t THEN tables[u] ELSE Missing]

-----------------------------------------------------------------------------
Init ==
  /\ source \in [Files -> Versions \cup {None}]
  /\ tables = [t \in TableNames |-> Missing]
  /\ manifest = NoManifest
  /\ empties = NoRows
  /\ saved = None /\ journal = "clean"
  /\ run = None /\ pc = "idle" /\ unsaved = FALSE
  /\ resumed = FALSE /\ snapshotPersisted = FALSE /\ policy = None
  /\ todo = {} /\ parsed = <<>> /\ removed = {}
  /\ edits = 0 /\ faults = 0

\* The call has ended, one way or another.
Stopped ==
  /\ run' = None /\ pc' = "idle" /\ unsaved' = FALSE
  /\ resumed' = FALSE /\ snapshotPersisted' = FALSE /\ policy' = None
  /\ todo' = {} /\ parsed' = <<>> /\ removed' = {}

\* The call up to its first persist: manifest, state, empty files and inventory are read.
Start ==
  /\ pc = "idle"
  /\ \E rebuild \in {FALSE} \cup (IF "rebuild" \in Events THEN {TRUE} ELSE {}) :
       LET resume == Resumable(StoredState, rebuild)
           next == IF resume THEN ResumedRun(StoredState) ELSE NewRun(rebuild) IN
       /\ run' = next
       /\ tables' = IF resume THEN tables ELSE Only(ActiveTable)
       /\ todo' = {f \in Present : next.files[f].stage # "indexed"}
       /\ removed' = IF next.mode = "incremental"
                     THEN {f \in Files : PreviousListed(rebuild)[f] # None} \ Present
                     ELSE {}
       /\ resumed' = resume /\ snapshotPersisted' = resume
       /\ policy' \in IF todo' = {} \/ next.mode = "rebuild" THEN {None} ELSE Policies  \* read when a parse fails
  /\ pc' = "process" /\ unsaved' = TRUE
  /\ UNCHANGED <<source, manifest, empties, saved, journal, parsed, edits, faults>>

\* persistIngestionProgress.
Persist ==
  /\ unsaved
  /\ unsaved' = FALSE
  /\ Written(run)
  /\ snapshotPersisted' = TRUE
  /\ UNCHANGED <<source, tables, manifest, empties, run, pc, resumed, policy, todo, parsed, removed, edits, faults>>

\* parseSourceFile reads the file as it is now; an error of the parse belongs to the file.
ParseResults(f) ==
  IF source[f] = None THEN {ParseError}
  ELSE {source[f]} \cup (IF "parse" \in Events THEN {ParseError} ELSE {})

AsParsed(s, text) ==
  IF text = ParseError THEN [s EXCEPT !.stage = "error"]
  ELSE [s EXCEPT !.stage = "parsed", !.chunks = Chunks[text]]

ParseWindow ==
  /\ pc = "process" /\ ~unsaved
  /\ DOMAIN parsed = {}
  /\ \E window \in SUBSET todo \ {{}} :
       /\ Cardinality(window) <= BatchSize
       /\ \E texts \in [window -> Versions \cup {ParseError}] :
            /\ \A f \in window : texts[f] \in ParseResults(f)
            /\ faults' = faults + Cardinality({f \in window \cap Present : texts[f] = ParseError})
            /\ faults' <= MaxFaults
            /\ parsed' = texts
            /\ run' = [run EXCEPT !.files =
                 Over([f \in window |-> AsParsed(run.files[f], texts[f])], run.files)]
  /\ unsaved' = TRUE
  /\ UNCHANGED <<source, disk, pc, flags, todo, removed, edits>>

\* The files of a window are embedded and committed one by one, in a fixed order.
InTurn(f) == pc = "process" /\ ~unsaved /\ DOMAIN parsed # {} /\ f = CHOOSE g \in DOMAIN parsed : TRUE

\* vectorRowsForChunks.
Embed(f) ==
  /\ InTurn(f)
  /\ run.files[f].stage = "parsed"
  /\ run' = [run EXCEPT !.files[f].stage = "embedded"]
  /\ unsaved' = TRUE
  /\ UNCHANGED <<source, disk, pc, flags, todo, parsed, removed, edits, faults>>

\* Variant for the checks: the failure policy is not asked.
ReplacePaths_Always(f) == {f} \cup removed

\* The paths whose old rows the commit of f replaces, its own first.
ReplacePaths(f) ==
  (IF parsed[f] # ParseError \/ (run.mode = "incremental" /\ policy = "remove-stale") THEN {f} ELSE {})
    \cup removed

AfterCommit(s, f) ==
  IF parsed[f] # ParseError THEN AsIndexed(s)
  ELSE IF run.mode = "incremental" /\ policy = "remove-stale"
  THEN [s EXCEPT !.chunks = 0, !.goodSum = None, !.goodChunks = 0, !.stale = FALSE]
  ELSE s

\* The rows of one file of the window go into the table, with the removals that are due.
Commit(f) ==
  /\ InTurn(f)
  /\ run.files[f].stage \in {"embedded", "error"}
  /\ LET rows == [g \in {h \in {f} : parsed[h] # ParseError /\ run.files[h].chunks > 0} |->
                    [sum |-> run.files[g].sum, text |-> parsed[g]]] IN
     IF DOMAIN rows # {} \/ ReplacePaths(f) # {}
     THEN /\ tables' = [tables EXCEPT ![run.table] = UpdateRows(run.table, rows, ReplacePaths(f))]
          /\ removed' = {}
     ELSE UNCHANGED <<tables, removed>>
  /\ run' = [run EXCEPT !.files[f] = AfterCommit(@, f)]
  /\ parsed' = [g \in DOMAIN parsed \ {f} |-> parsed[g]]
  /\ todo' = todo \ {f}
  /\ unsaved' = TRUE
  /\ UNCHANGED <<source, manifest, empties, saved, journal, pc, flags, edits, faults>>

Processed == pc = "process" /\ ~unsaved /\ todo = {}

\* Nothing was written: the removals are still due.
RemoveLeftovers ==
  /\ Processed /\ removed # {}
  /\ tables' = [tables EXCEPT ![run.table] = UpdateRows(run.table, <<>>, removed)]
  /\ removed' = {}
  /\ UNCHANGED <<source, manifest, empties, saved, journal, run, pc, unsaved, flags, todo, parsed,
                 edits, faults>>

\* The table matches the run state: the list of empty files is written first ...
WriteEmptyTextFiles ==
  /\ Processed /\ removed = {}
  /\ ValidTable(run)
  /\ empties' = EmptyFiles(run)
  /\ pc' = "listed"
  /\ UNCHANGED <<source, tables, manifest, saved, journal, run, unsaved, flags, todo, parsed, removed,
                 edits, faults>>

\* ... then the manifest, which activates the table.
WriteIndexManifest ==
  /\ pc = "listed"
  /\ manifest' = [table |-> run.table, files |-> Listed(run), written |-> TRUE]
  /\ pc' = "active"
  /\ UNCHANGED <<source, tables, empties, saved, journal, run, unsaved, flags, todo, parsed, removed,
                 edits, faults>>

\* Garbage collection, and the compact state of the finished run.
Finish ==
  /\ pc = "active"
  /\ Compacted([run EXCEPT !.status = "completed"])
  /\ tables' = Only(ActiveTable)
  /\ Stopped
  /\ UNCHANGED <<source, manifest, empties, edits, faults>>

-----------------------------------------------------------------------------
(* What ends a run early.                                                  *)

\* The catch clause: the state is marked and written, unless that write fails as well.
Caught ==
  /\ Stopped
  /\ \/ Written(run)
     \/ "ioError" \in Events /\ UNCHANGED <<saved, journal>>
  /\ UNCHANGED <<source, tables, manifest, empties, edits>>

\* validateIngestionTable throws.
RejectTable ==
  /\ Processed /\ removed = {}
  /\ ~ValidTable(run)
  /\ Caught
  /\ UNCHANGED faults

\* A read, a write, an embedding or the maintenance of the table fails, or the call is aborted.
FailStep ==
  /\ "ioError" \in Events
  /\ pc # "idle" /\ faults < MaxFaults
  /\ faults' = faults + 1
  /\ Caught

\* The process dies between two steps.
Crash ==
  /\ "crash" \in Events
  /\ pc # "idle" /\ faults < MaxFaults
  /\ faults' = faults + 1
  /\ Stopped
  /\ UNCHANGED <<source, disk, edits>>

\* It dies in an append: some records are there, and the last line may be cut short.
CrashInAppend ==
  /\ "crash" \in Events
  /\ unsaved /\ snapshotPersisted /\ faults < MaxFaults
  /\ faults' = faults + 1
  /\ \E records \in SUBSET DOMAIN run.files, torn \in {FALSE} \cup (IF "tornLine" \in Events THEN {TRUE} ELSE {}) :
       /\ saved' = [saved EXCEPT !.files = Over([f \in records |-> run.files[f]], saved.files)]
       /\ journal' = IF journal # "clean" THEN "malformed" ELSE IF torn THEN "torn" ELSE "clean"
  /\ Stopped
  /\ UNCHANGED <<source, tables, manifest, empties, edits>>

\* Whether a run was stopped before its manifest and left something in the active index: rows
\* that the manifest does not list, or an empty file that it still lists with chunks.
PartlyUpdated ==
  manifest.written /\ \E f \in Files :
    \/ ~Matches(RowsOf(ActiveTable, f), manifest.files[f])
    \/ manifest.files[f] # None /\ empties[f] # None

\* A source changes, appears or disappears; between calls only, unless the events say otherwise.
Edit ==
  /\ edits < MaxEdits
  /\ pc # "idle" => "editDuringRun" \in Events
  /\ PartlyUpdated => "editPartial" \in Events
  /\ \E f \in Files, v \in Versions \cup {None} :
       v # source[f] /\ source' = [source EXCEPT ![f] = v]
  /\ edits' = edits + 1
  /\ UNCHANGED <<disk, memory, faults>>

RunStep ==
  \/ Start \/ Persist \/ ParseWindow
  \/ \E f \in Files : Embed(f) \/ Commit(f)
  \/ RemoveLeftovers \/ WriteEmptyTextFiles \/ WriteIndexManifest \/ Finish \/ RejectTable

Next == RunStep \/ FailStep \/ Crash \/ CrashInAppend \/ Edit

Spec == Init /\ [][Next]_vars

\* Somebody calls ingest again and again, and a call goes on until it is stopped.  A step of a
\* run is always possible, and edits and faults are bounded: that steps never end is WF_vars(RunStep).
FairSpec == Spec /\ []<><<TRUE>>_vars

-----------------------------------------------------------------------------
(* Properties.                                                             *)

TypeOK ==
  /\ source \in [Files -> Versions \cup {None}]
  /\ tables \in [TableNames -> [Files -> Rows \cup {None}] \cup {Missing}]
  /\ manifest \in [table : TableNames, files : [Files -> ListedFiles \cup {None}], written : BOOLEAN]
  /\ empties \in [Files -> Versions \cup {None}]
  /\ saved = None \/ IsRunState(saved)
  /\ journal \in {"clean", "torn", "malformed"}
  /\ IF pc = "idle" THEN run = None ELSE IsRunState(run)
  /\ pc \in {"idle", "process", "listed", "active"}
  /\ unsaved \in BOOLEAN /\ resumed \in BOOLEAN /\ snapshotPersisted \in BOOLEAN
  /\ policy \in Policies \cup {None}
  /\ todo \subseteq Files /\ removed \subseteq Files
  /\ MapsFiles(parsed, Versions \cup {ParseError}) /\ DOMAIN parsed \subseteq todo
  /\ edits \in 0 .. MaxEdits /\ faults \in 0 .. MaxFaults

\* What a run persists, at whatever point it stops, is what readIngestionState accepts: a record
\* it refuses would throw away the progress of the whole run (ingestion-state.ts 684-736).
SavedStateReadable == saved # None => ReadableState(saved)

\* What a run holds between its steps, as the proofs need it: only files that are not indexed are
\* still to be processed, a run that appends to the journal has a state on disk, and a rebuild that
\* has written no manifest has a table of its own (ingest.ts 265-285).
TodoInv == \A f \in todo :
  f \in DOMAIN run.files /\ run.files[f].stage # "indexed" /\ ~run.files[f].reused
IdleInv == pc = "idle" => todo = {} /\ ~unsaved /\ ~snapshotPersisted
StateInv ==
  /\ snapshotPersisted => IsRunState(saved) /\ ReadableState(saved)
  /\ saved # None => ReadableState(saved)
  /\ pc # "idle" => ReadableState(run)
StagedInv == pc \notin {"idle", "active"} /\ run.mode = "rebuild" /\ ~resumed => run.table # ActiveTable
IInv == TypeOK /\ TodoInv /\ IdleInv /\ StateInv /\ StagedInv

\* A run in which every file was parsed finds in the table exactly what its state lists, so that
\* validateIngestionTable never turns it away, resumed or new (ingest.ts 953-984).  With a failed
\* file it may: its last good rows may have gone with a commit that was not recorded.
CleanRunValidates ==
  Processed /\ removed = {} /\ (\A f \in DOMAIN run.files : run.files[f].stage = "indexed")
    => ValidTable(run)

\* Until its generation is active, a rebuild changes no row of the active table: an interrupted
\* rebuild leaves the previous complete index in place (ingest.ts 236-268).
RebuildIsStaged ==
  [][run # None /\ run.mode = "rebuild" /\ (resumed => run.table # ActiveTable)
       => tables'[ActiveTable] = tables[ActiveTable]]_vars

\* A resumed run does not parse a file again whose rows are in its table, also when the run
\* before it stopped between the commit and the record of the commit (ingest.ts 545-590).
CommittedNotReparsed ==
  [][\A f \in DOMAIN parsed' \ DOMAIN parsed :
       LET rows == RowsOf(run.table, f) IN
       resumed => rows = None \/ rows.sum # run.files[f].sum]_vars

\* After a run, each file it reports as indexed has the rows of the very version that was
\* inventoried, and a file listed as empty has no text (ingest.ts 206-220 and 347-355).
CompletedMeansIndexed ==
  saved # None /\ saved.status = "completed" =>
    \A f \in DOMAIN saved.files :
      LET sum == saved.files[f].sum IN
      saved.files[f].stage = "indexed" =>
        RowsOf(ActiveTable, f) = IF Chunks[sum] = 0 THEN None ELSE [sum |-> sum, text |-> sum]

\* No incremental step takes the last rows of a file out of the active table unless its source
\* is gone or empty, or it failed under remove-stale (ingest.ts 329-345).
SearchableUntilReplaced ==
  [][\A f \in Files :
       run # None /\ run.mode = "incremental" /\ RowsOf(ActiveTable, f) # None
         /\ RowsOf(ActiveTable, f)' = None
       => \/ f \notin DOMAIN run.files
          \/ Chunks[run.files[f].sum] = 0
          \/ policy = "remove-stale" /\ run.files[f].stage = "error"]_vars

\* The active index is the one of the sources.
IndexCurrent ==
  manifest.written /\ \A f \in Files :
    /\ RowsOf(ActiveTable, f) =
         IF source[f] = None \/ ChunksOf([sum |-> source[f], text |-> source[f]]) = 0 THEN None
         ELSE [sum |-> source[f], text |-> source[f]]
    /\ manifest.files[f] =
         IF source[f] = None \/ Chunks[source[f]] = 0 THEN None
         ELSE [sum |-> source[f], chunks |-> Chunks[source[f]]]

\* When the sources and the faults come to rest, calling ingest again brings the index up to
\* date for good, whatever was interrupted before (ingest.ts 230-268).
Converges == <>[]IndexCurrent
=============================================================================
