----------------------------- MODULE Readiness ------------------------------
(***************************************************************************)
(* What the program says of the state of an index and does about it: the    *)
(* audit (ingest.ts), the comparison by size and time (freshness.ts), the   *)
(* two modes of doctor (doctor.ts, index-diagnostics.ts, index-policy.ts),  *)
(* and the ingestions that setup, repair and upgrade start by themselves     *)
(* (setup.ts, upgrade.ts).  The user changes files and settings meanwhile.   *)
(* The saved state of a run only spares work here; IngestRun follows it.     *)
(***************************************************************************)
EXTENDS Helpers, FiniteSets

CONSTANTS
    Sources,      \* the paths of the corpus
    MaxChanges,   \* bound on what the user changes
    MaxCommands,  \* bound on the commands
    MaxErrors     \* bound on the files that cannot be parsed

VARIABLES
    source,     \* [path -> what is on disk: content, size with time, identity]
    prints,     \* [path -> the cached fingerprint, or None]
    conf,       \* the configuration: the policy of the index, external extractors
    code,       \* the versions of this release
    rows,       \* [path -> the rows of the active table, or None]
    created,    \* is there an active table?  It stays when its last row goes
    empties,    \* [path -> the record of a file without text, or None]
    header,     \* the manifest, or None
    task,       \* the command that runs
    tally       \* how many changes, commands and errors there were

readinessVars == <<source, prints, conf, code, rows, created, empties, header, task, tally>>

Texts == {"one", "two"}
Supported(s) == {f \in Sources : s[f].content \in Texts \cup {"blank"}}
Oversized(s) == {f \in Sources : s[f].content = "oversized"}
NoneYet == [f \in Sources |-> None]

\* What is recorded of a file, its rows, its fingerprint, and the manifest.
SourceRecords(contents) == [content : contents, stat : Nat]
TextRows == [content : Texts, policy : {1, 2}]
SourcePrints == [stamp : Nat, content : Texts \cup {"blank"}]
HealthSnapshots == [supported : SUBSET Sources, oversized : SUBSET Sources, empty : SUBSET Sources,
                    warned : BOOLEAN, missing : SUBSET Sources, stale : SUBSET Sources]
ManifestHeaders == [schema : Nat, lexical : Nat, policy : {1, 2},
                    files : [Sources -> SourceRecords(Texts) \cup {None}], health : HealthSnapshots]
ASSUME ReadinessAssumption ==
    /\ None \notin Texts \cup {"blank"} \cup TextRows \cup SourcePrints
    /\ None \notin SourceRecords(Texts \cup {"blank"}) \cup ManifestHeaders

NoTask == [step |-> "idle"]

ReadinessInit ==
    /\ source \in [Sources -> [content : {"one", "blank"}, stat : {0}, stamp : {0}]]
    /\ prints = NoneYet /\ conf = [policy |-> 1, extractors |-> FALSE]
    /\ code = [schema |-> 1, lexical |-> 1]
    /\ rows = NoneYet /\ created = FALSE /\ empties = NoneYet /\ header = None
    /\ task = NoTask /\ tally = [changes |-> 0, commands |-> 0, errors |-> 0]

-----------------------------------------------------------------------------
(* The reports.                                                             *)

Having(records) == {f \in Sources : records[f] # None}

\* auditWithConfig: the contents of the files with the rows of the table.
Audit ==
    LET supported == Supported(source)
        blank == {f \in supported : empties[f] # None /\ empties[f].content = source[f].content}
        indexed == Having(rows)
    IN  [supported |-> supported, oversized |-> Oversized(source), chunks |-> indexed, empty |-> blank,
         missing |-> supported \ (indexed \cup blank),
         stale |-> {f \in indexed : f \notin supported \/ rows[f].content # source[f].content}]

\* reusableSourceFingerprint
Fingerprinted_AnyTime(f) == prints[f] # None
Fingerprinted(f) == prints[f] # None /\ prints[f].stamp = source[f].stamp

\* checkIndexFreshness: sizes and times with the manifest, and what the cache knows of a new time.
Freshness ==
    LET supported == Supported(source)
        Known(f) == IF header.files[f] # None THEN header.files[f] ELSE empties[f]
        cached == {f \in supported : Fingerprinted(f)}
    IN  [missing |-> {f \in supported : Known(f) = None},
         stale |-> {f \in supported : /\ Known(f) # None /\ Known(f).stat # source[f].stat
                                      /\ ~(f \in cached /\ prints[f].content = Known(f).content)}
                   \cup (Having(header.files) \ supported)]

\* indexFreshnessWarning and lexicalPolicyCurrent
PolicyCurrent(setting) == header # None /\ header.schema = code.schema /\ header.policy = setting.policy
LexicalCurrent == header = None \/ header.lexical = code.lexical

\* doctorWithConfig, in its two modes.
Judged(r) ==
    LET complete == r.known /\ r.missing = {} /\ r.stale = {} /\ r.empty = {} /\ r.oversized = {}
        operational == header # None /\ r.chunks # {} /\ complete
    IN  [supported |-> r.supported, chunks |-> r.chunks, missing |-> r.missing, stale |-> r.stale,
         empty |-> r.empty, oversized |-> r.oversized, known |-> r.known, warned |-> r.warned,
         complete |-> complete, operational |-> operational, ready |-> operational /\ PolicyCurrent(conf)]
DeepReport ==
    LET a == Audit
    IN  Judged([supported |-> a.supported, chunks |-> a.chunks, missing |-> a.missing, stale |-> a.stale,
                empty |-> a.empty, oversized |-> a.oversized, known |-> TRUE, warned |-> conf.extractors])
ManifestReport ==
    IF header = None
    THEN Judged([supported |-> {}, chunks |-> {}, missing |-> {}, stale |-> {}, empty |-> {},
                 oversized |-> {}, known |-> FALSE, warned |-> FALSE])
    ELSE LET h == header.health
             live == Freshness
         IN  Judged([supported |-> h.supported, chunks |-> Having(header.files), missing |-> live.missing,
                     stale |-> live.stale, empty |-> h.empty, oversized |-> h.oversized, known |-> TRUE,
                     warned |-> h.warned])

\* manifestReady: what a server says of itself without looking at the files.
ManifestReady ==
    /\ header # None /\ Having(header.files) # {} /\ PolicyCurrent(conf)
    /\ \A field \in {"missing", "stale", "empty", "oversized"} : header.health[field] = {}

CanAutoIngest_NotLexical(r) ==
    /\ r.supported # {} /\ ~r.warned
    /\ r.chunks = {} \/ r.missing # {} \/ r.stale # {} \/ ~PolicyCurrent(conf)
CanAutoIngest(r) ==
    /\ r.supported # {} /\ ~r.warned
    /\ r.chunks = {} \/ r.missing # {} \/ r.stale # {} \/ ~PolicyCurrent(conf) \/ ~LexicalCurrent

\* nextActions, those that change something.
NextActions(r) ==
    IF ~r.known THEN {"ingest"}
    ELSE IF r.supported = {} THEN {"add sources"}
    ELSE (IF r.chunks = {} \/ r.missing # {} \/ r.stale # {}
          THEN {IF r.warned THEN "ingest" ELSE "doctor --fix"} ELSE {})
         \cup (IF header # None /\ ~PolicyCurrent(conf) THEN {"ingest --rebuild"} ELSE {})
         \cup (IF PolicyCurrent(conf) /\ ~LexicalCurrent THEN {"ingest"} ELSE {})
         \cup (IF r.empty # {} THEN {"add text"} ELSE {})
         \cup (IF r.oversized # {} THEN {"split files"} ELSE {})

UpgradeStatus ==
    LET r == ManifestReport
    IN  IF header = None THEN "index-required"
        ELSE IF ~PolicyCurrent(conf) \/ ~LexicalCurrent THEN "rebuild-required"
        ELSE IF ~r.operational THEN "repair-required"
        ELSE "current"

-----------------------------------------------------------------------------
(* The user, and a new release.                                             *)

Disturb == task' = IF task.step = "idle" THEN task ELSE [task EXCEPT !.calm = FALSE]
Fresh == tally.changes + 1
CountChange == tally.changes < MaxChanges /\ tally' = [tally EXCEPT !.changes = @ + 1]

\* An edit that keeps size and time is quiet; a checkout may touch a file and not change it.
ChangeSource(f, content, stat) ==
    /\ CountChange
    /\ stat = source[f].stat => {content, source[f].content} = Texts
    /\ source' = [source EXCEPT ![f] = [content |-> content, stat |-> stat, stamp |-> Fresh]]
    /\ Disturb /\ UNCHANGED <<prints, conf, code, rows, created, empties, header>>
Reconfigure(setting) ==
    /\ CountChange /\ conf' = setting /\ setting # conf
    /\ Disturb /\ UNCHANGED <<source, prints, code, rows, created, empties, header>>
NewRelease ==
    /\ task.step = "idle" /\ CountChange
    /\ \E field \in DOMAIN code : code' = [code EXCEPT ![field] = @ + 1]
    /\ UNCHANGED <<source, prints, conf, rows, created, empties, header, task>>

-----------------------------------------------------------------------------
(* The commands: ingest, and upgrade, which is setup or repair with a report   *)
(* and may ingest.                                                           *)

InTask(step) == task.step = step
Command(by) ==
    /\ InTask("idle") /\ tally.commands < MaxCommands
    /\ tally' = [tally EXCEPT !.commands = @ + 1]
    /\ task' = [step |-> IF by = "ingest" THEN "inventory" ELSE "check", by |-> by, calm |-> TRUE, failed |-> {}]
    /\ UNCHANGED <<source, prints, conf, code, rows, created, empties, header>>

CheckProject ==
    /\ InTask("check")
    /\ task' = IF CanAutoIngest(DeepReport) THEN [task EXCEPT !.step = "inventory"] ELSE [task EXCEPT !.step = "ended"]
    /\ UNCHANGED <<source, prints, conf, code, rows, created, empties, header, tally>>

\* May an ingestion keep rows of the active table?
Compatible_AnyPolicy(rebuild) == ~rebuild /\ header # None /\ LexicalCurrent
Compatible(rebuild) == ~rebuild /\ PolicyCurrent(conf) /\ LexicalCurrent

\* ingestUnlocked until the first window: what is there, what can be reused, where rows go.
InventorySources(rebuild, removeStale) ==
    /\ InTask("inventory")
    /\ rebuild => task.by = "ingest"
    /\ LET staged == rebuild \/ (created /\ ~Compatible(rebuild))
           reuse == Compatible(rebuild) /\ created
           Before(f) == IF ~reuse THEN None ELSE IF header.files[f] # None THEN header.files[f] ELSE empties[f]
           reused == {f \in Supported(source) : Before(f) # None /\ Before(f).content = source[f].content}
       IN  task' = [step |-> "writing", by |-> task.by, calm |-> task.calm, inventory |-> source, conf |-> conf,
                    staged |-> staged, rows |-> IF staged THEN NoneYet ELSE rows, created |-> created /\ ~staged,
                    removeStale |-> removeStale, last |-> [f \in Sources |-> Before(f)],
                    gone |-> IF staged \/ ~reuse THEN {} ELSE Having(header.files) \ Supported(source),
                    pending |-> IF staged THEN Supported(source) ELSE Supported(source) \ reused,
                    failed |-> {}]
    /\ prints' = [f \in Sources |-> IF f \in Supported(source)
                                    THEN [stamp |-> source[f].stamp, content |-> source[f].content] ELSE None]
    /\ UNCHANGED <<source, conf, code, rows, created, empties, header, tally>>

\* The rows of a run: staged, or those of the active table.
Without(removed) == [f \in Sources |-> IF f \in removed THEN None ELSE task.rows[f]]
RowsFor(f) == IF task.inventory[f].content = "blank" THEN None
              ELSE [content |-> task.inventory[f].content, policy |-> task.conf.policy]

CommitSource(f) ==
    /\ InTask("writing") /\ f \in task.pending
    /\ LET written == [Without(task.gone) EXCEPT ![f] = RowsFor(f)]
           made == task.created \/ RowsFor(f) # None
       IN  /\ rows' = IF task.staged THEN rows ELSE written
           /\ created' = IF task.staged THEN created ELSE made
           /\ task' = [task EXCEPT !.rows = written, !.created = made, !.pending = @ \ {f}]
    /\ UNCHANGED <<source, prints, conf, code, empties, header, tally>>
SourceFails(f) ==
    /\ InTask("writing") /\ f \in task.pending /\ tally.errors < MaxErrors
    /\ tally' = [tally EXCEPT !.errors = @ + 1]
    /\ LET drop == task.removeStale /\ ~task.staged
           written == IF drop THEN Without(task.gone \cup {f}) ELSE task.rows
       IN  /\ rows' = IF task.staged THEN rows ELSE written
           /\ task' = [task EXCEPT !.rows = written, !.pending = @ \ {f}, !.failed = @ \cup {f},
                                   !.last[f] = IF drop THEN None ELSE @]
    /\ UNCHANGED <<source, prints, conf, code, created, empties, header>>

\* indexedFilesFromState, emptyTextRecords: a failed file is listed as it was last good.
RecordOf(f) ==
    IF f \in task.failed THEN IF task.staged THEN None ELSE task.last[f]
    ELSE IF f \in Supported(task.inventory)
         THEN [content |-> task.inventory[f].content, stat |-> task.inventory[f].stat]
    ELSE None
Listing(wanted) == [f \in Sources |-> IF RecordOf(f) # None /\ RecordOf(f).content \in wanted THEN RecordOf(f) ELSE None]

\* The failed files that are listed, or those that are not.
FailedFiles_Listed(listed) == IF listed THEN {f \in task.failed : RecordOf(f) # None} ELSE {}
FailedFiles(listed) == {f \in task.failed : (RecordOf(f) # None) = listed}

\* validateIngestionTable, then the two files, one after the other.
FinishRows ==
    /\ InTask("writing") /\ task.pending = {}
    /\ LET written == Without(task.gone)
           valid == \A f \in Sources :
                       IF written[f] = None THEN Listing(Texts)[f] = None
                       ELSE Listing(Texts)[f] # None /\ Listing(Texts)[f].content = written[f].content
       IN  /\ rows' = IF task.staged THEN rows ELSE written
           /\ task' = IF valid THEN [task EXCEPT !.rows = written, !.step = "validated"] ELSE NoTask
           /\ empties' = IF valid THEN Listing({"blank"}) ELSE empties
    /\ UNCHANGED <<source, prints, conf, code, created, header, tally>>
WriteHeader ==
    /\ InTask("validated")
    /\ header' = [schema |-> code.schema, lexical |-> code.lexical, policy |-> task.conf.policy,
                  files |-> Listing(Texts),
                  health |-> [supported |-> Supported(task.inventory), oversized |-> Oversized(task.inventory),
                              empty |-> Having(Listing({"blank"})), warned |-> task.conf.extractors,
                              missing |-> FailedFiles(FALSE), stale |-> FailedFiles(TRUE)]]
    /\ rows' = task.rows /\ created' = task.created
    /\ task' = [step |-> "ended", by |-> task.by, calm |-> task.calm, failed |-> task.failed]
    /\ UNCHANGED <<source, prints, conf, code, empties, tally>>

EndCommand ==
    /\ InTask("ended") /\ task' = NoTask
    /\ UNCHANGED <<source, prints, conf, code, rows, created, empties, header, tally>>
\* A crash, an error or a cancellation.
StopCommand ==
    /\ ~InTask("idle") /\ ~InTask("ended") /\ task' = NoTask
    /\ UNCHANGED <<source, prints, conf, code, rows, created, empties, header, tally>>

ReadinessNext ==
    \/ \E f \in Sources, content \in Texts \cup {"blank", "oversized", "gone"} :
          ChangeSource(f, content, source[f].stat) \/ ChangeSource(f, content, Fresh)
    \/ \E setting \in [policy : {1, 2}, extractors : BOOLEAN] : Reconfigure(setting)
    \/ NewRelease
    \/ \E by \in {"ingest", "upgrade"} : Command(by)
    \/ CheckProject
    \/ \E rebuild, removeStale \in BOOLEAN : InventorySources(rebuild, removeStale)
    \/ \E f \in Sources : CommitSource(f) \/ SourceFails(f)
    \/ FinishRows \/ WriteHeader \/ EndCommand \/ StopCommand

ReadinessSpec == ReadinessInit /\ [][ReadinessNext]_readinessVars

-----------------------------------------------------------------------------
(* Properties.                                                              *)

\* After an undisturbed upgrade nothing is left for an upgrade to do, unless a warning forbids
\* it to ingest.  It says so but for what an upgrade does not refresh: files the snapshot counted
\* as without text or too large, files with a new time and the content of their rows, and rows
\* that an interrupted run left outside the manifest.
Content(record) == IF record = None THEN None ELSE record.content
Listed == \A f \in Sources : Content(rows[f]) = Content(header.files[f])
Touched ==
    LET As(record, f) == record # None /\ record.content = source[f].content /\ record.stat # source[f].stat
    IN  {f \in Sources : As(header.files[f], f) \/ As(empties[f], f)}
UpgradeEnds ==
    (/\ InTask("ended") /\ task.by = "upgrade" /\ task.calm /\ task.failed = {}
     /\ ~conf.extractors /\ Supported(source) # {}) =>
        /\ UpgradeStatus \notin {"index-required", "rebuild-required"}
        /\ (Listed /\ Touched \cup header.health.empty \cup header.health.oversized = {}) => UpgradeStatus = "current"

\* No command ingests with external extractors by itself but for a change after its check.
Consent == task.step \in {"writing", "validated"} /\ task.calm /\ task.by # "ingest" => ~task.conf.extractors

\* What doctor --deep calls ready has every text in its rows and nothing else, made under the present
\* policy if the manifest counts any of them.
Rest == task.step \in {"idle", "ended"}
OfPolicy == \A f \in Having(rows) : rows[f].policy = conf.policy
ReadyTrue ==
    DeepReport.ready /\ Rest =>
        /\ \A f \in Sources : Content(rows[f]) = IF source[f].content \in Texts THEN source[f].content ELSE None
        /\ Having(header.files) # {} => OfPolicy

\* A change of the policy goes through a generation of its own, so that the rows of an index that
\* doctor calls ready are of its policy, whether the manifest counts them or not.
ReadyUnderPolicy == DeepReport.ready /\ Rest => OfPolicy

\* Where the fast mode finds nothing missing or stale the audit finds nothing either, but for
\* edits that kept size and time and rows an interrupted run left outside the manifest.
QuietlyChanged == {f \in Sources : header.files[f] # None /\ header.files[f].stat = source[f].stat
                                   /\ header.files[f].content # source[f].content}
DoctorsAgree ==
    (/\ header # None /\ Listed
     /\ Freshness.missing \cup Freshness.stale \cup QuietlyChanged = {}
     /\ Rest) => Audit.missing \cup Audit.stale = {}

\* After an undisturbed ingestion the snapshot in the manifest says what an audit says.
SnapshotTrue ==
    InTask("ended") /\ task.calm /\ task.by = "ingest" => ManifestReady = DeepReport.ready

\* Whenever a command would ingest by itself doctor says what to run, and for an index that is not
\* ready it always has advice; not so for rows without a manifest, as a crash leaves them.
AdviceSound ==
    (header # None \/ Having(rows) = {}) =>
    /\ CanAutoIngest(DeepReport) => NextActions(DeepReport) \cap {"doctor --fix", "ingest", "ingest --rebuild"} # {}
    /\ ~DeepReport.ready => NextActions(DeepReport) # {}

ReadinessSound == UpgradeEnds /\ Consent /\ ReadyTrue /\ DoctorsAgree /\ SnapshotTrue /\ AdviceSound
=============================================================================
