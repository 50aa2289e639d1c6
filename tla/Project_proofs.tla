---------------------------- MODULE Project_proofs ----------------------------
(***************************************************************************)
(* Proofs about what a project keeps on disk, for any values of the          *)
(* constants: the reports of doctor and upgrade (Readiness), the settings    *)
(* (ProjectConfig) and the maintenance of the table of rows (Maintenance).   *)
(***************************************************************************)
EXTENDS Readiness, ProjectConfig, Maintenance, TLAPS

-----------------------------------------------------------------------------
(* The inductive invariant.                                                 *)

FileStates == [content : Texts \cup {"blank", "oversized", "gone"}, stat : Nat, stamp : Nat]
Confs == [policy : {1, 2}, extractors : BOOLEAN]
RowMaps == [Sources -> TextRows \cup {None}]
RecordMaps(contents) == [Sources -> SourceRecords(contents) \cup {None}]
Callers == {"ingest", "upgrade"}
BriefTasks == [step : {"check", "inventory", "ended"}, by : Callers, calm : BOOLEAN, failed : SUBSET Sources]
Ingestions ==
    [step : {"writing", "validated"}, by : Callers, calm : BOOLEAN, inventory : [Sources -> FileStates],
     conf : Confs, staged : BOOLEAN, rows : RowMaps, created : BOOLEAN, removeStale : BOOLEAN,
     last : RecordMaps(Texts \cup {"blank"}), gone : SUBSET Sources, pending : SUBSET Sources,
     failed : SUBSET Sources]
Ingesting == task.step \in {"writing", "validated"}

ReadinessTypes ==
    /\ source \in [Sources -> FileStates] /\ prints \in [Sources -> SourcePrints \cup {None}]
    /\ conf \in Confs /\ code \in [schema : Nat, lexical : Nat]
    /\ rows \in RowMaps /\ created \in BOOLEAN /\ empties \in RecordMaps({"blank"})
    /\ header \in ManifestHeaders \cup {None}
    /\ task \in {NoTask} \cup BriefTasks \cup Ingestions
    /\ tally \in [changes : Nat, commands : Nat, errors : Nat]

\* A record is older than what is there now, and of the same content if it has the same time, but
\* for an edit that kept size and time.
AtMost(r, now) ==
    r.stat <= now.stat /\ (r.stat = now.stat => r.content = now.content \/ {r.content, now.content} \subseteq Texts)
Dated(r, now) == r # None => AtMost(r, now)
Vouched(print, now) ==
    print # None => print.stamp <= now.stamp /\ (print.stamp = now.stamp => print.content = now.content)
TimesInv ==
    \A f \in Sources :
        /\ source[f].stat <= tally.changes /\ source[f].stamp <= tally.changes
        /\ Vouched(prints[f], source[f]) /\ Dated(empties[f], source[f])
        /\ header # None => Dated(header.files[f], source[f])
        /\ Ingesting => Dated(task.last[f], source[f]) /\ AtMost(task.inventory[f], source[f])

\* Rows are in a table, and if the manifest counts any they are of its policy.
RowsInv ==
    /\ Having(rows) # {} => created
    /\ header # None /\ Having(header.files) # {} =>
          created /\ \A f \in Having(rows) : rows[f].policy = header.policy

\* A row of another policy is one that no manifest counts.
Stray(f) ==
    /\ task.last[f] # None => task.last[f].content = "blank"
    /\ f \in task.pending \cup task.failed \/ task.inventory[f].content \notin Texts
RunInv ==
    Ingesting =>
        /\ Having(task.rows) # {} => task.created
        /\ ~task.staged => rows = task.rows /\ created = task.created
        /\ ~task.staged /\ header # None /\ Having(header.files) # {} => header.policy = task.conf.policy
        /\ task.pending \cup task.failed \subseteq Supported(task.inventory)
        /\ \A f \in task.pending \cup task.failed :
              ~task.staged /\ task.last[f] # None => task.last[f].content # task.inventory[f].content
        /\ \A f \in Having(task.rows) : task.rows[f].policy = task.conf.policy \/ (~task.staged /\ Stray(f))
        /\ task.calm => task.inventory = source /\ task.conf = conf
        /\ task.step = "validated" =>
              /\ task.pending = {} /\ empties = Listing({"blank"})
              /\ \A f \in Sources : Content(task.rows[f]) = Content(Listing(Texts)[f])
ConsentInv ==
    /\ InTask("check") => task.by = "upgrade" /\ task.failed = {}
    /\ task.step \in {"inventory", "writing", "validated"} /\ task.calm /\ task.by = "upgrade" => ~conf.extractors

\* What an undisturbed ingestion has left.
RecordNow(f, contents) ==
    IF source[f].content \in contents THEN [content |-> source[f].content, stat |-> source[f].stat] ELSE None
Differs(r, f) == r # None => r.content # source[f].content
Written ==
    /\ header # None /\ PolicyCurrent(conf) /\ header.lexical = code.lexical
    /\ \A f \in Sources : Content(rows[f]) = Content(header.files[f])
    /\ task.failed \subseteq Supported(source)
    /\ header.health.oversized = Oversized(source) /\ header.health.empty = Having(empties)
    /\ header.health.missing \cup header.health.stale = task.failed
    /\ \A f \in task.failed : Differs(header.files[f], f) /\ Differs(empties[f], f)
    /\ \A f \in Sources \ task.failed :
          header.files[f] = RecordNow(f, Texts) /\ empties[f] = RecordNow(f, {"blank"})
EndedInv ==
    InTask("ended") /\ task.calm =>
        Written \/ (task.by = "upgrade" /\ task.failed = {} /\ ~CanAutoIngest(DeepReport))

ReadinessInv == ReadinessTypes /\ TimesInv /\ RowsInv /\ RunInv /\ ConsentInv /\ EndedInv

-----------------------------------------------------------------------------
(* Facts about the variables' types.                                        *)

\* Nothing that is recorded is None.
LEMMA NotNone ==
  /\ \A r \in TextRows \cup SourcePrints \cup ManifestHeaders : r # None
  /\ \A r \in SourceRecords(Texts) \cup SourceRecords({"blank"}) \cup SourceRecords(Texts \cup {"blank"}) : r # None
  /\ \A c \in Texts \cup {"blank"} : c # None
<1>1. SourceRecords(Texts) \cup SourceRecords({"blank"}) \subseteq SourceRecords(Texts \cup {"blank"})
  BY DEF SourceRecords
<1> QED
  BY <1>1, ReadinessAssumption

\* The step of a command says what is known of it.
LEMMA TaskCases ==
  ASSUME ReadinessTypes
  PROVE  /\ Ingesting <=> task \in Ingestions
         /\ task.step \in {"check", "inventory", "ended"} <=> task \in BriefTasks
         /\ task.step = "idle" <=> task = NoTask
<1>1. task = NoTask => task.step = "idle"
  BY DEF NoTask
<1>2. task \in BriefTasks => task.step \in {"check", "inventory", "ended"}
  BY DEF BriefTasks
<1>3. task \in Ingestions => task.step \in {"writing", "validated"}
  BY DEF Ingestions
<1> QED
  BY <1>1, <1>2, <1>3 DEF ReadinessTypes, Ingesting

\* A disturbed command only forgets that it was not disturbed.
LEMMA Disturbed ==
  ASSUME ReadinessTypes, Disturb
  PROVE  /\ task' \in {NoTask} \cup BriefTasks \cup Ingestions
         /\ task'.step = task.step
         /\ task \in Ingestions => task' = [task EXCEPT !.calm = FALSE] /\ task' \in Ingestions
         /\ task # NoTask => task'.calm = FALSE
<1>1. CASE task = NoTask
  BY <1>1, TaskCases DEF Disturb, NoTask, Ingestions, BriefTasks
<1>2. CASE task \in BriefTasks
  <2>1. task' = [task EXCEPT !.calm = FALSE]
    BY <1>2 DEF Disturb, BriefTasks
  <2>2. PICK t : t = task'
    OBVIOUS
  <2>3. t \in BriefTasks /\ t.step = task.step /\ t.calm = FALSE
    BY <1>2, <2>1, <2>2 DEF BriefTasks
  <2>4. task \notin Ingestions
    BY <1>2, TaskCases DEF Ingesting, BriefTasks
  <2> QED
    BY <2>2, <2>3, <2>4
<1>3. CASE task \in Ingestions
  <2>1. task' = [task EXCEPT !.calm = FALSE]
    BY <1>3 DEF Disturb, Ingestions
  <2>2. PICK t : t = task'
    OBVIOUS
  <2>3. t \in Ingestions /\ t.step = task.step /\ t.calm = FALSE
    BY <1>3, <2>1, <2>2 DEF Ingestions
  <2> QED
    BY <2>1, <2>2, <2>3
<1> QED
  BY <1>1, <1>2, <1>3 DEF ReadinessTypes

\* Its other fields stay.
LEMMA DisturbedRun ==
  ASSUME ReadinessTypes, Disturb, task \in Ingestions
  PROVE  /\ task'.inventory = task.inventory /\ task'.conf = task.conf /\ task'.staged = task.staged
         /\ task'.rows = task.rows /\ task'.created = task.created /\ task'.last = task.last
         /\ task'.pending = task.pending /\ task'.failed = task.failed /\ task'.calm = FALSE
<1>1. task' = [task EXCEPT !.calm = FALSE]
  BY Disturbed
<1> QED
  BY <1>1 DEF Ingestions

\* What the run would list depends on its own fields only.
LEMMA ListingKept ==
  ASSUME task'.failed = task.failed, task'.staged = task.staged, task'.last = task.last,
         task'.inventory = task.inventory
  PROVE  Listing(Texts)' = Listing(Texts) /\ Listing({"blank"})' = Listing({"blank"})
<1>1. \A f \in Sources : RecordOf(f)' = RecordOf(f)
  BY DEF RecordOf, Supported
<1> QED
  BY <1>1 DEF Listing

-----------------------------------------------------------------------------
(* The user, and a new release.                                             *)

\* An older record stays one when its file changes, and so does a fingerprint.
LEMMA Ages ==
  ASSUME NEW now \in FileStates, NEW then \in FileStates, NEW fresh \in Nat,
         now.stat < fresh, now.stamp < fresh, then.stamp = fresh,
         then.stat \in {now.stat, fresh},
         then.stat = now.stat => {then.content, now.content} = Texts
  PROVE  /\ \A r \in SourceRecords(Texts \cup {"blank"}) \cup {None} : Dated(r, now) => Dated(r, then)
         /\ \A r \in FileStates : AtMost(r, now) => AtMost(r, then)
         /\ \A r \in SourcePrints \cup {None} : Vouched(r, now) => Vouched(r, then)
<1>1. now.stat \in Nat /\ then.stat \in Nat /\ now.stamp \in Nat
  BY DEF FileStates
<1>2. ASSUME NEW r, r.stat \in Nat, AtMost(r, now) PROVE AtMost(r, then)
  <2>1. CASE then.stat = fresh
    BY <1>1, <1>2, <2>1 DEF AtMost
  <2>2. CASE then.stat = now.stat
    BY <1>2, <2>2 DEF AtMost
  <2> QED
    BY <2>1, <2>2
<1>3. ASSUME NEW r \in SourcePrints \cup {None}, Vouched(r, now) PROVE Vouched(r, then)
  <2>1. r # None => r.stamp \in Nat /\ r.stamp < fresh
    BY <1>1, <1>3 DEF Vouched, SourcePrints
  <2> QED
    BY <2>1 DEF Vouched
<1>4. \A r \in SourceRecords(Texts \cup {"blank"}) \cup FileStates : r.stat \in Nat
  BY DEF SourceRecords, FileStates
<1> QED
  BY <1>2, <1>3, <1>4 DEF Dated

\* The records that a file's times are compared with.
LEMMA Recorded ==
  ASSUME ReadinessTypes, NEW f \in Sources
  PROVE  /\ empties[f] \in SourceRecords(Texts \cup {"blank"}) \cup {None}
         /\ header # None => header.files[f] \in SourceRecords(Texts \cup {"blank"}) \cup {None}
         /\ Ingesting => /\ task.last[f] \in SourceRecords(Texts \cup {"blank"}) \cup {None}
                         /\ task.inventory[f] \in FileStates
<1>1. SourceRecords(Texts) \cup SourceRecords({"blank"}) \subseteq SourceRecords(Texts \cup {"blank"})
  BY DEF SourceRecords
<1>2. header # None => header.files \in RecordMaps(Texts)
  BY DEF ReadinessTypes, ManifestHeaders, RecordMaps
<1>3. Ingesting => task.last \in RecordMaps(Texts \cup {"blank"}) /\ task.inventory \in [Sources -> FileStates]
  BY TaskCases DEF Ingestions
<1>4. empties \in RecordMaps({"blank"})
  BY DEF ReadinessTypes
<1> QED
  BY <1>1, <1>2, <1>3, <1>4 DEF RecordMaps

\* A disturbed command promises nothing.
LEMMA DisturbedTask ==
  ASSUME ReadinessTypes, ConsentInv, Disturb
  PROVE  ConsentInv' /\ EndedInv'
<1>1. CASE task = NoTask
  <2>1. task'.step = "idle"
    BY <1>1, TaskCases, Disturbed
  <2> QED
    BY <2>1 DEF ConsentInv, EndedInv, InTask
<1>2. CASE task \in Ingestions
  <2>1. task'.step \in {"writing", "validated"} /\ task'.calm = FALSE
    BY <1>2, Disturbed, DisturbedRun, TaskCases DEF Ingesting
  <2> QED
    BY <2>1 DEF ConsentInv, EndedInv, InTask
<1>3. CASE task \in BriefTasks
  <2>1. task' = [task EXCEPT !.calm = FALSE]
    BY <1>3 DEF Disturb, BriefTasks
  <2>2. PICK t : t = task'
    OBVIOUS
  <2>3. t.step = task.step /\ t.calm = FALSE /\ t.by = task.by /\ t.failed = task.failed
    BY <1>3, <2>1, <2>2 DEF BriefTasks
  <2> QED
    BY <2>2, <2>3 DEF ConsentInv, EndedInv, InTask
<1> QED
  BY <1>1, <1>2, <1>3 DEF ReadinessTypes

LEMMA ChangeStep ==
  ASSUME ReadinessInv, NEW f \in Sources, NEW content \in Texts \cup {"blank", "oversized", "gone"},
         NEW stat \in {source[f].stat, Fresh}, ChangeSource(f, content, stat)
  PROVE  ReadinessInv'
<1> USE DEF ReadinessInv
<1> DEFINE then == [content |-> content, stat |-> stat, stamp |-> Fresh]
<1>0. UNCHANGED <<prints, conf, code, rows, created, empties, header>> /\ Disturb /\ ReadinessTypes
  BY DEF ChangeSource
<1>1. Fresh \in Nat /\ source[f] \in FileStates /\ tally' = [tally EXCEPT !.changes = Fresh]
  BY DEF ReadinessTypes, ChangeSource, CountChange, Fresh
<1>2. tally' \in [changes : Nat, commands : Nat, errors : Nat] /\ tally'.changes = Fresh /\ tally.changes < Fresh
  BY <1>1 DEF ReadinessTypes, Fresh
<1>3. then \in FileStates /\ source' = [source EXCEPT ![f] = then]
  BY <1>1 DEF ChangeSource, FileStates
<1>4. source' \in [Sources -> FileStates]
  BY <1>3 DEF ReadinessTypes
<1>5. ReadinessTypes'
  BY <1>0, <1>2, <1>4, Disturbed DEF ReadinessTypes
<1>6. /\ \A r \in SourceRecords(Texts \cup {"blank"}) \cup {None} : Dated(r, source[f]) => Dated(r, then)
      /\ \A r \in FileStates : AtMost(r, source[f]) => AtMost(r, then)
      /\ \A r \in SourcePrints \cup {None} : Vouched(r, source[f]) => Vouched(r, then)
  <2>1. source[f].stat < Fresh /\ source[f].stamp < Fresh
    BY <1>1, <1>2 DEF TimesInv, FileStates, ReadinessTypes
  <2>2. then.stat = source[f].stat => {then.content, source[f].content} = Texts
    BY DEF ChangeSource
  <2> HIDE DEF then
  <2>3. then.stamp = Fresh /\ then.stat \in {source[f].stat, Fresh}
    BY DEF then
  <2> QED
    BY <1>1, <1>3, <2>1, <2>2, <2>3, Ages
<1> HIDE DEF then
<1>7. Ingesting' => Ingesting /\ task'.last = task.last /\ task'.inventory = task.inventory
  BY <1>0, Disturbed, DisturbedRun, TaskCases DEF Ingesting
<1>8. TimesInv'
  <2> SUFFICES ASSUME NEW g \in Sources
               PROVE  /\ source'[g].stat <= tally'.changes /\ source'[g].stamp <= tally'.changes
                      /\ Vouched(prints[g], source'[g]) /\ Dated(empties[g], source'[g])
                      /\ header # None => Dated(header.files[g], source'[g])
                      /\ Ingesting' => Dated(task.last[g], source'[g]) /\ AtMost(task.inventory[g], source'[g])
    BY <1>0, <1>7 DEF TimesInv
  <2>1. CASE g = f
    <3>1. source'[g] = then /\ then.stat <= Fresh /\ then.stamp = Fresh
      BY <1>1, <1>2, <1>3, <2>1 DEF ReadinessTypes, FileStates, then, TimesInv
    <3>2. source'[g].stat <= tally'.changes /\ source'[g].stamp <= tally'.changes
      BY <1>1, <1>2, <3>1
    <3>3. /\ Vouched(prints[g], source[g]) /\ Dated(empties[g], source[g])
          /\ header # None => Dated(header.files[g], source[g])
          /\ Ingesting => Dated(task.last[g], source[g]) /\ AtMost(task.inventory[g], source[g])
      BY DEF TimesInv
    <3>4. prints[g] \in SourcePrints \cup {None}
      BY DEF ReadinessTypes
    <3> QED
      BY <1>6, <1>7, <2>1, <3>1, <3>2, <3>3, <3>4, Recorded
  <2>2. CASE g # f
    <3>1. source'[g] = source[g] /\ source[g].stat \in Nat /\ source[g].stamp \in Nat
      BY <1>3, <2>2 DEF ReadinessTypes, FileStates
    <3>2. source[g].stat <= tally.changes /\ source[g].stamp <= tally.changes /\ tally.changes \in Nat
      BY DEF TimesInv, ReadinessTypes
    <3>3. source'[g].stat <= tally'.changes /\ source'[g].stamp <= tally'.changes
      BY <1>1, <1>2, <3>1, <3>2
    <3>4. /\ Vouched(prints[g], source[g]) /\ Dated(empties[g], source[g])
          /\ header # None => Dated(header.files[g], source[g])
          /\ Ingesting => Dated(task.last[g], source[g]) /\ AtMost(task.inventory[g], source[g])
      BY DEF TimesInv
    <3> QED
      BY <1>7, <3>1, <3>3, <3>4
  <2> QED
    BY <2>1, <2>2
<1>9. RowsInv'
  BY <1>0 DEF RowsInv, Having
<1>10. RunInv'
  <2> SUFFICES ASSUME Ingesting' PROVE RunInv'
    BY DEF RunInv
  <2>1. Ingesting /\ task \in Ingestions /\ task'.step = task.step
    BY <1>0, <1>7, TaskCases, Disturbed
  <2>2. /\ task'.inventory = task.inventory /\ task'.conf = task.conf /\ task'.staged = task.staged
        /\ task'.rows = task.rows /\ task'.created = task.created /\ task'.last = task.last
        /\ task'.pending = task.pending /\ task'.failed = task.failed /\ task'.calm = FALSE
    BY <1>0, <2>1, DisturbedRun
  <2>3. Listing(Texts)' = Listing(Texts) /\ Listing({"blank"})' = Listing({"blank"})
    BY <2>2, ListingKept
  <2> QED
    BY <1>0, <2>1, <2>2, <2>3 DEF RunInv, Stray, Having
<1>11. ConsentInv' /\ EndedInv'
  BY <1>0, DisturbedTask
<1> QED
  BY <1>5, <1>8, <1>9, <1>10, <1>11

\* Where files and records stay, so do their times.
LEMMA TimesKept ==
  ASSUME ReadinessTypes, TimesInv, UNCHANGED <<source, prints, empties, header>>,
         tally' \in [changes : Nat, commands : Nat, errors : Nat], tally.changes <= tally'.changes,
         Ingesting' => Ingesting /\ task'.last = task.last /\ task'.inventory = task.inventory
  PROVE  TimesInv'
<1> SUFFICES ASSUME NEW f \in Sources
             PROVE  /\ source[f].stat <= tally'.changes /\ source[f].stamp <= tally'.changes
                    /\ Vouched(prints[f], source[f]) /\ Dated(empties[f], source[f])
                    /\ header # None => Dated(header.files[f], source[f])
                    /\ Ingesting' => Dated(task.last[f], source[f]) /\ AtMost(task.inventory[f], source[f])
  BY DEF TimesInv
<1>1. source[f].stat \in Nat /\ source[f].stamp \in Nat /\ tally.changes \in Nat /\ tally'.changes \in Nat
  BY DEF ReadinessTypes, FileStates
<1>2. source[f].stat <= tally'.changes /\ source[f].stamp <= tally'.changes
  BY <1>1 DEF TimesInv
<1> QED
  BY <1>2 DEF TimesInv

LEMMA ReconfigureStep ==
  ASSUME ReadinessInv, NEW setting \in Confs, Reconfigure(setting)
  PROVE  ReadinessInv'
<1> USE DEF ReadinessInv
<1>0. UNCHANGED <<source, prints, code, rows, created, empties, header>> /\ Disturb /\ ReadinessTypes
  BY DEF Reconfigure
<1>1. /\ tally' \in [changes : Nat, commands : Nat, errors : Nat] /\ tally.changes <= tally'.changes
      /\ conf' \in Confs
  BY DEF Reconfigure, CountChange, ReadinessTypes
<1>2. ReadinessTypes'
  BY <1>0, <1>1, Disturbed DEF ReadinessTypes
<1>3. Ingesting' => Ingesting /\ task'.last = task.last /\ task'.inventory = task.inventory
  BY <1>0, Disturbed, DisturbedRun, TaskCases DEF Ingesting
<1>4. TimesInv'
  BY <1>0, <1>1, <1>3, TimesKept
<1>5. RowsInv'
  BY <1>0 DEF RowsInv, Having
<1>6. RunInv'
  <2> SUFFICES ASSUME Ingesting' PROVE RunInv'
    BY DEF RunInv
  <2>1. Ingesting /\ task \in Ingestions /\ task'.step = task.step
    BY <1>0, <1>3, TaskCases, Disturbed
  <2>2. /\ task'.inventory = task.inventory /\ task'.conf = task.conf /\ task'.staged = task.staged
        /\ task'.rows = task.rows /\ task'.created = task.created /\ task'.last = task.last
        /\ task'.pending = task.pending /\ task'.failed = task.failed /\ task'.calm = FALSE
    BY <1>0, <2>1, DisturbedRun
  <2>3. Listing(Texts)' = Listing(Texts) /\ Listing({"blank"})' = Listing({"blank"})
    BY <2>2, ListingKept
  <2> QED
    BY <1>0, <2>1, <2>2, <2>3 DEF RunInv, Stray, Having
<1>7. ConsentInv' /\ EndedInv'
  BY <1>0, DisturbedTask
<1> QED
  BY <1>2, <1>4, <1>5, <1>6, <1>7

\* A step after which no run writes, and that changes no file and no row.
LEMMA BriefStep ==
  ASSUME ReadinessInv, UNCHANGED <<source, prints, rows, created, empties, header>>,
         conf' \in Confs, code' \in [schema : Nat, lexical : Nat],
         tally' \in [changes : Nat, commands : Nat, errors : Nat], tally.changes <= tally'.changes,
         task' \in {NoTask} \cup BriefTasks, ConsentInv', EndedInv'
  PROVE  ReadinessInv'
<1> USE DEF ReadinessInv
<1>1. ReadinessTypes'
  BY DEF ReadinessTypes
<1>2. ~Ingesting'
  BY DEF Ingesting, NoTask, BriefTasks
<1>3. TimesInv'
  BY <1>2, TimesKept
<1>4. RowsInv'
  BY DEF RowsInv, Having
<1> QED
  BY <1>1, <1>2, <1>3, <1>4 DEF RunInv

LEMMA ReleaseStep == ReadinessInv /\ NewRelease => ReadinessInv'
<1> SUFFICES ASSUME ReadinessInv, NewRelease PROVE ReadinessInv'
  OBVIOUS
<1>1. UNCHANGED <<source, prints, rows, created, empties, header, conf, task>>
  BY DEF NewRelease
<1>2. tally' \in [changes : Nat, commands : Nat, errors : Nat] /\ tally.changes <= tally'.changes
  BY DEF NewRelease, CountChange, ReadinessInv, ReadinessTypes
<1>3. code' \in [schema : Nat, lexical : Nat]
  BY DEF NewRelease, ReadinessInv, ReadinessTypes
<1>4. task = NoTask /\ conf \in Confs
  BY TaskCases DEF NewRelease, ReadinessInv, ReadinessTypes
<1>5. ConsentInv' /\ EndedInv'
  BY <1>1, <1>4 DEF ConsentInv, EndedInv, InTask, NoTask
<1> QED
  BY <1>1, <1>2, <1>3, <1>4, <1>5, BriefStep

-----------------------------------------------------------------------------
(* The commands.                                                            *)

LEMMA CommandStep ==
  ASSUME ReadinessInv, NEW by \in Callers, Command(by)
  PROVE  ReadinessInv'
<1>1. UNCHANGED <<source, prints, conf, code, rows, created, empties, header>>
  BY DEF Command
<1>2. tally' \in [changes : Nat, commands : Nat, errors : Nat] /\ tally.changes <= tally'.changes
  BY DEF Command, ReadinessInv, ReadinessTypes
<1>3. /\ task' \in BriefTasks /\ task'.by = by /\ task'.failed = {}
      /\ task'.step = IF by = "ingest" THEN "inventory" ELSE "check"
  BY DEF Command, BriefTasks
<1>4. ConsentInv' /\ EndedInv'
  BY <1>3 DEF ConsentInv, EndedInv, InTask, Callers
<1> QED
  BY <1>1, <1>2, <1>3, <1>4, BriefStep DEF ReadinessInv, ReadinessTypes

LEMMA CheckStep == ReadinessInv /\ CheckProject => ReadinessInv'
<1> SUFFICES ASSUME ReadinessInv, CheckProject PROVE ReadinessInv'
  OBVIOUS
<1>1. UNCHANGED <<source, prints, conf, code, rows, created, empties, header, tally>>
  BY DEF CheckProject
<1>2. task \in BriefTasks /\ task.step = "check" /\ task.by = "upgrade" /\ task.failed = {}
  BY TaskCases DEF CheckProject, InTask, ReadinessInv, ConsentInv
<1>3. PICK t : t = task'
  OBVIOUS
<1>4. /\ t \in BriefTasks /\ t.by = "upgrade" /\ t.failed = {}
      /\ t.step = IF CanAutoIngest(DeepReport) THEN "inventory" ELSE "ended"
  BY <1>2, <1>3 DEF CheckProject, BriefTasks
<1>5. ConsentInv'
  <2>1. CanAutoIngest(DeepReport) => ~DeepReport.warned
    BY DEF CanAutoIngest
  <2>2. DeepReport.warned = conf.extractors
    BY DEF DeepReport, Judged
  <2> QED
    BY <1>1, <1>3, <1>4, <2>1, <2>2 DEF ConsentInv, InTask
<1>6. EndedInv'
  <2> SUFFICES ASSUME ~CanAutoIngest(DeepReport) PROVE EndedInv'
    BY <1>3, <1>4 DEF EndedInv, InTask
  <2>1. ~CanAutoIngest(DeepReport)'
    <3>1. Audit' = Audit
      BY <1>1 DEF Audit, Having, Supported, Oversized
    <3>2. PolicyCurrent(conf)' <=> PolicyCurrent(conf)
      BY <1>1 DEF PolicyCurrent
    <3>3. LexicalCurrent' <=> LexicalCurrent
      BY <1>1 DEF LexicalCurrent
    <3>4. DeepReport' = DeepReport
      BY <1>1, <3>1, <3>2 DEF DeepReport, Judged
    <3> QED
      BY <3>2, <3>3, <3>4 DEF CanAutoIngest
  <2> QED
    BY <1>3, <1>4, <2>1 DEF EndedInv, InTask
<1>7. /\ conf' \in Confs /\ code' \in [schema : Nat, lexical : Nat]
      /\ tally' \in [changes : Nat, commands : Nat, errors : Nat] /\ tally.changes <= tally'.changes
  BY <1>1 DEF ReadinessInv, ReadinessTypes
<1> QED
  BY <1>1, <1>3, <1>4, <1>5, <1>6, <1>7, BriefStep

\* A command that ends, or is cut short.
LEMMA IdleStep == ReadinessInv /\ (EndCommand \/ StopCommand) => ReadinessInv'
<1> SUFFICES ASSUME ReadinessInv, EndCommand \/ StopCommand PROVE ReadinessInv'
  OBVIOUS
<1>1. UNCHANGED <<source, prints, conf, code, rows, created, empties, header, tally>> /\ task' = NoTask
  BY DEF EndCommand, StopCommand
<1>2. ConsentInv' /\ EndedInv'
  BY <1>1 DEF ConsentInv, EndedInv, InTask, NoTask
<1>3. /\ conf' \in Confs /\ code' \in [schema : Nat, lexical : Nat]
      /\ tally' \in [changes : Nat, commands : Nat, errors : Nat] /\ tally.changes <= tally'.changes
  BY <1>1 DEF ReadinessInv, ReadinessTypes
<1> QED
  BY <1>1, <1>2, <1>3, BriefStep

-----------------------------------------------------------------------------
(* An ingestion.                                                            *)

\* What an ingestion knew of a file that it may reuse.
Known(f, reuse) == IF ~reuse THEN None ELSE IF header.files[f] # None THEN header.files[f] ELSE empties[f]
Same(f, reuse) == Known(f, reuse) # None /\ Known(f, reuse).content = source[f].content

\* The run that an inventory starts.
LEMMA InventoryRun ==
  ASSUME ReadinessInv, NEW rebuild \in BOOLEAN, NEW removeStale \in BOOLEAN,
         InventorySources(rebuild, removeStale)
  PROVE  \E reuse \in BOOLEAN :
           /\ reuse => PolicyCurrent(conf) /\ created
           /\ task' \in Ingestions /\ task'.step = "writing" /\ task'.by = task.by /\ task'.calm = task.calm
           /\ task'.inventory = source /\ task'.conf = conf /\ task'.failed = {}
           /\ task'.last = [f \in Sources |-> Known(f, reuse)]
           /\ IF task'.staged THEN task'.rows = NoneYet /\ ~task'.created /\ task'.pending = Supported(source)
              ELSE /\ created => reuse
                   /\ task'.rows = rows /\ task'.created = created
                   /\ task'.pending = {f \in Supported(source) : ~Same(f, reuse)}
           /\ task \in BriefTasks /\ task.step = "inventory"
<1> DEFINE staged == rebuild \/ (created /\ ~Compatible(rebuild))
           reuse == Compatible(rebuild) /\ created
<1>1. reuse \in BOOLEAN /\ staged \in BOOLEAN
  BY DEF Compatible, ReadinessInv, ReadinessTypes
<1>2. reuse => PolicyCurrent(conf) /\ created
  BY DEF Compatible
<1>3. ~staged /\ created => reuse
  OBVIOUS
<1>4. task \in BriefTasks /\ task.step = "inventory"
  BY TaskCases DEF InventorySources, InTask, ReadinessInv
<1>5. [f \in Sources |-> Known(f, reuse)] \in RecordMaps(Texts \cup {"blank"})
  <2>1. ASSUME NEW f \in Sources PROVE Known(f, reuse) \in SourceRecords(Texts \cup {"blank"}) \cup {None}
    <3>1. reuse => header # None
      BY <1>2 DEF PolicyCurrent
    <3> QED
      BY <3>1, Recorded DEF ReadinessInv, Known
  <2> QED
    BY <2>1 DEF RecordMaps
<1>6. NoneYet \in RowMaps /\ rows \in RowMaps /\ source \in [Sources -> FileStates] /\ conf \in Confs
  BY DEF RowMaps, NoneYet, ReadinessInv, ReadinessTypes
<1>7. Supported(source) \subseteq Sources /\ (reuse => Having(header.files) \subseteq Sources)
  BY DEF Supported, Having
<1> DEFINE run == [step |-> "writing", by |-> task.by, calm |-> task.calm, inventory |-> source, conf |-> conf,
                    staged |-> staged, rows |-> IF staged THEN NoneYet ELSE rows, created |-> created /\ ~staged,
                    removeStale |-> removeStale, last |-> [f \in Sources |-> Known(f, reuse)],
                    gone |-> IF staged \/ ~reuse THEN {} ELSE Having(header.files) \ Supported(source),
                    pending |-> IF staged THEN Supported(source)
                                ELSE Supported(source) \ {f \in Supported(source) : Same(f, reuse)},
                    failed |-> {}]
<1>8. task' = run
  BY DEF InventorySources, Known, Same
<1>9. created \in BOOLEAN
  BY DEF ReadinessInv, ReadinessTypes
<1> HIDE DEF staged, reuse
<1>10. run \in Ingestions
  BY <1>1, <1>4, <1>5, <1>6, <1>7, <1>9 DEF Ingestions, BriefTasks
<1>11. /\ run.step = "writing" /\ run.by = task.by /\ run.calm = task.calm
       /\ run.inventory = source /\ run.conf = conf /\ run.failed = {} /\ run.staged = staged
       /\ run.last = [f \in Sources |-> Known(f, reuse)]
       /\ run.rows = (IF staged THEN NoneYet ELSE rows) /\ run.created = (created /\ ~staged)
       /\ run.pending = IF staged THEN Supported(source)
                        ELSE Supported(source) \ {f \in Supported(source) : Same(f, reuse)}
  OBVIOUS
<1> HIDE DEF run
<1>12. IF run.staged THEN run.rows = NoneYet /\ ~run.created /\ run.pending = Supported(source)
       ELSE /\ created => reuse
            /\ run.rows = rows /\ run.created = created
            /\ run.pending = {f \in Supported(source) : ~Same(f, reuse)}
  BY <1>1, <1>3, <1>9, <1>11
<1> QED
  BY <1>1, <1>2, <1>4, <1>8, <1>10, <1>11, <1>12

LEMMA InventoryStep ==
  ASSUME ReadinessInv, NEW rebuild \in BOOLEAN, NEW removeStale \in BOOLEAN,
         InventorySources(rebuild, removeStale)
  PROVE  ReadinessInv'
<1> USE DEF ReadinessInv
<1>0. UNCHANGED <<source, conf, code, rows, created, empties, header, tally>>
  BY DEF InventorySources
<1>1. PICK reuse \in BOOLEAN :
           /\ reuse => PolicyCurrent(conf) /\ created
           /\ task' \in Ingestions /\ task'.step = "writing" /\ task'.by = task.by /\ task'.calm = task.calm
           /\ task'.inventory = source /\ task'.conf = conf /\ task'.failed = {}
           /\ task'.last = [f \in Sources |-> Known(f, reuse)]
           /\ IF task'.staged THEN task'.rows = NoneYet /\ ~task'.created /\ task'.pending = Supported(source)
              ELSE /\ created => reuse
                   /\ task'.rows = rows /\ task'.created = created
                   /\ task'.pending = {f \in Supported(source) : ~Same(f, reuse)}
           /\ task \in BriefTasks /\ task.step = "inventory"
  BY InventoryRun
<1>2. PICK t : t = task'
  OBVIOUS
<1>3. prints' \in [Sources -> SourcePrints \cup {None}]
  <2>1. prints' = [f \in Sources |-> IF f \in Supported(source)
                                     THEN [stamp |-> source[f].stamp, content |-> source[f].content] ELSE None]
    BY DEF InventorySources
  <2>2. \A f \in Supported(source) : [stamp |-> source[f].stamp, content |-> source[f].content] \in SourcePrints
    BY DEF Supported, SourcePrints, ReadinessTypes, FileStates
  <2> QED
    BY <2>1, <2>2
<1>4. ReadinessTypes'
  BY <1>0, <1>1, <1>3 DEF ReadinessTypes
<1>5. TimesInv'
  <2> SUFFICES ASSUME NEW f \in Sources
               PROVE  /\ source[f].stat <= tally.changes /\ source[f].stamp <= tally.changes
                      /\ Vouched(prints'[f], source[f]) /\ Dated(empties[f], source[f])
                      /\ header # None => Dated(header.files[f], source[f])
                      /\ Dated(t.last[f], source[f]) /\ AtMost(t.inventory[f], source[f])
    BY <1>0, <1>2 DEF TimesInv
  <2>1. /\ source[f].stat <= tally.changes /\ source[f].stamp <= tally.changes
        /\ Dated(empties[f], source[f])
        /\ header # None => Dated(header.files[f], source[f])
    BY DEF TimesInv
  <2>2. source[f].stat \in Nat /\ source[f].stamp \in Nat
    BY DEF ReadinessTypes, FileStates
  <2>3. prints'[f] = IF f \in Supported(source)
                     THEN [stamp |-> source[f].stamp, content |-> source[f].content] ELSE None
    BY DEF InventorySources
  <2>4. Vouched(prints'[f], source[f])
    BY <2>2, <2>3 DEF Vouched
  <2>5. AtMost(t.inventory[f], source[f])
    BY <1>1, <1>2, <2>2 DEF AtMost
  <2>6. Dated(t.last[f], source[f])
    <3>1. t.last[f] = Known(f, reuse)
      BY <1>1, <1>2
    <3> QED
      BY <1>1, <2>1, <3>1 DEF Known, Dated, PolicyCurrent
  <2> QED
    BY <2>1, <2>4, <2>5, <2>6
<1>6. RowsInv'
  BY <1>0 DEF RowsInv, Having
<1>7. ASSUME ~t.staged, header # None, Having(header.files) # {}
      PROVE  header.policy = conf.policy
  BY <1>1, <1>2, <1>7 DEF RowsInv, PolicyCurrent
<1>8. ASSUME NEW f \in Having(t.rows)
      PROVE  t.rows[f].policy = conf.policy \/ (~t.staged /\ Stray(f)')
  <2>1. ~t.staged /\ rows[f] # None /\ t.rows = rows /\ f \in Sources /\ f \in Having(rows)
    BY <1>1, <1>2 DEF Having, NoneYet
  <2>2. reuse /\ header # None /\ header.policy = conf.policy
    BY <1>1, <1>2, <2>1 DEF RowsInv, PolicyCurrent
  <2>3. CASE Having(header.files) # {}
    BY <2>1, <2>2, <2>3 DEF RowsInv
  <2>4. CASE Having(header.files) = {}
    <3>1. t.last[f] = empties[f]
      BY <1>1, <1>2, <2>1, <2>2, <2>4 DEF Known, Having
    <3>2. empties[f] # None => empties[f].content = "blank"
      BY <2>1 DEF ReadinessTypes, RecordMaps, SourceRecords
    <3>3. source[f].content \in Texts => f \in t.pending
      <4>1. source[f].content \in Texts => f \in Supported(source) /\ ~Same(f, reuse)
        BY <1>1, <1>2, <2>1, <3>1, <3>2 DEF Same, Supported, Texts
      <4> QED
        BY <1>1, <1>2, <2>1, <4>1
    <3> QED
      BY <1>1, <1>2, <2>1, <3>1, <3>2, <3>3 DEF Stray
  <2> QED
    BY <2>3, <2>4
<1>9. RunInv'
  <2>1. Having(t.rows) # {} => t.created
    BY <1>1, <1>2 DEF Having, NoneYet, RowsInv
  <2>2. ~t.staged => rows = t.rows /\ created = t.created
    BY <1>1, <1>2
  <2>3. t.pending \cup t.failed \subseteq Supported(t.inventory)
    BY <1>1, <1>2
  <2>4. \A f \in t.pending \cup t.failed :
           ~t.staged /\ t.last[f] # None => t.last[f].content # t.inventory[f].content
    BY <1>1, <1>2 DEF Same, Supported
  <2>5. t.conf = conf /\ t.inventory = source /\ t.step = "writing"
    BY <1>1, <1>2
  <2> QED
    BY <1>0, <1>2, <1>7, <1>8, <2>1, <2>2, <2>3, <2>4, <2>5 DEF RunInv, Having
<1>10. ConsentInv' /\ EndedInv'
  BY <1>0, <1>1, <1>2 DEF ConsentInv, EndedInv, InTask
<1> QED
  BY <1>4, <1>5, <1>6, <1>9, <1>10

\* Rows that are kept, dropped or made under the policy of the run.
Rewritten(written, made) ==
    \A g \in Sources : \/ written[g] \in {None, task.rows[g]}
                       \/ made /\ written[g] # None /\ written[g].policy = task.conf.policy

LEMMA RowsStep ==
  ASSUME ReadinessInv, Ingesting, NEW written, NEW made \in BOOLEAN, Rewritten(written, made),
         task.created => made, UNCHANGED header,
         rows' = IF task.staged THEN rows ELSE written, created' = IF task.staged THEN created ELSE made
  PROVE  RowsInv' /\ (Having(written) # {} => made)
<1> USE DEF ReadinessInv
<1>1. Having(written) # {} => made
  BY DEF Rewritten, Having, RunInv
<1>2. CASE task.staged
  BY <1>1, <1>2 DEF RowsInv, Having
<1>3. CASE ~task.staged
  <2>1. rows' = written /\ created' = made /\ rows = task.rows /\ created = task.created
    BY <1>3 DEF RunInv
  <2>2. ASSUME header # None, Having(header.files) # {}
        PROVE  made /\ \A g \in Having(written) : written[g].policy = header.policy
    <3>1. header.policy = task.conf.policy
      BY <1>3, <2>2 DEF RunInv
    <3>2. created /\ \A g \in Having(rows) : rows[g].policy = header.policy
      BY <2>2 DEF RowsInv
    <3>3. ASSUME NEW g \in Having(written) PROVE written[g].policy = header.policy
      <4>1. g \in Sources /\ written[g] # None
        BY <3>3 DEF Having
      <4>2. CASE written[g] = task.rows[g]
        BY <2>1, <3>2, <4>1, <4>2 DEF Having
      <4>3. CASE written[g].policy = task.conf.policy
        BY <3>1, <4>3
      <4> QED
        BY <4>1, <4>2, <4>3 DEF Rewritten
    <3> QED
      BY <2>1, <3>2, <3>3
  <2>3. UNCHANGED header /\ Having(rows)' = Having(written)
    BY <2>1 DEF Having
  <2> QED
    BY <1>1, <2>1, <2>2, <2>3 DEF RowsInv, Having
<1> QED
  BY <1>1, <1>2, <1>3

\* The run after a file was written.
LEMMA CommitRun ==
  ASSUME ReadinessInv, NEW f \in Sources, CommitSource(f)
  PROVE  \E written \in RowMaps, made \in BOOLEAN :
           /\ written = [Without(task.gone) EXCEPT ![f] = RowsFor(f)]
           /\ made = (task.created \/ RowsFor(f) # None)
           /\ RowsFor(f) # None => RowsFor(f) \in TextRows /\ RowsFor(f).policy = task.conf.policy
           /\ rows' = IF task.staged THEN rows ELSE written
           /\ created' = IF task.staged THEN created ELSE made
           /\ task \in Ingestions /\ task' \in Ingestions /\ task.step = "writing"
           /\ task' = [task EXCEPT !.rows = written, !.created = made, !.pending = @ \ {f}]
           /\ task'.rows = written /\ task'.created = made /\ task'.pending = task.pending \ {f}
           /\ task'.step = task.step /\ task'.by = task.by /\ task'.calm = task.calm
           /\ task'.inventory = task.inventory /\ task'.conf = task.conf /\ task'.staged = task.staged
           /\ task'.last = task.last /\ task'.failed = task.failed
<1> DEFINE written == [Without(task.gone) EXCEPT ![f] = RowsFor(f)]
           made == task.created \/ RowsFor(f) # None
<1>1. task \in Ingestions /\ task.step = "writing" /\ f \in task.pending
  BY TaskCases DEF CommitSource, InTask, ReadinessInv, Ingesting
<1>2. task.inventory[f].content \in Texts \cup {"blank"}
  BY <1>1 DEF ReadinessInv, RunInv, Ingesting, Supported
<1>3. RowsFor(f) # None => RowsFor(f) \in TextRows /\ RowsFor(f).policy = task.conf.policy
  BY <1>1, <1>2 DEF RowsFor, TextRows, Ingestions, Confs
<1>4. Without(task.gone) \in RowMaps
  BY <1>1 DEF Without, RowMaps, Ingestions
<1>5. written \in RowMaps /\ made \in BOOLEAN
  BY <1>1, <1>3, <1>4 DEF RowMaps, Ingestions
<1>6. /\ rows' = IF task.staged THEN rows ELSE written
      /\ created' = IF task.staged THEN created ELSE made
      /\ task' = [task EXCEPT !.rows = written, !.created = made, !.pending = @ \ {f}]
  BY DEF CommitSource
<1> HIDE DEF written, made
<1>7. PICK t : t = task'
  OBVIOUS
<1>8. /\ t \in Ingestions /\ t.rows = written /\ t.created = made /\ t.pending = task.pending \ {f}
      /\ t.step = task.step /\ t.by = task.by /\ t.calm = task.calm
      /\ t.inventory = task.inventory /\ t.conf = task.conf /\ t.staged = task.staged
      /\ t.last = task.last /\ t.failed = task.failed
  BY <1>1, <1>5, <1>6, <1>7 DEF Ingestions
<1> QED
  BY <1>1, <1>3, <1>5, <1>6, <1>7, <1>8 DEF written, made

\* Its rows are those of before, of this file, or none.
LEMMA CommitStep ==
  ASSUME ReadinessInv, NEW f \in Sources, CommitSource(f)
  PROVE  ReadinessInv'
<1> USE DEF ReadinessInv
<1>0. UNCHANGED <<source, prints, conf, code, empties, header, tally>>
  BY DEF CommitSource
<1>1. PICK written \in RowMaps, made \in BOOLEAN :
           /\ written = [Without(task.gone) EXCEPT ![f] = RowsFor(f)]
           /\ made = (task.created \/ RowsFor(f) # None)
           /\ RowsFor(f) # None => RowsFor(f) \in TextRows /\ RowsFor(f).policy = task.conf.policy
           /\ rows' = IF task.staged THEN rows ELSE written
           /\ created' = IF task.staged THEN created ELSE made
           /\ task \in Ingestions /\ task' \in Ingestions /\ task.step = "writing"
           /\ task' = [task EXCEPT !.rows = written, !.created = made, !.pending = @ \ {f}]
           /\ task'.rows = written /\ task'.created = made /\ task'.pending = task.pending \ {f}
           /\ task'.step = task.step /\ task'.by = task.by /\ task'.calm = task.calm
           /\ task'.inventory = task.inventory /\ task'.conf = task.conf /\ task'.staged = task.staged
           /\ task'.last = task.last /\ task'.failed = task.failed
  BY CommitRun
<1>2. Ingesting /\ task.rows \in RowMaps /\ task.created \in BOOLEAN
  BY <1>1 DEF Ingesting, Ingestions
<1>3. ReadinessTypes'
  BY <1>0, <1>1 DEF ReadinessTypes
<1>4. tally.changes <= tally.changes
  BY DEF ReadinessTypes
<1>5. TimesInv'
  BY <1>0, <1>1, <1>2, <1>3, <1>4, TimesKept DEF ReadinessTypes
<1>6. written[f] = RowsFor(f) /\ \A g \in Sources \ {f} : written[g] \in {None, task.rows[g]}
  BY <1>1, <1>2 DEF Without, RowMaps
<1>7. Rewritten(written, made)
  BY <1>1, <1>6 DEF Rewritten
<1>8. RowsInv' /\ (Having(written) # {} => made)
  BY <1>0, <1>1, <1>2, <1>7, RowsStep
<1>9. ASSUME NEW g \in Having(written)
      PROVE  written[g].policy = task.conf.policy \/ (~task.staged /\ Stray(g)')
  <2>1. g \in Sources /\ written[g] # None
    BY <1>9 DEF Having
  <2>2. CASE g = f
    BY <1>1, <1>6, <2>1, <2>2
  <2>3. CASE g # f
    <3>1. written[g] = task.rows[g] /\ g \in Having(task.rows)
      BY <1>6, <2>1, <2>3 DEF Having
    <3>2. Stray(g) => Stray(g)'
      BY <1>1, <2>3 DEF Stray
    <3> QED
      BY <1>2, <3>1, <3>2 DEF RunInv
  <2> QED
    BY <2>2, <2>3
<1>10. RunInv'
  <2>1. /\ task.pending \cup task.failed \subseteq Supported(task.inventory)
        /\ \A g \in task.pending \cup task.failed :
              ~task.staged /\ task.last[g] # None => task.last[g].content # task.inventory[g].content
        /\ ~task.staged /\ header # None /\ Having(header.files) # {} => header.policy = task.conf.policy
        /\ task.calm => task.inventory = source /\ task.conf = conf
        /\ ~task.staged => rows = task.rows /\ created = task.created
    BY <1>2 DEF RunInv
  <2> QED
    BY <1>0, <1>1, <1>8, <1>9, <2>1 DEF RunInv, Having
<1>11. ConsentInv' /\ EndedInv'
  BY <1>0, <1>1 DEF ConsentInv, EndedInv, InTask
<1> QED
  BY <1>3, <1>5, <1>8, <1>10, <1>11

\* The run after a file failed.
LEMMA FailureRun ==
  ASSUME ReadinessInv, NEW f \in Sources, SourceFails(f)
  PROVE  \E written \in RowMaps, last \in RecordMaps(Texts \cup {"blank"}) :
           /\ \A g \in Sources : written[g] \in {None, task.rows[g]}
           /\ last[f] \in {None, task.last[f]} /\ \A g \in Sources \ {f} : last[g] = task.last[g]
           /\ rows' = IF task.staged THEN rows ELSE written
           /\ task \in Ingestions /\ task' \in Ingestions /\ task.step = "writing" /\ f \in task.pending
           /\ task'.rows = written /\ task'.created = task.created /\ task'.last = last
           /\ task'.pending = task.pending \ {f} /\ task'.failed = task.failed \cup {f}
           /\ task'.step = task.step /\ task'.by = task.by /\ task'.calm = task.calm
           /\ task'.inventory = task.inventory /\ task'.conf = task.conf /\ task'.staged = task.staged
<1> DEFINE drop == task.removeStale /\ ~task.staged
           written == IF drop THEN Without(task.gone \cup {f}) ELSE task.rows
           last == [task.last EXCEPT ![f] = IF drop THEN None ELSE @]
<1>1. task \in Ingestions /\ task.step = "writing" /\ f \in task.pending
  BY TaskCases DEF SourceFails, InTask, ReadinessInv, Ingesting
<1>2. written \in RowMaps /\ \A g \in Sources : written[g] \in {None, task.rows[g]}
  BY <1>1 DEF Without, RowMaps, Ingestions
<1>3. /\ last \in RecordMaps(Texts \cup {"blank"})
      /\ last[f] \in {None, task.last[f]} /\ \A g \in Sources \ {f} : last[g] = task.last[g]
  BY <1>1 DEF RecordMaps, Ingestions
<1>4. /\ rows' = IF task.staged THEN rows ELSE written
      /\ task' = [task EXCEPT !.rows = written, !.pending = @ \ {f}, !.failed = @ \cup {f},
                              !.last[f] = IF drop THEN None ELSE @]
  BY DEF SourceFails
<1>5. task' = [task EXCEPT !.rows = written, !.pending = task.pending \ {f}, !.failed = task.failed \cup {f},
                           !.last = last]
  BY <1>1, <1>4 DEF Ingestions
<1> HIDE DEF written, last, drop
<1>6. PICK t : t = task'
  OBVIOUS
<1>7. /\ t \in Ingestions /\ t.rows = written /\ t.created = task.created /\ t.last = last
      /\ t.pending = task.pending \ {f} /\ t.failed = task.failed \cup {f}
      /\ t.step = task.step /\ t.by = task.by /\ t.calm = task.calm
      /\ t.inventory = task.inventory /\ t.conf = task.conf /\ t.staged = task.staged
  BY <1>1, <1>2, <1>3, <1>5, <1>6 DEF Ingestions
<1> QED
  BY <1>1, <1>2, <1>3, <1>4, <1>6, <1>7

LEMMA FailureStep ==
  ASSUME ReadinessInv, NEW f \in Sources, SourceFails(f)
  PROVE  ReadinessInv'
<1> USE DEF ReadinessInv
<1>0. UNCHANGED <<source, prints, conf, code, created, empties, header>>
  BY DEF SourceFails
<1>1. PICK written \in RowMaps, last \in RecordMaps(Texts \cup {"blank"}) :
           /\ \A g \in Sources : written[g] \in {None, task.rows[g]}
           /\ last[f] \in {None, task.last[f]} /\ \A g \in Sources \ {f} : last[g] = task.last[g]
           /\ rows' = IF task.staged THEN rows ELSE written
           /\ task \in Ingestions /\ task' \in Ingestions /\ task.step = "writing" /\ f \in task.pending
           /\ task'.rows = written /\ task'.created = task.created /\ task'.last = last
           /\ task'.pending = task.pending \ {f} /\ task'.failed = task.failed \cup {f}
           /\ task'.step = task.step /\ task'.by = task.by /\ task'.calm = task.calm
           /\ task'.inventory = task.inventory /\ task'.conf = task.conf /\ task'.staged = task.staged
  BY FailureRun
<1>2. Ingesting /\ task.rows \in RowMaps /\ task.created \in BOOLEAN /\ rows \in RowMaps
  BY <1>1 DEF Ingesting, Ingestions, ReadinessTypes
<1>3. tally' \in [changes : Nat, commands : Nat, errors : Nat] /\ tally'.changes = tally.changes
  BY DEF SourceFails, ReadinessTypes
<1>4. ReadinessTypes'
  BY <1>0, <1>1, <1>2, <1>3 DEF ReadinessTypes
<1>5. TimesInv'
  <2> SUFFICES ASSUME NEW g \in Sources
               PROVE  Dated(last[g], source[g]) /\ AtMost(task.inventory[g], source[g])
    BY <1>0, <1>1, <1>2, <1>3 DEF TimesInv
  <2> QED
    BY <1>1, <1>2 DEF TimesInv, Dated
<1>6. Rewritten(written, task.created)
  BY <1>1 DEF Rewritten
<1>7. RowsInv' /\ (Having(written) # {} => task.created)
  <2>1. created' = IF task.staged THEN created ELSE task.created
    BY <1>0, <1>2 DEF RunInv
  <2> QED
    BY <1>0, <1>1, <1>2, <1>6, <2>1, RowsStep
<1>8. ASSUME NEW g \in Having(written)
      PROVE  written[g].policy = task.conf.policy \/ (~task.staged /\ Stray(g)')
  <2>1. g \in Sources /\ written[g] = task.rows[g] /\ g \in Having(task.rows)
    BY <1>1, <1>8 DEF Having
  <2>2. last[g] \in {None, task.last[g]}
    BY <1>1, <2>1
  <2>3. Stray(g) => Stray(g)'
    BY <1>1, <2>2 DEF Stray
  <2> QED
    BY <1>2, <2>1, <2>3 DEF RunInv
<1>9. RunInv'
  <2>1. /\ task.pending \cup task.failed \subseteq Supported(task.inventory)
        /\ \A g \in task.pending \cup task.failed :
              ~task.staged /\ task.last[g] # None => task.last[g].content # task.inventory[g].content
        /\ ~task.staged /\ header # None /\ Having(header.files) # {} => header.policy = task.conf.policy
        /\ task.calm => task.inventory = source /\ task.conf = conf
        /\ ~task.staged => rows = task.rows /\ created = task.created
    BY <1>2 DEF RunInv
  <2>2. task'.pending \cup task'.failed = task.pending \cup task.failed
    BY <1>1
  <2>3. \A g \in task.pending \cup task.failed :
           ~task.staged /\ last[g] # None => last[g].content # task.inventory[g].content
    <3>1. \A g \in task.pending \cup task.failed : last[g] \in {None, task.last[g]}
      BY <1>1, <2>1 DEF Supported
    <3> QED
      BY <2>1, <3>1
  <2> QED
    BY <1>0, <1>1, <1>7, <1>8, <2>1, <2>2, <2>3 DEF RunInv, Having
<1>10. ConsentInv' /\ EndedInv'
  BY <1>0, <1>1 DEF ConsentInv, EndedInv, InTask
<1> QED
  BY <1>4, <1>5, <1>7, <1>9, <1>10

\* What a run lists of a file is of the file, and no younger than it.
LEMMA Listings ==
  ASSUME ReadinessInv, Ingesting
  PROVE  /\ Listing(Texts) \in RecordMaps(Texts) /\ Listing({"blank"}) \in RecordMaps({"blank"})
         /\ \A f \in Sources : Dated(Listing(Texts)[f], source[f]) /\ Dated(Listing({"blank"})[f], source[f])
<1> USE DEF ReadinessInv
<1>1. ASSUME NEW f \in Sources
      PROVE  /\ RecordOf(f) \in SourceRecords(Texts \cup {"blank"}) \cup {None}
             /\ Dated(RecordOf(f), source[f])
  <2>1. /\ task.last[f] \in SourceRecords(Texts \cup {"blank"}) \cup {None} /\ task.inventory[f] \in FileStates
        /\ Dated(task.last[f], source[f]) /\ AtMost(task.inventory[f], source[f])
    BY Recorded DEF TimesInv
  <2>2. CASE f \in task.failed
    BY <2>1, <2>2 DEF RecordOf, Dated
  <2>3. CASE f \notin task.failed /\ f \in Supported(task.inventory)
    <3>1. RecordOf(f) = [content |-> task.inventory[f].content, stat |-> task.inventory[f].stat]
      BY <2>3 DEF RecordOf
    <3>2. RecordOf(f) \in SourceRecords(Texts \cup {"blank"})
      BY <2>1, <2>3, <3>1 DEF SourceRecords, FileStates, Supported
    <3>3. RecordOf(f).content = task.inventory[f].content /\ RecordOf(f).stat = task.inventory[f].stat
      BY <3>1
    <3> QED
      BY <2>1, <3>2, <3>3 DEF Dated, AtMost
  <2>4. CASE f \notin task.failed /\ f \notin Supported(task.inventory)
    BY <2>4 DEF RecordOf, Dated
  <2> QED
    BY <2>2, <2>3, <2>4
<1>2. ASSUME NEW wanted, wanted \in {Texts, {"blank"}}
      PROVE  /\ Listing(wanted) \in RecordMaps(wanted)
             /\ \A f \in Sources : Dated(Listing(wanted)[f], source[f])
  <2>1. ASSUME NEW f \in Sources
        PROVE  /\ Listing(wanted)[f] \in SourceRecords(wanted) \cup {None}
               /\ Dated(Listing(wanted)[f], source[f])
    <3>1. Listing(wanted)[f] = IF RecordOf(f) # None /\ RecordOf(f).content \in wanted THEN RecordOf(f) ELSE None
      BY DEF Listing
    <3>2. RecordOf(f) # None /\ RecordOf(f).content \in wanted => RecordOf(f) \in SourceRecords(wanted)
      BY <1>1 DEF SourceRecords
    <3> QED
      BY <1>1, <3>1, <3>2 DEF Dated
  <2> QED
    BY <2>1 DEF RecordMaps, Listing
<1> QED
  BY <1>2

\* The rows are complete: the run is validated, or refused.
LEMMA FinishStep == ReadinessInv /\ FinishRows => ReadinessInv'
<1> SUFFICES ASSUME ReadinessInv, FinishRows PROVE ReadinessInv'
  OBVIOUS
<1> USE DEF ReadinessInv
<1>0. UNCHANGED <<source, prints, conf, code, created, header, tally>>
  BY DEF FinishRows
<1>1. task \in Ingestions /\ task.step = "writing" /\ task.pending = {} /\ Ingesting
  BY TaskCases DEF FinishRows, InTask, Ingesting
<1> DEFINE listed == Listing(Texts)
           blank == Listing({"blank"})
<1>2. PICK written : written = Without(task.gone)
  OBVIOUS
<1>3. written \in RowMaps /\ \A g \in Sources : written[g] \in {None, task.rows[g]}
  BY <1>1, <1>2 DEF Without, RowMaps, Ingestions
<1>4. PICK valid : valid = \A f \in Sources : IF written[f] = None THEN listed[f] = None
                                              ELSE listed[f] # None /\ listed[f].content = written[f].content
  OBVIOUS
<1>5. /\ rows' = IF task.staged THEN rows ELSE written
      /\ task' = IF valid THEN [task EXCEPT !.rows = written, !.step = "validated"] ELSE NoTask
      /\ empties' = IF valid THEN blank ELSE empties
  BY <1>2, <1>4 DEF FinishRows
<1>6. PICK t : t = task'
  OBVIOUS
<1>7. ASSUME valid
      PROVE  /\ t \in Ingestions /\ t.step = "validated" /\ t.rows = written /\ t.created = task.created
             /\ t.by = task.by /\ t.calm = task.calm /\ t.inventory = task.inventory /\ t.conf = task.conf
             /\ t.staged = task.staged /\ t.last = task.last /\ t.pending = {} /\ t.failed = task.failed
  BY <1>1, <1>3, <1>5, <1>6, <1>7 DEF Ingestions
<1>8. listed \in RecordMaps(Texts) /\ blank \in RecordMaps({"blank"}) /\ \A f \in Sources : Dated(blank[f], source[f])
  BY <1>1, Listings
<1> HIDE DEF listed, blank
<1>9. ReadinessTypes'
  <2>1. rows' \in RowMaps /\ empties' \in RecordMaps({"blank"})
    BY <1>3, <1>5, <1>8 DEF ReadinessTypes
  <2>2. task' \in {NoTask} \cup Ingestions
    BY <1>5, <1>6, <1>7
  <2> QED
    BY <1>0, <2>1, <2>2 DEF ReadinessTypes
<1>10. TimesInv'
  <2> SUFFICES ASSUME NEW f \in Sources
               PROVE  /\ Dated(empties'[f], source[f])
                      /\ Ingesting' => Dated(t.last[f], source[f]) /\ AtMost(t.inventory[f], source[f])
    BY <1>0, <1>6 DEF TimesInv
  <2>1. Dated(empties'[f], source[f])
    BY <1>5, <1>8 DEF TimesInv
  <2>2. Ingesting' => valid
    BY <1>5 DEF Ingesting, NoTask
  <2> QED
    BY <1>1, <1>7, <2>1, <2>2 DEF TimesInv
<1>11. RowsInv' /\ (Having(written) # {} => task.created)
  <2>1. created' = IF task.staged THEN created ELSE task.created
    BY <1>0, <1>1 DEF RunInv
  <2>2. Rewritten(written, task.created) /\ task.created \in BOOLEAN
    BY <1>1, <1>3 DEF Rewritten, Ingestions
  <2> QED
    BY <1>0, <1>1, <1>5, <2>1, <2>2, RowsStep
<1>12. RunInv'
  <2>0. CASE ~valid
    BY <1>5, <2>0 DEF RunInv, Ingesting, NoTask
  <2> SUFFICES ASSUME valid PROVE RunInv'
    BY <2>0
  <2>1. /\ task.pending \cup task.failed \subseteq Supported(task.inventory)
        /\ \A g \in task.pending \cup task.failed :
              ~task.staged /\ task.last[g] # None => task.last[g].content # task.inventory[g].content
        /\ ~task.staged /\ header # None /\ Having(header.files) # {} => header.policy = task.conf.policy
        /\ task.calm => task.inventory = source /\ task.conf = conf
        /\ ~task.staged => rows = task.rows /\ created = task.created
    BY <1>1 DEF RunInv
  <2>2. ASSUME NEW g \in Having(written)
        PROVE  written[g].policy = task.conf.policy \/ (~task.staged /\ Stray(g)')
    <3>1. g \in Sources /\ written[g] = task.rows[g] /\ g \in Having(task.rows)
      BY <1>3, <2>2 DEF Having
    <3>2. Stray(g) => Stray(g)'
      BY <1>1, <1>6, <1>7 DEF Stray
    <3> QED
      BY <1>1, <3>1, <3>2 DEF RunInv
  <2>3. Listing(Texts)' = listed /\ Listing({"blank"})' = blank
    BY <1>6, <1>7, ListingKept DEF listed, blank
  <2>4. \A f \in Sources : Content(written[f]) = Content(listed[f])
    BY <1>4 DEF Content
  <2>5. empties' = blank
    BY <1>5
  <2> QED
    BY <1>0, <1>1, <1>5, <1>6, <1>7, <1>11, <2>1, <2>2, <2>3, <2>4, <2>5 DEF RunInv, Having
<1>13. ConsentInv' /\ EndedInv'
  <2>1. CASE valid
    BY <1>0, <1>1, <1>6, <1>7, <2>1 DEF ConsentInv, EndedInv, InTask
  <2>2. CASE ~valid
    BY <1>5, <2>2 DEF ConsentInv, EndedInv, InTask, NoTask
  <2> QED
    BY <2>1, <2>2
<1> QED
  BY <1>9, <1>10, <1>11, <1>12, <1>13

\* The rows of a validated run are of its policy.
LEMMA OnePolicy ==
  ASSUME ReadinessInv, InTask("validated")
  PROVE  /\ task \in Ingestions /\ task.pending = {}
         /\ \A f \in Having(task.rows) : task.rows[f].policy = task.conf.policy
<1>1. task \in Ingestions /\ Ingesting /\ task.pending = {}
  BY TaskCases DEF ReadinessInv, InTask, Ingesting, RunInv
<1>2. ASSUME NEW f \in Having(task.rows), ~task.staged, Stray(f)
      PROVE  FALSE
  <2>1. f \in Sources /\ task.rows[f] \in TextRows
    BY <1>1, <1>2 DEF Having, Ingestions, RowMaps
  <2>2. Content(task.rows[f]) \in Texts /\ Content(task.rows[f]) # None
    BY <2>1, NotNone DEF Content, TextRows
  <2>3. Listing(Texts)[f] # None /\ f \in Sources
    BY <1>1, <2>1, <2>2 DEF ReadinessInv, RunInv, InTask, Content
  <2>4. RecordOf(f) # None /\ RecordOf(f).content \in Texts
    BY <2>3 DEF Listing
  <2>5. CASE f \in task.failed
    BY <1>2, <2>4, <2>5 DEF RecordOf, Stray, Texts
  <2>6. CASE f \notin task.failed
    <3>1. task.inventory[f].content \notin Texts
      BY <1>1, <1>2, <2>6 DEF Stray
    <3> QED
      BY <2>4, <2>6, <3>1 DEF RecordOf
  <2> QED
    BY <2>5, <2>6
<1> QED
  BY <1>1, <1>2 DEF ReadinessInv, RunInv

\* The manifest of a validated run.
LEMMA HeaderWritten ==
  ASSUME ReadinessInv, WriteHeader
  PROVE  /\ header' \in ManifestHeaders /\ header' # None /\ header'.files = Listing(Texts)
         /\ header'.schema = code.schema /\ header'.lexical = code.lexical /\ header'.policy = task.conf.policy
         /\ header'.health.oversized = Oversized(task.inventory)
         /\ header'.health.empty = Having(Listing({"blank"}))
         /\ header'.health.missing \cup header'.health.stale = task.failed
<1>1. task \in Ingestions /\ Ingesting
  BY OnePolicy DEF WriteHeader, InTask, Ingesting
<1> DEFINE health == [supported |-> Supported(task.inventory), oversized |-> Oversized(task.inventory),
                      empty |-> Having(Listing({"blank"})), warned |-> task.conf.extractors,
                      missing |-> FailedFiles(FALSE), stale |-> FailedFiles(TRUE)]
           new == [schema |-> code.schema, lexical |-> code.lexical, policy |-> task.conf.policy,
                   files |-> Listing(Texts), health |-> health]
<1>2. FailedFiles(FALSE) \cup FailedFiles(TRUE) = task.failed /\ task.failed \subseteq Sources
  BY <1>1 DEF FailedFiles, Ingestions
<1>3. header' = new
  BY DEF WriteHeader
<1>4. health \in HealthSnapshots
  BY <1>1, <1>2 DEF HealthSnapshots, Supported, Oversized, Having, Ingestions, Confs
<1>5. Listing(Texts) \in [Sources -> SourceRecords(Texts) \cup {None}]
  BY <1>1, Listings DEF RecordMaps
<1>6. task.conf.policy \in {1, 2} /\ code.schema \in Nat /\ code.lexical \in Nat
  BY <1>1 DEF Ingestions, Confs, ReadinessInv, ReadinessTypes
<1>7. new \in ManifestHeaders
  <2> HIDE DEF health
  <2> QED
    BY <1>4, <1>5, <1>6 DEF ManifestHeaders
<1>8. /\ new.health = health /\ new.files = Listing(Texts) /\ new.policy = task.conf.policy
      /\ new.schema = code.schema /\ new.lexical = code.lexical
  OBVIOUS
<1>9. /\ health.oversized = Oversized(task.inventory) /\ health.empty = Having(Listing({"blank"}))
      /\ health.missing = FailedFiles(FALSE) /\ health.stale = FailedFiles(TRUE)
  OBVIOUS
<1> HIDE DEF new, health
<1> QED
  BY <1>2, <1>3, <1>7, <1>8, <1>9, NotNone

LEMMA HeaderStep == ReadinessInv /\ WriteHeader => ReadinessInv'
<1> SUFFICES ASSUME ReadinessInv, WriteHeader PROVE ReadinessInv'
  OBVIOUS
<1> USE DEF ReadinessInv
<1>0. UNCHANGED <<source, prints, conf, code, empties, tally>> /\ rows' = task.rows /\ created' = task.created
  BY DEF WriteHeader
<1>1. /\ task \in Ingestions /\ Ingesting /\ InTask("validated") /\ task.pending = {}
      /\ \A f \in Having(task.rows) : task.rows[f].policy = task.conf.policy
  BY OnePolicy DEF WriteHeader, InTask, Ingesting
<1>2. PICK h : h = header'
  OBVIOUS
<1>3. /\ h \in ManifestHeaders /\ h # None /\ h.files = Listing(Texts)
      /\ h.schema = code.schema /\ h.lexical = code.lexical /\ h.policy = task.conf.policy
      /\ h.health.oversized = Oversized(task.inventory)
      /\ h.health.empty = Having(Listing({"blank"}))
      /\ h.health.missing \cup h.health.stale = task.failed
  BY <1>2, HeaderWritten
<1>4. /\ task' \in BriefTasks /\ task'.step = "ended" /\ task'.by = task.by /\ task'.calm = task.calm
      /\ task'.failed = task.failed
  BY <1>1 DEF WriteHeader, Ingestions, BriefTasks
<1>5. ReadinessTypes'
  BY <1>0, <1>1, <1>2, <1>3, <1>4 DEF ReadinessTypes, Ingestions
<1>6. ~Ingesting'
  BY <1>4 DEF Ingesting
<1>7. TimesInv'
  <2> SUFFICES ASSUME NEW f \in Sources PROVE Dated(h.files[f], source[f])
    BY <1>0, <1>2, <1>6 DEF TimesInv
  <2> QED
    BY <1>1, <1>3, Listings
<1>8. /\ Having(task.rows) # {} => task.created
      /\ empties = Listing({"blank"})
      /\ \A f \in Sources : Content(task.rows[f]) = Content(Listing(Texts)[f])
      /\ task.failed \subseteq Supported(task.inventory)
      /\ \A f \in task.failed :
            ~task.staged /\ task.last[f] # None => task.last[f].content # task.inventory[f].content
      /\ task.calm => task.inventory = source /\ task.conf = conf
  BY <1>1 DEF RunInv, InTask
<1>9. RowsInv'
  <2>1. ASSUME NEW f \in Having(h.files) PROVE f \in Having(task.rows)
    <3>1. f \in Sources /\ Listing(Texts)[f] \in SourceRecords(Texts)
      BY <1>1, <1>3, <2>1, Listings DEF Having, RecordMaps
    <3>2. Content(task.rows[f]) # None
      BY <1>8, <3>1, NotNone DEF Content, SourceRecords
    <3> QED
      BY <3>1, <3>2 DEF Having, Content
  <2> QED
    BY <1>0, <1>1, <1>2, <1>3, <1>8, <2>1 DEF RowsInv, Having
<1>10. ASSUME task.calm
       PROVE  Written'
  <2>1. task.inventory = source /\ task.conf = conf
    BY <1>8, <1>10
  <2>2. PolicyCurrent(conf)' /\ h.lexical = code.lexical
    BY <1>0, <1>2, <1>3, <2>1 DEF PolicyCurrent
  <2>3. ASSUME NEW f \in task.failed
        PROVE  (Differs(h.files[f], f) /\ Differs(empties[f], f))'
    <3>1. f \in Sources /\ (RecordOf(f) # None => RecordOf(f).content # source[f].content)
      BY <1>8, <2>1 DEF RecordOf, Supported
    <3> QED
      BY <1>0, <1>3, <1>8, <3>1 DEF Differs, Listing
  <2>4. ASSUME NEW f \in Sources \ task.failed
        PROVE  h.files[f] = RecordNow(f, Texts) /\ empties[f] = RecordNow(f, {"blank"})
    <3>1. CASE f \in Supported(source)
      <4>1. RecordOf(f) = [content |-> source[f].content, stat |-> source[f].stat]
        BY <2>1, <2>4, <3>1 DEF RecordOf
      <4>2. RecordOf(f) \in SourceRecords(Texts \cup {"blank"})
        BY <3>1, <4>1 DEF SourceRecords, Supported, ReadinessTypes, FileStates
      <4>3. RecordOf(f) # None /\ RecordOf(f).content = source[f].content
        BY <4>1, <4>2, NotNone
      <4> QED
        BY <1>3, <1>8, <4>1, <4>3 DEF RecordNow, Listing
    <3>2. CASE f \notin Supported(source)
      <4>1. RecordOf(f) = None /\ source[f].content \notin Texts \cup {"blank"}
        BY <2>1, <2>4, <3>2 DEF RecordOf, Supported
      <4> QED
        BY <1>3, <1>8, <4>1 DEF RecordNow, Listing
    <3> QED
      BY <3>1, <3>2
  <2>5. \A f \in Sources : Content(task.rows[f]) = Content(h.files[f])
    BY <1>3, <1>8
  <2> QED
    BY <1>0, <1>2, <1>3, <1>4, <1>8, <2>1, <2>2, <2>3, <2>4, <2>5 DEF Written, RecordNow, Oversized, Supported, Having
<1>11. ConsentInv' /\ EndedInv'
  BY <1>4, <1>10 DEF ConsentInv, EndedInv, InTask
<1> QED
  BY <1>5, <1>6, <1>7, <1>9, <1>11 DEF RunInv

-----------------------------------------------------------------------------
(* The invariant.                                                           *)

LEMMA ReadinessStarts == ReadinessInit => ReadinessInv
<1> SUFFICES ASSUME ReadinessInit PROVE ReadinessInv
  OBVIOUS
<1>1. task = NoTask /\ ~Ingesting /\ header = None
  BY DEF ReadinessInit, NoTask, Ingesting
<1>2. source \in [Sources -> FileStates] /\ \A f \in Sources : source[f].stat = 0 /\ source[f].stamp = 0
  <2>1. \A now \in [content : {"one", "blank"}, stat : {0}, stamp : {0}] :
           now \in FileStates /\ now.stat = 0 /\ now.stamp = 0
    BY DEF FileStates, Texts
  <2>2. source \in [Sources -> [content : {"one", "blank"}, stat : {0}, stamp : {0}]]
    BY DEF ReadinessInit
  <2> QED
    BY <2>1, <2>2
<1>3. ReadinessTypes
  BY <1>1, <1>2 DEF ReadinessInit, ReadinessTypes, NoneYet, Confs, RowMaps, RecordMaps
<1>4. TimesInv
  BY <1>1, <1>2 DEF ReadinessInit, TimesInv, NoneYet, Vouched, Dated
<1>5. RowsInv
  BY <1>1 DEF ReadinessInit, RowsInv, Having, NoneYet
<1>6. ConsentInv /\ EndedInv
  BY <1>1 DEF ConsentInv, EndedInv, InTask, NoTask
<1> QED
  BY <1>1, <1>3, <1>4, <1>5, <1>6 DEF ReadinessInv, RunInv

LEMMA ReadinessStep == ReadinessInv /\ [ReadinessNext]_readinessVars => ReadinessInv'
<1> SUFFICES ASSUME ReadinessInv, [ReadinessNext]_readinessVars PROVE ReadinessInv'
  OBVIOUS
<1>1. CASE UNCHANGED readinessVars
  <2>1. UNCHANGED <<source, prints, conf, code, rows, created, empties, header, task, tally>>
    BY <1>1 DEF readinessVars
  <2>2. ReadinessTypes'
    BY <2>1 DEF ReadinessInv, ReadinessTypes
  <2>3. TimesInv' /\ RowsInv'
    BY <2>1 DEF ReadinessInv, TimesInv, RowsInv, Having, Ingesting
  <2>4. RunInv'
    <3>1. Listing(Texts)' = Listing(Texts) /\ Listing({"blank"})' = Listing({"blank"})
      BY <2>1, ListingKept
    <3> QED
      BY <2>1, <3>1 DEF ReadinessInv, RunInv, Ingesting, Stray, Having
  <2>5. Written' = Written
    BY <2>1 DEF Written, PolicyCurrent, RecordNow, Differs, Having, Oversized, Supported
  <2>6. ~CanAutoIngest(DeepReport) => ~CanAutoIngest(DeepReport)'
    BY <2>1 DEF CanAutoIngest, DeepReport, Judged, Audit, Having, PolicyCurrent, LexicalCurrent
  <2>8. ConsentInv' /\ EndedInv'
    BY <2>1, <2>5, <2>6 DEF ReadinessInv, ConsentInv, EndedInv, InTask
  <2> QED
    BY <2>2, <2>3, <2>4, <2>8 DEF ReadinessInv
<1>2. ASSUME NEW f \in Sources, NEW content \in Texts \cup {"blank", "oversized", "gone"},
             ChangeSource(f, content, source[f].stat) \/ ChangeSource(f, content, Fresh)
      PROVE  ReadinessInv'
  BY <1>2, ChangeStep
<1>3. ASSUME NEW setting \in [policy : {1, 2}, extractors : BOOLEAN], Reconfigure(setting)
      PROVE  ReadinessInv'
  BY <1>3, ReconfigureStep DEF Confs
<1>4. CASE NewRelease
  BY <1>4, ReleaseStep
<1>5. ASSUME NEW by \in {"ingest", "upgrade"}, Command(by) PROVE ReadinessInv'
  BY <1>5, CommandStep DEF Callers
<1>6. CASE CheckProject
  BY <1>6, CheckStep
<1>7. ASSUME NEW rebuild \in BOOLEAN, NEW removeStale \in BOOLEAN, InventorySources(rebuild, removeStale)
      PROVE  ReadinessInv'
  BY <1>7, InventoryStep
<1>8. ASSUME NEW f \in Sources, CommitSource(f) \/ SourceFails(f) PROVE ReadinessInv'
  BY <1>8, CommitStep, FailureStep
<1>9. CASE FinishRows \/ WriteHeader
  BY <1>9, FinishStep, HeaderStep
<1>10. CASE EndCommand \/ StopCommand
  BY <1>10, IdleStep
<1> QED
  BY <1>1, <1>2, <1>3, <1>4, <1>5, <1>6, <1>7, <1>8, <1>9, <1>10 DEF ReadinessNext

\* In every reachable state times, rows, the manifest and the command agree as the parts of the
\* invariant say, whatever the user does meanwhile.
THEOREM Reports == ReadinessSpec => []ReadinessInv
  BY ReadinessStarts, ReadinessStep, PTL DEF ReadinessSpec

-----------------------------------------------------------------------------
(* The properties.                                                          *)

\* What the two modes of doctor report, field by field.
LEMMA DeepFields ==
  /\ DeepReport.supported = Supported(source) /\ DeepReport.chunks = Having(rows)
  /\ DeepReport.missing = Audit.missing /\ DeepReport.stale = Audit.stale /\ DeepReport.empty = Audit.empty
  /\ DeepReport.known = TRUE /\ DeepReport.warned = conf.extractors
  /\ DeepReport.ready <=>
        /\ header # None /\ Having(rows) # {} /\ Audit.missing = {} /\ Audit.stale = {} /\ Audit.empty = {}
        /\ Oversized(source) = {} /\ PolicyCurrent(conf)
<1>1. /\ Audit.supported = Supported(source) /\ Audit.chunks = Having(rows)
      /\ Audit.oversized = Oversized(source)
  BY DEF Audit
<1> QED
  BY <1>1 DEF DeepReport, Judged

LEMMA ManifestFields ==
  ASSUME header # None
  PROVE  ManifestReport.operational <=>
            /\ Having(header.files) # {} /\ Freshness.missing = {} /\ Freshness.stale = {}
            /\ header.health.empty = {} /\ header.health.oversized = {}
  BY DEF ManifestReport, Judged

\* The classes of the audit, file by file.
LEMMA AuditFields ==
  /\ \A f \in Sources : f \in Audit.missing <=>
        f \in Supported(source) /\ rows[f] = None /\ (empties[f] = None \/ empties[f].content # source[f].content)
  /\ \A f \in Sources : f \in Audit.stale <=>
        rows[f] # None /\ (f \notin Supported(source) \/ rows[f].content # source[f].content)
  /\ \A f \in Sources : f \in Audit.empty <=>
        f \in Supported(source) /\ empties[f] # None /\ empties[f].content = source[f].content
  /\ Audit.missing \subseteq Sources /\ Audit.stale \subseteq Sources /\ Audit.empty \subseteq Sources
  BY DEF Audit, Having, Supported

\* Those of the comparison by size and time.
LastKnown(f) == IF header.files[f] # None THEN header.files[f] ELSE empties[f]
LEMMA FreshnessFields ==
  /\ \A f \in Sources : f \in Freshness.missing <=> f \in Supported(source) /\ LastKnown(f) = None
  /\ \A f \in Sources : f \in Freshness.stale <=>
        \/ /\ f \in Supported(source) /\ LastKnown(f) # None /\ LastKnown(f).stat # source[f].stat
           /\ ~(Fingerprinted(f) /\ prints[f].content = LastKnown(f).content)
        \/ header.files[f] # None /\ f \notin Supported(source)
  /\ Freshness.missing \subseteq Sources /\ Freshness.stale \subseteq Sources
  BY DEF Freshness, LastKnown, Having, Supported

\* A row or record is there if its content is.
LEMMA ContentThere ==
  ASSUME ReadinessTypes, NEW f \in Sources
  PROVE  /\ rows[f] # None <=> Content(rows[f]) # None
         /\ rows[f] # None => rows[f].content \in Texts /\ rows[f].content = Content(rows[f])
         /\ empties[f] # None => empties[f].content = "blank"
         /\ header # None => /\ header.files[f] # None <=> Content(header.files[f]) # None
                             /\ header.files[f] # None => /\ header.files[f].content \in Texts
                                                          /\ header.files[f].content = Content(header.files[f])
<1>1. header # None => header.files \in [Sources -> SourceRecords(Texts) \cup {None}]
  BY DEF ReadinessTypes, ManifestHeaders
<1>2. rows[f] \in TextRows \cup {None} /\ empties[f] \in SourceRecords({"blank"}) \cup {None}
  BY DEF ReadinessTypes, RowMaps, RecordMaps
<1>3. \A r \in TextRows \cup SourceRecords(Texts) : r.content \in Texts
  BY DEF TextRows, SourceRecords
<1>4. \A r \in SourceRecords({"blank"}) : r.content = "blank"
  BY DEF SourceRecords
<1> QED
  BY <1>1, <1>2, <1>3, <1>4, NotNone DEF Content

LEMMA Consented == ReadinessInv => Consent
<1> SUFFICES ASSUME ReadinessInv, task.step \in {"writing", "validated"}, task.calm, task.by # "ingest"
             PROVE  ~task.conf.extractors
  BY DEF Consent
<1>1. task \in Ingestions
  BY TaskCases DEF ReadinessInv, Ingesting
<1>2. task.by = "upgrade" /\ task.conf = conf
  BY <1>1 DEF Ingestions, Callers, ReadinessInv, RunInv, Ingesting
<1> QED
  BY <1>2 DEF ReadinessInv, ConsentInv

LEMMA ReadyIsTrue == ReadinessInv => ReadyTrue
<1> SUFFICES ASSUME ReadinessInv, DeepReport.ready
             PROVE  /\ \A f \in Sources :
                          Content(rows[f]) = IF source[f].content \in Texts THEN source[f].content ELSE None
                    /\ Having(header.files) # {} => OfPolicy
  BY DEF ReadyTrue
<1>1. /\ header # None /\ Audit.missing = {} /\ Audit.stale = {} /\ Audit.empty = {}
      /\ header.policy = conf.policy
  BY DeepFields DEF PolicyCurrent
<1>2. Having(header.files) # {} => OfPolicy
  BY <1>1 DEF ReadinessInv, RowsInv, OfPolicy
<1>3. ASSUME NEW f \in Sources
      PROVE  Content(rows[f]) = IF source[f].content \in Texts THEN source[f].content ELSE None
  <2>1. f \notin Audit.missing /\ f \notin Audit.stale /\ f \notin Audit.empty
    BY <1>1
  <2>2. rows[f] # None => source[f].content \in Texts /\ rows[f].content = source[f].content
    BY <2>1, AuditFields, ContentThere DEF ReadinessInv
  <2>3. rows[f] = None => source[f].content \notin Texts
    BY <2>1, AuditFields DEF Supported
  <2> QED
    BY <2>2, <2>3 DEF Content
<1> QED
  BY <1>2, <1>3

LEMMA DoctorsDoAgree == ReadinessInv => DoctorsAgree
<1> SUFFICES ASSUME ReadinessInv, header # None, Listed, Freshness.missing = {}, Freshness.stale = {},
                    QuietlyChanged = {}
             PROVE  Audit.missing = {} /\ Audit.stale = {}
  BY DEF DoctorsAgree
<1>1. ASSUME NEW f \in Sources PROVE f \notin Audit.missing /\ f \notin Audit.stale
  <2>1. f \notin Freshness.missing /\ f \notin Freshness.stale
    OBVIOUS
  <2>2. /\ Vouched(prints[f], source[f]) /\ Dated(empties[f], source[f])
    BY DEF ReadinessInv, TimesInv
  <2>3. Content(rows[f]) = Content(header.files[f])
    BY DEF Listed
  <2>4. ~(header.files[f] # None /\ header.files[f].stat = source[f].stat
          /\ header.files[f].content # source[f].content)
    BY DEF QuietlyChanged
  <2>5. Fingerprinted(f) => prints[f].content = source[f].content
    BY <2>2 DEF Vouched, Fingerprinted
  <2>6. rows[f] # None => /\ header.files[f] # None /\ rows[f].content = header.files[f].content
                          /\ LastKnown(f) = header.files[f]
    BY <2>3, ContentThere DEF ReadinessInv, LastKnown
  <2>7. f \notin Audit.stale
    BY <2>1, <2>4, <2>5, <2>6, AuditFields, FreshnessFields
  <2>8. SUFFICES ASSUME f \in Supported(source), rows[f] = None
                 PROVE  empties[f] # None /\ empties[f].content = source[f].content
    BY <2>7, AuditFields
  <2>9. header.files[f] = None /\ LastKnown(f) = empties[f] /\ empties[f] # None
    BY <2>1, <2>3, <2>8, ContentThere, FreshnessFields DEF ReadinessInv, LastKnown
  <2>10. empties[f].content = "blank"
    BY <2>9, ContentThere DEF ReadinessInv
  <2>11. CASE empties[f].stat = source[f].stat
    BY <2>2, <2>9, <2>10, <2>11 DEF Dated, AtMost, Texts
  <2>12. CASE Fingerprinted(f) /\ prints[f].content = empties[f].content
    BY <2>5, <2>9, <2>12
  <2> QED
    BY <2>1, <2>8, <2>9, <2>11, <2>12, FreshnessFields
<1> QED
  BY <1>1, AuditFields

LEMMA SnapshotIsTrue == ReadinessInv => SnapshotTrue
<1> SUFFICES ASSUME ReadinessInv, InTask("ended"), task.calm, task.by = "ingest"
             PROVE  ManifestReady <=> DeepReport.ready
  <2>1. ManifestReady \in BOOLEAN /\ DeepReport.ready \in BOOLEAN
    BY DEF ManifestReady, DeepReport, Judged
  <2> QED
    BY <2>1 DEF SnapshotTrue
<1>1. Written
  BY DEF ReadinessInv, EndedInv
<1>2. ManifestReady <=>
        Having(header.files) # {} /\ task.failed = {} /\ Having(empties) = {} /\ Oversized(source) = {}
  BY <1>1 DEF ManifestReady, Written
<1>3. Having(header.files) = Having(rows)
  BY <1>1, ContentThere DEF Written, Having, ReadinessInv
<1>4. ASSUME task.failed = {}, Having(empties) = {}
      PROVE  Audit.missing = {} /\ Audit.stale = {} /\ Audit.empty = {}
  <2>1. ASSUME NEW f \in Sources PROVE f \notin Audit.missing /\ f \notin Audit.stale /\ f \notin Audit.empty
    <3>1. header.files[f] = RecordNow(f, Texts) /\ empties[f] = RecordNow(f, {"blank"}) /\ empties[f] = None
      BY <1>1, <1>4 DEF Written, Having
    <3>2. Content(rows[f]) = Content(header.files[f])
      BY <1>1 DEF Written
    <3>3. source[f].stat \in Nat
      BY DEF ReadinessInv, ReadinessTypes, FileStates
    <3>4. source[f].content # "blank"
      BY <3>1, <3>3, NotNone DEF RecordNow, SourceRecords
    <3>5. source[f].content \in Texts => rows[f] # None /\ rows[f].content = source[f].content
      <4>1. source[f].content \in Texts =>
               header.files[f] # None /\ header.files[f].content = source[f].content
        BY <3>1, <3>3, NotNone DEF RecordNow, SourceRecords
      <4> QED
        BY <1>1, <3>2, <4>1, ContentThere DEF ReadinessInv, Written
    <3>6. source[f].content \notin Texts => rows[f] = None
      BY <3>1, <3>2, ContentThere, <1>1 DEF RecordNow, ReadinessInv, Written
    <3>7. f \in Supported(source) <=> source[f].content \in Texts
      BY <3>4 DEF Supported
    <3> QED
      BY <3>1, <3>5, <3>6, <3>7, AuditFields
  <2> QED
    BY <2>1, AuditFields
<1>5. ASSUME Audit.missing = {}, Audit.stale = {}, Audit.empty = {}
      PROVE  task.failed = {} /\ Having(empties) = {}
  <2>1. ASSUME NEW f \in Sources PROVE f \notin task.failed /\ (f \notin task.failed => empties[f] = None)
    <3>1. f \notin Audit.missing /\ f \notin Audit.stale /\ f \notin Audit.empty
      BY <1>5
    <3>2. ASSUME f \in task.failed PROVE FALSE
      <4>1. f \in Supported(source) /\ Differs(header.files[f], f) /\ Differs(empties[f], f)
        BY <1>1, <3>2 DEF Written
      <4>2. Content(rows[f]) = Content(header.files[f])
        BY <1>1 DEF Written
      <4>3. rows[f] # None => header.files[f] # None /\ header.files[f].content = rows[f].content
        BY <1>1, <4>2, ContentThere DEF ReadinessInv, Written
      <4> QED
        BY <3>1, <4>1, <4>3, AuditFields DEF Differs
    <3>3. ASSUME f \notin task.failed, empties[f] # None PROVE FALSE
      <4>1. empties[f] = RecordNow(f, {"blank"})
        BY <1>1, <3>3 DEF Written
      <4>2. empties[f].content = source[f].content /\ source[f].content = "blank"
        BY <3>3, <4>1 DEF RecordNow
      <4> QED
        BY <3>1, <3>3, <4>2, AuditFields DEF Supported
    <3> QED
      BY <3>2, <3>3
  <2>2. task.failed \subseteq Sources
    BY <1>1 DEF Written, Supported
  <2> QED
    BY <2>1, <2>2 DEF Having
<1>6. header # None /\ PolicyCurrent(conf)
  BY <1>1 DEF Written
<1> QED
  BY <1>2, <1>3, <1>4, <1>5, <1>6, DeepFields

LEMMA UpgradeDoesEnd == ReadinessInv => UpgradeEnds
<1> SUFFICES ASSUME ReadinessInv, InTask("ended"), task.by = "upgrade", task.calm, task.failed = {},
                    ~conf.extractors, Supported(source) # {}
             PROVE  /\ UpgradeStatus \notin {"index-required", "rebuild-required"}
                    /\ (Listed /\ Touched \cup header.health.empty \cup header.health.oversized = {}) =>
                          UpgradeStatus = "current"
  BY DEF UpgradeEnds
<1>1. Written \/ ~CanAutoIngest(DeepReport)
  BY DEF ReadinessInv, EndedInv
<1>2. ~CanAutoIngest(DeepReport) =>
         Having(rows) # {} /\ Audit.missing = {} /\ Audit.stale = {} /\ PolicyCurrent(conf) /\ LexicalCurrent
  BY DeepFields DEF CanAutoIngest
<1>3. header # None /\ PolicyCurrent(conf) /\ LexicalCurrent
  BY <1>1, <1>2 DEF Written, LexicalCurrent, PolicyCurrent
<1>4. ASSUME Listed, Touched \cup header.health.empty \cup header.health.oversized = {}
      PROVE  ManifestReport.operational
  <2>1. Having(header.files) = Having(rows)
    BY <1>3, <1>4, ContentThere DEF Listed, Having, ReadinessInv
  <2>2. ASSUME NEW f \in Sources
        PROVE  /\ f \in Supported(source) => /\ LastKnown(f) # None /\ LastKnown(f).content = source[f].content
                                             /\ Written => rows[f] # None
               /\ f \notin Supported(source) => header.files[f] = None
    <3>1. Content(rows[f]) = Content(header.files[f])
      BY <1>4 DEF Listed
    <3>2. rows[f] # None <=> header.files[f] # None
      BY <1>3, <3>1, ContentThere DEF ReadinessInv
    <3>3. rows[f] # None => rows[f].content = header.files[f].content
      BY <1>3, <3>1, ContentThere DEF ReadinessInv
    <3>4. CASE ~Written
      <4>1. f \notin Audit.missing /\ f \notin Audit.stale
        BY <1>1, <1>2, <3>4
      <4> QED
        BY <3>2, <3>3, <3>4, <4>1, AuditFields DEF LastKnown
    <3>5. CASE Written
      <4>1. header.files[f] = RecordNow(f, Texts) /\ empties[f] = RecordNow(f, {"blank"}) /\ empties[f] = None
        BY <1>4, <3>5 DEF Written, Having
      <4>2. source[f].stat \in Nat
        BY DEF ReadinessInv, ReadinessTypes, FileStates
      <4>3. source[f].content # "blank"
        BY <4>1, <4>2, NotNone DEF RecordNow, SourceRecords
      <4>4. source[f].content \in Texts =>
               header.files[f] # None /\ header.files[f].content = source[f].content
        BY <4>1, <4>2, NotNone DEF RecordNow, SourceRecords
      <4>5. source[f].content \notin Texts => header.files[f] = None
        BY <4>1 DEF RecordNow
      <4> QED
        BY <3>2, <4>3, <4>4, <4>5 DEF LastKnown, Supported
    <3> QED
      BY <3>4, <3>5
  <2>3. ASSUME NEW f \in Sources PROVE f \notin Freshness.missing /\ f \notin Freshness.stale
    <3>1. f \notin Touched
      BY <1>4
    <3>2. LastKnown(f) # None /\ LastKnown(f).content = source[f].content => LastKnown(f).stat = source[f].stat
      BY <3>1 DEF Touched, LastKnown
    <3> QED
      BY <2>2, <3>2, FreshnessFields
  <2>4. Having(rows) # {}
    <3>1. PICK f \in Sources : f \in Supported(source)
      BY DEF Supported
    <3> QED
      BY <1>1, <1>2, <2>2, <3>1 DEF Having
  <2> QED
    BY <1>3, <1>4, <2>1, <2>3, <2>4, ManifestFields, FreshnessFields
<1> QED
  BY <1>3, <1>4 DEF UpgradeStatus

LEMMA AdviceIsSound == AdviceSound
<1> SUFFICES ASSUME header # None \/ Having(rows) = {}
             PROVE  /\ CanAutoIngest(DeepReport) =>
                          NextActions(DeepReport) \cap {"doctor --fix", "ingest", "ingest --rebuild"} # {}
                    /\ ~DeepReport.ready => NextActions(DeepReport) # {}
  BY DEF AdviceSound
<1> DEFINE r == DeepReport
<1>1. DeepReport.oversized = Oversized(source)
  BY DEF DeepReport, Judged, Audit
<1>2. ASSUME r.supported # {}, r.chunks = {} \/ r.missing # {} \/ r.stale # {}
      PROVE  (IF r.warned THEN "ingest" ELSE "doctor --fix") \in NextActions(r)
  BY <1>2, DeepFields DEF NextActions
<1>3. ASSUME r.supported # {}, header # None, ~PolicyCurrent(conf) PROVE "ingest --rebuild" \in NextActions(r)
  BY <1>3, DeepFields DEF NextActions
<1>4. ASSUME r.supported # {}, PolicyCurrent(conf), ~LexicalCurrent PROVE "ingest" \in NextActions(r)
  BY <1>4, DeepFields DEF NextActions
<1>5. ASSUME CanAutoIngest(r)
      PROVE  NextActions(r) \cap {"doctor --fix", "ingest", "ingest --rebuild"} # {}
  <2>1. r.supported # {} /\ ~r.warned
    BY <1>5 DEF CanAutoIngest
  <2>2. CASE r.chunks = {} \/ r.missing # {} \/ r.stale # {}
    BY <1>2, <2>1, <2>2
  <2>3. CASE r.chunks # {} /\ (~PolicyCurrent(conf) \/ ~LexicalCurrent)
    BY <1>3, <1>4, <2>1, <2>3, DeepFields
  <2> QED
    BY <1>5, <2>2, <2>3 DEF CanAutoIngest
<1>6. ASSUME ~r.ready PROVE NextActions(r) # {}
  <2>1. CASE r.supported = {}
    <3>1. "add sources" \in NextActions(r)
      BY <2>1, DeepFields DEF NextActions
    <3> QED
      BY <3>1
  <2>2. CASE r.supported # {} /\ (r.chunks = {} \/ r.missing # {} \/ r.stale # {})
    BY <1>2, <2>2
  <2>3. CASE r.supported # {} /\ r.chunks # {} /\ ~PolicyCurrent(conf)
    BY <1>3, <2>3, DeepFields
  <2>4. CASE r.supported # {} /\ r.empty # {}
    <3>1. "add text" \in NextActions(r)
      BY <2>4, DeepFields DEF NextActions
    <3> QED
      BY <3>1
  <2>5. CASE r.supported # {} /\ r.oversized # {}
    <3>1. "split files" \in NextActions(r)
      BY <2>5, DeepFields DEF NextActions
    <3> QED
      BY <3>1
  <2> QED
    BY <1>1, <1>6, <2>1, <2>2, <2>3, <2>4, <2>5, DeepFields
<1> QED
  BY <1>5, <1>6

\* After an undisturbed upgrade nothing is left for another to do; no command ingests with external
\* extractors by itself; what doctor --deep calls ready has the text of every file, of the present
\* policy where the manifest counts any; its fast mode agrees with the audit; the snapshot of an
\* undisturbed ingestion is true; and what is not ready has advice.
THEOREM ReadinessIsSound == ReadinessSpec => []ReadinessSound
<1>1. ReadinessInv => ReadinessSound
  BY Consented, ReadyIsTrue, DoctorsDoAgree, SnapshotIsTrue, UpgradeDoesEnd, AdviceIsSound DEF ReadinessSound
<1> QED
  BY <1>1, Reports, PTL

-----------------------------------------------------------------------------
(* The settings: the inductive invariant.                                   *)

Steady == {"idle", "refused", "init", "initialize", "locate"}
ChangeRecords ==
    [does : {"nothing", "add", "enable", "migrate"}, fetched : Models \cup {None},
     at : Steady \cup {"enqueue", "queued", "mutate", "write", "done", "failed"},
     entry : SourceEntries \cup {None}, file : ConfigFiles \cup {None}, read : SettingKeys \cup {None}]

\* A call has its entry, its file and what it read from the step on that gives it them.
Formed(op) ==
    /\ op.does = "nothing" => op.at = "idle"
    /\ op.does = "add" => op.entry \in SourceEntries
    /\ op.at \notin Steady => op.file \in ConfigFiles
    /\ op.at \in {"mutate", "write"} \/ (op.at = "done" /\ op.does = "migrate") => op.read \in SettingKeys
    /\ op.at = "write" => op.does = "migrate"
ConfigTypes ==
    /\ settings \in [ConfigFiles -> SettingKeys \cup {None}]
    /\ writes \in [ConfigFiles -> Seq(Changes)]
    /\ change \in [Changes -> ChangeRecords] /\ \A c \in Changes : Formed(change[c])
    /\ granted \subseteq Changes /\ \A c \in granted : change[c].at = "done" /\ change[c].file \in ConfigFiles
    /\ tweaks \in Nat

Holds(c) == change[c].at \in {"mutate", "write"}
Queued(c) ==
    change[c].at = "queued" \/ Holds(c) =>
        \E n \in 1 .. Len(writes[change[c].file]) : writes[change[c].file][n] = c
Leads(c) == Holds(c) => Head(writes[change[c].file]) = c

\* What calls have reported of the file was written over since, or nothing was.
Untold(file) == \A c \in granted \ undone : change[c].file # file
Migrated(file) == \E c \in Changes : Is(c, "migrate", "done") /\ change[c].file = file

\* A call that writes has read what is there, or what was there before the defaults were written.
Current(c) ==
    Holds(c) => \/ change[c].read = Keys(change[c].file)
                \/ /\ settings[change[c].file] = InitialConfig /\ Untold(change[c].file)
                   /\ change[c].read.retired # None => ~Migrated(change[c].file)
Saved(c) ==
    Is(c, "migrate", "write") \/ (Is(c, "migrate", "done") /\ RetiredConfigKeys(change[c].read)) =>
        <<change[c].file, change[c].read.retired>> \in backups

ConfigInv ==
    /\ ConfigTypes
    /\ \A c \in Changes : Queued(c) /\ Leads(c) /\ Current(c) /\ Saved(c)
    /\ KeptUnlessReset /\ UpgradeMigrates

-----------------------------------------------------------------------------
(* Facts about keys and queues.                                             *)

LEMMA SettingTypes ==
  /\ NoSettings \in SettingKeys /\ InitialConfig \in SettingKeys
  /\ \A keys \in SettingKeys : keys # None
  /\ \A keys \in SettingKeys : Entries(keys) \subseteq SourceEntries /\ Model(keys) \in Models
  /\ Entries(NoSettings) = {} /\ Entries(InitialConfig) = {}
  /\ NoSettings.retired = None /\ InitialConfig.retired = None
<1>1. NoSettings \in SettingKeys /\ InitialConfig \in SettingKeys
  <2>1. {} \in SUBSET SourceEntries /\ "default" \in Models
    BY DEF Models
  <2>2. NoSettings \in SettingKeys
    BY DEF NoSettings, SettingKeys
  <2> QED
    BY <2>1, <2>2 DEF InitialConfig, SettingKeys
<1>2. ASSUME NEW keys \in SettingKeys PROVE Entries(keys) \subseteq SourceEntries /\ Model(keys) \in Models
  <2>1. keys.sources \in (SUBSET SourceEntries) \cup {None} /\ keys.model \in Models \cup {None}
    BY DEF SettingKeys
  <2>2. Entries(keys) \subseteq SourceEntries
    BY <2>1 DEF Entries
  <2>3. Model(keys) \in Models
    BY <2>1 DEF Model, Models
  <2> QED
    BY <2>2, <2>3
<1>3. Entries(NoSettings) = {} /\ Entries(InitialConfig) = {}
  BY ConfigAssumption DEF NoSettings, InitialConfig, Entries
<1> QED
  BY <1>1, <1>2, <1>3, ConfigAssumption DEF NoSettings, InitialConfig

LEMMA KeysTyped ==
  ASSUME ConfigTypes, NEW file \in ConfigFiles
  PROVE  Keys(file) \in SettingKeys
  BY SettingTypes DEF ConfigTypes, Keys

\* What a call writes: it keeps the entries and the retired setting, or drops the latter.
LEMMA MutatedKeys ==
  ASSUME NEW op \in ChangeRecords, Formed(op), op.at \in {"mutate", "write"}
  PROVE  /\ Mutated(op) \in SettingKeys
         /\ Entries(op.read) \subseteq Entries(Mutated(op))
         /\ op.does = "add" => op.entry \in Entries(Mutated(op))
         /\ op.does = "enable" => Mutated(op).provider = "transformers"
         /\ op.does # "enable" => Mutated(op).provider = op.read.provider
         /\ op.does # "migrate" => Mutated(op).retired = op.read.retired
         /\ op.does = "migrate" => Mutated(op).retired = None
<1>1. PICK r : r = op.read
  OBVIOUS
<1>2. r \in SettingKeys /\ Model(r) \in Models /\ Entries(r) \subseteq SourceEntries
  BY <1>1, SettingTypes DEF Formed
<1>3. CASE op.does = "add"
  <2>1. Mutated(op) = [r EXCEPT !.sources = Entries(r) \cup {op.entry}]
    BY <1>1, <1>3 DEF Mutated
  <2>2. Entries(r) \cup {op.entry} \in SUBSET SourceEntries
    BY <1>2, <1>3 DEF Formed
  <2>3. PICK w : w = Mutated(op)
    OBVIOUS
  <2>4. w \in SettingKeys /\ w.sources = Entries(r) \cup {op.entry} /\ w.provider = r.provider /\ w.retired = r.retired
    BY <1>2, <2>1, <2>2, <2>3 DEF SettingKeys
  <2>5. Entries(w) = Entries(r) \cup {op.entry}
    BY <2>2, <2>4, ConfigAssumption DEF Entries
  <2> QED
    BY <1>1, <1>3, <2>3, <2>4, <2>5
<1>4. CASE op.does = "enable"
  <2>1. Mutated(op) = [r EXCEPT !.provider = "transformers", !.model = Model(r),
                                !.digest = IF op.fetched # None THEN op.fetched ELSE @]
    BY <1>1, <1>4 DEF Mutated
  <2>2. PICK w : w = Mutated(op)
    OBVIOUS
  <2>3. w \in SettingKeys /\ w.provider = "transformers" /\ w.sources = r.sources /\ w.retired = r.retired
    BY <1>2, <2>1, <2>2 DEF SettingKeys, ChangeRecords
  <2> QED
    BY <1>1, <1>4, <2>2, <2>3 DEF Entries
<1>5. CASE op.does = "migrate"
  <2>1. Mutated(op) = [r EXCEPT !.retired = None]
    BY <1>1, <1>5 DEF Mutated
  <2>2. PICK w : w = Mutated(op)
    OBVIOUS
  <2>3. w \in SettingKeys /\ w.provider = r.provider /\ w.sources = r.sources /\ w.retired = None
    BY <1>2, <2>1, <2>2 DEF SettingKeys
  <2> QED
    BY <1>1, <1>5, <2>2, <2>3 DEF Entries
<1> QED
  BY <1>3, <1>4, <1>5 DEF Formed, ChangeRecords

\* A step of a call changes where it is.
LEMMA CallStep ==
  ASSUME ConfigTypes, NEW c \in Changes, NEW op \in ChangeRecords, Formed(op), Becomes(c, op)
  PROVE  /\ change' \in [Changes -> ChangeRecords] /\ change'[c] = op
         /\ \A d \in Changes : d # c => change'[d] = change[d]
         /\ \A d \in Changes : Formed(change'[d])
<1>1. change' = [change EXCEPT ![c] = op] /\ change \in [Changes -> ChangeRecords]
  BY DEF Becomes, ConfigTypes
<1> QED
  BY <1>1 DEF ConfigTypes

-----------------------------------------------------------------------------
(* The queues.                                                              *)

InQueue(at) == at \in {"queued", "mutate", "write"}

\* Who leads a queue is in it.
LEMMA InTheQueue ==
  ASSUME ConfigInv, NEW c \in Changes, InQueue(change[c].at)
  PROVE  /\ change[c].file \in ConfigFiles /\ Len(writes[change[c].file]) \in Nat \ {0}
         /\ Head(writes[change[c].file]) = writes[change[c].file][1]
<1>1. change[c].file \in ConfigFiles
  BY DEF ConfigInv, ConfigTypes, Formed, InQueue, Steady
<1>2. writes[change[c].file] \in Seq(Changes) /\ Len(writes[change[c].file]) \in Nat
  BY <1>1 DEF ConfigInv, ConfigTypes
<1>3. PICK n \in 1 .. Len(writes[change[c].file]) : writes[change[c].file][n] = c
  BY DEF ConfigInv, Queued, InQueue, Holds
<1>4. Len(writes[change[c].file]) # 0
  BY <1>2, <1>3
<1> QED
  BY <1>1, <1>2, <1>4

\* A step that leaves the queues alone.
LEMMA QueueKept ==
  ASSUME ConfigInv, NEW c \in Changes, NEW op \in ChangeRecords, Formed(op), Becomes(c, op), UNCHANGED writes,
         InQueue(op.at) => InQueue(change[c].at) /\ op.file = change[c].file,
         op.at \in {"mutate", "write"} => Head(writes[op.file]) = c
  PROVE  \A d \in Changes : (Queued(d) /\ Leads(d))'
<1> SUFFICES ASSUME NEW d \in Changes PROVE (Queued(d) /\ Leads(d))'
  OBVIOUS
<1>1. /\ change'[c] = op /\ (d # c => change'[d] = change[d])
      /\ Queued(d) /\ Leads(d) /\ Queued(c)
  BY CallStep DEF ConfigInv
<1>2. CASE d = c
  BY <1>1, <1>2 DEF Queued, Leads, Holds, InQueue
<1>3. CASE d # c
  BY <1>1, <1>3 DEF Queued, Leads, Holds
<1> QED
  BY <1>2, <1>3

\* A call goes behind those that wait.
LEMMA QueueJoined ==
  ASSUME ConfigInv, NEW c \in Changes, NEW op \in ChangeRecords, Formed(op), Becomes(c, op),
         op.at = "queued", writes' = [writes EXCEPT ![op.file] = Append(@, c)]
  PROVE  \A d \in Changes : (Queued(d) /\ Leads(d))'
<1>0. op.file \in ConfigFiles /\ writes \in [ConfigFiles -> Seq(Changes)]
  BY DEF Formed, Steady, ConfigInv, ConfigTypes
<1>1. writes'[op.file] = Append(writes[op.file], c) /\ writes[op.file] \in Seq(Changes)
  BY <1>0
<1>2. /\ Len(writes'[op.file]) = Len(writes[op.file]) + 1 /\ Len(writes[op.file]) \in Nat
      /\ \A n \in 1 .. Len(writes[op.file]) : writes'[op.file][n] = writes[op.file][n]
      /\ writes'[op.file][Len(writes[op.file]) + 1] = c
  BY <1>1
<1> SUFFICES ASSUME NEW d \in Changes PROVE (Queued(d) /\ Leads(d))'
  OBVIOUS
<1>3. /\ change'[c] = op /\ (d # c => change'[d] = change[d]) /\ Queued(d) /\ Leads(d)
  BY CallStep DEF ConfigInv
<1>4. CASE d = c
  BY <1>2, <1>3, <1>4 DEF Queued, Leads, Holds
<1>5. CASE d # c /\ InQueue(change[d].at) /\ change[d].file = op.file
  <2>1. Len(writes[op.file]) \in Nat \ {0} /\ Head(writes[op.file]) = writes[op.file][1]
    BY <1>5, InTheQueue
  <2>2. writes'[op.file] \in Seq(Changes) /\ Head(writes'[op.file]) = writes'[op.file][1]
    BY <1>1, <1>2, <2>1
  <2>3. Head(writes'[op.file]) = Head(writes[op.file])
    BY <1>2, <2>1, <2>2
  <2>4. PICK n \in 1 .. Len(writes[op.file]) : writes[op.file][n] = d
    BY <1>3, <1>5 DEF Queued, InQueue, Holds
  <2>5. n \in 1 .. Len(writes'[op.file]) /\ writes'[op.file][n] = d
    BY <1>2, <2>4
  <2> QED
    BY <1>3, <1>5, <2>3, <2>5 DEF Queued, Leads, Holds
<1>6. CASE d # c /\ InQueue(change[d].at) /\ change[d].file # op.file
  <2>1. writes'[change[d].file] = writes[change[d].file]
    BY <1>0, <1>6, InTheQueue
  <2> QED
    BY <1>3, <1>6, <2>1 DEF Queued, Leads, Holds
<1>7. CASE d # c /\ ~InQueue(change[d].at)
  BY <1>3, <1>7 DEF Queued, Leads, Holds, InQueue
<1> QED
  BY <1>4, <1>5, <1>6, <1>7

\* The one whose turn it is leaves its queue, and nobody else held the file.
LEMMA QueueLeft ==
  ASSUME ConfigInv, NEW c \in Changes, NEW op \in ChangeRecords, Formed(op), Becomes(c, op),
         op.at \in {"done", "failed"}, InQueue(change[c].at), Head(writes[change[c].file]) = c,
         writes' = [writes EXCEPT ![change[c].file] = Tail(@)]
  PROVE  /\ \A d \in Changes : (Queued(d) /\ Leads(d))'
         /\ writes' \in [ConfigFiles -> Seq(Changes)]
         /\ \A d \in Changes : d # c /\ Holds(d) => change[d].file # change[c].file
<1> DEFINE f == change[c].file
<1>1. /\ f \in ConfigFiles /\ Len(writes[f]) \in Nat \ {0} /\ Head(writes[f]) = writes[f][1]
      /\ writes[f] \in Seq(Changes) /\ writes \in [ConfigFiles -> Seq(Changes)]
  BY InTheQueue DEF ConfigInv, ConfigTypes
<1>2. /\ writes'[f] = Tail(writes[f]) /\ Tail(writes[f]) \in Seq(Changes) /\ Len(writes'[f]) = Len(writes[f]) - 1
      /\ \A n \in 1 .. Len(writes[f]) - 1 : writes'[f][n] = writes[f][n + 1]
  BY <1>1
<1>3. \A d \in Changes : d # c /\ Holds(d) => change[d].file # f
  BY DEF ConfigInv, Leads
<1> SUFFICES ASSUME NEW d \in Changes PROVE (Queued(d) /\ Leads(d))'
  BY <1>1, <1>2, <1>3
<1>4. /\ change'[c] = op /\ (d # c => change'[d] = change[d]) /\ Queued(d) /\ Leads(d)
  BY CallStep DEF ConfigInv
<1>5. CASE d = c
  BY <1>4, <1>5 DEF Queued, Leads, Holds
<1>6. CASE d # c /\ InQueue(change[d].at) /\ change[d].file = f
  <2>1. PICK n \in 1 .. Len(writes[f]) : writes[f][n] = d
    BY <1>4, <1>6 DEF Queued, InQueue, Holds
  <2>2. n # 1
    BY <1>1, <1>6, <2>1
  <2>3. n - 1 \in 1 .. Len(writes[f]) - 1 /\ (n - 1) + 1 = n
    BY <1>1, <2>1, <2>2
  <2>4. n - 1 \in 1 .. Len(writes'[f]) /\ writes'[f][n - 1] = d
    BY <1>2, <2>1, <2>3
  <2> QED
    BY <1>3, <1>4, <1>6, <2>4 DEF Queued, Leads, Holds
<1>7. CASE d # c /\ InQueue(change[d].at) /\ change[d].file # f
  <2>1. writes'[change[d].file] = writes[change[d].file]
    BY <1>1, <1>7, InTheQueue
  <2> QED
    BY <1>4, <1>7, <2>1 DEF Queued, Leads, Holds
<1>8. CASE d # c /\ ~InQueue(change[d].at)
  BY <1>4, <1>8 DEF Queued, Leads, Holds, InQueue
<1> QED
  BY <1>5, <1>6, <1>7, <1>8

\* A step of a call that changes no settings.
LEMMA QuietStep ==
  ASSUME ConfigInv, NEW c \in Changes, NEW op \in ChangeRecords, Formed(op), Becomes(c, op), c \notin granted,
         UNCHANGED <<settings, granted, undone, tweaks>>, backups \subseteq backups',
         writes' \in [ConfigFiles -> Seq(Changes)], \A d \in Changes : (Queued(d) /\ Leads(d))',
         Current(c)', Saved(c)',
         op.does = "migrate" /\ op.at = "done" =>
            /\ ~RetiredConfigKeys(Keys(op.file)) /\ \A d \in Changes : d # c /\ Holds(d) => change[d].file # op.file
  PROVE  ConfigInv'
<1>1. /\ change' \in [Changes -> ChangeRecords] /\ change'[c] = op
      /\ \A d \in Changes : d # c => change'[d] = change[d]
      /\ \A d \in Changes : Formed(change'[d])
  BY CallStep DEF ConfigInv
<1>2. \A d \in granted : d \in Changes /\ change'[d] = change[d]
  BY <1>1 DEF ConfigInv, ConfigTypes
<1>3. ConfigTypes'
  BY <1>1, <1>2 DEF ConfigInv, ConfigTypes
<1>4. \A file : Untold(file) => Untold(file)'
  BY <1>2 DEF Untold
<1>5. \A file : Keys(file)' = Keys(file)
  BY DEF Keys
<1>6. ASSUME NEW d \in Changes PROVE Current(d)' /\ Saved(d)'
  <2>1. Current(d) /\ Saved(d)
    BY DEF ConfigInv
  <2>2. CASE d # c
    <3>1. Holds(d) /\ ~Migrated(change[d].file) => ~Migrated(change[d].file)'
      BY <1>1, <2>2 DEF Migrated, Is
    <3> QED
      BY <1>1, <1>4, <1>5, <2>1, <2>2, <3>1 DEF Current, Saved, Holds, Is
  <2> QED
    BY <2>2
<1>7. KeptUnlessReset'
  BY <1>2 DEF ConfigInv, KeptUnlessReset, Made
<1>8. UpgradeMigrates'
  BY <1>1, <1>5 DEF ConfigInv, UpgradeMigrates, Is
<1> QED
  BY <1>3, <1>6, <1>7, <1>8 DEF ConfigInv

-----------------------------------------------------------------------------
(* The steps.                                                               *)

\* A call that has not joined a queue.
LEMMA EarlyStep ==
  ASSUME ConfigInv, NEW c \in Changes, NEW op \in ChangeRecords, Formed(op), Becomes(c, op),
         change[c].at \in Steady \cup {"enqueue"}, op.at \in Steady \cup {"enqueue"},
         UNCHANGED <<settings, writes, backups, granted, undone, tweaks>>
  PROVE  ConfigInv'
<1>1. change'[c] = op
  BY CallStep DEF ConfigInv
<1>2. \A d \in Changes : (Queued(d) /\ Leads(d))'
  BY QueueKept DEF InQueue, Steady
<1>3. Current(c)' /\ Saved(c)'
  BY <1>1 DEF Current, Saved, Holds, Is, Steady
<1>4. writes' \in [ConfigFiles -> Seq(Changes)]
  BY DEF ConfigInv, ConfigTypes
<1>5. c \notin granted
  BY DEF ConfigInv, ConfigTypes, Steady
<1> QED
  BY <1>2, <1>3, <1>4, <1>5, QuietStep DEF Steady

LEMMA BeginSteps ==
  ASSUME ConfigInv, NEW c \in Changes, NEW entry \in SourceEntries, NEW fetched \in BOOLEAN,
         AddSourceEntries(c, entry) \/ EnableSemanticEmbeddings(c, fetched) \/ MigrateRetiredConfig(c)
  PROVE  ConfigInv'
<1>0. UNCHANGED <<settings, writes, backups, granted, undone, tweaks>> /\ change[c].at = "idle"
  BY DEF NoChange, AddSourceEntries, EnableSemanticEmbeddings, MigrateRetiredConfig
<1>1. CASE AddSourceEntries(c, entry)
  <2>1. PICK at \in {"locate", "refused"} :
           Becomes(c, [NoChange EXCEPT !.does = "add", !.at = at, !.entry = entry])
    BY <1>1 DEF AddSourceEntries
  <2>2. PICK op : op = [NoChange EXCEPT !.does = "add", !.at = at, !.entry = entry]
    OBVIOUS
  <2>3. op \in ChangeRecords /\ Formed(op) /\ op.at = at
    BY <2>2 DEF NoChange, ChangeRecords, Formed, Steady
  <2> QED
    BY <1>0, <2>1, <2>2, <2>3, EarlyStep DEF Steady
<1>2. CASE EnableSemanticEmbeddings(c, fetched)
  <2>1. Model(Merged) \in Models
    <3>1. Keys(LocalFile) \in SettingKeys /\ Keys(SharedFile) \in SettingKeys
      BY KeysTyped DEF ConfigInv, ConfigFiles
    <3>2. Keys(LocalFile).model \in Models \cup {None} /\ Keys(SharedFile).model \in Models \cup {None}
      BY <3>1 DEF SettingKeys
    <3>3. "model" \in DOMAIN NoSettings
      BY DEF NoSettings
    <3>4. Merged.model \in {Keys(LocalFile).model, Keys(SharedFile).model}
      BY <3>3 DEF Merged
    <3> QED
      BY <3>2, <3>4 DEF Model, Models
  <2>2. PICK at \in {"refused", "init"}, model \in Models \cup {None} :
           Becomes(c, [NoChange EXCEPT !.does = "enable", !.at = at, !.fetched = model])
    BY <1>2, <2>1 DEF EnableSemanticEmbeddings
  <2>3. PICK op : op = [NoChange EXCEPT !.does = "enable", !.at = at, !.fetched = model]
    OBVIOUS
  <2>4. op \in ChangeRecords /\ Formed(op) /\ op.at = at
    BY <2>3 DEF NoChange, ChangeRecords, Formed, Steady
  <2> QED
    BY <1>0, <2>2, <2>3, <2>4, EarlyStep DEF Steady
<1>3. CASE MigrateRetiredConfig(c)
  <2>1. PICK op : op = [NoChange EXCEPT !.does = "migrate", !.at = "locate"]
    OBVIOUS
  <2>2. op \in ChangeRecords /\ Formed(op) /\ op.at = "locate"
    BY <2>1 DEF NoChange, ChangeRecords, Formed, Steady
  <2> QED
    BY <1>0, <1>3, <2>1, <2>2, EarlyStep DEF MigrateRetiredConfig, Steady
<1> QED
  BY <1>1, <1>2, <1>3

LEMMA LocateStep ==
  ASSUME ConfigInv, NEW c \in Changes, Locate(c)
  PROVE  ConfigInv'
<1>1. PICK op : op = [change[c] EXCEPT !.at = "enqueue", !.file = ConfigPath]
  OBVIOUS
<1>2. ConfigPath \in ConfigFiles
  BY DEF ConfigPath, ConfigFiles
<1>3. op \in ChangeRecords /\ op.at = "enqueue" /\ op.file \in ConfigFiles /\ op.does = change[c].does
      /\ op.entry = change[c].entry
  BY <1>1, <1>2 DEF ConfigInv, ConfigTypes, ChangeRecords
<1>4. Formed(op)
  BY <1>3 DEF Locate, ConfigInv, ConfigTypes, Formed, Steady
<1> QED
  BY <1>1, <1>3, <1>4, EarlyStep DEF Locate, Steady

LEMMA EnqueueStep ==
  ASSUME ConfigInv, NEW c \in Changes, Enqueue(c)
  PROVE  ConfigInv'
<1>1. PICK op : op = [change[c] EXCEPT !.at = "queued"]
  OBVIOUS
<1>2. /\ op \in ChangeRecords /\ op.at = "queued" /\ op.file = change[c].file /\ op.does = change[c].does
      /\ op.entry = change[c].entry
  BY <1>1 DEF ConfigInv, ConfigTypes, ChangeRecords
<1>3. Formed(op) /\ op.file \in ConfigFiles
  BY <1>2 DEF Enqueue, ConfigInv, ConfigTypes, Formed, Steady
<1>4. Becomes(c, op) /\ writes' = [writes EXCEPT ![op.file] = Append(@, c)]
  BY <1>1, <1>2 DEF Enqueue, Steps
<1>5. \A d \in Changes : (Queued(d) /\ Leads(d))'
  BY <1>2, <1>3, <1>4, QueueJoined
<1>6. writes' \in [ConfigFiles -> Seq(Changes)]
  BY <1>3, <1>4 DEF ConfigInv, ConfigTypes
<1>7. Current(c)' /\ Saved(c)'
  <2>1. change'[c].at = "queued"
    BY <1>2, <1>3, <1>4, CallStep DEF ConfigInv
  <2> QED
    BY <2>1 DEF Current, Saved, Holds, Is
<1>8. c \notin granted
  BY DEF Enqueue, ConfigInv, ConfigTypes
<1> QED
  BY <1>2, <1>3, <1>4, <1>5, <1>6, <1>7, <1>8, QuietStep DEF Enqueue

LEMMA ReadStep ==
  ASSUME ConfigInv, NEW c \in Changes, ReadSettings(c)
  PROVE  ConfigInv'
<1>1. PICK op : op = [change[c] EXCEPT !.at = "mutate", !.read = Keys(change[c].file)]
  OBVIOUS
<1>2. change[c].at = "queued" /\ Head(writes[change[c].file]) = c /\ change[c].file \in ConfigFiles
  BY InTheQueue DEF ReadSettings, Turned, InQueue
<1>3. Keys(change[c].file) \in SettingKeys
  BY <1>2, KeysTyped DEF ConfigInv
<1>4. /\ op \in ChangeRecords /\ op.at = "mutate" /\ op.file = change[c].file /\ op.does = change[c].does
      /\ op.entry = change[c].entry /\ op.read = Keys(change[c].file)
  BY <1>1, <1>3 DEF ConfigInv, ConfigTypes, ChangeRecords
<1>5. Formed(op)
  BY <1>2, <1>3, <1>4 DEF ConfigInv, ConfigTypes, Formed
<1>6. Becomes(c, op) /\ UNCHANGED <<settings, writes, backups, granted, undone, tweaks>> /\ c \notin granted
  BY <1>1, <1>2 DEF ReadSettings, ConfigInv, ConfigTypes
<1>7. \A d \in Changes : (Queued(d) /\ Leads(d))'
  BY <1>2, <1>4, <1>5, <1>6, QueueKept DEF InQueue
<1>8. Current(c)' /\ Saved(c)'
  <2>1. change'[c] = op
    BY <1>4, <1>5, <1>6, CallStep DEF ConfigInv
  <2> QED
    BY <1>4, <1>6, <2>1 DEF Current, Saved, Is, Keys
<1> QED
  BY <1>4, <1>5, <1>6, <1>7, <1>8, QuietStep DEF ConfigInv, ConfigTypes

\* A call that leaves has its old fields.
LEMMA Leaves ==
  ASSUME ConfigInv, NEW c \in Changes, NEW at \in {"done", "failed"}, Leave(c, at),
         InQueue(change[c].at), Head(writes[change[c].file]) = c, at = "done" => Holds(c)
  PROVE  \E op \in ChangeRecords :
            /\ Formed(op) /\ Becomes(c, op) /\ op.at = at
            /\ op.does = change[c].does /\ op.file = change[c].file /\ op.read = change[c].read
            /\ op.entry = change[c].entry
            /\ \A d \in Changes : (Queued(d) /\ Leads(d))'
            /\ writes' \in [ConfigFiles -> Seq(Changes)]
            /\ \A d \in Changes : d # c /\ Holds(d) => change[d].file # change[c].file
<1>1. PICK op : op = [change[c] EXCEPT !.at = at]
  OBVIOUS
<1>2. /\ op \in ChangeRecords /\ op.at = at /\ op.file = change[c].file /\ op.does = change[c].does
      /\ op.entry = change[c].entry /\ op.read = change[c].read
  BY <1>1 DEF ConfigInv, ConfigTypes, ChangeRecords
<1>3. Formed(op)
  BY <1>2, InTheQueue DEF ConfigInv, ConfigTypes, Formed, Holds, InQueue
<1>4. Becomes(c, op) /\ writes' = [writes EXCEPT ![change[c].file] = Tail(@)]
  BY <1>1 DEF Leave, Steps
<1> QED
  BY <1>2, <1>3, <1>4, QueueLeft

LEMMA SkipStep ==
  ASSUME ConfigInv, NEW c \in Changes, Skip(c)
  PROVE  ConfigInv'
<1>1. /\ Holds(c) /\ Head(writes[change[c].file]) = c /\ InQueue(change[c].at)
      /\ NothingToChange(change[c]) /\ Leave(c, "done")
  BY DEF Skip, Holds, ConfigInv, Leads, InQueue
<1>2. PICK op \in ChangeRecords :
         /\ Formed(op) /\ Becomes(c, op) /\ op.at = "done"
         /\ op.does = change[c].does /\ op.file = change[c].file /\ op.read = change[c].read
         /\ \A d \in Changes : (Queued(d) /\ Leads(d))'
         /\ writes' \in [ConfigFiles -> Seq(Changes)]
         /\ \A d \in Changes : d # c /\ Holds(d) => change[d].file # change[c].file
  BY <1>1, Leaves
<1>3. op.does # "enable" /\ c \notin granted /\ (op.does = "migrate" => ~RetiredConfigKeys(op.read))
  BY <1>1, <1>2 DEF NothingToChange, Holds, ConfigInv, ConfigTypes
<1>4. op.does = "migrate" => ~RetiredConfigKeys(Keys(op.file))
  <2>1. Current(c) /\ op.file \in ConfigFiles
    BY <1>1, <1>2, InTheQueue DEF ConfigInv
  <2>2. settings[op.file] = InitialConfig => Keys(op.file).retired = None
    BY SettingTypes DEF Keys
  <2> QED
    BY <1>1, <1>2, <1>3, <2>1, <2>2 DEF Current, RetiredConfigKeys
<1>5. Current(c)' /\ Saved(c)'
  <2>1. change'[c] = op
    BY <1>2, CallStep DEF ConfigInv
  <2> QED
    BY <1>2, <1>3, <2>1 DEF Current, Saved, Is, Holds
<1> QED
  BY <1>2, <1>3, <1>4, <1>5, QuietStep DEF Skip

LEMMA FailStep ==
  ASSUME ConfigInv, NEW c \in Changes, ChangeFails(c)
  PROVE  ConfigInv'
<1>1. Head(writes[change[c].file]) = c /\ InQueue(change[c].at) /\ Leave(c, "failed")
  BY DEF ChangeFails, Turned, Holds, ConfigInv, Leads, InQueue
<1>2. PICK op \in ChangeRecords :
         /\ Formed(op) /\ Becomes(c, op) /\ op.at = "failed"
         /\ \A d \in Changes : (Queued(d) /\ Leads(d))'
         /\ writes' \in [ConfigFiles -> Seq(Changes)]
  BY <1>1, Leaves
<1>3. Current(c)' /\ Saved(c)' /\ c \notin granted
  <2>1. change'[c] = op
    BY <1>2, CallStep DEF ConfigInv
  <2> QED
    BY <1>1, <1>2, <2>1 DEF Current, Saved, Is, Holds, InQueue, ConfigInv, ConfigTypes
<1> QED
  BY <1>2, <1>3, QuietStep DEF ChangeFails

LEMMA BackUpStep ==
  ASSUME ConfigInv, NEW c \in Changes, BackUp(c)
  PROVE  ConfigInv'
<1>1. PICK op : op = [change[c] EXCEPT !.at = "write"]
  OBVIOUS
<1>2. change[c].at = "mutate" /\ change[c].does = "migrate" /\ Head(writes[change[c].file]) = c
  BY DEF BackUp, Is, ConfigInv, Leads, Holds
<1>3. /\ op \in ChangeRecords /\ op.at = "write" /\ op.file = change[c].file /\ op.does = "migrate"
      /\ op.read = change[c].read
  BY <1>1, <1>2 DEF ConfigInv, ConfigTypes, ChangeRecords
<1>4. Formed(op)
  BY <1>2, <1>3 DEF ConfigInv, ConfigTypes, Formed, Steady
<1>5. Becomes(c, op) /\ UNCHANGED <<settings, writes, granted, undone, tweaks>>
      /\ backups' = backups \cup {<<op.file, op.read.retired>>}
  BY <1>1, <1>3 DEF BackUp, Steps
<1>6. \A d \in Changes : (Queued(d) /\ Leads(d))'
  BY <1>2, <1>3, <1>4, <1>5, QueueKept DEF InQueue
<1>7. Current(c)' /\ Saved(c)'
  <2>1. change'[c] = op /\ \A d \in Changes : d # c => change'[d] = change[d]
    BY <1>3, <1>4, <1>5, CallStep DEF ConfigInv
  <2>2. Current(c) /\ Holds(c)
    BY <1>2 DEF ConfigInv, Holds
  <2>3. (Untold(op.file) => Untold(op.file)') /\ (~Migrated(op.file) => ~Migrated(op.file)')
    <3>1. \A d \in granted : change'[d] = change[d]
      BY <1>2, <2>1 DEF ConfigInv, ConfigTypes
    <3> QED
      BY <1>3, <1>5, <2>1, <3>1 DEF Untold, Migrated, Is
  <2>4. Keys(op.file)' = Keys(op.file)
    BY <1>5 DEF Keys
  <2> QED
    BY <1>3, <1>5, <2>1, <2>2, <2>3, <2>4 DEF Current, Saved, Is, Holds
<1> QED
  BY <1>2, <1>3, <1>4, <1>5, <1>6, <1>7, QuietStep DEF ConfigInv, ConfigTypes

LEMMA CheckConfigStep ==
  ASSUME ConfigInv, NEW c \in Changes, CheckConfig(c)
  PROVE  ConfigInv'
<1>1. PICK at \in {"initialize", "locate"} : Steps(c, at)
  BY DEF CheckConfig
<1>2. PICK op : op = [change[c] EXCEPT !.at = at]
  OBVIOUS
<1>3. op \in ChangeRecords /\ op.at = at /\ op.does = change[c].does /\ op.entry = change[c].entry
  BY <1>2 DEF ConfigInv, ConfigTypes, ChangeRecords, Steady
<1>4. Formed(op)
  BY <1>3 DEF CheckConfig, Is, ConfigInv, ConfigTypes, Formed, Steady
<1>5. Becomes(c, op)
  BY <1>1, <1>2 DEF Steps
<1>6. change[c].at \in Steady /\ op.at \in Steady
  BY <1>1, <1>3 DEF CheckConfig, Is, Steady
<1>7. UNCHANGED <<settings, writes, backups, granted, undone, tweaks>>
  BY DEF CheckConfig
<1> QED
  BY <1>3, <1>4, <1>5, <1>6, <1>7, EarlyStep

\* The defaults go over what is there: what was reported of it is gone.
LEMMA InitialStep ==
  ASSUME ConfigInv, NEW c \in Changes, WriteInitial(c)
  PROVE  ConfigInv'
<1>1. PICK op : op = [change[c] EXCEPT !.at = "locate"]
  OBVIOUS
<1>2. op \in ChangeRecords /\ op.at = "locate" /\ op.does = change[c].does /\ op.entry = change[c].entry
  BY <1>1 DEF ConfigInv, ConfigTypes, ChangeRecords, Steady
<1>3. Formed(op) /\ change[c].at = "initialize"
  BY <1>2 DEF WriteInitial, Is, ConfigInv, ConfigTypes, Formed, Steady
<1>4. /\ Becomes(c, op) /\ UNCHANGED <<writes, backups, granted, tweaks>>
      /\ undone' = undone \cup {d \in granted : change[d].file = LocalFile}
  BY <1>1 DEF WriteInitial, Steps
<1>5. /\ settings' \in [ConfigFiles -> SettingKeys \cup {None}] /\ settings'[LocalFile] = InitialConfig
      /\ \A file \in ConfigFiles : file # LocalFile => settings'[file] = settings[file]
  BY SettingTypes DEF WriteInitial, ConfigInv, ConfigTypes, ConfigFiles
<1>6. /\ change' \in [Changes -> ChangeRecords] /\ change'[c] = op
      /\ \A d \in Changes : d # c => change'[d] = change[d]
      /\ \A d \in Changes : Formed(change'[d])
  BY <1>2, <1>3, <1>4, CallStep DEF ConfigInv
<1>7. \A d \in granted : d \in Changes /\ change'[d] = change[d] /\ change[d].file \in ConfigFiles
  BY <1>3, <1>6 DEF ConfigInv, ConfigTypes
<1>8. ConfigTypes'
  BY <1>4, <1>5, <1>6, <1>7 DEF ConfigInv, ConfigTypes
<1>9. \A d \in Changes : (Queued(d) /\ Leads(d))'
  BY <1>2, <1>3, <1>4, QueueKept DEF InQueue
<1>10. Untold(LocalFile)' /\ \A file \in ConfigFiles : Untold(file) => Untold(file)'
  BY <1>4, <1>7 DEF Untold
<1>11. \A file \in ConfigFiles : Migrated(file)' <=> Migrated(file)
  BY <1>2, <1>3, <1>6 DEF Migrated, Is
<1>12. \A file \in ConfigFiles :
         /\ Migrated(file) => Keys(file).retired = None
         /\ file # LocalFile => Keys(file)' = Keys(file)
         /\ file = LocalFile => Keys(file)'.retired = None
  BY <1>5, SettingTypes DEF Keys, Migrated, ConfigInv, UpgradeMigrates, RetiredConfigKeys
<1>13. ASSUME NEW d \in Changes PROVE Current(d)' /\ Saved(d)'
  <2>1. CASE d = c
    BY <1>2, <1>6, <2>1 DEF Current, Saved, Is, Holds
  <2>2. CASE d # c
    <3>1. change'[d] = change[d] /\ Current(d) /\ Saved(d)
      BY <1>6, <2>2 DEF ConfigInv
    <3>2. Holds(d) => change[d].file \in ConfigFiles
      BY InTheQueue DEF Holds, InQueue
    <3>3. CASE change[d].file = LocalFile
      <4>1. Holds(d) => (change[d].read.retired # None => ~Migrated(LocalFile))
        BY <1>12, <3>1, <3>2, <3>3 DEF Current
      <4>2. LocalFile \in ConfigFiles
        BY DEF ConfigFiles
      <4> QED
        BY <1>4, <1>5, <1>10, <1>11, <3>1, <3>3, <4>1, <4>2 DEF Current, Saved, Is, Holds
    <3>4. CASE change[d].file # LocalFile
      BY <1>4, <1>5, <1>10, <1>11, <1>12, <3>1, <3>2, <3>4 DEF Current, Saved, Is, Holds
    <3> QED
      BY <3>3, <3>4
  <2> QED
    BY <2>1, <2>2
<1>14. KeptUnlessReset'
  <2> SUFFICES ASSUME NEW d \in granted, d \notin undone' PROVE Made(d)'
    BY <1>4 DEF KeptUnlessReset
  <2>1. Made(d) /\ change[d].file # LocalFile
    BY <1>4 DEF ConfigInv, KeptUnlessReset
  <2> QED
    BY <1>5, <1>7, <2>1 DEF Made
<1>15. UpgradeMigrates'
  <2>1. \A d \in Changes : Is(d, "migrate", "done")' => change'[d].file \in ConfigFiles /\ Migrated(change'[d].file)
    BY <1>6, <1>11 DEF Migrated, Is, Formed, Steady
  <2>2. \A file \in ConfigFiles : Migrated(file) => Keys(file)'.retired = None
    BY <1>12
  <2> QED
    BY <2>1, <2>2 DEF UpgradeMigrates, RetiredConfigKeys
<1> QED
  BY <1>8, <1>9, <1>13, <1>14, <1>15 DEF ConfigInv

\* What is written keeps what was reported: it was read under the same turn.
LEMMA WriteStep ==
  ASSUME ConfigInv, NEW c \in Changes, WriteSettings(c)
  PROVE  ConfigInv'
<1>0. PICK f, new : f = change[c].file /\ new = Mutated(change[c])
  OBVIOUS
<1>1. /\ Holds(c) /\ Head(writes[f]) = c /\ InQueue(change[c].at) /\ Leave(c, "done") /\ Formed(change[c])
      /\ change[c] \in ChangeRecords /\ (change[c].does = "migrate" => change[c].at = "write")
  BY <1>0 DEF WriteSettings, Holds, ConfigInv, ConfigTypes, Leads, InQueue
<1>2. PICK op \in ChangeRecords :
         /\ Formed(op) /\ Becomes(c, op) /\ op.at = "done"
         /\ op.does = change[c].does /\ op.file = f /\ op.read = change[c].read /\ op.entry = change[c].entry
         /\ \A d \in Changes : (Queued(d) /\ Leads(d))'
         /\ writes' \in [ConfigFiles -> Seq(Changes)]
         /\ \A d \in Changes : d # c /\ Holds(d) => change[d].file # f
  BY <1>0, <1>1, Leaves
<1>3. /\ change' \in [Changes -> ChangeRecords] /\ change'[c] = op
      /\ \A d \in Changes : d # c => change'[d] = change[d]
      /\ \A d \in Changes : Formed(change'[d])
  BY <1>2, CallStep DEF ConfigInv
<1>4. f \in ConfigFiles /\ new \in SettingKeys /\ new # None
  BY <1>0, <1>1, InTheQueue, MutatedKeys, SettingTypes DEF Holds
<1>5. /\ settings' = [settings EXCEPT ![f] = new] /\ UNCHANGED <<backups, undone, tweaks>>
      /\ granted' = IF change[c].does = "migrate" THEN granted ELSE granted \cup {c}
  BY <1>0 DEF WriteSettings
<1>6. /\ settings' \in [ConfigFiles -> SettingKeys \cup {None}] /\ settings'[f] = new
      /\ \A file \in ConfigFiles : file # f => settings'[file] = settings[file]
  BY <1>4, <1>5 DEF ConfigInv, ConfigTypes
<1>7. \A d \in granted : d \in Changes /\ d # c /\ change'[d] = change[d]
  BY <1>1, <1>3 DEF ConfigInv, ConfigTypes, InQueue
<1>8. ConfigTypes'
  BY <1>2, <1>3, <1>4, <1>5, <1>6, <1>7 DEF ConfigInv, ConfigTypes
<1>9. \A file \in ConfigFiles : file # f =>
         (Untold(file) => Untold(file)') /\ (~Migrated(file) => ~Migrated(file)')
  BY <1>2, <1>3, <1>5, <1>7 DEF Untold, Migrated, Is
<1>10. \/ change[c].read = Keys(f)
       \/ /\ settings[f] = InitialConfig /\ Untold(f)
          /\ change[c].read.retired # None => ~Migrated(f)
  BY <1>0, <1>1 DEF ConfigInv, Current
<1>11. /\ Entries(change[c].read) \subseteq Entries(new)
       /\ change[c].does = "add" => change[c].entry \in Entries(new)
       /\ change[c].does = "enable" => new.provider = "transformers"
       /\ change[c].does # "enable" => new.provider = change[c].read.provider
       /\ new.retired # None => new.retired = change[c].read.retired /\ change[c].does # "migrate"
  BY <1>0, <1>1, MutatedKeys DEF Holds
<1>12. Untold(f) \/ (settings[f] # None /\ change[c].read = settings[f])
  BY <1>4, <1>10 DEF ConfigInv, Keys, KeptUnlessReset, Made, Untold
<1>13. ASSUME NEW d \in Changes PROVE Current(d)' /\ Saved(d)'
  <2>1. CASE d = c
    <3>1. Saved(c) /\ change'[c] = op
      BY <1>3 DEF ConfigInv
    <3> QED
      BY <1>0, <1>1, <1>2, <1>5, <2>1, <3>1 DEF Current, Saved, Is, Holds
  <2>2. CASE d # c
    <3>1. change'[d] = change[d] /\ Current(d) /\ Saved(d)
      BY <1>3, <2>2 DEF ConfigInv
    <3>2. Holds(d) => change[d].file # f /\ change[d].file \in ConfigFiles
      BY <1>2, <2>2, InTheQueue DEF Holds, InQueue
    <3>3. \A file \in ConfigFiles :
             file # f => /\ Keys(file)' = Keys(file) /\ settings'[file] = settings[file]
                         /\ (Untold(file) => Untold(file)') /\ (~Migrated(file) => ~Migrated(file)')
      BY <1>6, <1>9 DEF Keys
    <3> QED
      BY <1>5, <3>1, <3>2, <3>3 DEF Current, Saved, Is, Holds
  <2> QED
    BY <2>1, <2>2
<1>14. KeptUnlessReset'
  <2> SUFFICES ASSUME NEW d \in granted', d \notin undone' PROVE Made(d)'
    BY DEF KeptUnlessReset
  <2>1. CASE d = c
    BY <1>2, <1>3, <1>4, <1>5, <1>6, <1>11, <2>1 DEF Made
  <2>2. CASE d # c
    <3>1. d \in granted \ undone /\ Made(d) /\ change'[d] = change[d] /\ change[d].file \in ConfigFiles
      BY <1>5, <1>7, <2>2 DEF ConfigInv, ConfigTypes, KeptUnlessReset
    <3>2. CASE change[d].file # f
      BY <1>6, <3>1, <3>2 DEF Made
    <3>3. CASE change[d].file = f
      <4>1. change[c].read = settings[f] /\ settings[f] # None
        BY <1>12, <3>1, <3>3 DEF Untold
      <4>2. change[d].does = "add" => change[d].entry \in Entries(new)
        BY <1>11, <3>1, <3>3, <4>1 DEF Made
      <4>3. change[d].does = "enable" => new.provider = "transformers"
        BY <1>11, <3>1, <3>3, <4>1 DEF Made
      <4> QED
        BY <1>4, <1>6, <3>1, <3>3, <4>2, <4>3 DEF Made
    <3> QED
      BY <3>2, <3>3
  <2> QED
    BY <2>1, <2>2
<1>15. UpgradeMigrates'
  <2>1. ASSUME NEW d \in Changes, NEW file \in ConfigFiles, Is(d, "migrate", "done")', change'[d].file = file
        PROVE  Keys(file)'.retired = None
    <3>1. CASE file # f
      <4>1. Is(d, "migrate", "done") /\ change[d].file = file
        BY <1>2, <1>3, <2>1, <3>1 DEF Is
      <4>2. Keys(file)' = Keys(file) /\ Keys(file).retired = None
        BY <1>6, <3>1, <4>1 DEF Keys, ConfigInv, UpgradeMigrates, RetiredConfigKeys
      <4> QED
        BY <4>2
    <3>2. CASE file = f /\ d = c
      BY <1>2, <1>3, <1>4, <1>6, <1>11, <2>1, <3>2 DEF Is, Keys
    <3>3. CASE file = f /\ d # c
      <4>1. Is(d, "migrate", "done") /\ change[d].file = f
        BY <1>3, <2>1, <3>3 DEF Is
      <4>2. Keys(f).retired = None
        BY <4>1 DEF ConfigInv, UpgradeMigrates, RetiredConfigKeys
      <4>3. change[c].read.retired = None
        BY <1>10, <4>1, <4>2 DEF Migrated
      <4> QED
        BY <1>4, <1>6, <1>11, <3>3, <4>3 DEF Keys
    <3> QED
      BY <3>1, <3>2, <3>3
  <2>2. \A d \in Changes : Is(d, "migrate", "done")' => change'[d].file \in ConfigFiles
    BY <1>3 DEF Is, Formed, Steady
  <2> QED
    BY <2>1, <2>2 DEF UpgradeMigrates, RetiredConfigKeys
<1> QED
  BY <1>2, <1>8, <1>13, <1>14, <1>15 DEF ConfigInv

\* The user edits a file that no call holds.
LEMMA TweakStep ==
  ASSUME ConfigInv, NEW f \in ConfigFiles, TweakSettings(f)
  PROVE  ConfigInv'
<1>1. UNCHANGED <<writes, change, backups, granted, undone>> /\ tweaks' \in Nat /\ \A c \in Changes : Holds(c) => change[c].file # f
  BY DEF TweakSettings, NobodyHolds, Holds, ConfigInv, ConfigTypes
<1>2. PICK new \in SettingKeys :
         /\ settings' = [settings EXCEPT ![f] = new] /\ new.retired = Keys(f).retired
         /\ settings[f] # None => Entries(new) = Entries(settings[f]) /\ new.provider = settings[f].provider
  <2>1. CASE settings[f] = None
    <3>1. PICK new : new = [NoSettings EXCEPT !.provider = "hash"]
      OBVIOUS
    <3>2. new \in SettingKeys /\ new.retired = None
      BY <3>1, SettingTypes DEF SettingKeys, NoSettings
    <3>3. Keys(f).retired = None
      BY <2>1, SettingTypes DEF Keys
    <3> QED
      BY <2>1, <3>1, <3>2, <3>3 DEF TweakSettings
  <2>2. CASE settings[f] # None
    <3>1. PICK s : s = settings[f]
      OBVIOUS
    <3>2. s \in SettingKeys /\ Keys(f) = s
      BY <2>2, <3>1 DEF ConfigInv, ConfigTypes, Keys
    <3>3. PICK new : new = [s EXCEPT !.model = "theirs"]
      OBVIOUS
    <3>4. new \in SettingKeys /\ new.retired = s.retired /\ new.sources = s.sources /\ new.provider = s.provider
      BY <3>2, <3>3 DEF SettingKeys, Models
    <3>5. settings' = [settings EXCEPT ![f] = new]
      BY <2>2, <3>1, <3>3 DEF TweakSettings
    <3> QED
      BY <2>2, <3>1, <3>2, <3>4, <3>5 DEF Entries
  <2> QED
    BY <2>1, <2>2
<1>3. /\ settings' \in [ConfigFiles -> SettingKeys \cup {None}] /\ settings'[f] = new /\ new # None
      /\ \A file \in ConfigFiles : file # f => settings'[file] = settings[file]
  BY <1>2, SettingTypes DEF ConfigInv, ConfigTypes
<1>4. ConfigTypes'
  BY <1>1, <1>3 DEF ConfigInv, ConfigTypes
<1>5. \A file : Untold(file)' = Untold(file) /\ Migrated(file)' = Migrated(file)
  BY <1>1 DEF Untold, Migrated, Is
<1>6. \A file \in ConfigFiles : file # f => Keys(file)' = Keys(file)
  BY <1>3 DEF Keys
<1>7. ASSUME NEW d \in Changes PROVE (Queued(d) /\ Leads(d))' /\ Current(d)' /\ Saved(d)'
  <2>1. Queued(d) /\ Leads(d) /\ Current(d) /\ Saved(d)
    BY DEF ConfigInv
  <2>2. (Queued(d) /\ Leads(d))' /\ Saved(d)'
    BY <1>1, <2>1 DEF Queued, Leads, Saved, Holds, Is
  <2>3. Holds(d) => change[d].file \in ConfigFiles /\ change[d].file # f
    BY <1>1, InTheQueue DEF Holds, InQueue
  <2> QED
    BY <1>1, <1>3, <1>5, <1>6, <2>1, <2>2, <2>3 DEF Current, Holds
<1>8. KeptUnlessReset'
  <2> SUFFICES ASSUME NEW d \in granted \ undone PROVE Made(d)'
    BY <1>1 DEF KeptUnlessReset
  <2>1. Made(d) /\ change[d].file \in ConfigFiles
    BY DEF ConfigInv, ConfigTypes, KeptUnlessReset
  <2> QED
    BY <1>1, <1>2, <1>3, <2>1 DEF Made
<1>9. UpgradeMigrates'
  <2>1. \A file \in ConfigFiles : Keys(file)'.retired = Keys(file).retired
    BY <1>2, <1>3, <1>6 DEF Keys
  <2>2. \A d \in Changes : Is(d, "migrate", "done") => change[d].file \in ConfigFiles
    BY DEF ConfigInv, ConfigTypes, Is, Formed, Steady
  <2>3. ASSUME NEW d \in Changes, Is(d, "migrate", "done"), NEW file \in ConfigFiles, file = change[d].file
        PROVE  Keys(file)'.retired = None
    BY <2>1, <2>3 DEF ConfigInv, UpgradeMigrates, RetiredConfigKeys
  <2> QED
    BY <1>1, <2>2, <2>3 DEF UpgradeMigrates, RetiredConfigKeys, Is
<1> QED
  BY <1>4, <1>7, <1>8, <1>9 DEF ConfigInv

-----------------------------------------------------------------------------
(* The invariant, and the property.                                         *)

LEMMA ConfigStarts == ConfigInit => ConfigInv
<1> SUFFICES ASSUME ConfigInit PROVE ConfigInv
  OBVIOUS
<1>1. NoChange \in ChangeRecords /\ Formed(NoChange) /\ NoChange.at = "idle"
  BY DEF NoChange, ChangeRecords, Formed, Steady
<1>2. \A c \in Changes : change[c] = NoChange
  BY DEF ConfigInit
<1>3. settings \in [ConfigFiles -> SettingKeys \cup {None}]
  <2>1. PICK s : s = [InitialConfig EXCEPT !.retired = "masking"]
    OBVIOUS
  <2>2. s \in SettingKeys
    BY <2>1, SettingTypes DEF SettingKeys
  <2>3. PICK m : m = [NoSettings EXCEPT !.model = "ours"]
    OBVIOUS
  <2>4. m \in SettingKeys
    BY <2>3, SettingTypes DEF SettingKeys, Models
  <2>5. PICK d : d = [NoSettings EXCEPT !.sources = {"docs"}]
    OBVIOUS
  <2>6. {"docs"} \in SUBSET SourceEntries
    BY DEF SourceEntries
  <2>7. d \in SettingKeys
    BY <2>5, <2>6, SettingTypes DEF SettingKeys
  <2>8. settings \in [ConfigFiles -> {None, s, m, d}]
    BY <2>1, <2>3, <2>5 DEF ConfigInit
  <2> QED
    BY <2>2, <2>4, <2>7, <2>8
<1>4. ConfigTypes
  <2>1. \A file \in ConfigFiles : <<>> \in Seq(Changes)
    OBVIOUS
  <2>2. writes \in [ConfigFiles -> Seq(Changes)]
    BY <2>1 DEF ConfigInit
  <2> QED
    BY <1>1, <1>3, <2>2 DEF ConfigInit, ConfigTypes
<1>5. \A c \in Changes : Queued(c) /\ Leads(c) /\ Current(c) /\ Saved(c)
  BY <1>1, <1>2 DEF Queued, Leads, Current, Saved, Holds, Is
<1> QED
  BY <1>1, <1>2, <1>4, <1>5 DEF ConfigInv, KeptUnlessReset, UpgradeMigrates, Is, ConfigInit

LEMMA ConfigStep == ConfigInv /\ [ConfigNext]_configVars => ConfigInv'
<1> SUFFICES ASSUME ConfigInv, [ConfigNext]_configVars PROVE ConfigInv'
  OBVIOUS
<1>1. CASE UNCHANGED configVars
  <2>1. UNCHANGED <<settings, writes, change, backups, granted, undone, tweaks>>
    BY <1>1 DEF configVars
  <2>2. ConfigTypes'
    BY <2>1 DEF ConfigInv, ConfigTypes
  <2>3. \A c \in Changes : (Queued(c) /\ Leads(c))' /\ Current(c)' /\ Saved(c)'
    BY <2>1 DEF ConfigInv, Queued, Leads, Current, Saved, Holds, Is, Keys, Untold, Migrated
  <2>4. KeptUnlessReset' /\ UpgradeMigrates'
    BY <2>1 DEF ConfigInv, KeptUnlessReset, Made, UpgradeMigrates, Is, Keys
  <2> QED
    BY <2>2, <2>3, <2>4 DEF ConfigInv
<1>2. ASSUME NEW c \in Changes, NEW entry \in SourceEntries, AddSourceEntries(c, entry) PROVE ConfigInv'
  BY <1>2, BeginSteps
<1>3. ASSUME NEW c \in Changes, NEW fetched \in BOOLEAN, EnableSemanticEmbeddings(c, fetched) PROVE ConfigInv'
  <2>1. "docs" \in SourceEntries
    BY DEF SourceEntries
  <2> QED
    BY <1>3, <2>1, BeginSteps
<1>4. ASSUME NEW c \in Changes, MigrateRetiredConfig(c) PROVE ConfigInv'
  <2>1. "docs" \in SourceEntries /\ TRUE \in BOOLEAN
    BY DEF SourceEntries
  <2> QED
    BY <1>4, <2>1, BeginSteps
<1>5. ASSUME NEW c \in Changes, CheckConfig(c) \/ WriteInitial(c) PROVE ConfigInv'
  BY <1>5, CheckConfigStep, InitialStep
<1>6. ASSUME NEW c \in Changes,
             Locate(c) \/ Enqueue(c) \/ ReadSettings(c) \/ Skip(c) \/ BackUp(c) \/ WriteSettings(c) \/ ChangeFails(c)
      PROVE  ConfigInv'
  BY <1>6, LocateStep, EnqueueStep, ReadStep, SkipStep, BackUpStep, WriteStep, FailStep
<1>7. ASSUME NEW file \in ConfigFiles, TweakSettings(file) PROVE ConfigInv'
  BY <1>7, TweakStep
<1> QED
  BY <1>1, <1>2, <1>3, <1>4, <1>5, <1>6, <1>7 DEF ConfigNext

\* Calls, queues and files agree as the parts of the invariant say, whatever the user edits and
\* whenever an initialization writes the defaults.
THEOREM Settings == ConfigSpec => []ConfigInv
  BY ConfigStarts, ConfigStep, PTL DEF ConfigSpec

\* What a call has reported as added or enabled is undone by no other call of the queue: it is there
\* until an initialization that had found no file writes the defaults over it.  A retired setting that
\* a migration takes out of a file is in a backup, and does not come back.
THEOREM SettingsAreSound == ConfigSpec => []ConfigSound
<1>1. ConfigInv => ConfigSound
  BY DEF ConfigInv, ConfigSound, RetiredBackedUp, Saved
<1> QED
  BY <1>1, Settings, PTL

-----------------------------------------------------------------------------
(* The table: the inductive invariant.                                      *)

AllActions == {"compact-fragments", "refresh-full-text-index"}
AfterInspection == {"compact", "recompact", "lexical", "adapt", "save", "reported"}
Begun == [phase : {"writing", "missing"}, by : {"ingest", "optimize", "preview"}, table : 1 .. MaxTables, commits : Nat]
Inspections ==
    [phase : AfterInspection, by : {"ingest", "optimize", "preview"}, table : 1 .. MaxTables, commits : Nat,
     mutations : Nat, signature : Policies \cup {None}, before : TextIndices \cup {None}, planned : SUBSET AllActions,
     compacted : BOOLEAN, failed : BOOLEAN, honest : BOOLEAN, vector : Policies]
MaintenanceTypes ==
    /\ tables \in [1 .. MaxTables -> TableRecords \cup {None}] /\ active \in 1 .. MaxTables
    /\ saved \in StateFiles \cup {None} /\ manifest \in ManifestFiles \cup {None}
    /\ job \in {Idle} \cup Begun \cup Inspections
    /\ jobs \in [begun : Nat, commits : Nat]

\* The vector index of a table holds every row, with the partitions a search counts on.
Sends(t, vector, honest) ==
    /\ vector = AdaptiveVectorIndexPolicy(t.rows) /\ Covers(t.vector, t.rows)
    /\ honest => t.vector.as = vector.partitions
ManifestInv ==
    manifest # None =>
        /\ manifest.table = active /\ tables[active] # None /\ manifest.commits <= tables[active].commits
        /\ manifest.commits = tables[active].commits /\ manifest.vector.strategy = "ivf-pq"
              => Sends(tables[active], manifest.vector, manifest.honest)

\* The saved count has every commit that no compaction has seen, but for those the owner of the lock
\* still counts, and those that were lost.
Pending(n) ==
    IF job.phase \in {"writing", "compact", "recompact", "lexical", "adapt", "save"} /\ job.table = n
    THEN job.commits ELSE 0
CountInv ==
    saved # None /\ tables[saved.table] # None =>
        tables[saved.table].since - tables[saved.table].uncounted <= saved.mutations + Pending(saved.table)

\* What a maintenance has found and done of its table.
NotDue(t, j) == ~RequiresCompaction(t) /\ ~(t.rows >= CompactionRows /\ j.mutations >= MutationThreshold)
TextKept(t, j) == (j.before = None \/ j.before.as = "positions") => t.text = None \/ t.text.as = "positions"
TextInv(t, j) ==
    /\ j.phase = "compact" => /\ t.text = j.before
                              /\ "refresh-full-text-index" \notin j.planned => TextComplete(t)
    /\ j.phase = "recompact" => "refresh-full-text-index" \in j.planned
    /\ j.phase = "lexical" /\ "refresh-full-text-index" \notin j.planned => TextComplete(t) /\ TextKept(t, j)
    /\ j.phase \in {"adapt", "save", "reported"} /\ ~j.failed => TextComplete(t) /\ TextKept(t, j)
CompactionInv(t, j) ==
    /\ t.since - t.uncounted <= j.mutations
    /\ j.compacted => t.since = 0 /\ t.uncounted = 0 /\ t.small = 0 /\ t.fragments = 1
    /\ j.phase = "compact" => ~j.compacted /\ ("compact-fragments" \in j.planned \/ NotDue(t, j))
    /\ j.phase = "recompact" => ~j.compacted /\ "compact-fragments" \in j.planned
    /\ j.phase \in {"lexical", "adapt", "save", "reported"} /\ ~j.failed => j.compacted \/ NotDue(t, j)
NextSignature(t, j) ==
    LET policy == AdaptiveVectorIndexPolicy(t.rows)
    IN  IF j.vector.strategy = policy.strategy THEN policy ELSE j.signature
VectorInv(t, j) ==
    /\ j.phase \in {"compact", "recompact", "lexical", "adapt"} /\ j.honest /\ t.vector # None /\ j.signature # None
          => j.signature.partitions = t.vector.as
    /\ j.phase \in {"save", "reported"} /\ j.vector.strategy = "ivf-pq" => Sends(t, j.vector, j.honest)
    /\ j.phase = "save" /\ ~j.failed => AdaptiveIndexActions(t, NextSignature(t, j)) = {}
SavedInv(t, j) ==
    j.phase = "reported" /\ ~j.failed =>
        /\ saved # None /\ saved.mutations = IF j.compacted THEN 0 ELSE j.mutations
        /\ AdaptiveIndexActions(t, saved.signature) = {}
JobInv ==
    /\ job \in Inspections =>
          /\ tables[job.table] # None /\ (job.phase # "reported" => job.by # "preview")
          /\ job.by # "preview" => /\ TextInv(tables[job.table], job) /\ CompactionInv(tables[job.table], job)
                                   /\ VectorInv(tables[job.table], job) /\ SavedInv(tables[job.table], job)

MaintenanceInv == MaintenanceTypes /\ ManifestInv /\ CountInv /\ JobInv

-----------------------------------------------------------------------------
(* Facts about tables and indices.                                          *)

LEMMA NothingIsNone ==
  /\ \A r \in TableRecords \cup StateFiles \cup ManifestFiles \cup Policies \cup Nat : r # None
  /\ \A index \in TextIndices \cup VectorIndices \cup ScalarIndices : index # None
  BY MaintenanceAssumption

LEMMA PolicyOf ==
  ASSUME NEW n \in 0 .. MaxRows
  PROVE  /\ AdaptiveVectorIndexPolicy(n) \in Policies
         /\ AdaptiveVectorIndexPolicy(n).strategy = IF n < AnnRows THEN "exact" ELSE "ivf-pq"
<1>1. AdaptiveVectorIndexPolicy(n) \in Policies
  BY DEF Policies
<1>2. AdaptiveVectorIndexPolicy(n).strategy = IF n < AnnRows THEN "exact" ELSE "ivf-pq"
  BY DEF AdaptiveVectorIndexPolicy
<1> QED
  BY <1>1, <1>2

LEMMA NoPolicy == AdaptiveVectorIndexPolicy(0) \in Policies /\ AdaptiveVectorIndexPolicy(0).strategy = "exact"
<1>1. 0 \in 0 .. MaxRows /\ 0 < AnnRows
  BY MaintenanceAssumption
<1> QED
  BY <1>1, PolicyOf

\* A new index holds every row.
LEMMA NewIndex ==
  ASSUME NEW n \in Nat, NEW kind
  PROVE  /\ \A kinds : kind \in kinds => Index(n, 0, kind) \in IndicesAs(kinds)
         /\ Index(n, 0, kind).as = kind
         /\ Index(n, 0, kind) # None => Covers(Index(n, 0, kind), n)
  BY DEF Index, IndicesAs, Covers

\* A commit leaves an index behind, of its kind.
LEMMA BehindIndex ==
  ASSUME NEW kinds, NEW index \in IndicesAs(kinds) \cup {None}, NEW c \in [removed : Nat, added : Nat]
  PROVE  Behind(index, c) \in IndicesAs(kinds) \cup {None}
<1>1. CASE index = None
  BY <1>1 DEF Behind
<1>2. CASE index # None
  <2>1. index.indexed \in Int /\ index.unindexed \in Int /\ index.as \in kinds /\ c.removed \in Int /\ c.added \in Int
    BY <1>2 DEF IndicesAs
  <2>2. PICK gone : gone = Least(c.removed, index.indexed)
    OBVIOUS
  <2>3. gone \in Int
    BY <2>1, <2>2 DEF Least
  <2>4. Behind(index, c) = Index(index.indexed - gone, index.unindexed - (c.removed - gone) + c.added, index.as)
    BY <1>2, <2>2 DEF Behind
  <2>5. index.indexed - gone \in Int /\ index.unindexed - (c.removed - gone) + c.added \in Int
    BY <2>1, <2>3
  <2> QED
    BY <2>1, <2>4, <2>5 DEF Index, IndicesAs
<1> QED
  BY <1>1, <1>2

LEMMA Committed ==
  ASSUME NEW t \in TableRecords, NEW c \in [removed : Nat, added : Nat], NEW trained \in BOOLEAN,
         c.removed <= t.rows, t.rows + c.added <= MaxRows
  PROVE  /\ CommittedTable(t, c, trained) \in TableRecords
         /\ CommittedTable(t, c, trained).commits = t.commits + 1
         /\ CommittedTable(t, c, trained).since = t.since + 1
         /\ CommittedTable(t, c, trained).uncounted = t.uncounted
<1>1. PICK n : n = t.rows - c.removed + c.added
  OBVIOUS
<1>2. n \in 0 .. MaxRows
  BY <1>1, MaintenanceAssumption DEF TableRecords
<1>3. PICK text : text = IF t.text # None THEN Behind(t.text, c) ELSE IF trained THEN Index(n, 0, "positions") ELSE None
  OBVIOUS
<1>4. text \in TextIndices \cup {None}
  <2>1. t.text \in TextIndices \cup {None}
    BY DEF TableRecords
  <2>2. Behind(t.text, c) \in TextIndices \cup {None}
    BY <2>1, BehindIndex DEF TextIndices
  <2>3. Index(n, 0, "positions") \in TextIndices
    BY <1>2, NewIndex DEF TextIndices
  <2> QED
    BY <1>3, <2>2, <2>3
<1>5. PICK vector, scalar : vector = Behind(t.vector, c) /\ scalar = Behind(t.scalar, c)
  OBVIOUS
<1>6. vector \in VectorIndices \cup {None} /\ scalar \in ScalarIndices \cup {None}
  <2>1. t.vector \in VectorIndices \cup {None} /\ t.scalar \in ScalarIndices \cup {None}
    BY DEF TableRecords
  <2> QED
    BY <1>5, <2>1, BehindIndex DEF VectorIndices, ScalarIndices
<1>7. CommittedTable(t, c, trained) =
        [t EXCEPT !.rows = n, !.fragments = @ + 1, !.small = @ + 1, !.versions = @ + 1,
                  !.vector = vector, !.scalar = scalar, !.text = text, !.commits = @ + 1, !.since = @ + 1]
  BY <1>1, <1>3, <1>5 DEF CommittedTable
<1>8. PICK w : w = CommittedTable(t, c, trained)
  OBVIOUS
<1>9. w = [rows |-> n, fragments |-> t.fragments + 1, small |-> t.small + 1, versions |-> t.versions + 1,
           text |-> text, vector |-> vector, scalar |-> scalar, commits |-> t.commits + 1, since |-> t.since + 1,
           uncounted |-> t.uncounted]
  BY <1>7, <1>8 DEF TableRecords
<1>10. /\ t.fragments + 1 \in Nat /\ t.small + 1 \in Nat /\ t.versions + 1 \in Nat
       /\ t.commits + 1 \in Nat /\ t.since + 1 \in Nat /\ t.uncounted \in Int
  BY DEF TableRecords
<1>11. w \in TableRecords /\ w.commits = t.commits + 1 /\ w.since = t.since + 1 /\ w.uncounted = t.uncounted
  BY <1>2, <1>4, <1>6, <1>9, <1>10 DEF TableRecords
<1> QED
  BY <1>8, <1>11

\* A compaction leaves rows and indices as they are, but for what the indices had not seen.
LEMMA Compaction ==
  ASSUME NEW t \in TableRecords, NEW versions \in Nat, NEW caughtUp \in BOOLEAN, NEW w,
         w = Compacted(t, versions, caughtUp)
  PROVE  /\ w \in TableRecords
         /\ w.rows = t.rows /\ w.commits = t.commits /\ w.since = 0 /\ w.uncounted = 0
         /\ w.small = 0 /\ w.fragments = 1
         /\ w.text # None <=> t.text # None
         /\ w.vector # None <=> t.vector # None
         /\ t.text # None => w.text.as = t.text.as
         /\ t.vector # None => w.vector.as = t.vector.as
         /\ Covers(t.text, t.rows) => Covers(w.text, t.rows)
         /\ Covers(t.vector, t.rows) => Covers(w.vector, t.rows)
<1> DEFINE Caught(index) == IF caughtUp /\ index # None THEN Index(t.rows, 0, index.as) ELSE index
<1>1. t.rows \in Nat /\ t.text \in TextIndices \cup {None} /\ t.vector \in VectorIndices \cup {None}
      /\ t.scalar \in ScalarIndices \cup {None}
  BY DEF TableRecords
<1>2. \A kinds : \A index \in IndicesAs(kinds) \cup {None} :
         /\ Caught(index) \in IndicesAs(kinds) \cup {None}
         /\ index # None => Caught(index) \in IndicesAs(kinds) /\ Caught(index).as = index.as
         /\ index = None => Caught(index) = None
  BY <1>1, NewIndex DEF IndicesAs
<1>3. PICK text, vector, scalar : text = Caught(t.text) /\ vector = Caught(t.vector) /\ scalar = Caught(t.scalar)
  OBVIOUS
<1>4. w = [t EXCEPT !.fragments = 1, !.small = 0, !.versions = versions, !.since = 0, !.uncounted = 0,
                    !.text = text, !.vector = vector, !.scalar = scalar]
  BY <1>3 DEF Compacted
<1>5. /\ text \in TextIndices \cup {None} /\ (text # None <=> t.text # None)
      /\ t.text # None => text.as = t.text.as
  BY <1>1, <1>2, <1>3, NothingIsNone DEF TextIndices
<1>6. /\ vector \in VectorIndices \cup {None} /\ (vector # None <=> t.vector # None)
      /\ t.vector # None => vector.as = t.vector.as
  BY <1>1, <1>2, <1>3, NothingIsNone DEF VectorIndices
<1>7. scalar \in ScalarIndices \cup {None}
  BY <1>1, <1>2, <1>3 DEF ScalarIndices
<1>8. Covers(t.text, t.rows) => Covers(text, t.rows)
  BY <1>1, <1>3, <1>5, NewIndex DEF Covers
<1>9. Covers(t.vector, t.rows) => Covers(vector, t.rows)
  BY <1>1, <1>3, <1>6, NewIndex DEF Covers
<1> HIDE DEF Caught
<1>10. w = [rows |-> t.rows, fragments |-> 1, small |-> 0, versions |-> versions, text |-> text,
            vector |-> vector, scalar |-> scalar, commits |-> t.commits, since |-> 0, uncounted |-> 0]
  BY <1>4 DEF TableRecords
<1>11. t.rows \in 0 .. MaxRows /\ t.commits \in Nat
  BY DEF TableRecords
<1>12. w \in TableRecords
  BY <1>5, <1>6, <1>7, <1>10, <1>11 DEF TableRecords
<1> QED
  BY <1>5, <1>6, <1>8, <1>9, <1>10, <1>12

\* The actions that are due are of one kind for each index.
LEMMA DueActions ==
  ASSUME NEW t \in TableRecords, NEW signature \in Policies \cup {None}
  PROVE  LET policy == AdaptiveVectorIndexPolicy(t.rows)
             due == VectorAction(t, signature)
         IN  /\ policy \in Policies /\ policy # None /\ policy.strategy \in {"exact", "ivf-pq"}
             /\ policy.strategy = "exact" => due \subseteq {"drop-vector-index"} /\ (due = {} <=> t.vector = None)
             /\ policy.strategy = "ivf-pq" =>
                   /\ due \subseteq {"create-vector-index", "refresh-vector-index"}
                   /\ due = {} <=> signature = policy /\ t.vector # None /\ Covers(t.vector, t.rows)
             /\ t.rows < ScalarRows =>
                   ScalarAction(t) \subseteq {"drop-relative-path-index"} /\ (ScalarAction(t) = {} <=> t.scalar = None)
             /\ ~(t.rows < ScalarRows) =>
                   /\ ScalarAction(t) \subseteq {"create-relative-path-index", "refresh-relative-path-index"}
                   /\ ScalarAction(t) = {} <=> Covers(t.scalar, t.rows)
<1>1. t.rows \in 0 .. MaxRows
  BY DEF TableRecords
<1>2. PICK policy : policy = AdaptiveVectorIndexPolicy(t.rows)
  OBVIOUS
<1>3. policy \in Policies /\ policy # None /\ policy.strategy \in {"exact", "ivf-pq"}
  BY <1>1, <1>2, PolicyOf, NothingIsNone
<1>4. policy.strategy = "exact" =>
         /\ VectorAction(t, signature) \subseteq {"drop-vector-index"}
         /\ VectorAction(t, signature) = {} <=> t.vector = None
  BY <1>2 DEF VectorAction
<1>5. policy.strategy = "ivf-pq" =>
         /\ VectorAction(t, signature) \subseteq {"create-vector-index", "refresh-vector-index"}
         /\ VectorAction(t, signature) = {} <=> signature = policy /\ t.vector # None /\ Covers(t.vector, t.rows)
  BY <1>2 DEF VectorAction
<1>6. t.rows < ScalarRows =>
         ScalarAction(t) \subseteq {"drop-relative-path-index"} /\ (ScalarAction(t) = {} <=> t.scalar = None)
  BY DEF ScalarAction
<1>7. ~(t.rows < ScalarRows) =>
         /\ ScalarAction(t) \subseteq {"create-relative-path-index", "refresh-relative-path-index"}
         /\ ScalarAction(t) = {} <=> Covers(t.scalar, t.rows)
  BY DEF ScalarAction, Covers
<1> QED
  BY <1>2, <1>3, <1>4, <1>5, <1>6, <1>7

\* What the actions that succeed make of the indices.
LEMMA AppliedActions ==
  ASSUME NEW t \in TableRecords, NEW signature \in Policies \cup {None},
         NEW done \in SUBSET AdaptiveIndexActions(t, signature), NEW w, w = Applied(t, done)
  PROVE  /\ w \in TableRecords
         /\ w.rows = t.rows /\ w.fragments = t.fragments /\ w.small = t.small /\ w.text = t.text
         /\ w.commits = t.commits /\ w.since = t.since /\ w.uncounted = t.uncounted
         /\ VectorAction(t, signature) \cap done = {} => w.vector = t.vector
         /\ VectorAction(t, signature) \cap done # {} =>
               w.vector = IF AdaptiveVectorIndexPolicy(t.rows).strategy = "exact" THEN None
                          ELSE Index(t.rows, 0, AdaptiveVectorIndexPolicy(t.rows).partitions)
         /\ ScalarAction(t) \subseteq done /\ ScalarAction(t) # {} =>
               w.scalar = IF t.rows < ScalarRows THEN None ELSE Index(t.rows, 0, "btree")
         /\ ScalarAction(t) = {} => w.scalar = t.scalar
<1>1. PICK policy : policy = AdaptiveVectorIndexPolicy(t.rows)
  OBVIOUS
<1>2. /\ policy \in Policies /\ policy.strategy \in {"exact", "ivf-pq"} /\ t.rows \in Nat
  BY <1>1, DueActions DEF TableRecords
<1>3. PICK vector, scalar :
         /\ vector = IF "drop-vector-index" \in done THEN None
                     ELSE IF done \cap {"create-vector-index", "refresh-vector-index"} # {}
                          THEN Index(t.rows, 0, policy.partitions) ELSE t.vector
         /\ scalar = IF "drop-relative-path-index" \in done THEN None
                     ELSE IF done \cap {"create-relative-path-index", "refresh-relative-path-index"} # {}
                          THEN Index(t.rows, 0, "btree") ELSE t.scalar
  OBVIOUS
<1>4. w = [t EXCEPT !.vector = vector, !.scalar = scalar]
  BY <1>1, <1>3 DEF Applied
<1>5. vector \in VectorIndices \cup {None} /\ scalar \in ScalarIndices \cup {None}
  <2>1. t.vector \in VectorIndices \cup {None} /\ t.scalar \in ScalarIndices \cup {None}
    BY DEF TableRecords
  <2>2. Index(t.rows, 0, policy.partitions) \in VectorIndices /\ Index(t.rows, 0, "btree") \in ScalarIndices
    BY <1>2, NewIndex DEF VectorIndices, ScalarIndices
  <2> QED
    BY <1>3, <2>1, <2>2
<1>6. /\ w \in TableRecords /\ w.vector = vector /\ w.scalar = scalar
      /\ w.rows = t.rows /\ w.fragments = t.fragments /\ w.small = t.small /\ w.text = t.text
      /\ w.commits = t.commits /\ w.since = t.since /\ w.uncounted = t.uncounted
  BY <1>4, <1>5 DEF TableRecords
<1>7. /\ ScalarAction(t) \cap {"drop-vector-index", "create-vector-index", "refresh-vector-index"} = {}
      /\ VectorAction(t, signature) \cap {"drop-relative-path-index", "create-relative-path-index", "refresh-relative-path-index"} = {}
  BY DEF ScalarAction, VectorAction
<1>8. done \subseteq VectorAction(t, signature) \cup ScalarAction(t)
  BY DEF AdaptiveIndexActions
<1>9. VectorAction(t, signature) \subseteq {"drop-vector-index", "create-vector-index", "refresh-vector-index"}
  BY DEF VectorAction
<1>10. VectorAction(t, signature) \cap done = {} => vector = t.vector
  BY <1>3, <1>7, <1>8
<1>11. VectorAction(t, signature) \cap done # {} =>
          vector = IF policy.strategy = "exact" THEN None ELSE Index(t.rows, 0, policy.partitions)
  <2>1. CASE policy.strategy = "exact"
    <3>1. VectorAction(t, signature) \subseteq {"drop-vector-index"}
      BY <1>1, <2>1, DueActions
    <3> QED
      BY <1>3, <2>1, <3>1
  <2>2. CASE policy.strategy = "ivf-pq"
    <3>1. VectorAction(t, signature) \subseteq {"create-vector-index", "refresh-vector-index"}
      BY <1>1, <2>2, DueActions
    <3>2. "drop-vector-index" \notin done
      BY <1>7, <1>8, <3>1
    <3> QED
      BY <1>3, <2>2, <3>1, <3>2
  <2> QED
    BY <1>2, <2>1, <2>2
<1>12. ScalarAction(t) \subseteq done /\ ScalarAction(t) # {} =>
          scalar = IF t.rows < ScalarRows THEN None ELSE Index(t.rows, 0, "btree")
  <2>1. CASE t.rows < ScalarRows
    <3>1. ScalarAction(t) \subseteq {"drop-relative-path-index"}
      BY <2>1, DueActions
    <3> QED
      BY <1>3, <2>1, <3>1
  <2>2. CASE ~(t.rows < ScalarRows)
    <3>1. ScalarAction(t) \subseteq {"create-relative-path-index", "refresh-relative-path-index"}
      BY <2>2, DueActions
    <3>2. "drop-relative-path-index" \notin done
      BY <1>7, <1>8, <3>1
    <3> QED
      BY <1>3, <2>2, <3>1, <3>2
  <2> QED
    BY <2>1, <2>2
<1>13. ScalarAction(t) = {} => scalar = t.scalar
  BY <1>3, <1>7, <1>8
<1> QED
  BY <1>1, <1>6, <1>10, <1>11, <1>12, <1>13

\* Where all that was due is done nothing is due, under the policy that is saved.
LEMMA AllDone ==
  ASSUME NEW t \in TableRecords, NEW signature \in Policies \cup {None}, NEW w, NEW saves,
         w = Applied(t, AdaptiveIndexActions(t, signature)),
         saves = IF VectorManifest(w, TRUE).strategy = AdaptiveVectorIndexPolicy(w.rows).strategy
                 THEN AdaptiveVectorIndexPolicy(w.rows) ELSE signature
  PROVE  AdaptiveIndexActions(w, saves) = {}
<1>1. PICK policy : policy = AdaptiveVectorIndexPolicy(t.rows)
  OBVIOUS
<1>2. policy \in Policies /\ policy # None /\ policy.strategy \in {"exact", "ivf-pq"} /\ t.rows \in Nat
  BY <1>1, DueActions DEF TableRecords
<1>3. /\ w \in TableRecords /\ w.rows = t.rows /\ AdaptiveVectorIndexPolicy(w.rows) = policy
      /\ VectorAction(t, signature) = {} => w.vector = t.vector
      /\ VectorAction(t, signature) # {} =>
            w.vector = IF policy.strategy = "exact" THEN None ELSE Index(t.rows, 0, policy.partitions)
      /\ ScalarAction(t) # {} => w.scalar = IF t.rows < ScalarRows THEN None ELSE Index(t.rows, 0, "btree")
      /\ ScalarAction(t) = {} => w.scalar = t.scalar
  <2>1. VectorAction(t, signature) \cap AdaptiveIndexActions(t, signature) = VectorAction(t, signature)
        /\ ScalarAction(t) \subseteq AdaptiveIndexActions(t, signature)
    BY DEF AdaptiveIndexActions
  <2> QED
    BY <1>1, <2>1, AppliedActions
<1>4. saves \in Policies \cup {None}
  BY <1>2, <1>3
<1>5. ScalarAction(w) = {}
  <2>1. Index(t.rows, 0, "btree") # None /\ Covers(Index(t.rows, 0, "btree"), t.rows)
    BY <1>2, NewIndex, NothingIsNone DEF ScalarIndices
  <2>2. CASE t.rows < ScalarRows
    <3>1. w.scalar = None
      BY <1>3, <2>2, DueActions
    <3> QED
      BY <1>3, <2>2, <3>1 DEF ScalarAction
  <2>3. CASE ~(t.rows < ScalarRows)
    <3>1. Covers(w.scalar, t.rows)
      BY <1>3, <2>1, <2>3, DueActions
    <3> QED
      BY <1>3, <2>3, <3>1 DEF ScalarAction, Covers
  <2> QED
    BY <2>2, <2>3
<1>6. VectorAction(w, saves) = {}
  <2>1. CASE policy.strategy = "exact"
    <3>1. w.vector = None
      BY <1>1, <1>3, <2>1, DueActions
    <3> QED
      BY <1>3, <2>1, <3>1 DEF VectorAction
  <2>2. CASE policy.strategy = "ivf-pq"
    <3>1. Index(t.rows, 0, policy.partitions) # None /\ Covers(Index(t.rows, 0, policy.partitions), t.rows)
      <4>1. Index(t.rows, 0, policy.partitions) \in VectorIndices
        BY <1>2, NewIndex DEF VectorIndices
      <4> QED
        BY <1>2, <4>1, NewIndex, NothingIsNone
    <3>2. w.vector # None /\ Covers(w.vector, t.rows)
      BY <1>1, <1>3, <2>2, <3>1, DueActions
    <3>3. VectorManifest(w, TRUE) = policy
      BY <1>3, <2>2, <3>2 DEF VectorManifest
    <3>4. saves = policy
      BY <1>3, <3>3
    <3> QED
      BY <1>3, <1>4, <2>2, <3>2, <3>4, DueActions
  <2> QED
    BY <1>2, <2>1, <2>2
<1> QED
  BY <1>5, <1>6 DEF AdaptiveIndexActions

-----------------------------------------------------------------------------
(* The steps of a maintenance.                                              *)

LEMMA TypeCases ==
  ASSUME MaintenanceTypes
  PROVE  /\ job.phase = "idle" <=> job = Idle
         /\ job.phase \in {"writing", "missing"} <=> job \in Begun
         /\ job.phase \in AfterInspection <=> job \in Inspections
  BY DEF MaintenanceTypes, Idle, Begun, Inspections, AfterInspection

\* What is known of the table of a maintenance that has not reported.
LEMMA JobFacts ==
  ASSUME MaintenanceInv, job.phase \in AfterInspection \ {"reported"}
  PROVE  /\ job \in Inspections /\ job.table \in 1 .. MaxTables /\ job.by # "preview"
         /\ tables[job.table] \in TableRecords /\ tables[job.table] # None
         /\ TextInv(tables[job.table], job) /\ CompactionInv(tables[job.table], job)
         /\ VectorInv(tables[job.table], job)
<1>1. MaintenanceTypes /\ JobInv
  BY DEF MaintenanceInv
<1>2. job \in Inspections /\ job.phase # "reported"
  BY <1>1, TypeCases DEF AfterInspection
<1>3. job.table \in 1 .. MaxTables
  BY <1>2 DEF Inspections
<1>4. tables[job.table] # None /\ job.by # "preview"
  BY <1>1, <1>2 DEF JobInv
<1>5. tables[job.table] \in TableRecords
  BY <1>1, <1>3, <1>4 DEF MaintenanceTypes
<1> QED
  BY <1>1, <1>2, <1>3, <1>4, <1>5 DEF JobInv

\* A step of a maintenance that leaves the rows of its table alone.
LEMMA JobStep ==
  ASSUME MaintenanceInv, job.phase \in AfterInspection \ {"reported"},
         NEW t2 \in TableRecords, NEW j2 \in Inspections, NEW t, t = tables[job.table],
         tables' = [tables EXCEPT ![job.table] = t2], job' = j2, UNCHANGED <<active, saved, manifest, jobs>>,
         j2.table = job.table, j2.by = job.by, t2.rows = t.rows, t2.commits = t.commits,
         \A policy \in Policies, honest \in BOOLEAN :
            policy.strategy = "ivf-pq" /\ Sends(t, policy, honest) => Sends(t2, policy, honest),
         saved # None /\ saved.table = job.table =>
            t2.since - t2.uncounted <= saved.mutations + (IF j2.phase = "reported" THEN 0 ELSE j2.commits),
         TextInv(t2, j2), CompactionInv(t2, j2), VectorInv(t2, j2), SavedInv(t2, j2)
  PROVE  MaintenanceInv'
<1>1. /\ job \in Inspections /\ job.table \in 1 .. MaxTables /\ job.by # "preview"
      /\ t \in TableRecords /\ t # None /\ t2 # None
  BY JobFacts, NothingIsNone
<1>2. MaintenanceTypes /\ ManifestInv /\ CountInv
  BY DEF MaintenanceInv
<1>3. tables \in [1 .. MaxTables -> TableRecords \cup {None}] /\ tables'[job.table] = t2
  BY <1>1, <1>2 DEF MaintenanceTypes
<1>4. \A n \in 1 .. MaxTables : n # job.table => tables'[n] = tables[n]
  BY <1>3
<1>5. MaintenanceTypes'
  BY <1>1, <1>2, <1>3 DEF MaintenanceTypes
<1>6. ManifestInv'
  <2>1. SUFFICES ASSUME manifest # None
                 PROVE  /\ manifest.table = active /\ tables'[active] # None /\ manifest.commits <= tables'[active].commits
                        /\ manifest.commits = tables'[active].commits /\ manifest.vector.strategy = "ivf-pq"
                              => Sends(tables'[active], manifest.vector, manifest.honest)
    BY DEF ManifestInv
  <2>2. manifest.vector \in Policies /\ manifest.honest \in BOOLEAN /\ active \in 1 .. MaxTables
    BY <1>2, <2>1 DEF MaintenanceTypes, ManifestFiles
  <2>3. /\ manifest.table = active /\ tables[active] # None /\ manifest.commits <= tables[active].commits
        /\ manifest.commits = tables[active].commits /\ manifest.vector.strategy = "ivf-pq"
              => Sends(tables[active], manifest.vector, manifest.honest)
    BY <1>2, <2>1 DEF ManifestInv
  <2>4. CASE active = job.table
    BY <1>1, <1>3, <2>2, <2>3, <2>4
  <2>5. CASE active # job.table
    BY <1>4, <2>2, <2>3, <2>5
  <2> QED
    BY <2>4, <2>5
<1>7. CountInv'
  <2>1. SUFFICES ASSUME saved # None, tables'[saved.table] # None
                 PROVE  tables'[saved.table].since - tables'[saved.table].uncounted
                           <= saved.mutations + Pending(saved.table)'
    BY DEF CountInv, Pending
  <2>2. saved.table \in 1 .. MaxTables
    BY <1>2, <2>1 DEF MaintenanceTypes, StateFiles
  <2>3. CASE saved.table = job.table
    <3>1. Pending(saved.table)' = IF j2.phase = "reported" THEN 0 ELSE j2.commits
      BY <2>3 DEF Pending, Inspections, AfterInspection
    <3> QED
      BY <1>3, <2>1, <2>3, <3>1
  <2>4. CASE saved.table # job.table
    <3>1. Pending(saved.table)' = 0 /\ Pending(saved.table) = 0
      BY <2>4 DEF Pending
    <3>2. tables'[saved.table] = tables[saved.table]
      BY <1>4, <2>2, <2>4
    <3> QED
      BY <1>2, <2>1, <3>1, <3>2 DEF CountInv
  <2> QED
    BY <2>3, <2>4
<1>8. JobInv'
  <2>1. tables'[job'.table] = t2
    BY <1>3
  <2>2. SavedInv(t2, j2)'
    BY DEF SavedInv
  <2> QED
    BY <1>1, <2>1, <2>2 DEF JobInv
<1> QED
  BY <1>5, <1>6, <1>7, <1>8 DEF MaintenanceInv

LEMMA NextJob ==
  ASSUME NEW j \in Inspections, NEW phase \in AfterInspection, NEW planned \in SUBSET AllActions,
         NEW compacted \in BOOLEAN, NEW failed \in BOOLEAN, NEW honest \in BOOLEAN, NEW vector \in Policies, NEW j2,
         j2 = [j EXCEPT !.phase = phase, !.planned = planned, !.compacted = compacted, !.failed = failed,
                        !.honest = honest, !.vector = vector]
  PROVE  /\ j2 \in Inspections /\ j2.phase = phase /\ j2.planned = planned /\ j2.compacted = compacted
         /\ j2.failed = failed /\ j2.honest = honest /\ j2.vector = vector
         /\ j2.by = j.by /\ j2.table = j.table /\ j2.commits = j.commits /\ j2.mutations = j.mutations
         /\ j2.signature = j.signature /\ j2.before = j.before
  BY DEF Inspections

\* The text of a table is as maintenance found it until it compacts.
LEMMA OptimizeKeeps ==
  ASSUME MaintenanceInv, NEW phase \in {"compact", "recompact"}, Optimize(phase)
  PROVE  MaintenanceInv'
<1>1. job.phase \in AfterInspection \ {"reported"}
  BY DEF Optimize, Working, AfterInspection
<1>2. PICK t : t = tables[job.table]
  OBVIOUS
<1>3. /\ job \in Inspections /\ t \in TableRecords /\ t # None /\ TextInv(t, job) /\ CompactionInv(t, job) /\ VectorInv(t, job)
  BY <1>1, <1>2, JobFacts
<1>4. PICK versions \in {1, t.versions}, caughtUp \in BOOLEAN :
         tables' = [tables EXCEPT ![job.table] = Compacted(t, versions, caughtUp)]
  BY <1>2 DEF Optimize, Maintained
<1>5. PICK t2 : t2 = Compacted(t, versions, caughtUp)
  OBVIOUS
<1>6. versions \in Nat
  BY <1>3 DEF TableRecords
<1>7. /\ t2 \in TableRecords /\ t2.rows = t.rows /\ t2.commits = t.commits /\ t2.since = 0 /\ t2.uncounted = 0
      /\ t2.small = 0 /\ t2.fragments = 1
      /\ (t2.text # None <=> t.text # None) /\ (t2.vector # None <=> t.vector # None)
      /\ (t.text # None => t2.text.as = t.text.as) /\ (t.vector # None => t2.vector.as = t.vector.as)
      /\ (Covers(t.text, t.rows) => Covers(t2.text, t.rows))
      /\ (Covers(t.vector, t.rows) => Covers(t2.vector, t.rows))
  BY <1>3, <1>5, <1>6, Compaction
<1>8. PICK j2 : j2 = [job EXCEPT !.phase = "lexical", !.compacted = TRUE]
  OBVIOUS
<1>9. /\ j2 \in Inspections /\ j2.phase = "lexical" /\ j2.compacted /\ j2.planned = job.planned
      /\ j2.failed = job.failed /\ j2.honest = job.honest /\ j2.by = job.by /\ j2.table = job.table
      /\ j2.commits = job.commits /\ j2.mutations = job.mutations /\ j2.signature = job.signature
      /\ j2.before = job.before
  BY <1>3, <1>8 DEF Inspections, AfterInspection
<1>10. job.phase \in {"compact", "recompact"} /\ job.mutations \in Nat /\ job.commits \in Nat
  BY <1>3 DEF Optimize, Working, Inspections
<1>11. TextInv(t2, j2)
  BY <1>3, <1>7, <1>9, <1>10 DEF TextInv, TextComplete, TextKept
<1>12. CompactionInv(t2, j2)
  BY <1>7, <1>9, <1>10 DEF CompactionInv
<1>13. VectorInv(t2, j2)
  BY <1>3, <1>7, <1>9, <1>10 DEF VectorInv
<1>14. SavedInv(t2, j2)
  BY <1>9 DEF SavedInv
<1>15. \A policy \in Policies, honest \in BOOLEAN :
          policy.strategy = "ivf-pq" /\ Sends(t, policy, honest) => Sends(t2, policy, honest)
  BY <1>7 DEF Sends, Covers
<1>16. saved # None => saved.mutations \in Nat
  BY DEF MaintenanceInv, MaintenanceTypes, StateFiles
<1>17. saved # None /\ saved.table = job.table =>
          t2.since - t2.uncounted <= saved.mutations + (IF j2.phase = "reported" THEN 0 ELSE j2.commits)
  BY <1>7, <1>9, <1>10, <1>16
<1>18. tables' = [tables EXCEPT ![job.table] = t2] /\ job' = j2 /\ UNCHANGED <<active, saved, manifest, jobs>>
  BY <1>4, <1>5, <1>8 DEF Optimize, Unchanged
<1> QED
  BY <1>1, <1>2, <1>7, <1>9, <1>11, <1>12, <1>13, <1>14, <1>15, <1>17, <1>18, JobStep

\* A step that leaves its table alone, or changes its text only.
LEMMA TextStep ==
  ASSUME MaintenanceInv, job.phase \in {"compact", "recompact", "lexical"}, NEW t, t = tables[job.table],
         NEW t2, t2 = t \/ \E text \in TextIndices : t2 = [t EXCEPT !.text = text],
         NEW j2 \in Inspections, j2.phase \in {"recompact", "lexical", "adapt"},
         j2.table = job.table, j2.by = job.by, j2.commits = job.commits, j2.mutations = job.mutations,
         j2.signature = job.signature, j2.honest = job.honest,
         tables' = [tables EXCEPT ![job.table] = t2], job' = j2, UNCHANGED <<active, saved, manifest, jobs>>,
         TextInv(t2, j2), CompactionInv(t, j2)
  PROVE  MaintenanceInv'
<1>1. job.phase \in AfterInspection \ {"reported"}
  BY DEF AfterInspection
<1>2. job \in Inspections /\ t \in TableRecords /\ t # None /\ CompactionInv(t, job) /\ VectorInv(t, job)
  BY <1>1, JobFacts
<1>3. /\ t2 \in TableRecords /\ t2.rows = t.rows /\ t2.fragments = t.fragments /\ t2.small = t.small
      /\ t2.vector = t.vector /\ t2.commits = t.commits /\ t2.since = t.since /\ t2.uncounted = t.uncounted
  BY <1>2 DEF TableRecords
<1>4. CompactionInv(t2, j2)
  BY <1>3 DEF CompactionInv, NotDue, RequiresCompaction
<1>5. VectorInv(t2, j2)
  BY <1>2, <1>3 DEF VectorInv
<1>6. SavedInv(t2, j2)
  BY DEF SavedInv
<1>7. \A policy \in Policies, honest \in BOOLEAN :
         policy.strategy = "ivf-pq" /\ Sends(t, policy, honest) => Sends(t2, policy, honest)
  BY <1>3 DEF Sends
<1>8. saved # None /\ saved.table = job.table => t.since - t.uncounted <= saved.mutations + job.commits
  BY <1>2 DEF MaintenanceInv, CountInv, Pending
<1>9. saved # None /\ saved.table = job.table =>
         t2.since - t2.uncounted <= saved.mutations + (IF j2.phase = "reported" THEN 0 ELSE j2.commits)
  BY <1>3, <1>8
<1>10. /\ tables' = [tables EXCEPT ![job.table] = t2] /\ job' = j2 /\ UNCHANGED <<active, saved, manifest, jobs>>
       /\ j2.table = job.table /\ j2.by = job.by /\ t2 \in TableRecords /\ TextInv(t2, j2)
  BY <1>3
<1> QED
  BY ONLY MaintenanceInv, t = tables[job.table], j2 \in Inspections, <1>1, <1>3, <1>4, <1>5, <1>6, <1>7, <1>9, <1>10, JobStep

\* A compaction that fails, is not due or has to drop the positions first.
LEMMA OptimizeFailsKeeps ==
  ASSUME MaintenanceInv, NEW phase \in {"compact", "recompact"}, OptimizeFails(phase)
  PROVE  MaintenanceInv'
<1>1. job.phase \in {"compact", "recompact"} /\ job.phase \in AfterInspection \ {"reported"}
  BY DEF OptimizeFails, Working, AfterInspection
<1>2. PICK t : t = tables[job.table]
  OBVIOUS
<1>3. /\ job \in Inspections /\ TextInv(t, job) /\ CompactionInv(t, job)
      /\ tables \in [1 .. MaxTables -> TableRecords \cup {None}]
  BY <1>1, <1>2, JobFacts DEF MaintenanceInv, MaintenanceTypes
<1>4. PICK j2 : j2 = [job EXCEPT !.phase = "lexical", !.failed = TRUE]
  OBVIOUS
<1>5. /\ j2 \in Inspections /\ j2.phase = "lexical" /\ j2.failed /\ j2.planned = job.planned
      /\ j2.compacted = job.compacted /\ j2.honest = job.honest /\ j2.by = job.by /\ j2.table = job.table
      /\ j2.commits = job.commits /\ j2.mutations = job.mutations /\ j2.signature = job.signature
      /\ j2.before = job.before
  BY <1>3, <1>4 DEF Inspections, AfterInspection
<1>6. TextInv(t, j2)
  BY <1>1, <1>3, <1>5 DEF TextInv, TextKept
<1>7. CompactionInv(t, j2)
  BY <1>3, <1>5 DEF CompactionInv
<1>8. tables' = [tables EXCEPT ![job.table] = t] /\ job' = j2 /\ UNCHANGED <<active, saved, manifest, jobs>>
  BY <1>2, <1>3, <1>4 DEF OptimizeFails, Unchanged
<1> QED
  BY <1>1, <1>2, <1>5, <1>6, <1>7, <1>8, TextStep

LEMMA PositionalErrorKeeps ==
  ASSUME MaintenanceInv, PositionalError
  PROVE  MaintenanceInv'
<1>1. job.phase = "compact" /\ job.phase \in AfterInspection \ {"reported"} /\ "compact-fragments" \in job.planned
  BY DEF PositionalError, Working, AfterInspection
<1>2. PICK t : t = tables[job.table]
  OBVIOUS
<1>3. job \in Inspections /\ t \in TableRecords /\ TextInv(t, job) /\ CompactionInv(t, job)
      /\ tables \in [1 .. MaxTables -> TableRecords \cup {None}]
  BY <1>1, <1>2, JobFacts DEF MaintenanceInv, MaintenanceTypes
<1>4. CASE /\ tables' = [tables EXCEPT ![job.table].text = Index(Maintained.rows, 0, "plain")]
           /\ job' = [job EXCEPT !.phase = "recompact", !.planned = @ \cup {"refresh-full-text-index"}]
  <2>1. PICK text : text = Index(t.rows, 0, "plain")
    OBVIOUS
  <2>2. text \in TextIndices
    BY <1>3, <2>1, NewIndex DEF TextIndices, TableRecords
  <2>3. PICK t2 : t2 = [t EXCEPT !.text = text]
    OBVIOUS
  <2>4. PICK j2 : j2 = [job EXCEPT !.phase = "recompact", !.planned = @ \cup {"refresh-full-text-index"}]
    OBVIOUS
  <2>5. /\ j2 \in Inspections /\ j2.phase = "recompact" /\ j2.planned = job.planned \cup {"refresh-full-text-index"}
        /\ j2.failed = job.failed /\ j2.compacted = job.compacted /\ j2.honest = job.honest /\ j2.by = job.by
        /\ j2.table = job.table /\ j2.commits = job.commits /\ j2.mutations = job.mutations
        /\ j2.signature = job.signature
    BY <1>3, <2>4 DEF Inspections, AfterInspection, AllActions
  <2>6. TextInv(t2, j2)
    BY <2>5 DEF TextInv
  <2>7. CompactionInv(t, j2)
    BY <1>1, <1>3, <2>5 DEF CompactionInv
  <2>8. tables' = [tables EXCEPT ![job.table] = t2] /\ job' = j2 /\ UNCHANGED <<active, saved, manifest, jobs>>
    BY <1>2, <1>4, <2>1, <2>3, <2>4 DEF PositionalError, Unchanged, Maintained
  <2>9. t2 = t \/ \E x \in TextIndices : t2 = [t EXCEPT !.text = x]
    BY <2>2, <2>3
  <2> QED
    BY <1>1, <1>2, <2>5, <2>6, <2>7, <2>8, <2>9, TextStep
<1>5. CASE job' = [job EXCEPT !.phase = "lexical", !.failed = TRUE] /\ UNCHANGED tables
  <2>1. OptimizeFails("compact")
    BY <1>5 DEF PositionalError, OptimizeFails, Working
  <2> QED
    BY <2>1, OptimizeFailsKeeps
<1> QED
  BY <1>4, <1>5 DEF PositionalError

LEMMA NothingToCompactKeeps ==
  ASSUME MaintenanceInv, NothingToCompact
  PROVE  MaintenanceInv'
<1>1. job.phase = "compact" /\ job.phase \in AfterInspection \ {"reported"} /\ "compact-fragments" \notin job.planned
  BY DEF NothingToCompact, Working, AfterInspection
<1>2. PICK t : t = tables[job.table]
  OBVIOUS
<1>3. job \in Inspections /\ TextInv(t, job) /\ CompactionInv(t, job)
      /\ tables \in [1 .. MaxTables -> TableRecords \cup {None}]
  BY <1>1, <1>2, JobFacts DEF MaintenanceInv, MaintenanceTypes
<1>4. PICK j2 : j2 = [job EXCEPT !.phase = "lexical"]
  OBVIOUS
<1>5. /\ j2 \in Inspections /\ j2.phase = "lexical" /\ j2.planned = job.planned /\ j2.failed = job.failed
      /\ j2.compacted = job.compacted /\ j2.honest = job.honest /\ j2.by = job.by /\ j2.table = job.table
      /\ j2.commits = job.commits /\ j2.mutations = job.mutations /\ j2.signature = job.signature
      /\ j2.before = job.before
  BY <1>3, <1>4 DEF Inspections, AfterInspection
<1>6. TextInv(t, j2)
  BY <1>1, <1>3, <1>5 DEF TextInv, TextKept
<1>7. CompactionInv(t, j2)
  BY <1>1, <1>3, <1>5 DEF CompactionInv, NotDue
<1>8. tables' = [tables EXCEPT ![job.table] = t] /\ job' = j2 /\ UNCHANGED <<active, saved, manifest, jobs>>
  BY <1>2, <1>3, <1>4 DEF NothingToCompact, Unchanged
<1> QED
  BY <1>1, <1>2, <1>5, <1>6, <1>7, <1>8, TextStep

\* The text index is built again, or it is as complete as the inspection found it.
LEMMA RefreshLexicalKeeps ==
  ASSUME MaintenanceInv, RefreshLexical
  PROVE  MaintenanceInv'
<1>1. job.phase = "lexical" /\ job.phase \in AfterInspection \ {"reported"}
  BY DEF RefreshLexical, Working, AfterInspection
<1>2. PICK t : t = tables[job.table]
  OBVIOUS
<1>3. job \in Inspections /\ t \in TableRecords /\ TextInv(t, job) /\ CompactionInv(t, job)
      /\ tables \in [1 .. MaxTables -> TableRecords \cup {None}]
  BY <1>1, <1>2, JobFacts DEF MaintenanceInv, MaintenanceTypes
<1>4. CASE /\ tables' = [tables EXCEPT ![job.table].text = Index(Maintained.rows, 0, "positions")]
           /\ job' = [job EXCEPT !.phase = "adapt", !.planned = {}]
  <2>1. PICK text : text = Index(t.rows, 0, "positions")
    OBVIOUS
  <2>2. text \in TextIndices /\ text # None /\ text.as = "positions" /\ Covers(text, t.rows)
    BY <1>3, <2>1, NewIndex, NothingIsNone DEF TextIndices, TableRecords
  <2>3. PICK t2 : t2 = [t EXCEPT !.text = text]
    OBVIOUS
  <2>4. PICK j2 : j2 = [job EXCEPT !.phase = "adapt", !.planned = {}]
    OBVIOUS
  <2>5. /\ j2 \in Inspections /\ j2.phase = "adapt" /\ j2.failed = job.failed /\ j2.compacted = job.compacted
        /\ j2.honest = job.honest /\ j2.by = job.by /\ j2.table = job.table /\ j2.commits = job.commits
        /\ j2.mutations = job.mutations /\ j2.signature = job.signature
    BY <1>3, <2>4 DEF Inspections, AfterInspection, AllActions
  <2>6. t2.text = text /\ t2.rows = t.rows
    BY <1>3, <2>3 DEF TableRecords
  <2>7. TextInv(t2, j2)
    BY <2>2, <2>5, <2>6 DEF TextInv, TextComplete, TextKept
  <2>8. CompactionInv(t, j2)
    BY <1>1, <1>3, <2>5 DEF CompactionInv, NotDue
  <2>9. tables' = [tables EXCEPT ![job.table] = t2] /\ job' = j2 /\ UNCHANGED <<active, saved, manifest, jobs>>
    BY <1>2, <1>4, <2>1, <2>3, <2>4 DEF RefreshLexical, Unchanged, Maintained
  <2>10. t2 = t \/ \E x \in TextIndices : t2 = [t EXCEPT !.text = x]
    BY <2>2, <2>3
  <2> QED
    BY <1>1, <1>2, <2>5, <2>7, <2>8, <2>9, <2>10, TextStep
<1>5. CASE /\ job' = [job EXCEPT !.phase = "adapt", !.failed = @ \/ "refresh-full-text-index" \in job.planned]
           /\ UNCHANGED tables
  <2>1. PICK j2 : j2 = [job EXCEPT !.phase = "adapt", !.failed = @ \/ "refresh-full-text-index" \in job.planned]
    OBVIOUS
  <2>2. PICK failed \in BOOLEAN : failed <=> job.failed \/ "refresh-full-text-index" \in job.planned
    OBVIOUS
  <2>3. (job.failed \/ "refresh-full-text-index" \in job.planned) = failed
    BY <1>3, <2>2 DEF Inspections
  <2>4. j2 = [job EXCEPT !.phase = "adapt", !.failed = failed]
    BY <2>1, <2>3 DEF Inspections
  <2>5. /\ j2 \in Inspections /\ j2.phase = "adapt" /\ j2.failed = failed /\ j2.compacted = job.compacted
        /\ j2.honest = job.honest /\ j2.by = job.by /\ j2.table = job.table /\ j2.commits = job.commits
        /\ j2.mutations = job.mutations /\ j2.signature = job.signature /\ j2.before = job.before
    BY <1>3, <2>4 DEF Inspections, AfterInspection
  <2>6. TextInv(t, j2)
    BY <1>1, <1>3, <2>2, <2>5 DEF TextInv, TextKept
  <2>7. CompactionInv(t, j2)
    BY <1>1, <1>3, <2>2, <2>5 DEF CompactionInv, NotDue
  <2>8. tables' = [tables EXCEPT ![job.table] = t] /\ job' = j2 /\ UNCHANGED <<active, saved, manifest, jobs>>
    BY <1>2, <1>3, <1>5, <2>1 DEF RefreshLexical, Unchanged
  <2> QED
    BY <1>1, <1>2, <2>5, <2>6, <2>7, <2>8, TextStep
<1> QED
  BY <1>4, <1>5 DEF RefreshLexical

\* What the indices become is what the job tells the manifest of them.
LEMMA MaintainAdaptiveIndicesKeeps ==
  ASSUME MaintenanceInv, MaintainAdaptiveIndices
  PROVE  MaintenanceInv'
<1>1. job.phase = "adapt" /\ job.phase \in AfterInspection \ {"reported"}
  BY DEF MaintainAdaptiveIndices, Working, AfterInspection
<1>2. PICK t : t = tables[job.table]
  OBVIOUS
<1>3. /\ job \in Inspections /\ t \in TableRecords /\ TextInv(t, job) /\ CompactionInv(t, job) /\ VectorInv(t, job)
      /\ tables \in [1 .. MaxTables -> TableRecords \cup {None}]
  BY <1>1, <1>2, JobFacts DEF MaintenanceInv, MaintenanceTypes
<1>4. PICK signature, due : signature = job.signature /\ due = VectorAction(t, signature)
  OBVIOUS
<1>5. PICK done \in SUBSET AdaptiveIndexActions(t, signature) :
         /\ tables' = [tables EXCEPT ![job.table] = Applied(t, done)]
         /\ job' = [job EXCEPT !.phase = "save", !.failed = @ \/ done # AdaptiveIndexActions(t, signature),
                               !.honest = @ \/ due \cap done # {},
                               !.vector = VectorManifest(Applied(t, done), due \subseteq done)]
  BY <1>2, <1>4 DEF MaintainAdaptiveIndices, Maintained
<1>6. PICK t2 : t2 = Applied(t, done)
  OBVIOUS
<1>7. PICK failed \in BOOLEAN, honest \in BOOLEAN, applied \in BOOLEAN :
         /\ failed <=> job.failed \/ done # AdaptiveIndexActions(t, signature)
         /\ honest <=> job.honest \/ due \cap done # {}
         /\ applied <=> due \subseteq done
  <2>2. \E b \in BOOLEAN : b <=> job.failed \/ done # AdaptiveIndexActions(t, signature)
    OBVIOUS
  <2>3. \E b \in BOOLEAN : b <=> job.honest \/ due \cap done # {}
    OBVIOUS
  <2>4. \E b \in BOOLEAN : b <=> due \subseteq done
    OBVIOUS
  <2> QED
    BY <2>2, <2>3, <2>4
<1>8. PICK vector : vector = VectorManifest(t2, applied)
  OBVIOUS
<1>9. signature \in Policies \cup {None}
  BY <1>3, <1>4 DEF Inspections
<1>10. PICK policy : policy = AdaptiveVectorIndexPolicy(t.rows)
  OBVIOUS
<1>11. /\ policy \in Policies /\ policy # None /\ policy.strategy \in {"exact", "ivf-pq"} /\ t.rows \in Nat
  <2>1. t.rows \in 0 .. MaxRows
    BY <1>3 DEF TableRecords
  <2> QED
    BY <1>10, <2>1, PolicyOf, NothingIsNone
<1>12. /\ t2 \in TableRecords /\ t2.rows = t.rows /\ t2.fragments = t.fragments /\ t2.small = t.small /\ t2.text = t.text
       /\ t2.commits = t.commits /\ t2.since = t.since /\ t2.uncounted = t.uncounted
       /\ (due \cap done = {} => t2.vector = t.vector)
       /\ (due \cap done # {} =>
              t2.vector = IF policy.strategy = "exact" THEN None ELSE Index(t.rows, 0, policy.partitions))
  BY <1>3, <1>4, <1>6, <1>9, <1>10, AppliedActions
<1>13. /\ (policy.strategy = "exact" => due \subseteq {"drop-vector-index"})
       /\ (policy.strategy = "ivf-pq" => (due = {} <=> signature = policy /\ t.vector # None /\ Covers(t.vector, t.rows)))
  BY <1>3, <1>4, <1>9, <1>10, DueActions
<1>14. Index(t.rows, 0, policy.partitions) # None /\ Index(t.rows, 0, policy.partitions).as = policy.partitions
       /\ Covers(Index(t.rows, 0, policy.partitions), t.rows)
  <2>1. Index(t.rows, 0, policy.partitions) \in VectorIndices
    BY <1>11, NewIndex DEF VectorIndices
  <2> QED
    BY <1>11, <2>1, NewIndex, NothingIsNone
<1>15. /\ vector = IF applied /\ policy.strategy = "ivf-pq" /\ Covers(t2.vector, t.rows) THEN policy ELSE AdaptiveVectorIndexPolicy(0)
       /\ vector \in Policies
  BY <1>8, <1>10, <1>11, <1>12, NoPolicy DEF VectorManifest
<1>16. PICK j2 : j2 = [job EXCEPT !.phase = "save", !.failed = failed, !.honest = honest, !.vector = vector]
  OBVIOUS
<1>17. job' = j2
  <2>1. /\ (job.failed \/ done # AdaptiveIndexActions(t, signature)) = failed
        /\ (job.honest \/ due \cap done # {}) = honest
        /\ (due \subseteq done) = applied
    BY <1>3, <1>7 DEF Inspections
  <2>2. VectorManifest(Applied(t, done), due \subseteq done) = vector
    BY <1>6, <1>8, <2>1
  <2> QED
    BY <1>3, <1>5, <1>16, <2>1, <2>2 DEF Inspections
<1>18. /\ j2 \in Inspections /\ j2.phase = "save" /\ j2.failed = failed /\ j2.honest = honest /\ j2.vector = vector
       /\ j2.compacted = job.compacted /\ j2.by = job.by /\ j2.table = job.table /\ j2.commits = job.commits
       /\ j2.mutations = job.mutations /\ j2.signature = signature /\ j2.before = job.before
  BY <1>3, <1>4, <1>15, <1>16 DEF Inspections, AfterInspection
<1>19. TextInv(t2, j2)
  BY <1>1, <1>3, <1>7, <1>12, <1>18 DEF TextInv, TextKept, TextComplete
<1>20. CompactionInv(t2, j2)
  BY <1>1, <1>3, <1>7, <1>12, <1>18 DEF CompactionInv, NotDue, RequiresCompaction
<1>21. VectorInv(t2, j2)
  <2>1. ASSUME vector.strategy = "ivf-pq" PROVE Sends(t2, vector, honest)
    <3>1. applied /\ policy.strategy = "ivf-pq" /\ Covers(t2.vector, t.rows) /\ vector = policy
      BY <1>15, <2>1, NoPolicy
    <3>2. honest => t2.vector.as = policy.partitions
      <4>1. CASE due \cap done # {}
        BY <1>12, <1>14, <3>1, <4>1
      <4>2. CASE due \cap done = {}
        <5>1. due = {}
          BY <1>7, <3>1, <4>2
        <5>2. signature = policy /\ t.vector # None /\ t2.vector = t.vector /\ (honest => job.honest)
          BY <1>7, <1>12, <1>13, <3>1, <4>2, <5>1
        <5> QED
          BY <1>1, <1>3, <1>4, <1>11, <5>2 DEF VectorInv
      <4> QED
        BY <4>1, <4>2
    <3> QED
      BY <1>10, <1>12, <3>1, <3>2 DEF Sends
  <2>2. ASSUME ~failed PROVE AdaptiveIndexActions(t2, NextSignature(t2, j2)) = {}
    <3>1. done = AdaptiveIndexActions(t, signature) /\ applied
      BY <1>4, <1>7, <2>2 DEF AdaptiveIndexActions
    <3>2. t2 = Applied(t, AdaptiveIndexActions(t, signature)) /\ vector = VectorManifest(t2, TRUE)
      BY <1>6, <1>8, <3>1
    <3>3. NextSignature(t2, j2) = IF VectorManifest(t2, TRUE).strategy = AdaptiveVectorIndexPolicy(t2.rows).strategy
                                  THEN AdaptiveVectorIndexPolicy(t2.rows) ELSE signature
      BY <1>18, <3>2 DEF NextSignature
    <3> QED
      BY <1>3, <1>9, <3>2, <3>3, AllDone
  <2> QED
    BY <1>18, <2>1, <2>2 DEF VectorInv
<1>22. SavedInv(t2, j2)
  BY <1>18 DEF SavedInv
<1>23. \A q \in Policies, h \in BOOLEAN : q.strategy = "ivf-pq" /\ Sends(t, q, h) => Sends(t2, q, h)
  <2>1. SUFFICES ASSUME NEW q \in Policies, NEW h \in BOOLEAN, q.strategy = "ivf-pq", Sends(t, q, h)
                 PROVE  Sends(t2, q, h)
    OBVIOUS
  <2>2. q = policy /\ Covers(t.vector, t.rows) /\ (h => t.vector.as = policy.partitions)
    BY <1>10, <2>1 DEF Sends
  <2>3. CASE due \cap done # {}
    BY <1>10, <1>12, <1>14, <2>1, <2>2, <2>3 DEF Sends
  <2>4. CASE due \cap done = {}
    BY <1>10, <1>12, <2>2, <2>4 DEF Sends
  <2> QED
    BY <2>3, <2>4
<1>24. saved # None /\ saved.table = job.table =>
          t2.since - t2.uncounted <= saved.mutations + (IF j2.phase = "reported" THEN 0 ELSE j2.commits)
  <2>1. saved # None /\ saved.table = job.table => t.since - t.uncounted <= saved.mutations + job.commits
    BY <1>1, <1>2, <1>3, JobFacts DEF MaintenanceInv, CountInv, Pending
  <2> QED
    BY <1>12, <1>18, <2>1
<1>25. tables' = [tables EXCEPT ![job.table] = t2] /\ UNCHANGED <<active, saved, manifest, jobs>>
  BY <1>5, <1>6 DEF MaintainAdaptiveIndices, Unchanged
<1> QED
  BY ONLY MaintenanceInv, <1>1, <1>2, <1>12, <1>17, <1>18, <1>19, <1>20, <1>21, <1>22, <1>23, <1>24, <1>25, JobStep

\* The commits whose count is lost.
Lost(t, c) == [t EXCEPT !.uncounted = Least(@ + c, t.since)]
LEMMA LostCount ==
  ASSUME NEW t \in TableRecords, NEW c, c \in Nat, NEW t2, t2 = Lost(t, c)
  PROVE  /\ t2 \in TableRecords /\ t2.rows = t.rows /\ t2.fragments = t.fragments /\ t2.small = t.small
         /\ t2.text = t.text /\ t2.vector = t.vector /\ t2.scalar = t.scalar /\ t2.commits = t.commits /\ t2.since = t.since
         /\ t2.since - t2.uncounted <= 0 \/ t2.since - t2.uncounted = (t.since - t.uncounted) - c
         /\ t.since = 0 /\ t.uncounted = 0 => t2.uncounted = 0
<1>1. PICK u : u = Least(t.uncounted + c, t.since)
  OBVIOUS
<1>2. t.uncounted \in Int /\ t.since \in Nat
  BY DEF TableRecords
<1>3. u = t.uncounted + c \/ u = t.since
  BY <1>1 DEF Least
<1>4. u \in Int
  BY <1>2, <1>3
<1>5. t.since = 0 /\ t.uncounted = 0 => u = 0
  BY <1>1, <1>2 DEF Least
<1>6. t2 = [t EXCEPT !.uncounted = u]
  BY <1>1 DEF Lost
<1>7. /\ t2 \in TableRecords /\ t2.rows = t.rows /\ t2.fragments = t.fragments /\ t2.small = t.small
      /\ t2.text = t.text /\ t2.vector = t.vector /\ t2.scalar = t.scalar /\ t2.commits = t.commits
      /\ t2.since = t.since /\ t2.uncounted = u
  BY <1>4, <1>6 DEF TableRecords
<1> QED
  BY <1>2, <1>3, <1>5, <1>7

\* The counts are saved, with the policy the indices were made for.
LEMMA SaveStateKeeps ==
  ASSUME MaintenanceInv, SaveState
  PROVE  MaintenanceInv'
<1>1. job.phase = "save" /\ job.phase \in AfterInspection \ {"reported"}
  BY DEF SaveState, Working, AfterInspection
<1>2. PICK t : t = tables[job.table]
  OBVIOUS
<1>3. /\ job \in Inspections /\ job.table \in 1 .. MaxTables /\ job.by # "preview" /\ t \in TableRecords /\ t # None
      /\ TextInv(t, job) /\ CompactionInv(t, job) /\ VectorInv(t, job)
      /\ MaintenanceTypes /\ ManifestInv /\ CountInv
  BY <1>1, <1>2, JobFacts DEF MaintenanceInv
<1>4. PICK signature : signature = NextSignature(t, job)
  OBVIOUS
<1>5. signature \in Policies \cup {None}
  <2>1. t.rows \in 0 .. MaxRows
    BY <1>3 DEF TableRecords
  <2> QED
    BY <1>3, <1>4, <2>1, PolicyOf DEF NextSignature, Inspections
<1>6. PICK count : count = IF job.compacted THEN 0 ELSE job.mutations
  OBVIOUS
<1>7. count \in Nat
  BY <1>3, <1>6 DEF Inspections
<1>8. PICK file : file = [table |-> job.table, mutations |-> count, signature |-> signature]
  OBVIOUS
<1>9. file \in StateFiles /\ file.table = job.table /\ file.mutations = count /\ file.signature = signature /\ file # None
  BY <1>3, <1>5, <1>7, <1>8, NothingIsNone DEF StateFiles
<1>10. saved' = file
  BY <1>2, <1>4, <1>6, <1>8 DEF SaveState, NextSignature, Maintained
<1>11. PICK j2 : j2 = [job EXCEPT !.phase = "reported"]
  OBVIOUS
<1>12. /\ j2 \in Inspections /\ j2.phase = "reported" /\ j2.planned = job.planned /\ j2.failed = job.failed
       /\ j2.compacted = job.compacted /\ j2.honest = job.honest /\ j2.by = job.by /\ j2.table = job.table
       /\ j2.commits = job.commits /\ j2.mutations = job.mutations /\ j2.signature = job.signature
       /\ j2.before = job.before /\ j2.vector = job.vector
  BY <1>3, <1>11 DEF Inspections, AfterInspection
<1>13. job' = j2 /\ UNCHANGED <<tables, active, manifest, jobs>>
  BY <1>11 DEF SaveState
<1>14. MaintenanceTypes'
  BY <1>3, <1>9, <1>10, <1>12, <1>13 DEF MaintenanceTypes
<1>15. ManifestInv'
  BY <1>3, <1>13 DEF ManifestInv
<1>16. CountInv'
  <2>1. t.since - t.uncounted <= count
    BY <1>3, <1>6 DEF CompactionInv
  <2>2. tables'[saved'.table] = t /\ saved'.mutations = count
    BY <1>2, <1>9, <1>10, <1>13
  <2>3. Pending(saved.table)' = 0
    BY <1>12, <1>13 DEF Pending
  <2> QED
    BY <1>7, <2>1, <2>2, <2>3 DEF CountInv
<1>17. JobInv'
  <2>1. TextInv(t, j2)
    BY <1>1, <1>3, <1>12 DEF TextInv, TextKept
  <2>2. CompactionInv(t, j2)
    BY <1>1, <1>3, <1>12 DEF CompactionInv, NotDue
  <2>3. VectorInv(t, j2)
    BY <1>1, <1>3, <1>12 DEF VectorInv
  <2>4. SavedInv(t, j2)'
    BY <1>1, <1>3, <1>4, <1>6, <1>9, <1>10, <1>12 DEF SavedInv, VectorInv
  <2>5. tables'[job'.table] = t
    BY <1>2, <1>12, <1>13
  <2> QED
    BY <1>3, <1>12, <1>13, <2>1, <2>2, <2>3, <2>4, <2>5 DEF JobInv
<1> QED
  BY <1>14, <1>15, <1>16, <1>17 DEF MaintenanceInv

LEMMA SaveFailsKeeps ==
  ASSUME MaintenanceInv, SaveFails
  PROVE  MaintenanceInv'
<1>1. job.phase = "save" /\ job.phase \in AfterInspection \ {"reported"}
  BY DEF SaveFails, Working, AfterInspection
<1>2. PICK t : t = tables[job.table]
  OBVIOUS
<1>3. /\ job \in Inspections /\ job.table \in 1 .. MaxTables /\ t \in TableRecords
      /\ TextInv(t, job) /\ CompactionInv(t, job) /\ VectorInv(t, job)
      /\ tables \in [1 .. MaxTables -> TableRecords \cup {None}]
  BY <1>1, <1>2, JobFacts DEF MaintenanceInv, MaintenanceTypes
<1>4. job.commits \in Nat /\ job.mutations \in Nat
  BY <1>3 DEF Inspections
<1>5. PICK t2 : t2 = Lost(t, job.commits)
  OBVIOUS
<1>6. /\ t2 \in TableRecords /\ t2.rows = t.rows /\ t2.fragments = t.fragments /\ t2.small = t.small
      /\ t2.text = t.text /\ t2.vector = t.vector /\ t2.scalar = t.scalar /\ t2.commits = t.commits /\ t2.since = t.since
      /\ (t2.since - t2.uncounted <= 0 \/ t2.since - t2.uncounted = (t.since - t.uncounted) - job.commits)
      /\ (t.since = 0 /\ t.uncounted = 0 => t2.uncounted = 0)
  BY <1>3, <1>4, <1>5, LostCount
<1>7. PICK j2 : j2 = [job EXCEPT !.phase = "reported", !.failed = TRUE]
  OBVIOUS
<1>8. /\ j2 \in Inspections /\ j2.phase = "reported" /\ j2.failed /\ j2.planned = job.planned
      /\ j2.compacted = job.compacted /\ j2.honest = job.honest /\ j2.by = job.by /\ j2.table = job.table
      /\ j2.commits = job.commits /\ j2.mutations = job.mutations /\ j2.vector = job.vector
  BY <1>3, <1>7 DEF Inspections, AfterInspection
<1>9. TextInv(t2, j2)
  BY <1>8 DEF TextInv
<1>10. CompactionInv(t2, j2)
  <2>1. t.since \in Int /\ t.uncounted \in Int /\ t2.uncounted \in Int
    BY <1>3, <1>6 DEF TableRecords
  <2>2. t.since - t.uncounted <= job.mutations
    BY <1>3 DEF CompactionInv
  <2>3. t2.since - t2.uncounted <= job.mutations
    BY <1>4, <1>6, <2>1, <2>2
  <2> QED
    BY <1>3, <1>6, <1>8, <2>3 DEF CompactionInv
<1>11. VectorInv(t2, j2)
  BY <1>1, <1>3, <1>6, <1>8 DEF VectorInv, Sends
<1>12. SavedInv(t2, j2)
  BY <1>8 DEF SavedInv
<1>13. \A policy \in Policies, honest \in BOOLEAN :
          policy.strategy = "ivf-pq" /\ Sends(t, policy, honest) => Sends(t2, policy, honest)
  BY <1>6 DEF Sends
<1>14. saved # None /\ saved.table = job.table =>
          t2.since - t2.uncounted <= saved.mutations + (IF j2.phase = "reported" THEN 0 ELSE j2.commits)
  <2>1. ASSUME saved # None, saved.table = job.table PROVE t2.since - t2.uncounted <= saved.mutations
    <3>1. saved.mutations \in Nat
      BY <2>1 DEF MaintenanceInv, MaintenanceTypes, StateFiles
    <3>2. t.since - t.uncounted <= saved.mutations + job.commits
      BY <1>1, <1>2, <2>1, JobFacts DEF MaintenanceInv, CountInv, Pending
    <3>3. t.since \in Int /\ t.uncounted \in Int /\ t2.uncounted \in Int
      BY <1>3, <1>6 DEF TableRecords
    <3> QED
      BY <1>4, <1>6, <3>1, <3>2, <3>3
  <2>2. saved # None => saved.mutations \in Nat
    BY DEF MaintenanceInv, MaintenanceTypes, StateFiles
  <2> QED
    BY <1>8, <2>1, <2>2
<1>15. tables' = [tables EXCEPT ![job.table] = t2] /\ job' = j2 /\ UNCHANGED <<active, saved, manifest, jobs>>
  BY <1>2, <1>3, <1>5, <1>7 DEF SaveFails, Unchanged, Maintained, Lost
<1> QED
  BY ONLY MaintenanceInv, <1>1, <1>2, <1>6, <1>8, <1>9, <1>10, <1>11, <1>12, <1>13, <1>14, <1>15, JobStep

-----------------------------------------------------------------------------
(* The steps around it.                                                     *)

\* A job ends where every commit it knew of is counted or lost.
LEMMA JobEnds ==
  ASSUME MaintenanceInv, job' = Idle, UNCHANGED <<active, saved, manifest, jobs>>,
         tables' \in [1 .. MaxTables -> TableRecords \cup {None}],
         \A n \in 1 .. MaxTables :
            /\ tables'[n] = None <=> tables[n] = None
            /\ tables[n] # None =>
                  /\ tables'[n].rows = tables[n].rows /\ tables'[n].vector = tables[n].vector
                  /\ tables'[n].commits = tables[n].commits,
         saved # None /\ tables[saved.table] # None =>
            tables'[saved.table].since - tables'[saved.table].uncounted <= saved.mutations
  PROVE  MaintenanceInv'
<1>1. MaintenanceTypes'
  BY DEF MaintenanceInv, MaintenanceTypes
<1>2. ManifestInv'
  <2>1. manifest # None => active \in 1 .. MaxTables
    BY DEF MaintenanceInv, MaintenanceTypes
  <2> QED
    BY <2>1 DEF MaintenanceInv, ManifestInv, Sends
<1>3. CountInv'
  <2>1. saved # None => saved.table \in 1 .. MaxTables /\ saved.mutations \in Nat
    BY DEF MaintenanceInv, MaintenanceTypes, StateFiles
  <2>2. Pending(saved.table)' = 0
    BY DEF Pending, Idle
  <2>3. saved # None /\ tables'[saved.table] # None => tables[saved.table] # None
    BY <2>1
  <2>4. saved # None => saved.mutations + 0 = saved.mutations
    BY <2>1
  <2> QED
    BY <2>1, <2>2, <2>3, <2>4 DEF CountInv
<1>4. JobInv'
  BY DEF JobInv, Inspections, Idle, AfterInspection
<1> QED
  BY <1>1, <1>2, <1>3, <1>4 DEF MaintenanceInv

LEMMA ReportKeeps ==
  ASSUME MaintenanceInv, Report
  PROVE  MaintenanceInv'
<1>1. job' = Idle /\ UNCHANGED <<tables, active, saved, manifest, jobs>> /\ job.phase \in {"missing", "reported"}
  BY DEF Report, Unchanged, Working
<1>2. saved # None /\ tables[saved.table] # None =>
         tables[saved.table].since - tables[saved.table].uncounted <= saved.mutations
  <2>1. Pending(saved.table) = 0
    BY <1>1 DEF Pending
  <2>2. saved # None => saved.mutations \in Nat
    BY DEF MaintenanceInv, MaintenanceTypes, StateFiles
  <2>3. saved # None => saved.mutations + 0 = saved.mutations
    BY <2>2
  <2> QED
    BY <2>1, <2>3 DEF MaintenanceInv, CountInv
<1>3. tables \in [1 .. MaxTables -> TableRecords \cup {None}]
  BY DEF MaintenanceInv, MaintenanceTypes
<1> QED
  BY <1>1, <1>2, <1>3, JobEnds

\* The commits of a job that is cut short are lost to the counts.
LEMMA CutKeeps ==
  ASSUME MaintenanceInv, Cut
  PROVE  MaintenanceInv'
<1>1. job' = Idle /\ UNCHANGED <<active, saved, manifest, jobs>> /\ job.phase # "idle"
  BY DEF Cut, Unchanged, Working
<1>2. tables \in [1 .. MaxTables -> TableRecords \cup {None}] /\ job \in {Idle} \cup Begun \cup Inspections
  BY DEF MaintenanceInv, MaintenanceTypes
<1>3. job.table \in 1 .. MaxTables /\ job.commits \in Nat
  BY <1>1, <1>2 DEF Idle, Begun, Inspections
<1>4. saved # None => saved.table \in 1 .. MaxTables /\ saved.mutations \in Nat
  BY DEF MaintenanceInv, MaintenanceTypes, StateFiles
<1>5. \A n : Pending(n) \in {0, job.commits} /\ (n # job.table => Pending(n) = 0)
  BY DEF Pending
<1>6. CASE tables[job.table] = None \/ job.phase = "reported"
  <2>1. tables' = tables
    BY <1>6 DEF Cut, Maintained, Working
  <2>2. saved # None /\ tables[saved.table] # None => Pending(saved.table) = 0
    BY <1>6 DEF Pending
  <2>3. saved # None /\ tables[saved.table] # None =>
           tables[saved.table].since - tables[saved.table].uncounted <= saved.mutations + 0
    BY <2>2 DEF MaintenanceInv, CountInv
  <2>4. saved # None => saved.mutations + 0 = saved.mutations
    BY <1>4
  <2> QED
    BY <1>1, <1>2, <2>1, <2>3, <2>4, JobEnds
<1>7. CASE tables[job.table] # None /\ job.phase # "reported"
  <2>1. PICK t : t = tables[job.table]
    OBVIOUS
  <2>2. t \in TableRecords
    BY <1>2, <1>3, <1>7, <2>1
  <2>3. PICK t2 : t2 = Lost(t, job.commits)
    OBVIOUS
  <2>4. tables' = [tables EXCEPT ![job.table] = t2]
    BY <1>2, <1>3, <1>7, <2>1, <2>3 DEF Cut, Maintained, Working, Lost
  <2>5. /\ t2 \in TableRecords /\ t2.rows = t.rows /\ t2.vector = t.vector /\ t2.commits = t.commits
        /\ t2.since - t2.uncounted <= 0 \/ t2.since - t2.uncounted = (t.since - t.uncounted) - job.commits
    BY <1>3, <2>2, <2>3, LostCount
  <2>6. t2 # None
    BY <2>5, NothingIsNone
  <2>7. /\ tables' \in [1 .. MaxTables -> TableRecords \cup {None}] /\ tables'[job.table] = t2
        /\ \A n \in 1 .. MaxTables : n # job.table => tables'[n] = tables[n]
    BY <1>2, <1>3, <2>4, <2>5
  <2>8. \A n \in 1 .. MaxTables :
           /\ tables'[n] = None <=> tables[n] = None
           /\ tables[n] # None =>
                 /\ tables'[n].rows = tables[n].rows /\ tables'[n].vector = tables[n].vector
                 /\ tables'[n].commits = tables[n].commits
    BY <1>7, <2>1, <2>5, <2>6, <2>7
  <2>9. ASSUME saved # None, tables[saved.table] # None
        PROVE  tables'[saved.table].since - tables'[saved.table].uncounted <= saved.mutations
    <3>1. tables[saved.table].since - tables[saved.table].uncounted <= saved.mutations + Pending(saved.table)
      BY <2>9 DEF MaintenanceInv, CountInv
    <3>2. saved.table \in 1 .. MaxTables /\ saved.mutations \in Nat
      BY <1>4, <2>9
    <3>3. CASE saved.table = job.table
      <4>1. t.since \in Int /\ t.uncounted \in Int /\ t2.since \in Int /\ t2.uncounted \in Int
        BY <2>2, <2>5 DEF TableRecords
      <4>2. t.since - t.uncounted <= saved.mutations + job.commits
        <5>1. Pending(saved.table) = 0 \/ Pending(saved.table) = job.commits
          BY <1>5
        <5> QED
          BY <1>3, <2>1, <3>1, <3>2, <3>3, <4>1, <5>1
      <4>3. t2.since - t2.uncounted <= saved.mutations
        BY <1>3, <2>5, <3>2, <4>1, <4>2
      <4> QED
        BY <2>7, <3>3, <4>3
    <3>4. CASE saved.table # job.table
      <4>1. Pending(saved.table) = 0 /\ tables'[saved.table] = tables[saved.table]
        BY <1>5, <2>7, <3>2, <3>4
      <4>2. saved.mutations + 0 = saved.mutations
        BY <3>2
      <4> QED
        BY <3>1, <4>1, <4>2
    <3> QED
      BY <3>3, <3>4
  <2> QED
    BY <1>1, <2>7, <2>8, <2>9, JobEnds
<1> QED
  BY <1>6, <1>7

\* An ingestion of what there is, or a rebuild, which may throw away what an earlier one left.
LEMMA StartIngestKeeps ==
  ASSUME MaintenanceInv, NEW n \in 1 .. MaxTables, StartIngest(n)
  PROVE  MaintenanceInv'
<1>1. PICK j2 : j2 = [phase |-> "writing", by |-> "ingest", table |-> n, commits |-> 0]
  OBVIOUS
<1>2. job' = j2 /\ j2 \in Begun /\ j2.phase = "writing" /\ j2.commits = 0 /\ j2 \notin Inspections
  BY <1>1 DEF StartIngest, Begun, Inspections, AfterInspection
<1>3. UNCHANGED <<active, saved, manifest>> /\ job.phase = "idle"
  BY DEF StartIngest, Working
<1>4. jobs' \in [begun : Nat, commits : Nat]
  BY DEF StartIngest, MaintenanceInv, MaintenanceTypes
<1>5. MaintenanceTypes
  BY DEF MaintenanceInv
<1>6. /\ tables' \in [1 .. MaxTables -> TableRecords \cup {None}]
      /\ \A m \in 1 .. MaxTables : tables'[m] = None \/ tables'[m] = tables[m]
      /\ tables'[active] = tables[active]
  <2>1. CASE UNCHANGED tables
    BY <1>5, <2>1 DEF MaintenanceTypes
  <2>2. CASE n # active /\ tables' = [tables EXCEPT ![n] = None]
    BY <1>5, <2>2 DEF MaintenanceTypes
  <2> QED
    BY <2>1, <2>2 DEF StartIngest
<1>7. MaintenanceTypes'
  BY <1>2, <1>3, <1>4, <1>5, <1>6 DEF MaintenanceTypes
<1>8. ManifestInv'
  BY <1>3, <1>6 DEF MaintenanceInv, ManifestInv
<1>9. CountInv'
  <2>1. Pending(saved.table)' = 0 /\ Pending(saved.table) = 0
    BY <1>2, <1>3 DEF Pending
  <2>2. saved # None => saved.table \in 1 .. MaxTables
    BY <1>5 DEF MaintenanceTypes, StateFiles
  <2> QED
    BY <1>3, <1>6, <2>1, <2>2 DEF MaintenanceInv, CountInv
<1>10. JobInv'
  BY <1>2 DEF JobInv
<1> QED
  BY <1>7, <1>8, <1>9, <1>10 DEF MaintenanceInv

\* A commit moves the table away from what the manifest says of it.
LEMMA CommitRowsKeeps ==
  ASSUME MaintenanceInv, NEW c \in Commits, NEW trained \in BOOLEAN, CommitRows(c, trained)
  PROVE  MaintenanceInv'
<1>1. job.phase = "writing" /\ UNCHANGED <<active, saved, manifest>>
  BY DEF CommitRows, Working
<1>2. MaintenanceTypes /\ ManifestInv /\ CountInv
  BY DEF MaintenanceInv
<1>3. job \in Begun /\ job.table \in 1 .. MaxTables /\ job.commits \in Nat
  BY <1>1, <1>2, TypeCases DEF Begun
<1>4. c \in [removed : Nat, added : Nat]
  BY MaintenanceAssumption
<1>5. PICK t : t = IF tables[job.table] = None THEN NewTable ELSE tables[job.table]
  OBVIOUS
<1>6. /\ c.removed <= t.rows /\ t.rows + c.added <= MaxRows
      /\ tables' = [tables EXCEPT ![job.table] = CommittedTable(t, c, trained)]
  BY <1>5 DEF CommitRows, Maintained
<1>7. NewTable \in TableRecords /\ NewTable.since = 0 /\ NewTable.uncounted = 0
  BY MaintenanceAssumption DEF NewTable, TableRecords
<1>8. t \in TableRecords
  BY <1>2, <1>3, <1>5, <1>7 DEF MaintenanceTypes
<1>9. PICK t2 : t2 = CommittedTable(t, c, trained)
  OBVIOUS
<1>10. t2 \in TableRecords /\ t2.commits = t.commits + 1 /\ t2.since = t.since + 1 /\ t2.uncounted = t.uncounted
  BY <1>4, <1>6, <1>8, <1>9, Committed
<1>11. /\ tables' \in [1 .. MaxTables -> TableRecords \cup {None}] /\ tables'[job.table] = t2 /\ t2 # None
       /\ \A n \in 1 .. MaxTables : n # job.table => tables'[n] = tables[n]
  BY <1>2, <1>3, <1>6, <1>9, <1>10, NothingIsNone DEF MaintenanceTypes
<1>12. PICK j2 : j2 = [job EXCEPT !.commits = @ + 1]
  OBVIOUS
<1>13. job' = j2 /\ j2 \in Begun /\ j2.phase = "writing" /\ j2.commits = job.commits + 1 /\ j2.table = job.table
       /\ j2 \notin Inspections
  BY <1>1, <1>3, <1>12 DEF CommitRows, Begun, Inspections, AfterInspection
<1>14. jobs' \in [begun : Nat, commits : Nat]
  BY <1>2 DEF CommitRows, MaintenanceTypes
<1>15. MaintenanceTypes'
  BY <1>1, <1>2, <1>11, <1>13, <1>14 DEF MaintenanceTypes
<1>16. ManifestInv'
  <2>1. SUFFICES ASSUME manifest # None
                 PROVE  /\ manifest.table = active /\ tables'[active] # None /\ manifest.commits <= tables'[active].commits
                        /\ manifest.commits = tables'[active].commits /\ manifest.vector.strategy = "ivf-pq"
                              => Sends(tables'[active], manifest.vector, manifest.honest)
    BY <1>1 DEF ManifestInv
  <2>2. /\ manifest.table = active /\ tables[active] # None /\ manifest.commits <= tables[active].commits
        /\ manifest.commits = tables[active].commits /\ manifest.vector.strategy = "ivf-pq"
              => Sends(tables[active], manifest.vector, manifest.honest)
    BY <1>2, <2>1 DEF ManifestInv
  <2>3. active \in 1 .. MaxTables /\ manifest.commits \in Nat
    BY <1>2, <2>1 DEF MaintenanceTypes, ManifestFiles
  <2>4. CASE active = job.table
    <3>1. t = tables[active] /\ tables'[active] = t2
      BY <1>5, <1>11, <2>2, <2>4
    <3>2. manifest.commits <= t2.commits /\ manifest.commits # t2.commits
      <4>1. t.commits \in Nat /\ manifest.commits <= t.commits
        BY <1>8, <2>2, <3>1 DEF TableRecords
      <4> QED
        BY <1>10, <2>3, <4>1
    <3> QED
      BY <1>11, <2>2, <3>1, <3>2
  <2>5. CASE active # job.table
    BY <1>11, <2>2, <2>3, <2>5
  <2> QED
    BY <2>4, <2>5
<1>17. CountInv'
  <2>1. SUFFICES ASSUME saved # None, tables'[saved.table] # None
                 PROVE  tables'[saved.table].since - tables'[saved.table].uncounted
                           <= saved.mutations + Pending(saved.table)'
    BY <1>1 DEF CountInv, Pending
  <2>2. saved.table \in 1 .. MaxTables /\ saved.mutations \in Nat
    BY <1>2, <2>1 DEF MaintenanceTypes, StateFiles
  <2>3. CASE saved.table = job.table
    <3>1. Pending(saved.table)' = job.commits + 1 /\ Pending(saved.table) = job.commits
      BY <1>1, <1>13, <2>3 DEF Pending
    <3>2. t.since \in Int /\ t.uncounted \in Int
      BY <1>8 DEF TableRecords
    <3>3. t.since - t.uncounted <= saved.mutations + job.commits
      <4>1. CASE tables[job.table] = None
        BY <1>3, <1>5, <1>7, <2>2, <4>1
      <4>2. CASE tables[job.table] # None
        BY <1>2, <1>5, <2>1, <2>3, <3>1, <4>2 DEF CountInv
      <4> QED
        BY <4>1, <4>2
    <3>4. (t.since + 1) - t.uncounted <= saved.mutations + (job.commits + 1)
      BY <1>3, <2>2, <3>2, <3>3
    <3> QED
      BY <1>10, <1>11, <2>3, <3>1, <3>4
  <2>4. CASE saved.table # job.table
    <3>1. Pending(saved.table)' = 0 /\ Pending(saved.table) = 0
      BY <1>1, <1>13, <2>4 DEF Pending
    <3>2. tables'[saved.table] = tables[saved.table]
      BY <1>11, <2>2, <2>4
    <3> QED
      BY <1>2, <2>1, <3>1, <3>2 DEF CountInv
  <2> QED
    BY <2>3, <2>4
<1>18. JobInv'
  BY <1>13 DEF JobInv
<1> QED
  BY <1>15, <1>16, <1>17, <1>18 DEF MaintenanceInv

\* The manifest is written of the table the job maintained, with what it found of its indices.
LEMMA ActivateKeeps ==
  ASSUME MaintenanceInv, Activate
  PROVE  MaintenanceInv'
<1>1. /\ job.phase = "reported" /\ job.phase \in AfterInspection /\ job.by = "ingest" /\ job' = Idle
      /\ active' = job.table /\ UNCHANGED <<saved, jobs>>
  BY DEF Activate, Working, AfterInspection
<1>2. MaintenanceTypes /\ CountInv /\ JobInv
  BY DEF MaintenanceInv
<1>3. job \in Inspections /\ job.table \in 1 .. MaxTables /\ active \in 1 .. MaxTables
      /\ tables \in [1 .. MaxTables -> TableRecords \cup {None}]
  BY <1>1, <1>2, TypeCases DEF Inspections, MaintenanceTypes
<1>4. PICK t : t = tables[job.table]
  OBVIOUS
<1>5. t # None /\ t \in TableRecords /\ VectorInv(t, job)
  BY <1>1, <1>2, <1>3, <1>4 DEF JobInv
<1>6. PICK m : m = [table |-> job.table, vector |-> job.vector, honest |-> job.honest, commits |-> t.commits]
  OBVIOUS
<1>7. m \in ManifestFiles /\ m # None /\ m.table = job.table /\ m.vector = job.vector /\ m.honest = job.honest
      /\ m.commits = t.commits /\ t.commits \in Nat /\ manifest' = m
  <2>1. job.vector \in Policies /\ job.honest \in BOOLEAN /\ t.commits \in Nat
    BY <1>3, <1>5 DEF Inspections, TableRecords
  <2>2. m \in ManifestFiles
    BY <1>3, <1>6, <2>1 DEF ManifestFiles
  <2> QED
    BY <1>4, <1>6, <2>1, <2>2, NothingIsNone DEF Activate, Maintained
<1>8. /\ tables' \in [1 .. MaxTables -> TableRecords \cup {None}] /\ tables'[job.table] = t
      /\ \A n \in 1 .. MaxTables : tables'[n] = None \/ tables'[n] = tables[n]
  <2>1. tables' = [tables EXCEPT ![active] = IF active = job.table THEN tables[active] ELSE None]
    BY DEF Activate
  <2> QED
    BY <1>3, <1>4, <2>1
<1>9. MaintenanceTypes'
  BY <1>1, <1>2, <1>3, <1>7, <1>8 DEF MaintenanceTypes
<1>10. ManifestInv'
  <2>1. manifest'.vector.strategy = "ivf-pq" => Sends(t, job.vector, job.honest)
    BY <1>1, <1>5, <1>7 DEF VectorInv
  <2>2. tables'[active'] = t
    BY <1>1, <1>8
  <2> QED
    BY <1>1, <1>5, <1>7, <2>1, <2>2 DEF ManifestInv
<1>11. CountInv'
  <2>1. Pending(saved.table)' = 0 /\ Pending(saved.table) = 0
    <3>1. job.phase = "reported" /\ job'.phase = "idle"
      BY <1>1 DEF Idle
    <3> QED
      BY <3>1 DEF Pending
  <2>2. saved # None => saved.table \in 1 .. MaxTables
    BY <1>2 DEF MaintenanceTypes, StateFiles
  <2> QED
    BY <1>1, <1>2, <1>8, <2>1, <2>2 DEF CountInv
<1>12. JobInv'
  BY <1>1 DEF JobInv, Inspections, Idle, AfterInspection
<1> QED
  BY <1>9, <1>10, <1>11, <1>12 DEF MaintenanceInv

\* What an inspection reads and plans is true of the table, with every commit counted or lost.
LEMMA Inspects ==
  ASSUME MaintenanceInv, NEW by \in {"ingest", "optimize", "preview"}, NEW n \in 1 .. MaxTables,
         NEW c, c \in Nat, \A m \in 1 .. MaxTables : Pending(m) = IF m = n THEN c ELSE 0,
         by = "preview" => c = 0, NEW t, t = tables[n], t # None,
         tables' = IF Of(saved, n, "mutations") = None THEN [tables EXCEPT ![n].uncounted = t.since - c] ELSE tables,
         job' = Inspected(by, n, c), UNCHANGED <<active, saved, manifest>>, jobs' \in [begun : Nat, commits : Nat]
  PROVE  MaintenanceInv'
<1>1. MaintenanceTypes /\ ManifestInv /\ CountInv
  BY DEF MaintenanceInv
<1>2. t \in TableRecords /\ t.since \in Nat /\ t.uncounted \in Int /\ t.rows \in 0 .. MaxRows
  BY <1>1 DEF MaintenanceTypes, TableRecords
<1>3. PICK counted, signature : counted = Of(saved, n, "mutations") /\ signature = Of(saved, n, "signature")
  OBVIOUS
<1>4. /\ saved # None /\ saved.table = n =>
             counted = saved.mutations /\ counted \in Nat /\ counted # None /\ signature = saved.signature
      /\ ~(saved # None /\ saved.table = n) => counted = None
      /\ counted \in Nat \cup {None} /\ signature \in Policies \cup {None}
  BY <1>1, <1>3, NothingIsNone DEF MaintenanceTypes, StateFiles, Of
<1>5. PICK mutations : mutations = (IF counted = None THEN 0 ELSE counted) + c
  OBVIOUS
<1>6. mutations \in Nat
  BY <1>4, <1>5
<1>7. PICK u : u = IF counted = None THEN t.since - c ELSE t.uncounted
  OBVIOUS
<1>8. u \in Int
  BY <1>2, <1>7
<1>9. PICK t2 : t2 = [t EXCEPT !.uncounted = u]
  OBVIOUS
<1>10. /\ t2 \in TableRecords /\ t2 # None /\ t2.rows = t.rows /\ t2.fragments = t.fragments /\ t2.small = t.small
       /\ t2.text = t.text /\ t2.vector = t.vector /\ t2.scalar = t.scalar /\ t2.commits = t.commits
       /\ t2.since = t.since /\ t2.uncounted = u
  <2>1. /\ t2 \in TableRecords /\ t2.rows = t.rows /\ t2.fragments = t.fragments /\ t2.small = t.small
        /\ t2.text = t.text /\ t2.vector = t.vector /\ t2.scalar = t.scalar /\ t2.commits = t.commits
        /\ t2.since = t.since /\ t2.uncounted = u
    BY <1>2, <1>8, <1>9 DEF TableRecords
  <2> QED
    BY <2>1, NothingIsNone
<1>11. tables' = [tables EXCEPT ![n] = t2]
  <2>1. CASE counted = None
    BY <1>1, <1>3, <1>7, <1>9, <2>1 DEF MaintenanceTypes
  <2>2. CASE counted # None
    <3>1. t2 = t
      BY <1>2, <1>7, <1>9, <2>2 DEF TableRecords
    <3> QED
      BY <1>1, <1>3, <2>2, <3>1 DEF MaintenanceTypes
  <2> QED
    BY <2>1, <2>2
<1>12. /\ tables' \in [1 .. MaxTables -> TableRecords \cup {None}] /\ tables'[n] = t2
       /\ \A m \in 1 .. MaxTables : m # n => tables'[m] = tables[m]
  BY <1>1, <1>10, <1>11 DEF MaintenanceTypes
<1>13. PICK honest \in BOOLEAN : honest <=> (t.vector # None /\ signature # None => signature.partitions = t.vector.as)
  <2>1. \E b \in BOOLEAN : b <=> (t.vector # None /\ signature # None => signature.partitions = t.vector.as)
    OBVIOUS
  <2> QED
    BY <2>1
<1>14. PICK vector : vector = VectorManifest(t, VectorAction(t, signature) = {})
  OBVIOUS
<1>15. vector \in Policies
  BY <1>2, <1>14, PolicyOf, NoPolicy DEF VectorManifest
<1>16. PICK planned : planned = MaintenanceActions(t, mutations, by # "ingest")
  OBVIOUS
<1>17. /\ planned \in SUBSET AllActions
       /\ "refresh-full-text-index" \notin planned => TextComplete(t)
       /\ "compact-fragments" \notin planned =>
             ~RequiresCompaction(t) /\ ~(t.rows >= CompactionRows /\ mutations >= MutationThreshold)
  BY <1>16 DEF MaintenanceActions, AllActions
<1>18. PICK phase : phase = IF by = "preview" THEN "reported" ELSE "compact"
  OBVIOUS
<1>19. PICK j2 :
          j2 = [phase |-> phase, by |-> by, table |-> n,
                commits |-> c, mutations |-> mutations, signature |-> signature, before |-> t.text,
                planned |-> planned, compacted |-> FALSE, failed |-> FALSE, honest |-> honest, vector |-> vector]
  OBVIOUS
<1>20. job' = j2
  <2>1. (t.vector # None /\ signature # None => signature.partitions = t.vector.as) = honest
    BY <1>13
  <2> QED
    BY <1>3, <1>5, <1>14, <1>16, <1>18, <1>19, <2>1 DEF Inspected
<1>21. /\ j2 \in Inspections /\ j2.phase = phase /\ j2.by = by /\ j2.table = n /\ j2.commits = c
       /\ j2.mutations = mutations /\ j2.signature = signature /\ j2.before = t.text /\ j2.planned = planned
       /\ ~j2.compacted /\ ~j2.failed /\ j2.honest = honest
  <2>1. t.text \in TextIndices \cup {None} /\ phase \in AfterInspection
    BY <1>2, <1>18 DEF TableRecords, AfterInspection
  <2> QED
    BY <1>4, <1>6, <1>15, <1>17, <1>19, <2>1 DEF Inspections
<1>22. MaintenanceTypes'
  BY <1>1, <1>12, <1>20, <1>21 DEF MaintenanceTypes
<1>23. ManifestInv'
  <2>1. manifest # None => active \in 1 .. MaxTables
    BY <1>1 DEF MaintenanceTypes
  <2> QED
    BY <1>1, <1>10, <1>12, <2>1 DEF ManifestInv, Sends
<1>24. t.since - u <= mutations
  <2>1. CASE counted = None
    BY <1>2, <1>5, <1>7, <2>1
  <2>2. CASE counted # None
    <3>1. saved # None /\ saved.table = n /\ counted = saved.mutations /\ counted \in Nat
      BY <1>4, <2>2
    <3>2. t.since - t.uncounted <= saved.mutations + c
      BY <1>1, <3>1 DEF CountInv
    <3> QED
      BY <1>2, <1>5, <1>7, <2>2, <3>1, <3>2
  <2> QED
    BY <2>1, <2>2
<1>25. CountInv'
  <2>1. SUFFICES ASSUME saved # None, tables'[saved.table] # None
                 PROVE  tables'[saved.table].since - tables'[saved.table].uncounted
                           <= saved.mutations + Pending(saved.table)'
    BY DEF CountInv, Pending
  <2>2. saved.table \in 1 .. MaxTables /\ saved.mutations \in Nat
    BY <1>1, <2>1 DEF MaintenanceTypes, StateFiles
  <2>3. CASE saved.table = n
    <3>1. Pending(saved.table)' = c
      BY <1>18, <1>20, <1>21, <2>3 DEF Pending
    <3>2. mutations = saved.mutations + c
      BY <1>4, <1>5, <2>1, <2>3
    <3> QED
      BY <1>10, <1>12, <1>24, <2>3, <3>1, <3>2
  <2>4. CASE saved.table # n
    <3>1. Pending(saved.table)' = 0 /\ Pending(saved.table) = 0
      <4>1. Pending(saved.table)' = 0
        BY <1>20, <1>21, <2>4 DEF Pending
      <4> QED
        BY <2>2, <2>4, <4>1
    <3>2. tables'[saved.table] = tables[saved.table]
      BY <1>12, <2>2, <2>4
    <3> QED
      BY <1>1, <2>1, <3>1, <3>2 DEF CountInv
  <2> QED
    BY <2>3, <2>4
<1>26. JobInv'
  <2>1. tables'[job'.table] = t2
    BY <1>12, <1>20, <1>21
  <2>2. by # "preview" => TextInv(t2, j2)
    BY <1>10, <1>17, <1>18, <1>21 DEF TextInv, TextComplete
  <2>3. by # "preview" => CompactionInv(t2, j2)
    BY <1>10, <1>17, <1>18, <1>21, <1>24 DEF CompactionInv, NotDue, RequiresCompaction
  <2>4. by # "preview" => VectorInv(t2, j2)
    BY <1>10, <1>13, <1>18, <1>21 DEF VectorInv
  <2>5. by # "preview" => SavedInv(t2, j2)'
    BY <1>18, <1>21 DEF SavedInv
  <2>6. phase # "reported" => by # "preview"
    BY <1>18
  <2> QED
    BY <1>10, <1>20, <1>21, <2>1, <2>2, <2>3, <2>4, <2>5, <2>6 DEF JobInv
<1> QED
  BY <1>22, <1>23, <1>25, <1>26 DEF MaintenanceInv

\* A job without a table has nothing to inspect.
LEMMA MissingKeeps ==
  ASSUME MaintenanceInv, NEW by \in {"ingest", "optimize", "preview"}, NEW n \in 1 .. MaxTables, tables[n] = None,
         \A m \in 1 .. MaxTables : m # n => Pending(m) = 0,
         job' = Missing(by, n), UNCHANGED <<tables, active, saved, manifest>>, jobs' \in [begun : Nat, commits : Nat]
  PROVE  MaintenanceInv'
<1>1. MaintenanceTypes /\ ManifestInv /\ CountInv
  BY DEF MaintenanceInv
<1>2. job' \in Begun /\ job'.phase = "missing" /\ job' \notin Inspections
  BY DEF Missing, Begun, Inspections, AfterInspection
<1>3. MaintenanceTypes'
  BY <1>1, <1>2 DEF MaintenanceTypes
<1>4. ManifestInv'
  BY <1>1 DEF ManifestInv
<1>5. CountInv'
  <2>1. SUFFICES ASSUME saved # None, tables[saved.table] # None
                 PROVE  tables[saved.table].since - tables[saved.table].uncounted <= saved.mutations + Pending(saved.table)'
    BY DEF CountInv, Pending
  <2>2. saved.table \in 1 .. MaxTables /\ saved.table # n
    BY <1>1, <2>1 DEF MaintenanceTypes, StateFiles
  <2>3. Pending(saved.table)' = 0
    BY <1>2 DEF Pending
  <2>4. Pending(saved.table) = 0
    BY <2>2
  <2> QED
    BY <1>1, <2>1, <2>3, <2>4 DEF CountInv
<1>6. JobInv'
  BY <1>2 DEF JobInv
<1> QED
  BY <1>3, <1>4, <1>5, <1>6 DEF MaintenanceInv

LEMMA MaintainKeeps ==
  ASSUME MaintenanceInv, Maintain
  PROVE  MaintenanceInv'
<1>1. job.phase = "writing" /\ UNCHANGED <<active, saved, manifest>>
  BY DEF Maintain, Working, Unchanged
<1>2. /\ job.table \in 1 .. MaxTables /\ job.commits \in Nat /\ jobs' \in [begun : Nat, commits : Nat]
      /\ tables \in [1 .. MaxTables -> TableRecords \cup {None}]
  BY <1>1, TypeCases DEF MaintenanceInv, MaintenanceTypes, Begun, Maintain, Unchanged
<1>3. \A m \in 1 .. MaxTables : Pending(m) = IF m = job.table THEN job.commits ELSE 0
  BY <1>1 DEF Pending
<1>4. CASE tables[job.table] = None
  <2>1. job' = Missing("ingest", job.table) /\ UNCHANGED tables
    BY <1>4 DEF Maintain, Maintained
  <2> QED
    BY <1>1, <1>2, <1>3, <1>4, <2>1, MissingKeeps
<1>5. CASE tables[job.table] # None
  <2>1. PICK t, n, c : t = tables[job.table] /\ n = job.table /\ c = job.commits
    OBVIOUS
  <2>2. t.since \in Int /\ t.uncounted \in Int
    BY <1>2, <1>5, <2>1 DEF TableRecords
  <2>3. t.uncounted + (t.since - c - t.uncounted) = t.since - c
    BY <1>2, <2>1, <2>2
  <2>4. tables' = IF Of(saved, n, "mutations") = None THEN [tables EXCEPT ![n].uncounted = t.since - c] ELSE tables
    BY <1>2, <1>5, <2>1, <2>3 DEF Maintain, Maintained
  <2>5. job' = Inspected("ingest", n, c)
    BY <1>5, <2>1 DEF Maintain, Maintained
  <2>6. \A m \in 1 .. MaxTables : Pending(m) = IF m = n THEN c ELSE 0
    BY <1>3, <2>1
  <2>7. n \in 1 .. MaxTables /\ c \in Nat /\ t = tables[n] /\ t # None
    BY <1>2, <1>5, <2>1
  <2> QED
    BY ONLY MaintenanceInv, <1>1, <1>2, <2>4, <2>5, <2>6, <2>7, Inspects
<1> QED
  BY <1>4, <1>5

LEMMA OptimizeStorageKeeps ==
  ASSUME MaintenanceInv, NEW by \in {"optimize", "preview"}, OptimizeStorage(by)
  PROVE  MaintenanceInv'
<1>1. job.phase = "idle" /\ UNCHANGED <<active, saved, manifest>>
  BY DEF OptimizeStorage, Working
<1>2. /\ active \in 1 .. MaxTables /\ jobs' \in [begun : Nat, commits : Nat]
      /\ tables \in [1 .. MaxTables -> TableRecords \cup {None}]
  BY DEF MaintenanceInv, MaintenanceTypes, OptimizeStorage
<1>3. \A m \in 1 .. MaxTables : Pending(m) = 0
  BY <1>1 DEF Pending
<1>4. CASE tables[active] = None
  <2>1. job' = Missing(by, active) /\ UNCHANGED tables
    BY <1>4 DEF OptimizeStorage
  <2> QED
    BY <1>1, <1>2, <1>3, <1>4, <2>1, MissingKeeps
<1>5. CASE tables[active] # None
  <2>1. PICK t, n, c : t = tables[active] /\ n = active /\ c = 0
    OBVIOUS
  <2>2. t.since \in Int /\ t.since - c = t.since
    BY <1>2, <1>5, <2>1 DEF TableRecords
  <2>3. tables' = IF Of(saved, n, "mutations") = None THEN [tables EXCEPT ![n].uncounted = t.since - c] ELSE tables
    BY <1>2, <1>5, <2>1, <2>2 DEF OptimizeStorage
  <2>4. job' = Inspected(by, n, c)
    BY <1>5, <2>1 DEF OptimizeStorage
  <2>5. \A m \in 1 .. MaxTables : Pending(m) = IF m = n THEN c ELSE 0
    BY <1>3, <2>1
  <2>6. n \in 1 .. MaxTables /\ c \in Nat /\ c = 0 /\ t = tables[n] /\ t # None /\ by \in {"ingest", "optimize", "preview"}
    BY <1>2, <1>5, <2>1
  <2> QED
    BY ONLY MaintenanceInv, <1>1, <1>2, <2>3, <2>4, <2>5, <2>6, Inspects
<1> QED
  BY <1>4, <1>5

-----------------------------------------------------------------------------
(* The invariant, and what it says.                                         *)

\* At first there is no table, no file and no job.
LEMMA MaintenanceStarts ==
  ASSUME MaintenanceInit
  PROVE  MaintenanceInv
<1>1. MaintenanceTypes
  BY MaintenanceAssumption DEF MaintenanceInit, MaintenanceTypes
<1>2. ManifestInv /\ CountInv
  BY DEF MaintenanceInit, ManifestInv, CountInv
<1>3. JobInv
  BY DEF MaintenanceInit, JobInv, Idle, Inspections, AfterInspection
<1> QED
  BY <1>1, <1>2, <1>3 DEF MaintenanceInv

LEMMA MaintenanceStutters ==
  ASSUME MaintenanceInv, UNCHANGED maintenanceVars
  PROVE  MaintenanceInv'
<1>1. MaintenanceTypes'
  BY DEF MaintenanceInv, MaintenanceTypes, maintenanceVars
<1>2. ManifestInv'
  BY DEF MaintenanceInv, ManifestInv, maintenanceVars
<1>3. CountInv'
  BY DEF MaintenanceInv, CountInv, Pending, maintenanceVars
<1>4. JobInv'
  <2>1. \A t, j : SavedInv(t, j)' <=> SavedInv(t, j)
    BY DEF SavedInv, maintenanceVars
  <2>2. job' = job /\ tables' = tables
    BY DEF maintenanceVars
  <2> QED
    BY <2>1, <2>2 DEF MaintenanceInv, JobInv, SavedInv, maintenanceVars
<1> QED
  BY <1>1, <1>2, <1>3, <1>4 DEF MaintenanceInv

LEMMA MaintenanceSteps ==
  ASSUME MaintenanceInv, [MaintenanceNext]_maintenanceVars
  PROVE  MaintenanceInv'
<1>1. CASE \E n \in 1 .. MaxTables : StartIngest(n)
  BY <1>1, StartIngestKeeps
<1>2. CASE \E c \in Commits, trained \in BOOLEAN : CommitRows(c, trained)
  BY <1>2, CommitRowsKeeps
<1>3. CASE Maintain
  BY <1>3, MaintainKeeps
<1>4. CASE \E by \in {"optimize", "preview"} : OptimizeStorage(by)
  BY <1>4, OptimizeStorageKeeps
<1>5. CASE \E phase \in {"compact", "recompact"} : Optimize(phase) \/ OptimizeFails(phase)
  BY <1>5, OptimizeKeeps, OptimizeFailsKeeps
<1>6. CASE PositionalError \/ NothingToCompact \/ RefreshLexical \/ MaintainAdaptiveIndices
  BY <1>6, PositionalErrorKeeps, NothingToCompactKeeps, RefreshLexicalKeeps, MaintainAdaptiveIndicesKeeps
<1>7. CASE SaveState \/ SaveFails \/ Activate \/ Report \/ Cut
  BY <1>7, SaveStateKeeps, SaveFailsKeeps, ActivateKeeps, ReportKeeps, CutKeeps
<1>8. CASE UNCHANGED maintenanceVars
  BY <1>8, MaintenanceStutters
<1> QED
  BY <1>1, <1>2, <1>3, <1>4, <1>5, <1>6, <1>7, <1>8 DEF MaintenanceNext

\* What is known of the table of a clean run.
LEMMA CleanRun ==
  ASSUME MaintenanceInv, Clean
  PROVE  /\ job \in Inspections /\ tables[job.table] \in TableRecords
         /\ TextInv(tables[job.table], job) /\ CompactionInv(tables[job.table], job) /\ SavedInv(tables[job.table], job)
<1>1. job.phase = "reported" /\ job.phase \in AfterInspection /\ job.by # "preview" /\ MaintenanceTypes /\ JobInv
  BY DEF Clean, Working, AfterInspection, MaintenanceInv
<1>2. job \in Inspections
  BY <1>1, TypeCases
<1>3. job.table \in 1 .. MaxTables
  BY <1>2 DEF Inspections
<1> QED
  BY <1>1, <1>2, <1>3 DEF JobInv, MaintenanceTypes

LEMMA InvIsSound ==
  ASSUME MaintenanceInv
  PROVE  MaintenanceSound
<1>1. VectorTrue
  <2>1. SUFFICES ASSUME manifest # None, tables[manifest.table].commits = manifest.commits,
                        manifest.vector.strategy = "ivf-pq"
                 PROVE  /\ Covers(tables[manifest.table].vector, tables[manifest.table].rows)
                        /\ manifest.honest => tables[manifest.table].vector.as = manifest.vector.partitions
    BY DEF VectorTrue
  <2>2. Sends(tables[manifest.table], manifest.vector, manifest.honest)
    BY <2>1 DEF MaintenanceInv, ManifestInv
  <2> QED
    BY <2>2 DEF Sends
<1>2. FullTextSound
  BY CleanRun DEF FullTextSound, TextInv, TextKept, Clean, Working, Maintained
<1>3. CommitsBounded
  <2>1. SUFFICES ASSUME Clean, tables[job.table].rows >= CompactionRows
                 PROVE  tables[job.table].since - tables[job.table].uncounted < MutationThreshold
    BY DEF CommitsBounded, Maintained
  <2>2. PICK t : t = tables[job.table]
    OBVIOUS
  <2>3. job \in Inspections /\ t \in TableRecords /\ CompactionInv(t, job)
    BY <2>1, <2>2, CleanRun
  <2>4. job.mutations \in Nat /\ t.since \in Int /\ t.uncounted \in Int /\ MutationThreshold \in Nat \ {0}
    BY <2>3, MaintenanceAssumption DEF Inspections, TableRecords
  <2>5. CASE job.compacted
    BY <2>2, <2>3, <2>4, <2>5 DEF CompactionInv
  <2>6. CASE ~job.compacted
    <3>1. NotDue(t, job) /\ t.since - t.uncounted <= job.mutations
      BY <2>1, <2>3, <2>6 DEF CompactionInv, Clean, Working
    <3>2. ~(job.mutations >= MutationThreshold)
      BY <2>1, <2>2, <3>1 DEF NotDue
    <3> QED
      BY <2>2, <2>4, <3>1, <3>2
  <2> QED
    BY <2>5, <2>6
<1>4. NothingLeft
  <2>1. SUFFICES ASSUME Clean
                 PROVE  /\ MaintenanceActions([tables[job.table] EXCEPT !.versions = 1], saved.mutations, FALSE) = {}
                        /\ AdaptiveIndexActions(tables[job.table], saved.signature) = {}
    BY DEF NothingLeft, Maintained
  <2>2. PICK t : t = tables[job.table]
    OBVIOUS
  <2>3. job \in Inspections /\ t \in TableRecords /\ TextInv(t, job) /\ CompactionInv(t, job) /\ SavedInv(t, job)
        /\ job.phase = "reported" /\ ~job.failed
    BY <2>1, <2>2, CleanRun DEF Clean, Working
  <2>4. PICK t2 : t2 = [t EXCEPT !.versions = 1]
    OBVIOUS
  <2>5. /\ t2.rows = t.rows /\ t2.fragments = t.fragments /\ t2.small = t.small /\ t2.text = t.text /\ t2.versions = 1
    BY <2>3, <2>4 DEF TableRecords
  <2>6. MutationThreshold \in Nat \ {0} /\ ~PilesUp(t2)
    BY <2>5, MaintenanceAssumption DEF PilesUp
  <2>7. saved.mutations = IF job.compacted THEN 0 ELSE job.mutations
    BY <2>3 DEF SavedInv
  <2>8. /\ ~RequiresCompaction(t2)
        /\ ~(t2.rows >= CompactionRows /\ saved.mutations >= MutationThreshold)
    <3>1. CASE job.compacted
      <4>1. t.small = 0 /\ t.fragments = 1
        BY <2>3, <3>1 DEF CompactionInv
      <4> QED
        BY <2>5, <2>6, <2>7, <3>1, <4>1 DEF RequiresCompaction
    <3>2. CASE ~job.compacted
      <4>1. NotDue(t, job)
        BY <2>3, <3>2 DEF CompactionInv
      <4> QED
        BY <2>5, <2>7, <3>2, <4>1 DEF NotDue, RequiresCompaction
    <3> QED
      BY <3>1, <3>2
  <2>9. TextComplete(t2)
    BY <2>3, <2>5 DEF TextInv, TextComplete
  <2>10. MaintenanceActions(t2, saved.mutations, FALSE) = {}
    BY <2>6, <2>8, <2>9 DEF MaintenanceActions
  <2>11. AdaptiveIndexActions(t, saved.signature) = {}
    BY <2>3 DEF SavedInv
  <2> QED
    BY <2>2, <2>4, <2>10, <2>11
<1> QED
  BY <1>1, <1>2, <1>3, <1>4 DEF MaintenanceSound

\* Every reachable state satisfies the inductive invariant: the counts that storage-maintenance.json
\* keeps, what a maintenance has found and done of its table, and what the manifest was written of.
THEOREM Maintains == MaintenanceSpec => []MaintenanceInv
<1>1. MaintenanceInit => MaintenanceInv
  BY MaintenanceStarts
<1>2. MaintenanceInv /\ [MaintenanceNext]_maintenanceVars => MaintenanceInv'
  BY MaintenanceSteps
<1> QED
  BY <1>1, <1>2, PTL DEF MaintenanceSpec

\* Searches are sent through the vector index only where it holds every row, a clean run leaves a complete
\* text index with its positions, the commits no compaction has seen stay below the threshold, and a
\* clean run leaves nothing to do for the next (maintainOpenStorageTable, maintainAdaptiveIndices).
THEOREM MaintenanceIsSound == MaintenanceSpec => []MaintenanceSound
<1>1. MaintenanceInv => MaintenanceSound
  BY InvIsSound
<1> QED
  BY <1>1, Maintains, PTL

=============================================================================
