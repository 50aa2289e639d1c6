---------------------- MODULE GenerationRetention_proofs ----------------------
(* Proofs about the index generations, for any readers, tables and events.  *)
EXTENDS GenerationRetention, FiniteSetTheorems, SequenceTheorems, TLAPS

-----------------------------------------------------------------------------
(* The inductive invariant.                                                 *)

\* No table is listed twice.
NoTwice == \A i, j \in DOMAIN order : order[i] = order[j] => i = j

\* The run in progress, and its state on disk.
RunKnown ==
    /\ wpc = "idle" => run = NoRun
    /\ wpc \in {"drop", "persist", "write", "finish"} => run # NoRun
    /\ run # NoRun => run.status = "running"
    /\ wpc = "drop" => Abandoned(disk)
    /\ wpc \in {"write", "previous", "canonical", "leases", "inspect", "recheck", "reclaim",
                "finish"} /\ run # NoRun => disk = run
    /\ wpc \in {"leases", "inspect", "recheck", "reclaim", "finish"} /\ run # NoRun =>
          run.table = Active
    /\ wpc \in {"previous", "canonical"} /\ run = NoRun =>
          canonical # NoTable \/ previous # NoTable

Activated == {canonical, previous} \cup {tab[r] : r \in Readers}

\* Every name in use was given out before.
NamesGiven ==
    /\ \A t \in Activated : t # NoTable => t < next
    /\ disk # NoRun => disk.table < next
    /\ run # NoRun => run.table < next

\* The table of an unfinished rebuild was never the active one, or still is.
Staged(state) ==
    state # NoRun /\ state.mode = "rebuild" /\ state.status # "completed"
        /\ state.table # Active => state.table \notin Activated

\* What a collection protects whatever the leases say.
Collecting == wpc \in {"leases", "inspect", "recheck", "reclaim"}

Unfinished(state) == state # NoRun /\ state.mode = "rebuild" /\ state.status # "completed"

Protected ==
    /\ ~Collecting => gc = NoCollection
    /\ wpc \in {"leases", "inspect"} => gc.early = {}
    /\ Collecting =>
          /\ gc.active = Active /\ Active \in gc.kept
          /\ \A state \in {disk, run} : Unfinished(state) => state.table \in gc.kept
    /\ gc.doomed \cap gc.kept = {}
    /\ wpc = "reclaim" => gc.todo = {}

IInv ==
    /\ TypeOK /\ NoTwice /\ RunKnown /\ NamesGiven
    /\ Staged(disk) /\ Staged(run) /\ Protected

-----------------------------------------------------------------------------
(* The leases.                                                              *)

\* The leases of a reader reach the collection: it is of the same process, or lease
\* files can be written and are not read halfway.
Leasable(r) == r \in Local \/ {"torn", "readOnly"} \cap Events = {}

Covered(r) ==
    \/ tab[r] = gc.active
    \/ tab[r] \in gc.names
    \/ r \in gc.todo \ Local

\* The lease of a reader has reached its term, as far as a collection in progress
\* is concerned.
Expired(r) == r \in late /\ (Collecting => r \in gc.overdue)

LeaseFilesTrue ==
    \A r \in Readers \ Local : Leasable(r) /\ ~Expired(r) =>
        /\ stage[r] = "leasing" => file[r] = "torn"
        /\ stage[r] \in {"confirm", "reading"} => file[r] = "valid"

LeaseInv ==
    /\ LeaseFilesTrue
    /\ wpc \in {"recheck", "reclaim"} =>
          \A r \in Readers : Leasable(r) =>
             /\ r \in Confirming /\ stage[r] = "reading" /\ (r \in Local \/ ~Expired(r)) =>
                   Covered(r)
             /\ r \in gc.early =>
                   /\ r \in Local \/ ~Expired(r)
                   /\ stage[r] = "reading" => Covered(r)
                   /\ stage[r] \in {"opened", "leasing", "confirm"} => tab[r] = gc.active

-----------------------------------------------------------------------------
(* The fallback.                                                            *)

\* The run that activated the table knows the one before it.
Behind(state) ==
    \/ previous \in {NoTable, Active}
    \/ state # NoRun /\ state.mode = "rebuild" /\ state.table = Active /\ state.before = previous

FallbackInv ==
    /\ wpc # "drop"
    /\ run = NoRun => disk = NoRun \/ disk.status = "completed"
    /\ run = NoRun => Behind(disk)
    /\ wpc \in {"persist", "write", "previous"} /\ run # NoRun =>
          IF run.mode = "rebuild" THEN run.before = Active ELSE run.table = Active
    /\ wpc = "canonical" /\ run # NoRun =>
          previous = run.table \/ (run.mode = "rebuild" /\ run.before = previous)
    /\ wpc \in {"leases", "inspect", "recheck", "reclaim", "finish"} /\ run # NoRun => Behind(run)
    /\ Collecting => previous \in gc.kept \cup {NoTable}

-----------------------------------------------------------------------------
(* The bound.                                                               *)

BoundInv ==
    wpc \in {"recheck", "reclaim"} /\ gc.safe =>
        Cardinality((gc.settled \cap Existing) \ (gc.kept \cup gc.doomed))
            <= RetainedSlots(gc.kept)

-----------------------------------------------------------------------------
(* The order of the tables.                                                 *)

LEMMA PositionOf ==
  ASSUME NEW t \in Existing
  PROVE  Position(t) \in DOMAIN order /\ order[Position(t)] = t
<1>1. \E i \in DOMAIN order : order[i] = t
  BY DEF Existing, ToSet
<1> QED
  BY <1>1 DEF Position

\* OrderWithout(t) keeps the other tables, in their order, and none twice.
LEMMA WithoutTable ==
  ASSUME order \in Seq(Tables), NoTwice, NEW t
  PROVE  /\ OrderWithout(t) \in Seq(Tables)
         /\ ToSet(OrderWithout(t)) = Existing \ {t}
         /\ \A i, j \in DOMAIN OrderWithout(t) : OrderWithout(t)[i] = OrderWithout(t)[j] => i = j
<1>1. CASE t \notin Existing
  BY <1>1 DEF OrderWithout, Existing, NoTwice, ToSet
<1>2. CASE t \in Existing
  <2> DEFINE n == Len(order)
             p == Position(t)
             w == RemoveAt(order, p)
  <2>1. /\ n \in Nat /\ DOMAIN order = 1 .. n /\ p \in 1 .. n /\ order[p] = t
        /\ \A i \in 1 .. n : order[i] \in Tables
    BY <1>2, PositionOf
  <2> HIDE DEF p, n
  <2>2. /\ SubSeq(order, 1, p - 1) \in Seq(Tables) /\ Len(SubSeq(order, 1, p - 1)) = p - 1
        /\ \A i \in 1 .. p - 1 : SubSeq(order, 1, p - 1)[i] = order[i]
    BY <2>1 DEF n
  <2>3. /\ SubSeq(order, p + 1, n) \in Seq(Tables) /\ Len(SubSeq(order, p + 1, n)) = n - p
        /\ \A i \in 1 .. n - p : SubSeq(order, p + 1, n)[i] = order[p + i]
    <3>1. p + 1 \in Int /\ n \in Int /\ \A i \in p + 1 .. n : order[i] \in Tables
      BY <2>1
    <3>2. /\ SubSeq(order, p + 1, n) \in Seq(Tables)
          /\ Len(SubSeq(order, p + 1, n)) = IF p + 1 <= n THEN n - (p + 1) + 1 ELSE 0
          /\ \A i \in 1 .. n - (p + 1) + 1 : SubSeq(order, p + 1, n)[i] = order[p + 1 + i - 1]
      BY <3>1, SubSeqProperties
    <3> QED
      BY <2>1, <3>2
  <2>4. w = SubSeq(order, 1, p - 1) \o SubSeq(order, p + 1, n)
    BY DEF RemoveAt, n
  <2>5. /\ w \in Seq(Tables) /\ Len(w) = n - 1
        /\ \A i \in 1 .. n - 1 : w[i] = IF i < p THEN order[i] ELSE order[i + 1]
    <3>1. w \in Seq(Tables) /\ Len(w) = n - 1
      BY <2>1, <2>2, <2>3, <2>4
    <3>2. ASSUME NEW i \in 1 .. n - 1 PROVE w[i] = IF i < p THEN order[i] ELSE order[i + 1]
      BY <2>1, <2>2, <2>3, <2>4, ConcatProperties
    <3> QED
      BY <3>1, <3>2
  <2> HIDE DEF w
  <2>n. \A i, j \in 1 .. n : order[i] = order[j] => i = j
    BY <2>1 DEF NoTwice
  <2>i. ASSUME NEW i \in 1 .. n - 1
        PROVE  \E k \in 1 .. n : w[i] = order[k] /\ k # p /\ k = IF i < p THEN i ELSE i + 1
    <3>1. CASE i < p
      BY <2>1, <2>5, <3>1
    <3>2. CASE i >= p
      BY <2>1, <2>5, <3>2
    <3> QED
      BY <2>1, <3>1, <3>2
  <2>6. ASSUME NEW i \in 1 .. n - 1, NEW j \in 1 .. n - 1, w[i] = w[j] PROVE i = j
    <3>1. PICK k \in 1 .. n : w[i] = order[k] /\ k = IF i < p THEN i ELSE i + 1
      BY <2>i
    <3>2. PICK l \in 1 .. n : w[j] = order[l] /\ l = IF j < p THEN j ELSE j + 1
      BY <2>i
    <3>3. k = l
      BY <2>6, <2>n, <3>1, <3>2
    <3> QED
      BY <2>1, <3>1, <3>2, <3>3
  <2>7. \A u \in ToSet(w) : u \in Existing /\ u # t
    <3>1. ASSUME NEW i \in 1 .. n - 1 PROVE w[i] \in Existing /\ w[i] # t
      BY <2>1, <2>i, <2>n DEF Existing, ToSet
    <3> QED
      BY <3>1, <2>5 DEF ToSet
  <2>8. ASSUME NEW u \in Existing, u # t PROVE u \in ToSet(w)
    <3>1. PICK i \in 1 .. n : order[i] = u
      BY <2>1 DEF Existing, ToSet
    <3>2. CASE i < p
      BY <2>1, <2>5, <3>1, <3>2 DEF ToSet
    <3>3. CASE i > p
      <4>1. i - 1 \in 1 .. n - 1 /\ w[i - 1] = u
        BY <2>1, <2>5, <3>1, <3>3
      <4> QED
        BY <4>1, <2>5 DEF ToSet
    <3> QED
      BY <2>1, <2>8, <3>1, <3>2, <3>3
  <2>9. OrderWithout(t) = w
    BY <1>2 DEF OrderWithout, w, p
  <2> QED
    BY <2>5, <2>6, <2>7, <2>8, <2>9
<1> QED
  BY <1>1, <1>2

\* A table that is modified comes first.
LEMMA FirstTable ==
  ASSUME order \in Seq(Tables), NoTwice, NEW t \in Tables
  PROVE  LET o == <<t>> \o OrderWithout(t)
         IN  /\ o \in Seq(Tables)
             /\ ToSet(o) = Existing \cup {t}
             /\ \A i, j \in DOMAIN o : o[i] = o[j] => i = j
<1> DEFINE w == OrderWithout(t)
           o == <<t>> \o w
<1>1. /\ w \in Seq(Tables) /\ ToSet(w) = Existing \ {t}
      /\ \A i, j \in DOMAIN w : w[i] = w[j] => i = j
  BY WithoutTable
<1> HIDE DEF w
<1>2. /\ o \in Seq(Tables) /\ Len(o) = Len(w) + 1 /\ Len(w) \in Nat
      /\ \A i \in 1 .. Len(w) + 1 : o[i] = IF i = 1 THEN t ELSE w[i - 1]
  BY <1>1
<1> HIDE DEF o
<1>3. \A i \in 1 .. Len(w) : w[i] # t
  BY <1>1 DEF ToSet
<1>4. \A i, j \in DOMAIN o : o[i] = o[j] => i = j
  <2> SUFFICES ASSUME NEW i \in 1 .. Len(w) + 1, NEW j \in 1 .. Len(w) + 1, o[i] = o[j] PROVE i = j
    BY <1>2
  <2>0. ASSUME NEW k \in 1 .. Len(w) + 1, k # 1 PROVE o[k] # t /\ o[1] = t
    <3>1. k - 1 \in 1 .. Len(w) /\ o[k] = w[k - 1]
      BY <1>2, <2>0
    <3> QED
      BY <1>2, <1>3, <3>1
  <2>1. CASE i = 1 \/ j = 1
    BY <2>0, <2>1
  <2>2. CASE i # 1 /\ j # 1
    <3>1. i - 1 \in DOMAIN w /\ j - 1 \in DOMAIN w /\ w[i - 1] = w[j - 1]
      BY <1>1, <1>2, <2>2
    <3>2. i - 1 = j - 1
      BY <1>1, <3>1
    <3> QED
      BY <1>2, <3>2
  <2> QED
    BY <2>1, <2>2
<1>5. ToSet(o) = ToSet(w) \cup {t}
  <2>1. ASSUME NEW i \in 1 .. Len(w) PROVE o[i + 1] = w[i] /\ i + 1 \in DOMAIN o
    BY <1>2
  <2>2. ASSUME NEW i \in 1 .. Len(w) + 1, i # 1 PROVE o[i] = w[i - 1] /\ i - 1 \in DOMAIN w
    BY <1>1, <1>2, <2>2
  <2>3. 1 \in DOMAIN o /\ o[1] = t /\ DOMAIN o = 1 .. Len(w) + 1 /\ DOMAIN w = 1 .. Len(w)
    BY <1>1, <1>2
  <2>4. ASSUME NEW u \in ToSet(o) PROVE u \in ToSet(w) \cup {t}
    BY <2>2, <2>3 DEF ToSet
  <2>5. ASSUME NEW u \in ToSet(w) PROVE u \in ToSet(o)
    BY <2>1, <2>3 DEF ToSet
  <2>6. t \in ToSet(o)
    BY <2>3 DEF ToSet
  <2> QED
    BY <2>4, <2>5, <2>6
<1> QED
  BY <1>1, <1>2, <1>4, <1>5 DEF o, w

-----------------------------------------------------------------------------
(* The actions.                                                             *)

\* A table is dropped by a collection, or by the run that finds it abandoned.
LEMMA GoneOnlyIfDropped ==
  ASSUME IInv, [Next]_vars, NEW t, Gone(t)
  PROVE  \/ DropAbandoned /\ t = disk.table
         \/ wpc = "reclaim" /\ UNCHANGED <<manifestVars, disk, run, readerVars>>
            /\ t \in gc.doomed \ gc.names
<1> USE DEF IInv, TypeOK
<1>1. t \in Existing /\ t \notin ToSet(order')
  BY DEF Gone
<1>2. order' # order
  BY <1>1 DEF Existing
<1>3. \A u : ToSet(OrderWithout(u)) = Existing \ {u}
  BY WithoutTable
<1>4. CASE DropAbandoned
  BY <1>1, <1>3, <1>4 DEF DropAbandoned, Discard
<1>5. CASE \E u \in Tables : DropTable(u)
  BY <1>1, <1>2, <1>3, <1>5 DEF DropTable, Discard, tableVars
<1>6. CASE WriteRows
  <2>1. run.table \in Tables
    BY <1>6 DEF WriteRows, WriterGo, RunKnown, Runs
  <2>2. ToSet(order') = Existing \cup {run.table}
    BY <1>6, <2>1, FirstTable DEF WriteRows
  <2> QED
    BY <1>1, <2>2
<1> QED
  BY <1>2, <1>4, <1>5, <1>6
     DEF Next, Ingest, Collection, Read, BeginIngest, PersistRun, Validate, WritePrevious,
         WriteCanonical, FinishRun, FailRun, Evaluate, Collect, LeasesRead, Inspect, LeasesReread,
         EndCollection, ReadLease, CrashWriter, GrowOld, Open, Lease, WriteLease, Confirm,
         ReleaseLease, CrashReader, ExpireLease, vars, tableVars, writerVars

LEMMA OrderKept ==
  ASSUME IInv, [Next]_vars
  PROVE  order' \in Seq(Tables) /\ NoTwice'
<1> USE DEF IInv, TypeOK
<1>1. ASSUME NEW t, order' = OrderWithout(t) PROVE order' \in Seq(Tables) /\ NoTwice'
  BY <1>1, WithoutTable DEF NoTwice
<1>2. CASE order' = order
  BY <1>2 DEF NoTwice
<1>3. CASE WriteRows
  <2>1. run.table \in Tables
    BY <1>3 DEF WriteRows, WriterGo, RunKnown, Runs
  <2> QED
    BY <1>3, <2>1, FirstTable DEF WriteRows, NoTwice
<1> QED
  BY <1>1, <1>2, <1>3
     DEF Next, Ingest, Collection, Read, BeginIngest, PersistRun, Validate, WritePrevious,
         WriteCanonical, FinishRun, FailRun, Evaluate, Collect, LeasesRead, Inspect, LeasesReread,
         EndCollection, ReadLease, CrashWriter, GrowOld, Open, Lease, WriteLease, Confirm,
         ReleaseLease, CrashReader, ExpireLease, vars, tableVars, writerVars, DropAbandoned, DropTable, Discard

LEMMA ActiveTable ==
  ASSUME IInv
  PROVE  /\ Active \in Tables /\ Active < next /\ next \in Nat /\ next # NoTable
         /\ Active \in Activated \cup {0} /\ NoTable \notin Tables /\ Tables \subseteq Nat
         /\ 0 \in Tables
  BY RetentionAssumption DEF IInv, TypeOK, Active, NamesGiven, Activated, Tables

LEMMA ActiveSame ==
  ASSUME UNCHANGED <<canonical, previous>>
  PROVE  Active' = Active
  BY DEF Active

\* Steps of the readers, and of the time, touch nothing of the writer but the names.
LEMMA ReadersKeep ==
  ASSUME IInv, UNCHANGED writerVars, order' \in Seq(Tables), NoTwice',
         age' \in [Tables -> {"young", "aged", "expired"}],
         stage' \in [Readers -> {"idle", "opened", "leasing", "confirm", "reading", "dead"}],
         file' \in [Readers -> {"none", "torn", "valid"}],
         tab' \in [Readers -> Tables \cup {NoTable}],
         late' \in SUBSET Readers,
         \A r \in Readers : tab'[r] \in {tab[r], Active, NoTable}
  PROVE  IInv'
<1> USE DEF IInv
<1>0. /\ UNCHANGED <<canonical, previous, disk, run, next, wpc, gc>>
      /\ Active' = Active
  BY ActiveSame DEF writerVars
<1>1. TypeOK'
  BY <1>0 DEF TypeOK
<1>2. RunKnown'
  BY <1>0 DEF RunKnown, Abandoned
<1>3. NamesGiven'
  BY <1>0, ActiveTable DEF NamesGiven, Activated
<1>4. ASSUME NEW state, state \in Runs \cup {NoRun}, Staged(state), state # NoRun => state.table # NoTable
      PROVE  Staged(state)'
  BY <1>0, <1>4, ActiveTable DEF Staged, Activated
<1>5. Staged(disk)' /\ Staged(run)'
  <2>1. \A state \in {disk, run} : state \in Runs \cup {NoRun} /\ (state # NoRun => state.table # NoTable)
    BY ActiveTable DEF TypeOK, Runs
  <2> QED
    BY <1>0, <1>4, <2>1 DEF Staged, Activated
<1>6. Protected'
  BY <1>0 DEF Protected, Collecting, Unfinished
<1> QED
  BY <1>1, <1>2, <1>3, <1>5, <1>6

LEMMA ReadKeeps ==
  ASSUME IInv, [Next]_vars, NEW r \in Readers, Read(r)
  PROVE  IInv'
<1>1. /\ UNCHANGED <<writerVars, age>>
      /\ stage' \in [Readers -> {"idle", "opened", "leasing", "confirm", "reading", "dead"}]
  BY DEF Read, Open, Lease, WriteLease, Confirm, ReleaseLease, CrashReader, ExpireLease,
         ReaderGo, GiveBack,
         IInv, TypeOK
<1>2. /\ file' \in [Readers -> {"none", "torn", "valid"}]
      /\ tab' \in [Readers -> Tables \cup {NoTable}]
      /\ \A q \in Readers : tab'[q] \in {tab[q], Active, NoTable}
  <2>1. CASE Open(r) \/ Confirm(r) \/ ReleaseLease(r)
    <3>1. Active \in Tables
      BY ActiveTable
    <3>2. \/ tab' = [tab EXCEPT ![r] = Active] /\ UNCHANGED file
          \/ UNCHANGED <<tab, file>>
          \/ GiveBack(r)
      BY <2>1 DEF Open, Confirm, ReleaseLease
    <3> QED
      BY <3>1, <3>2 DEF GiveBack, IInv, TypeOK
  <2>2. CASE Lease(r) \/ WriteLease(r) \/ CrashReader(r) \/ ExpireLease(r)
    <3>1. tab' = tab
      BY <2>2 DEF Lease, WriteLease, CrashReader, ExpireLease
    <3>2. file' \in [Readers -> {"none", "torn", "valid"}]
      BY <2>2 DEF Lease, WriteLease, CrashReader, ExpireLease, IInv, TypeOK
    <3> QED
      BY <3>1, <3>2 DEF IInv, TypeOK
  <2> QED
    BY <2>1, <2>2 DEF Read
<1>3. late' \in SUBSET Readers
  <2>1. late \in SUBSET Readers /\ late' \subseteq late \cup {r}
    BY DEF Read, Open, Lease, WriteLease, Confirm, ReleaseLease, CrashReader, ExpireLease,
           GiveBack, IInv, TypeOK
  <2> QED
    BY <2>1
<1> QED
  BY <1>1, <1>2, <1>3, OrderKept, ReadersKeep DEF IInv, TypeOK

LEMMA GrowOldKeeps ==
  ASSUME IInv, [Next]_vars, GrowOld
  PROVE  IInv'
<1>1. UNCHANGED writerVars /\ UNCHANGED readerVars
  BY DEF GrowOld
<1>2. age' \in [Tables -> {"young", "aged", "expired"}]
  BY DEF GrowOld, Older, IInv, TypeOK
<1> QED
  BY <1>1, <1>2, OrderKept, ReadersKeep DEF IInv, TypeOK, readerVars

\* Steps of a collection change what it has found out, and drop tables.
LEMMA CollectingKeeps ==
  ASSUME IInv, [Next]_vars, age' \in [Tables -> {"young", "aged", "expired"}],
         UNCHANGED <<manifestVars, disk, run, next, stage, tab, late>>,
         file' \in [Readers -> {"none", "torn", "valid"}],
         gc' \in [active : Tables \cup {NoTable}, kept : SUBSET (Tables \cup {NoTable}),
                  names : SUBSET (Tables \cup {NoTable}), todo : SUBSET Readers,
                  doomed : SUBSET Tables, settled : SUBSET Tables, safe : BOOLEAN,
                  early : SUBSET Readers, overdue : SUBSET Readers],
         Collecting, Collecting', wpc' \in {"leases", "inspect", "recheck", "reclaim"},
         gc'.active = gc.active, gc.kept \subseteq gc'.kept,
         gc'.doomed \cap gc'.kept = {},
         wpc' \in {"leases", "inspect"} => gc'.early = {},
         wpc' = "reclaim" => gc'.todo = {}
  PROVE  IInv'
<1> USE DEF IInv
<1>0. UNCHANGED <<canonical, previous>> /\ Active' = Active
  BY ActiveSame DEF manifestVars
<1>1. TypeOK'
  BY <1>0, OrderKept DEF TypeOK
<1>2. RunKnown'
  BY <1>0 DEF RunKnown, Collecting
<1>3. NamesGiven'
  BY <1>0 DEF NamesGiven, Activated
<1>4. Staged(disk)' /\ Staged(run)'
  BY <1>0 DEF Staged, Activated
<1>5. Protected'
  BY <1>0 DEF Protected, Unfinished
<1> QED
  BY <1>1, <1>2, <1>3, <1>4, <1>5, OrderKept

CollectionSteps ==
    \/ LeasesRead \/ Inspect \/ LeasesReread
    \/ \E r \in Readers : ReadLease(r)
    \/ \E t \in Tables : DropTable(t)

LEMMA CountedTables ==
  ASSUME TypeOK
  PROVE  CountedLeases \in SUBSET (Tables \cup {NoTable}) /\ LeaseFiles \in SUBSET Readers
  BY RetentionAssumption DEF TypeOK, CountedLeases, LeaseFiles

LEMMA CollectionKeeps ==
  ASSUME IInv, [Next]_vars, CollectionSteps
  PROVE  IInv'
<1> DEFINE G == [active : Tables \cup {NoTable}, kept : SUBSET (Tables \cup {NoTable}),
                 names : SUBSET (Tables \cup {NoTable}), todo : SUBSET Readers,
                 doomed : SUBSET Tables, settled : SUBSET Tables, safe : BOOLEAN,
                 early : SUBSET Readers, overdue : SUBSET Readers]
<1>g. gc \in G
  BY DEF IInv, TypeOK
<1>1. CASE LeasesRead
  BY <1>1, CollectingKeeps DEF LeasesRead, Collecting, tableVars, readerVars, IInv, TypeOK, Protected
<1>2. CASE LeasesReread
  BY <1>2, CollectingKeeps DEF LeasesReread, Collecting, tableVars, readerVars, IInv, TypeOK, Protected
<1>3. ASSUME NEW r \in Readers, ReadLease(r) PROVE IInv'
  <2>1. /\ wpc \in {"leases", "recheck"} /\ wpc' = wpc
        /\ UNCHANGED <<tableVars, manifestVars, disk, run, next, stage, tab, late>>
        /\ file' \in [Readers -> {"none", "torn", "valid"}]
    BY <1>3 DEF ReadLease, IInv, TypeOK
  <2>2. /\ gc' \in G /\ gc'.active = gc.active /\ gc'.kept = gc.kept /\ gc'.doomed = gc.doomed
        /\ gc'.early = gc.early
    <3>1. tab[r] \in Tables \cup {NoTable}
      BY DEF IInv, TypeOK
    <3>2. CASE gc' = [gc EXCEPT !.todo = @ \ {r}]
      BY <1>g, <3>2
    <3>3. CASE gc' = [gc EXCEPT !.todo = @ \ {r}, !.names = @ \cup {tab[r]}]
      <4>1. PICK g : g = [gc EXCEPT !.todo = @ \ {r}]
        OBVIOUS
      <4>2. g \in G /\ g.active = gc.active /\ g.kept = gc.kept /\ g.doomed = gc.doomed
            /\ g.early = gc.early
        BY <1>g, <4>1
      <4>3. gc' = [g EXCEPT !.names = @ \cup {tab[r]}]
        BY <1>g, <3>3, <4>1
      <4> QED
        BY <3>1, <4>2, <4>3
    <3> QED
      BY <1>3, <3>2, <3>3 DEF ReadLease
  <2> QED
    BY <2>1, <2>2, CollectingKeeps DEF Collecting, tableVars, IInv, TypeOK, Protected
<1>4. ASSUME NEW t \in Tables, DropTable(t) PROVE IInv'
  <2>1. /\ wpc = "reclaim" /\ wpc' = wpc
        /\ UNCHANGED <<manifestVars, disk, run, next, stage, tab, file, late>>
        /\ age' \in [Tables -> {"young", "aged", "expired"}]
    BY <1>4 DEF DropTable, Discard, tableVars, readerVars, IInv, TypeOK
  <2>2. /\ gc' \in G /\ gc'.active = gc.active /\ gc'.kept = gc.kept
        /\ gc'.doomed \subseteq gc.doomed /\ gc'.todo = gc.todo
    BY <1>4, <1>g DEF DropTable
  <2> QED
    BY <2>1, <2>2, CollectingKeeps DEF Collecting, IInv, TypeOK, Protected
<1>5. CASE Inspect
  <2> DEFINE P == gc.kept \cup gc.names
  <2>1. /\ wpc = "inspect" /\ wpc' = "recheck"
        /\ UNCHANGED <<tableVars, manifestVars, disk, run, next, stage, tab, file, late>>
    BY <1>5 DEF Inspect, WriterGo, readerVars
  <2>2. PICK cand \in SUBSET Existing :
           \E safe \in BOOLEAN :
           gc' = [active |-> gc.active, kept |-> P, safe |-> safe,
                  doomed |-> IF safe THEN Orphaned(cand, P) ELSE {},
                  settled |-> {t \in cand : age[t] # "young"},
                  names |-> CountedLeases, todo |-> LeaseFiles,
                  early |-> {r \in Readers : stage[r] = "reading" /\ (r \in Local \/ ~Overdue(r))},
                  overdue |-> gc.overdue]
    BY <1>5 DEF Inspect
  <2>3. Existing \subseteq Tables
    BY DEF IInv, TypeOK, Existing, ToSet
  <2>4. Orphaned(cand, P) \in SUBSET Tables /\ Orphaned(cand, P) \cap P = {}
    BY <2>3 DEF Orphaned, Eligible
  <2>5. P \in SUBSET (Tables \cup {NoTable})
    BY <1>g
  <2> HIDE DEF P
  <2>6. /\ gc' \in G /\ gc'.active = gc.active /\ gc'.kept = P
        /\ gc'.doomed \cap P = {}
    BY <1>g, <2>2, <2>3, <2>4, <2>5, CountedTables DEF IInv
  <2>7. gc.kept \subseteq P
    BY DEF P
  <2> QED
    BY <2>1, <2>6, <2>7, CollectingKeeps DEF Collecting, tableVars, IInv, TypeOK
<1> QED
  BY <1>1, <1>2, <1>3, <1>4, <1>5 DEF CollectionSteps

\* Outside the collection nothing is known of the leases.
LEMMA WritingKeeps ==
  ASSUME IInv, [Next]_vars, ~Collecting, ~Collecting', gc' = gc,
         TypeOK', RunKnown', NamesGiven', Staged(disk)', Staged(run)'
  PROVE  IInv'
<1>1. gc' = NoCollection
  BY DEF IInv, Protected
<1>2. Protected'
  BY <1>1 DEF Protected, NoCollection, Collecting
<1> QED
  BY <1>2, OrderKept DEF IInv

LEMMA NewRunType ==
  ASSUME IInv, NEW rebuild \in BOOLEAN, NEW compatible \in BOOLEAN,
         NewRun(rebuild, compatible).mode = "rebuild" => next <= MaxTable
  PROVE  LET n == NewRun(rebuild, compatible)
         IN  /\ n \in Runs /\ n.status = "running"
             /\ n.mode = "rebuild" => n.table = next
             /\ n.mode # "rebuild" => n.table = Active
<1>1. Active \in Tables /\ next \in Nat
  BY ActiveTable
<1>2. CASE rebuild \/ (Active \in Existing /\ ~compatible)
  BY <1>1, <1>2 DEF NewRun, Runs, Tables
<1>3. CASE ~(rebuild \/ (Active \in Existing /\ ~compatible))
  BY <1>1, <1>3 DEF NewRun, Runs
<1> QED
  BY <1>2, <1>3

LEMMA BeginKeeps ==
  ASSUME IInv, [Next]_vars, NEW rebuild \in BOOLEAN, NEW same \in BOOLEAN,
         NEW compatible \in BOOLEAN, BeginIngest(rebuild, same, compatible)
  PROVE  IInv'
<1> USE DEF IInv
<1>0. /\ wpc = "idle" /\ UNCHANGED <<order, age, canonical, previous, disk, gc, stage, tab, file, late>>
      /\ Active' = Active /\ Activated' = Activated /\ wpc' \in {"persist", "drop"}
  BY ActiveSame DEF BeginIngest, WriterGo, tableVars, manifestVars, readerVars, Activated
<1>1. CASE CanResume(same, rebuild)
  <2>1. /\ disk \in Runs /\ disk.status # "completed" /\ run' = [disk EXCEPT !.status = "running"]
        /\ next' = next /\ wpc' = "persist"
    BY <1>1 DEF BeginIngest, CanResume, WriterGo, TypeOK
  <2>2. /\ run' \in Runs /\ run'.status = "running" /\ run'.mode = disk.mode
        /\ run'.table = disk.table /\ run' # NoRun /\ disk # NoRun
    BY <2>1, RunAssumption DEF Runs
  <2>3. TypeOK'
    BY <1>0, <2>1, <2>2 DEF TypeOK
  <2>4. RunKnown'
    BY <1>0, <2>1, <2>2 DEF RunKnown
  <2>5. NamesGiven'
    BY <1>0, <2>1, <2>2 DEF NamesGiven
  <2>6. Staged(disk)' /\ Staged(run)'
    BY <1>0, <2>1, <2>2 DEF Staged
  <2> QED
    BY <1>0, <2>1, <2>3, <2>4, <2>5, <2>6, WritingKeeps DEF Collecting
<1>2. CASE ~CanResume(same, rebuild)
  <2> DEFINE n == NewRun(rebuild, compatible)
  <2>1. /\ run' = n /\ (n.mode = "rebuild" => next <= MaxTable)
        /\ next' = IF n.mode = "rebuild" THEN next + 1 ELSE next
        /\ wpc' = IF Abandoned(disk) THEN "drop" ELSE "persist"
    BY <1>2 DEF BeginIngest, WriterGo
  <2>2. /\ n \in Runs /\ n.status = "running"
        /\ n.mode = "rebuild" => n.table = next
        /\ n.mode # "rebuild" => n.table = Active
    BY <2>1, NewRunType
  <2> HIDE DEF n
  <2>3. /\ next \in 1 .. MaxTable + 1 /\ next' \in 1 .. MaxTable + 1 /\ next <= next'
        /\ MaxTable \in Nat /\ Active \in Nat /\ Active < next /\ next # NoTable
    BY <2>1, ActiveTable, RetentionAssumption DEF TypeOK
  <2>4. TypeOK'
    BY <1>0, <2>1, <2>2, <2>3 DEF TypeOK
  <2>5. RunKnown'
    <3>1. Abandoned(disk)' = Abandoned(disk)
      BY <1>0 DEF Abandoned
    <3>2. run' # NoRun /\ run'.status = "running"
      BY <2>1, <2>2, RunAssumption
    <3> QED
      BY <1>0, <2>1, <3>1, <3>2 DEF RunKnown
  <2>6. NamesGiven'
    <3>1. ASSUME NEW t \in Tables, t < next PROVE t < next'
      BY <2>3, <3>1, ActiveTable
    <3>2. run'.table < next'
      BY <2>1, <2>2, <2>3 DEF Tables
    <3>3. \A t \in Activated : t # NoTable => t \in Tables
      BY DEF Activated, TypeOK
    <3>4. disk # NoRun => disk.table \in Tables
      BY DEF TypeOK, Runs
    <3> QED
      BY <1>0, <3>1, <3>2, <3>3, <3>4 DEF NamesGiven
  <2>7. Staged(disk)' /\ Staged(run)'
    <3>1. next \notin Activated
      BY <2>3 DEF NamesGiven
    <3> QED
      BY <1>0, <2>1, <2>2, <3>1 DEF Staged
  <2> QED
    BY <1>0, <2>1, <2>4, <2>5, <2>6, <2>7, WritingKeeps DEF Collecting
<1> QED
  BY <1>1, <1>2

\* Steps of a run up to the activation: tables, the state on disk and the
\* progress may change, names and manifests do not.
LEMMA WriterKeeps ==
  ASSUME IInv, [Next]_vars, ~Collecting, ~Collecting', gc' = gc,
         UNCHANGED <<canonical, previous, next, stage, tab, file, late>>,
         age' \in [Tables -> {"young", "aged", "expired"}],
         wpc' \in {"idle", "persist", "write", "previous", "canonical"},
         RunKnown',
         run' = NoRun \/ (run' \in Runs /\ run # NoRun /\ run'.mode = run.mode
                          /\ run'.table = run.table /\ run'.status = run.status),
         disk' = disk \/ (disk' \in Runs /\ run # NoRun /\ disk'.mode = run.mode
                          /\ disk'.table = run.table)
  PROVE  IInv'
<1> USE DEF IInv
<1>0. Active' = Active /\ Activated' = Activated
  BY ActiveSame DEF Activated
<1>1. TypeOK'
  BY OrderKept DEF TypeOK
<1>2. NamesGiven'
  BY <1>0 DEF NamesGiven
<1>3. Staged(disk)' /\ Staged(run)'
  BY <1>0, RunAssumption DEF Staged, RunKnown
<1> QED
  BY <1>1, <1>2, <1>3, WritingKeeps

LEMMA WriteStepsKeep ==
  ASSUME IInv, [Next]_vars,
         DropAbandoned \/ PersistRun \/ WriteRows \/ Validate \/ Evaluate \/ FailRun
  PROVE  IInv'
<1> USE DEF IInv
<1>1. CASE DropAbandoned
  <2>1. /\ wpc = "drop" /\ wpc' = "persist"
        /\ UNCHANGED <<canonical, previous, disk, run, next, gc, stage, tab, file, late>>
        /\ age' \in [Tables -> {"young", "aged", "expired"}]
    BY <1>1 DEF DropAbandoned, WriterGo, Discard, manifestVars, readerVars, TypeOK
  <2>2. RunKnown'
    BY <2>1 DEF RunKnown
  <2> QED
    BY <2>1, <2>2, WriterKeeps DEF Collecting, TypeOK
<1>2. CASE PersistRun
  <2>1. /\ wpc = "persist" /\ wpc' = "write" /\ disk' = run
        /\ UNCHANGED <<age, canonical, previous, run, next, gc, stage, tab, file, late>>
    BY <1>2 DEF PersistRun, WriterGo, tableVars, manifestVars, readerVars
  <2>2. run # NoRun /\ run \in Runs
    BY <2>1 DEF RunKnown, TypeOK
  <2>3. RunKnown'
    BY <2>1 DEF RunKnown
  <2> QED
    BY <2>1, <2>2, <2>3, WriterKeeps DEF Collecting, TypeOK
<1>3. CASE WriteRows
  <2>1. /\ wpc = "write" /\ wpc' = "persist" /\ run' = [run EXCEPT !.rows = TRUE]
        /\ UNCHANGED <<canonical, previous, disk, next, gc, stage, tab, file, late>>
        /\ age' = [age EXCEPT ![run.table] = "young"]
    BY <1>3 DEF WriteRows, WriterGo, manifestVars, readerVars
  <2>2. run # NoRun /\ run \in Runs /\ run.status = "running"
    BY <2>1 DEF RunKnown, TypeOK
  <2>3. /\ run' \in Runs /\ run'.mode = run.mode /\ run'.table = run.table
        /\ run'.status = run.status /\ run' # NoRun
    BY <2>1, <2>2, RunAssumption DEF Runs
  <2>4. RunKnown'
    BY <2>1, <2>2, <2>3 DEF RunKnown
  <2>5. age' \in [Tables -> {"young", "aged", "expired"}]
    BY <2>1 DEF TypeOK
  <2> QED
    BY <2>1, <2>2, <2>3, <2>4, <2>5, WriterKeeps DEF Collecting
<1>4. CASE Validate
  <2>1. /\ wpc = "write" /\ wpc' = "previous"
        /\ UNCHANGED <<age, canonical, previous, disk, run, next, gc, stage, tab, file, late>>
    BY <1>4 DEF Validate, WriterGo, tableVars, manifestVars, readerVars
  <2>2. RunKnown'
    BY <2>1 DEF RunKnown
  <2> QED
    BY <2>1, <2>2, WriterKeeps DEF Collecting, TypeOK
<1>5. CASE Evaluate
  <2>1. /\ wpc = "idle" /\ wpc' = "previous" /\ (canonical # NoTable \/ previous # NoTable)
        /\ UNCHANGED <<age, canonical, previous, disk, run, next, gc, stage, tab, file, late>>
    BY <1>5 DEF Evaluate, WriterGo, tableVars, manifestVars, readerVars
  <2>2. RunKnown'
    BY <2>1 DEF RunKnown
  <2> QED
    BY <2>1, <2>2, WriterKeeps DEF Collecting, TypeOK, RunKnown
<1>6. CASE FailRun
  <2>1. /\ wpc \in {"drop", "persist", "write", "previous", "canonical", "finish"}
        /\ wpc' = "idle" /\ run' = NoRun
        /\ disk' = disk \/ (run # NoRun /\ disk' = [run EXCEPT !.status = "failed"])
        /\ UNCHANGED <<age, canonical, previous, next, gc, stage, tab, file, late>>
    BY <1>6 DEF FailRun, tableVars, manifestVars, readerVars
  <2>2. RunKnown'
    BY <2>1 DEF RunKnown
  <2>3. disk' = disk \/ (disk' \in Runs /\ run # NoRun /\ disk'.mode = run.mode
                          /\ disk'.table = run.table)
    BY <2>1 DEF TypeOK, Runs
  <2> QED
    BY <2>1, <2>2, <2>3, WriterKeeps DEF Collecting, TypeOK
<1> QED
  BY <1>1, <1>2, <1>3, <1>4, <1>5, <1>6

\* A collection starts with the roles of a state and the leases counted so far.
LEMMA CollectionStarts ==
  ASSUME TypeOK, NEW state \in Runs \cup {NoRun}, NEW active \in Tables,
         StartCollection(state, active)
  PROVE  /\ gc' \in [active : Tables \cup {NoTable}, kept : SUBSET (Tables \cup {NoTable}),
                     names : SUBSET (Tables \cup {NoTable}), todo : SUBSET Readers,
                     doomed : SUBSET Tables, settled : SUBSET Tables, safe : BOOLEAN,
                     early : SUBSET Readers, overdue : SUBSET Readers]
         /\ gc'.active = active /\ active \in gc'.kept
         /\ Unfinished(state) => state.table \in gc'.kept
         /\ RollbackGeneration(state, active) \subseteq gc'.kept
         /\ gc'.doomed = {} /\ gc'.early = {}
<1> DEFINE K == {active} \cup ResumableGeneration(state, active)
                         \cup RollbackGeneration(state, active)
<1>1. K \in SUBSET (Tables \cup {NoTable})
  <2>1. state # NoRun => state.table \in Tables /\ state.before \in Tables \cup {NoTable}
    BY DEF Runs
  <2> QED
    BY <2>1 DEF ResumableGeneration, RollbackGeneration
<1>2. /\ active \in K /\ (Unfinished(state) => state.table \in K)
      /\ RollbackGeneration(state, active) \subseteq K
  BY DEF Unfinished, ResumableGeneration
<1>3. gc' = [active |-> active, kept |-> K, names |-> CountedLeases, todo |-> LeaseFiles,
             doomed |-> {}, settled |-> {}, safe |-> FALSE, early |-> {}, overdue |-> late]
  BY DEF StartCollection, NoCollection
<1> HIDE DEF K
<1> QED
  BY <1>1, <1>2, <1>3, CountedTables DEF TypeOK

\* The manifests are written for a table whose name was given out.
LEMMA TargetTable ==
  ASSUME IInv, wpc \in {"previous", "canonical"}
  PROVE  /\ Target \in Tables /\ Target < next
         /\ run = NoRun => Target = Active
         /\ run # NoRun => Target = run.table /\ run = disk
  BY ActiveTable DEF IInv, TypeOK, RunKnown, NamesGiven, Target, Runs

LEMMA WritePreviousKeeps ==
  ASSUME IInv, [Next]_vars, WritePrevious
  PROVE  IInv' /\ (Active' = Active \/ (Active' = Target /\ canonical = NoTable /\ previous = NoTable))
<1> USE DEF IInv
<1>0. /\ wpc = "previous" /\ wpc' = "canonical"
      /\ UNCHANGED <<order, age, canonical, disk, run, next, gc, stage, tab, file, late>>
      /\ previous' = IF canonical = NoTable /\ previous = NoTable THEN Target ELSE Active
  BY DEF WritePrevious, WriterGo, tableVars, readerVars
<1>1. /\ Target \in Tables /\ Target < next
      /\ run = NoRun => Target = Active
      /\ run # NoRun => Target = run.table /\ run = disk
  BY <1>0, TargetTable
<1>2. Active' = Active \/ (Active' = Target /\ canonical = NoTable /\ previous = NoTable)
  BY <1>0, <1>1, ActiveTable DEF Active
<1>3. Active' = Target \/ previous' = Active
  BY <1>0, <1>1, <1>2, ActiveTable DEF Active
<1>4. Activated' \subseteq Activated \cup {previous'} /\ previous' \in {Target, Active}
  BY <1>0 DEF Activated
<1>5. TypeOK'
  BY <1>0, <1>1, ActiveTable DEF TypeOK
<1>6. RunKnown'
  BY <1>0, <1>1, ActiveTable DEF RunKnown
<1>7. NamesGiven'
  BY <1>0, <1>1, <1>4, ActiveTable DEF NamesGiven
<1>8. Staged(disk)' /\ Staged(run)'
  <2>1. CASE Active' = Active /\ previous' = Active
    BY <1>0, <1>4, <2>1 DEF Staged
  <2>2. CASE Active' = Target
    <3>1. CASE run = NoRun
      BY <1>0, <1>1, <1>4, <2>2, <3>1 DEF Staged
    <3>2. CASE run # NoRun
      BY <1>0, <1>1, <2>2, <3>2 DEF Staged
    <3> QED
      BY <3>1, <3>2
  <2> QED
    BY <1>2, <1>3, <2>1, <2>2
<1> QED
  BY <1>0, <1>2, <1>5, <1>6, <1>7, <1>8, WritingKeeps DEF Collecting

LEMMA WriteCanonicalKeeps ==
  ASSUME IInv, [Next]_vars, WriteCanonical
  PROVE  IInv' /\ Active' = Target
<1> USE DEF IInv
<1>0. /\ wpc = "canonical" /\ wpc' = (IF run = NoRun THEN "idle" ELSE "leases")
      /\ UNCHANGED <<order, age, previous, disk, run, next, stage, tab, file, late>>
      /\ canonical' = Target
      /\ IF run = NoRun THEN gc' = gc ELSE StartCollection(run, Target)
  BY DEF WriteCanonical, WriterGo, tableVars, readerVars
<1>1. /\ Target \in Tables /\ Target < next
      /\ run = NoRun => Target = Active
      /\ run # NoRun => Target = run.table /\ run = disk
  BY <1>0, TargetTable
<1>2. Active' = Target
  BY <1>0, <1>1, ActiveTable DEF Active
<1>3. Activated' \subseteq Activated \cup {Target}
  BY <1>0 DEF Activated
<1>4. run \in Runs \cup {NoRun} /\ TypeOK
  BY DEF TypeOK
<1>5. TypeOK'
  <2>1. CASE run = NoRun
    BY <1>0, <1>1, <2>1 DEF TypeOK
  <2>2. CASE run # NoRun
    BY <1>0, <1>1, <1>4, <2>2, CollectionStarts DEF TypeOK
  <2> QED
    BY <2>1, <2>2
<1>6. RunKnown'
  BY <1>0, <1>1, <1>2 DEF RunKnown
<1>7. NamesGiven'
  BY <1>0, <1>1, <1>3 DEF NamesGiven
<1>8. Staged(disk)' /\ Staged(run)'
  BY <1>0, <1>1, <1>2, <1>3 DEF Staged
<1>9. Protected'
  <2>1. CASE run = NoRun
    BY <1>0, <2>1 DEF Protected, Collecting, NoCollection
  <2>2. CASE run # NoRun
    <3>1. /\ gc'.active = Target /\ Target \in gc'.kept
          /\ Unfinished(run) => run.table \in gc'.kept
          /\ gc'.doomed = {} /\ gc'.early = {}
      BY <1>0, <1>1, <1>4, <2>2, CollectionStarts
    <3> QED
      BY <1>0, <1>1, <1>2, <2>2, <3>1 DEF Protected, Collecting, Unfinished
  <2> QED
    BY <2>1, <2>2
<1> QED
  BY <1>2, <1>5, <1>6, <1>7, <1>8, <1>9, OrderKept

LEMMA CollectKeeps ==
  ASSUME IInv, [Next]_vars, Collect
  PROVE  IInv'
<1> USE DEF IInv
<1>0. /\ wpc = "idle" /\ wpc' = "leases" /\ run = NoRun
      /\ UNCHANGED <<order, age, canonical, previous, disk, run, next, stage, tab, file, late>>
      /\ StartCollection(disk, Active)
  BY DEF Collect, WriterGo, tableVars, manifestVars, readerVars, RunKnown
<1>1. Active' = Active /\ Activated' = Activated
  BY <1>0, ActiveSame DEF Activated
<1>2. TypeOK'
  <2>1. disk \in Runs \cup {NoRun} /\ TypeOK
    BY DEF TypeOK
  <2> QED
    BY <1>0, <2>1, CollectionStarts, ActiveTable DEF TypeOK
<1>3. RunKnown'
  BY <1>0 DEF RunKnown
<1>4. NamesGiven'
  BY <1>0, <1>1 DEF NamesGiven
<1>5. Staged(disk)' /\ Staged(run)'
  BY <1>0, <1>1 DEF Staged
<1>6. Protected'
  <2>1. /\ gc'.active = Active /\ Active \in gc'.kept
        /\ Unfinished(disk) => disk.table \in gc'.kept
        /\ gc'.doomed = {} /\ gc'.early = {}
    <3>1. disk \in Runs \cup {NoRun} /\ TypeOK
      BY DEF TypeOK
    <3> QED
      BY <1>0, <3>1, CollectionStarts, ActiveTable
  <2> QED
    BY <1>0, <1>1, <2>1 DEF Protected, Collecting, Unfinished
<1> QED
  BY <1>2, <1>3, <1>4, <1>5, <1>6, OrderKept

LEMMA EndsKeep ==
  ASSUME IInv, [Next]_vars, FinishRun \/ EndCollection \/ CrashWriter
  PROVE  IInv'
<1> USE DEF IInv
<1>0. /\ UNCHANGED <<order, age, canonical, previous, next, stage, tab, file, late>>
      /\ Active' = Active /\ Activated' = Activated
  BY ActiveSame
     DEF FinishRun, EndCollection, CrashWriter, tableVars, manifestVars, readerVars, Activated
<1>1. /\ wpc' \in {"idle", "finish"} /\ gc' = NoCollection
      /\ run' = NoRun \/ (run' = run /\ run # NoRun)
      /\ disk' = disk \/ (run # NoRun /\ disk' = [run EXCEPT !.status = "completed"])
  BY DEF FinishRun, EndCollection, CrashWriter, WriterGo, Protected, Collecting, RunKnown
<1>2. RunKnown'
  <2>1. CASE FinishRun
    BY <1>0, <2>1 DEF FinishRun, WriterGo, RunKnown
  <2>2. CASE EndCollection
    <3>1. /\ Collecting /\ wpc' = (IF run = NoRun THEN "idle" ELSE "finish")
          /\ UNCHANGED <<disk, run>>
      BY <2>2 DEF EndCollection, Collected, Collecting
    <3> QED
      BY <1>0, <3>1 DEF RunKnown, Collecting
  <2>3. CASE CrashWriter
    BY <1>0, <2>3 DEF CrashWriter, RunKnown
  <2> QED
    BY <2>1, <2>2, <2>3
<1>3. run # NoRun => run \in Runs /\ [run EXCEPT !.status = "completed"] \in Runs
                     /\ [run EXCEPT !.status = "completed"].table = run.table
                     /\ [run EXCEPT !.status = "completed"].status = "completed"
  BY DEF TypeOK, Runs
<1>4. NoCollection \in [active : Tables \cup {NoTable}, kept : SUBSET (Tables \cup {NoTable}),
                        names : SUBSET (Tables \cup {NoTable}), todo : SUBSET Readers,
                        doomed : SUBSET Tables, settled : SUBSET Tables, safe : BOOLEAN,
                        early : SUBSET Readers, overdue : SUBSET Readers]
  BY DEF NoCollection
<1>5. TypeOK'
  BY <1>0, <1>1, <1>3, <1>4 DEF TypeOK
<1>6. NamesGiven'
  BY <1>0, <1>1, <1>3 DEF NamesGiven
<1>7. Staged(disk)' /\ Staged(run)'
  BY <1>0, <1>1, <1>3 DEF Staged
<1>8. Protected'
  BY <1>0, <1>1 DEF Protected, Collecting, NoCollection
<1> QED
  BY <1>2, <1>5, <1>6, <1>7, <1>8, OrderKept

LEMMA NextKeeps ==
  ASSUME IInv, [Next]_vars
  PROVE  IInv'
<1>1. CASE UNCHANGED vars
  BY <1>1
     DEF vars, IInv, TypeOK, NoTwice, RunKnown, NamesGiven, Staged, Protected, Activated, Active,
         Abandoned, Collecting, Unfinished
<1>2. CASE Next
  BY <1>2, ReadKeeps, GrowOldKeeps, CollectionKeeps, BeginKeeps, WriteStepsKeep,
     WritePreviousKeeps, WriteCanonicalKeeps, CollectKeeps, EndsKeep
     DEF Next, Ingest, Collection, CollectionSteps
<1> QED
  BY <1>1, <1>2

LEMMA InitIInv == Init => IInv
<1> SUFFICES ASSUME Init PROVE IInv
  OBVIOUS
<1>1. TypeOK
  <2>1. 1 \in 1 .. MaxTable + 1
    BY RetentionAssumption
  <2> QED
    BY <2>1 DEF Init, TypeOK, NoCollection
<1>2. NoTwice
  BY DEF Init, NoTwice
<1>3. RunKnown /\ Staged(disk) /\ Staged(run)
  BY DEF Init, RunKnown, Staged
<1>4. NamesGiven
  BY DEF Init, NamesGiven, Activated
<1>5. Protected
  BY DEF Init, Protected, Collecting, NoCollection
<1> QED
  BY <1>1, <1>2, <1>3, <1>4, <1>5 DEF IInv

LEMMA Invariant == Spec => []IInv
  BY InitIInv, NextKeeps, PTL DEF Spec

-----------------------------------------------------------------------------
(* What a collection never drops.                                           *)

\* The active table and the staged table of a run that can be resumed survive
\* every collection, after whatever failures (generation-retention.ts,
\* classifyGenerations).
THEOREM RolesSurvive == Spec => RolesKept
<1> DEFINE Roles == wpc = "reclaim" =>
              /\ ~Gone(Active)
              /\ \A state \in {disk, run} \ {NoRun} :
                    state.status # "completed" /\ state.mode = "rebuild" => ~Gone(state.table)
<1>1. ASSUME IInv, [Next]_vars PROVE Roles
  <2>1. ASSUME wpc = "reclaim", NEW t, Gone(t) PROVE t \notin gc.kept
    <3>1. t \in gc.doomed
      BY <1>1, <2>1, GoneOnlyIfDropped DEF DropAbandoned, WriterGo
    <3> QED
      BY <1>1, <3>1 DEF IInv, Protected
  <2>2. wpc = "reclaim" => Active \in gc.kept /\ \A state \in {disk, run} : Unfinished(state) => state.table \in gc.kept
    BY <1>1 DEF IInv, Protected, Collecting
  <2> QED
    BY <2>1, <2>2 DEF Unfinished
<1>2. IInv /\ [Next]_vars => [Roles]_vars
  BY <1>1
<1> QED
  BY <1>2, Invariant, PTL DEF Spec, RolesKept

-----------------------------------------------------------------------------
(* The tables of readers.                                                   *)

\* A lease past its term stays so until it is given back or its owner dies, and
\* no lease gets past its term for the collection in progress.
LEMMA TermKept ==
  ASSUME IInv, [Next]_vars, NEW r \in Readers
  PROVE  /\ Expired(r) /\ ~Expired(r)' => stage'[r] \in {"idle", "dead"}
         /\ Collecting /\ Collecting' /\ ~Expired(r) => ~Expired(r)'
<1> USE DEF IInv, TypeOK, Expired
<1>1. ASSUME NEW q \in Readers, Read(q)
      PROVE  /\ UNCHANGED <<wpc, gc>>
             /\ r \in late /\ r \notin late' => stage'[r] \in {"idle", "dead"}
             /\ r \notin late /\ r \in late' => r \notin gc.overdue
  BY <1>1 DEF Read, Open, Lease, WriteLease, Confirm, ReleaseLease, CrashReader, ExpireLease,
              ReaderGo, GiveBack, writerVars
<1>2. ASSUME UNCHANGED late, Collecting', Collecting => gc'.overdue = gc.overdue,
             ~Collecting => gc'.overdue = late
      PROVE  Expired(r)' = Expired(r)
  BY <1>2
<1>3. ASSUME UNCHANGED late, ~Collecting'
      PROVE  Expired(r) => Expired(r)'
  BY <1>3
<1>4. CASE Collect \/ WriteCanonical
  <2>1. UNCHANGED late /\ ~Collecting
    BY <1>4 DEF Collect, WriteCanonical, WriterGo, readerVars, Collecting
  <2>2. Collecting' => gc'.overdue = late
    BY <1>4 DEF Collect, WriteCanonical, WriterGo, StartCollection, NoCollection, Collecting
  <2> QED
    BY <1>2, <1>3, <2>1, <2>2
<1>5. CASE CollectionSteps \/ GrowOld \/ UNCHANGED vars
  <2>1. UNCHANGED late /\ gc'.overdue = gc.overdue /\ Collecting' = Collecting
    <3>1. ASSUME NEW q \in Readers, ReadLease(q)
          PROVE  UNCHANGED <<late, wpc>> /\ gc'.overdue = gc.overdue
      BY <3>1 DEF ReadLease
    <3>2. ASSUME NEW t \in Tables, DropTable(t)
          PROVE  UNCHANGED <<late, wpc>> /\ gc'.overdue = gc.overdue
      BY <3>2 DEF DropTable, readerVars
    <3>3. CASE LeasesRead \/ LeasesReread \/ GrowOld \/ UNCHANGED vars
      BY <3>3 DEF LeasesRead, LeasesReread, GrowOld, vars, writerVars, readerVars, Collecting
    <3>4. CASE Inspect
      BY <3>4 DEF Inspect, WriterGo, readerVars, Collecting
    <3> QED
      BY <1>5, <3>1, <3>2, <3>3, <3>4 DEF CollectionSteps, Collecting
  <2> QED
    BY <2>1
<1>6. CASE \/ DropAbandoned \/ PersistRun \/ WriteRows \/ Validate \/ Evaluate \/ FailRun
           \/ WritePrevious \/ FinishRun \/ EndCollection \/ CrashWriter
           \/ \E rebuild, same, compatible \in BOOLEAN : BeginIngest(rebuild, same, compatible)
  <2>1. UNCHANGED late /\ ~Collecting'
    BY <1>6
       DEF DropAbandoned, PersistRun, WriteRows, Validate, Evaluate, FailRun, WritePrevious,
           FinishRun, EndCollection, CrashWriter, BeginIngest, WriterGo, Collecting, readerVars
  <2> QED
    BY <1>3, <2>1
<1>7. CASE \E q \in Readers : Read(q)
  BY <1>1, <1>7 DEF Collecting
<1> QED
  BY <1>4, <1>5, <1>6, <1>7 DEF Next, Ingest, Collection, CollectionSteps

LEMMA LeaseFilesKept ==
  ASSUME IInv, LeaseFilesTrue, [Next]_vars
  PROVE  LeaseFilesTrue'
<1> SUFFICES ASSUME NEW r \in Readers \ Local, Leasable(r), ~Expired(r)'
             PROVE  /\ stage'[r] = "leasing" => file'[r] = "torn"
                    /\ stage'[r] \in {"confirm", "reading"} => file'[r] = "valid"
  BY DEF LeaseFilesTrue, Leasable
<1>0. /\ ~Expired(r) /\ stage[r] = "leasing" => file[r] = "torn"
      /\ ~Expired(r) /\ stage[r] \in {"confirm", "reading"} => file[r] = "valid"
      /\ "torn" \notin Events /\ "readOnly" \notin Events
  BY DEF LeaseFilesTrue, Leasable
<1>e. Expired(r) => stage'[r] \in {"idle", "dead"}
  BY TermKept
<1> SUFFICES ASSUME ~Expired(r)
             PROVE  /\ stage'[r] = "leasing" => file'[r] = "torn"
                    /\ stage'[r] \in {"confirm", "reading"} => file'[r] = "valid"
  BY <1>e
<1>1. ASSUME NEW q \in Readers, Read(q)
      PROVE  /\ stage'[r] = "leasing" => file'[r] = "torn"
             /\ stage'[r] \in {"confirm", "reading"} => file'[r] = "valid"
  BY <1>0, <1>1
     DEF Read, Open, Lease, WriteLease, Confirm, ReleaseLease, CrashReader, ExpireLease,
         ReaderGo, GiveBack,
         IInv, TypeOK
<1>2. ASSUME NEW q \in Readers, ReadLease(q)
      PROVE  /\ stage'[r] = "leasing" => file'[r] = "torn"
             /\ stage'[r] \in {"confirm", "reading"} => file'[r] = "valid"
  <2>1. ~Overdue(r)
    BY <1>2 DEF ReadLease, Overdue, Expired, Collecting
  <2> QED
    BY <1>0, <1>2, <2>1 DEF ReadLease, IInv, TypeOK
<1>3. CASE UNCHANGED <<stage, file>>
  BY <1>0, <1>3
<1> QED
  BY <1>1, <1>2, <1>3
     DEF Next, Ingest, Collection, BeginIngest, PersistRun, Validate, WritePrevious, WriteRows,
         WriteCanonical, FinishRun, FailRun, Evaluate, Collect, LeasesRead, Inspect, LeasesReread,
         EndCollection, CrashWriter, GrowOld, DropAbandoned, DropTable, vars, readerVars

\* The second half of LeaseInv, for one reader.
Known(r) ==
    /\ r \in Confirming /\ stage[r] = "reading" /\ (r \in Local \/ ~Expired(r)) => Covered(r)
    /\ r \in gc.early =>
          /\ r \in Local \/ ~Expired(r)
          /\ stage[r] = "reading" => Covered(r)
          /\ stage[r] \in {"opened", "leasing", "confirm"} => tab[r] = gc.active

LEMMA KnownKept ==
  ASSUME IInv, LeaseInv, [Next]_vars, wpc' \in {"recheck", "reclaim"},
         NEW r \in Readers, Leasable(r)
  PROVE  Known(r)'
<1> USE DEF IInv
<1>0. wpc \in {"recheck", "reclaim"} => Known(r)
  BY DEF LeaseInv, Known
<1>e. /\ Expired(r) /\ ~Expired(r)' => stage'[r] \in {"idle", "dead"}
      /\ Collecting /\ Collecting' /\ ~Expired(r) => ~Expired(r)'
  BY TermKept
<1>f. r \notin Local /\ ~Expired(r) /\ stage[r] \in {"leasing", "confirm", "reading"} =>
         file[r] # "none" /\ (stage[r] = "reading" => file[r] = "valid")
  BY DEF LeaseInv, LeaseFilesTrue
<1>1. CASE Inspect
  <2>1. /\ gc'.names = CountedLeases /\ gc'.todo = LeaseFiles
        /\ gc'.early = {q \in Readers : stage[q] = "reading" /\ (q \in Local \/ ~Overdue(q))}
        /\ UNCHANGED <<stage, tab, file>> /\ Collecting /\ Collecting'
    BY <1>1 DEF Inspect, WriterGo, readerVars, Collecting
  <2>2. stage[r] = "reading" /\ (r \in Local \/ ~Expired(r)) =>
           tab[r] \in gc'.names \/ r \in gc'.todo \ Local
    BY <1>f, <2>1 DEF CountedLeases, LeaseFiles
  <2>3. Expired(r)' => Expired(r) /\ Overdue(r)
    BY <1>e, <2>1 DEF Expired, Overdue
  <2>4. Expired(r) => Expired(r)' \/ stage[r] # "reading"
    BY <1>e, <2>1
  <2>5. Overdue(r) <=> Expired(r)
    BY <2>1 DEF Expired, Overdue
  <2> QED
    BY <2>1, <2>2, <2>3, <2>4, <2>5 DEF Known, Covered
<1>2. ASSUME NEW q \in Readers, ReadLease(q) PROVE Known(r)'
  <2>1. /\ wpc' = wpc /\ UNCHANGED <<stage, tab>>
        /\ \/ /\ file[q] = "valid" /\ stage[q] # "dead" /\ ~Overdue(q)
              /\ gc' = [gc EXCEPT !.todo = @ \ {q}, !.names = @ \cup {tab[q]}]
           \/ /\ ~(file[q] = "valid" /\ stage[q] # "dead" /\ ~Overdue(q))
              /\ gc' = [gc EXCEPT !.todo = @ \ {q}]
    BY <1>2 DEF ReadLease
  <2>2. /\ gc'.active = gc.active /\ gc'.early = gc.early /\ gc'.todo = gc.todo \ {q}
        /\ gc.names \subseteq gc'.names
        /\ file[q] = "valid" /\ stage[q] # "dead" /\ ~Overdue(q) => tab[q] \in gc'.names
    BY <2>1 DEF TypeOK
  <2>3. Known(r) /\ Collecting /\ Collecting'
    BY <1>0, <2>1 DEF Collecting
  <2>4. Covered(r) /\ stage[r] = "reading" /\ (r \in Local \/ ~Expired(r)) => Covered(r)'
    BY <1>f, <2>1, <2>2, <2>3 DEF Covered, Overdue, Expired
  <2>5. stage[r] = "reading" /\ ~Expired(r)' => ~Expired(r)
    BY <1>e, <2>1
  <2> QED
    BY <1>e, <2>1, <2>2, <2>3, <2>4, <2>5 DEF Known
<1>3. ASSUME wpc \in {"recheck", "reclaim"}, gc'.active = gc.active, gc'.names = gc.names,
             gc'.todo = gc.todo, gc'.early = gc.early, UNCHANGED <<stage, tab>>
      PROVE  Known(r)'
  <2>1. Collecting /\ Collecting' /\ Known(r)
    BY <1>0, <1>3 DEF Collecting
  <2>2. (stage[r] = "reading" /\ ~Expired(r)' => ~Expired(r)) /\ (~Expired(r) => ~Expired(r)')
    BY <1>e, <1>3, <2>1
  <2> QED
    BY <1>3, <2>1, <2>2 DEF Known, Covered
<1>4. CASE LeasesReread \/ GrowOld \/ UNCHANGED vars
  <2>1. wpc \in {"recheck", "reclaim"} /\ UNCHANGED <<gc, stage, tab>>
    BY <1>4 DEF LeasesReread, GrowOld, vars, readerVars, writerVars
  <2> QED
    BY <1>3, <2>1
<1>5. ASSUME NEW t \in Tables, DropTable(t) PROVE Known(r)'
  BY <1>3, <1>5 DEF DropTable, readerVars, TypeOK
<1>6. ASSUME NEW q \in Readers, Read(q) PROVE Known(r)'
  <2>1. wpc' = wpc /\ gc' = gc /\ Known(r) /\ gc.active = Active
    BY <1>0, <1>6
       DEF Read, Open, Lease, WriteLease, Confirm, ReleaseLease, CrashReader, ExpireLease, writerVars,
           Protected, Collecting
  <2>c. Collecting /\ Collecting'
    BY <1>6, <2>1 DEF Collecting
  <2>e. (stage'[r] \notin {"idle", "dead"} /\ ~Expired(r)' => ~Expired(r)) /\ (~Expired(r) => ~Expired(r)')
    BY <1>e, <2>c
  <2>2. CASE stage'[r] = stage[r] /\ tab'[r] = tab[r]
    BY <2>1, <2>2, <2>e DEF Known, Covered
  <2>3. CASE q = r
    BY <1>6, <2>1, <2>2, <2>3, <2>e
       DEF Read, Open, Lease, WriteLease, Confirm, ReleaseLease, CrashReader, ExpireLease,
         ReaderGo, GiveBack,
           Known, Covered, TypeOK
  <2>4. CASE q # r
    BY <1>6, <2>2, <2>4
       DEF Read, Open, Lease, WriteLease, Confirm, ReleaseLease, CrashReader, ExpireLease,
         ReaderGo, GiveBack,
           TypeOK
  <2> QED
    BY <2>3, <2>4
<1> QED
  BY <1>1, <1>2, <1>4, <1>5, <1>6
     DEF Next, Ingest, Collection, WriterGo, BeginIngest, PersistRun, Validate, WritePrevious,
         WriteRows, WriteCanonical, FinishRun, FailRun, Evaluate, Collect, LeasesRead,
         EndCollection, CrashWriter, DropAbandoned

LEMMA LeaseInvariant == Spec => []LeaseInv
<1>1. Init => LeaseInv
  BY DEF Init, LeaseInv, LeaseFilesTrue
<1>2. ASSUME IInv, LeaseInv, [Next]_vars PROVE LeaseInv'
  <2>1. LeaseFilesTrue'
    BY <1>2, LeaseFilesKept DEF LeaseInv
  <2>2. ASSUME wpc' \in {"recheck", "reclaim"}, NEW r \in Readers, Leasable(r) PROVE Known(r)'
    BY <1>2, <2>2, KnownKept
  <2> QED
    BY <2>1, <2>2 DEF LeaseInv, Known, Leasable
<1> QED
  BY <1>1, <1>2, Invariant, PTL DEF Spec

\* What a collection drops has no lease that reaches it.
LEMMA LeasedNotDropped ==
  ASSUME IInv, LeaseInv, [Next]_vars, NEW r \in Readers, Leasable(r), stage[r] = "reading",
         (r \in Confirming /\ (r \in Local \/ r \notin late)) \/ r \in gc.early,
         wpc = "reclaim"
  PROVE  ~Gone(tab[r])
<1>1. Covered(r) /\ gc.todo = {} /\ gc.active \in gc.kept /\ gc.doomed \cap gc.kept = {}
  BY DEF LeaseInv, IInv, Protected, Collecting, Expired
<1>2. SUFFICES ASSUME Gone(tab[r]) PROVE FALSE
  OBVIOUS
<1>3. tab[r] \in gc.doomed \ gc.names
  BY <1>2, GoneOnlyIfDropped DEF DropAbandoned, WriterGo
<1> QED
  BY <1>1, <1>3 DEF Covered

\* A reader that held its lease when a collection looked at the leases for the
\* second time keeps its table in that collection, if its lease can reach it and
\* was not past its term of 24 hours when the collection began, or if the reader is
\* in the collecting process (generation-retention.ts, activeLeaseTableNames).
THEOREM LeasesRespected ==
  ASSUME \A r \in Readers : Leasable(r)
  PROVE  Spec => LeasedTablesKept
<1>1. ASSUME IInv, LeaseInv, [Next]_vars PROVE LeaseRespected
  <2> SUFFICES ASSUME NEW r \in gc.early, stage[r] = "reading", Gone(tab[r]) PROVE FALSE
    BY DEF LeaseRespected
  <2>1. r \in Readers /\ gc # NoCollection
    BY <1>1 DEF IInv, TypeOK, NoCollection
  <2>2. wpc = "reclaim"
    BY <1>1, <2>1, GoneOnlyIfDropped DEF DropAbandoned, WriterGo, IInv, Protected, Collecting
  <2> QED
    BY <1>1, <2>1, <2>2, LeasedNotDropped
<1>2. IInv /\ LeaseInv /\ [Next]_vars => [LeaseRespected]_vars
  BY <1>1
<1> QED
  BY <1>2, Invariant, LeaseInvariant, PTL DEF Spec, LeasedTablesKept

\* A reader that confirmed the active table after leasing it keeps it, whatever is
\* activated and collected meanwhile, up to the term of its lease; in the collecting
\* process, as long as it reads (generation-retention.ts,
\* withActiveGenerationReadLease, activeLease).
THEOREM ConfirmedReaderKeeps ==
  ASSUME \A r \in Readers : Leasable(r)
  PROVE  Spec => ConfirmedReaderKeepsTable
<1>1. ASSUME IInv, LeaseInv, [Next]_vars PROVE ConfirmedReaderServed
  <2> SUFFICES ASSUME NEW r \in Confirming, stage[r] = "reading", r \in Local \/ r \notin late,
                        Gone(tab[r])
                 PROVE  FALSE
    BY DEF ConfirmedReaderServed
  <2>1. r \in Readers
    BY RetentionAssumption
  <2>2. CASE wpc = "reclaim"
    BY <1>1, <2>1, <2>2, LeasedNotDropped
  <2>3. CASE wpc # "reclaim"
    <3>1. wpc = "drop" /\ tab[r] = disk.table
      BY <1>1, <2>3, GoneOnlyIfDropped DEF DropAbandoned, WriterGo
    <3>2. Abandoned(disk) /\ Staged(disk)
      BY <1>1, <3>1 DEF IInv, RunKnown
    <3>3. disk.table \notin Activated
      BY <3>2 DEF Abandoned, Staged
    <3> QED
      BY <2>1, <3>1, <3>3 DEF Activated
  <2> QED
    BY <2>2, <2>3
<1>2. IInv /\ LeaseInv /\ [Next]_vars => [ConfirmedReaderServed]_vars
  BY <1>1
<1> QED
  BY <1>2, Invariant, LeaseInvariant, PTL DEF Spec, ConfirmedReaderKeepsTable

-----------------------------------------------------------------------------
(* The fallback.                                                            *)

LEMMA FallbackWriting ==
  ASSUME {"fail", "crash"} \cap Events = {}, IInv, FallbackInv, [Next]_vars,
         \/ \E rebuild, same, compatible \in BOOLEAN : BeginIngest(rebuild, same, compatible)
         \/ DropAbandoned \/ PersistRun \/ WriteRows \/ Validate \/ Evaluate
         \/ WritePrevious \/ WriteCanonical \/ FinishRun
  PROVE  FallbackInv'
<1> USE DEF IInv, FallbackInv
<1>1. ASSUME NEW rebuild \in BOOLEAN, NEW same \in BOOLEAN, NEW compatible \in BOOLEAN,
             BeginIngest(rebuild, same, compatible)
      PROVE  FallbackInv'
  <2> DEFINE n == NewRun(rebuild, compatible)
  <2>1. wpc = "idle" /\ run = NoRun /\ (disk = NoRun \/ disk.status = "completed")
    BY <1>1 DEF BeginIngest, WriterGo, RunKnown
  <2>2. ~CanResume(same, rebuild) /\ ~Abandoned(disk)
    BY <2>1 DEF CanResume, Abandoned
  <2>3. /\ run' = n /\ wpc' = "persist" /\ (n.mode = "rebuild" => next <= MaxTable)
        /\ UNCHANGED <<canonical, previous>>
    BY <1>1, <2>2 DEF BeginIngest, WriterGo, manifestVars
  <2>4. n # NoRun
    BY <2>3, NewRunType, RunAssumption
  <2>5. IF n.mode = "rebuild" THEN n.before = Active ELSE n.table = Active
    BY DEF NewRun
  <2>6. Active' = Active
    BY <2>3, ActiveSame
  <2> QED
    BY <2>3, <2>4, <2>5, <2>6 DEF Collecting
<1>2. CASE DropAbandoned
  BY <1>2 DEF DropAbandoned, WriterGo
<1>3. CASE PersistRun \/ Validate
  <2>1. /\ wpc \in {"persist", "write"} /\ wpc' \in {"write", "previous"}
        /\ UNCHANGED <<canonical, previous, run>> /\ run # NoRun
    BY <1>3 DEF PersistRun, Validate, WriterGo, manifestVars, RunKnown
  <2> QED
    BY <2>1, ActiveSame DEF Collecting
<1>4. CASE WriteRows
  <2>1. /\ wpc = "write" /\ wpc' = "persist" /\ run # NoRun
        /\ UNCHANGED <<canonical, previous>> /\ run' = [run EXCEPT !.rows = TRUE]
    BY <1>4 DEF WriteRows, WriterGo, manifestVars, RunKnown
  <2>2. /\ run' # NoRun /\ run'.mode = run.mode /\ run'.table = run.table
        /\ run'.before = run.before
    BY <2>1, RunAssumption DEF TypeOK, Runs
  <2> QED
    BY <2>1, <2>2, ActiveSame DEF Collecting
<1>5. CASE Evaluate
  <2>1. wpc = "idle" /\ wpc' = "previous" /\ UNCHANGED <<canonical, previous, disk, run>> /\ run = NoRun
    BY <1>5 DEF Evaluate, WriterGo, manifestVars, RunKnown
  <2> QED
    BY <2>1, ActiveSame DEF Collecting, Behind
<1>6. CASE WritePrevious
  <2>1. /\ wpc = "previous" /\ wpc' = "canonical" /\ UNCHANGED <<canonical, disk, run>>
        /\ previous' = IF canonical = NoTable /\ previous = NoTable THEN Target ELSE Active
        /\ Active' = Active \/ (Active' = Target /\ canonical = NoTable /\ previous = NoTable)
    BY <1>6, WritePreviousKeeps DEF WritePrevious, WriterGo
  <2>2. (run = NoRun => Target = Active) /\ (run # NoRun => Target = run.table)
    BY DEF Target
  <2>3. CASE run = NoRun
    BY <2>1, <2>2, <2>3 DEF Collecting, Behind
  <2>4. CASE run # NoRun
    BY <2>1, <2>2, <2>4 DEF Collecting
  <2> QED
    BY <2>3, <2>4
<1>7. CASE WriteCanonical
  <2>1. /\ wpc = "canonical" /\ UNCHANGED <<previous, disk, run>> /\ Active' = Target
        /\ wpc' = (IF run = NoRun THEN "idle" ELSE "leases")
        /\ run # NoRun => StartCollection(run, Target)
        /\ Target \in Tables
        /\ run = NoRun => Target = Active
        /\ run # NoRun => Target = run.table
    BY <1>7, WriteCanonicalKeeps, TargetTable DEF WriteCanonical, WriterGo
  <2>2. CASE run = NoRun
    BY <2>1, <2>2 DEF Collecting, Behind
  <2>3. CASE run # NoRun
    <3>1. Behind(run)'
      BY <2>1, <2>3 DEF Behind
    <3>2. Target \in gc'.kept /\ RollbackGeneration(run, Target) \subseteq gc'.kept
      BY <2>1, <2>3, CollectionStarts DEF TypeOK
    <3>3. previous \in gc'.kept \cup {NoTable}
      BY <2>1, <2>3, <3>2 DEF RollbackGeneration
    <3> QED
      BY <2>1, <2>3, <3>1, <3>3
  <2> QED
    BY <2>2, <2>3
<1>8. CASE FinishRun
  <2>1. /\ wpc = "finish" /\ wpc' = "idle" /\ run # NoRun /\ run' = NoRun
        /\ disk' = [run EXCEPT !.status = "completed"] /\ UNCHANGED <<canonical, previous>>
    BY <1>8 DEF FinishRun, WriterGo, manifestVars, RunKnown
  <2>2. /\ disk'.status = "completed" /\ disk' # NoRun /\ disk'.mode = run.mode
        /\ disk'.table = run.table /\ disk'.before = run.before
    BY <2>1, RunAssumption DEF TypeOK, Runs
  <2>3. Behind(disk)'
    BY <2>1, <2>2, ActiveSame, RunAssumption DEF Behind, TypeOK
  <2> QED
    BY <2>1, <2>2, <2>3 DEF Collecting
<1> QED
  BY <1>1, <1>2, <1>3, <1>4, <1>5, <1>6, <1>7, <1>8

LEMMA FallbackCollecting ==
  ASSUME {"fail", "crash"} \cap Events = {}, IInv, FallbackInv, [Next]_vars,
         Collection \/ UNCHANGED vars \/ GrowOld \/ \E r \in Readers : Read(r)
  PROVE  FallbackInv'
<1> USE DEF IInv, FallbackInv
<1>0. UNCHANGED <<canonical, previous, disk, run>> /\ Active' = Active
  BY ActiveSame
     DEF Collection, Collect, LeasesRead, Inspect, LeasesReread, EndCollection, ReadLease,
         DropTable, vars, GrowOld, Read, Open, Lease, WriteLease, Confirm, ReleaseLease,
         CrashReader, ExpireLease, writerVars, manifestVars
<1>b. \A state : Behind(state)' = Behind(state)
  BY <1>0 DEF Behind
<1>1. ASSUME Collecting => Collecting', wpc' = wpc \/ (Collecting /\ Collecting'),
             gc.kept \subseteq gc'.kept
      PROVE  FallbackInv'
  BY <1>0, <1>1, <1>b DEF Collecting
<1>2. CASE Collect
  <2>1. wpc = "idle" /\ wpc' = "leases" /\ run = NoRun /\ StartCollection(disk, Active)
    BY <1>2 DEF Collect, WriterGo, RunKnown
  <2>2. Active \in gc'.kept /\ RollbackGeneration(disk, Active) \subseteq gc'.kept
    BY <2>1, CollectionStarts, ActiveTable DEF TypeOK
  <2>3. previous \in gc'.kept \cup {NoTable}
    BY <2>1, <2>2 DEF RollbackGeneration, Behind
  <2> QED
    BY <1>0, <1>b, <2>1, <2>3
<1>3. CASE EndCollection
  <2>1. Collecting /\ wpc' = IF run = NoRun THEN "idle" ELSE "finish"
    BY <1>3 DEF EndCollection, Collected, Collecting
  <2> QED
    BY <1>0, <1>b, <2>1 DEF Collecting
<1>4. CASE CollectionSteps
  <2>1. Collecting /\ Collecting'
    BY <1>4
       DEF CollectionSteps, LeasesRead, Inspect, LeasesReread, ReadLease, DropTable, WriterGo,
           Collecting, readerVars
  <2>2. gc.kept \subseteq gc'.kept
    <3>1. CASE Inspect
      BY <3>1 DEF Inspect
    <3>2. ASSUME NEW r \in Readers, ReadLease(r) PROVE gc.kept \subseteq gc'.kept
      BY <3>2 DEF ReadLease, TypeOK
    <3>3. ASSUME NEW t \in Tables, DropTable(t) PROVE gc.kept \subseteq gc'.kept
      BY <3>3 DEF DropTable, TypeOK
    <3>4. CASE LeasesRead \/ LeasesReread
      BY <3>4 DEF LeasesRead, LeasesReread
    <3> QED
      BY <1>4, <3>1, <3>2, <3>3, <3>4 DEF CollectionSteps
  <2> QED
    BY <1>1, <2>1, <2>2
<1>5. CASE UNCHANGED vars \/ GrowOld \/ \E r \in Readers : Read(r)
  <2>1. UNCHANGED <<wpc, gc>>
    BY <1>5
       DEF vars, GrowOld, Read, Open, Lease, WriteLease, Confirm, ReleaseLease, CrashReader,
           ExpireLease, writerVars
  <2> QED
    BY <1>1, <2>1 DEF Collecting
<1> QED
  BY <1>2, <1>3, <1>4, <1>5 DEF Collection, CollectionSteps

\* The table that the previous manifest names is there as long as the manifest names
\* it, when no run fails: the run that activated the table, or its stored state, still
\* knows the one before it (generation-retention.ts, rollbackGeneration).
THEOREM FallbackSurvives ==
  ASSUME {"fail", "crash"} \cap Events = {}
  PROVE  Spec => FallbackKept
<1>1. Init => FallbackInv
  BY DEF Init, FallbackInv, Behind, Collecting
<1>2. ASSUME IInv, FallbackInv, [Next]_vars PROVE FallbackInv'
  BY <1>2, FallbackWriting, FallbackCollecting DEF Next, Ingest, FailRun, CrashWriter
<1>3. ASSUME IInv, FallbackInv, [Next]_vars PROVE FallbackExists
  <2> SUFFICES ASSUME previous # NoTable, Gone(previous) PROVE FALSE
    BY DEF FallbackExists
  <2>1. wpc = "reclaim" /\ previous \in gc.doomed
    BY <1>3, GoneOnlyIfDropped DEF DropAbandoned, WriterGo, FallbackInv
  <2> QED
    BY <1>3, <2>1 DEF FallbackInv, Collecting, IInv, Protected
<1>4. IInv /\ FallbackInv /\ [Next]_vars => [FallbackExists]_vars
  BY <1>3
<1> QED
  BY <1>1, <1>2, <1>4, Invariant, PTL DEF Spec, FallbackKept

-----------------------------------------------------------------------------
(* The bound.                                                               *)

LEMMA FiniteTables ==
  ASSUME IInv
  PROVE  /\ IsFiniteSet(Tables) /\ Existing \subseteq Tables
         /\ \A S \in SUBSET Tables : IsFiniteSet(S) /\ Cardinality(S) \in Nat
         /\ \A S \in SUBSET (Tables \cup {NoTable}) : IsFiniteSet(S) /\ Cardinality(S) \in Nat
<1>1. IsFiniteSet(Tables)
  BY FS_Interval, RetentionAssumption DEF Tables
<1>2. IsFiniteSet(Tables \cup {NoTable})
  BY <1>1, FS_AddElement
<1>3. Existing \subseteq Tables
  BY DEF IInv, TypeOK, Existing, ToSet
<1>4. \A S \in SUBSET Tables : IsFiniteSet(S)
  BY <1>1, FS_Subset
<1>5. \A S \in SUBSET (Tables \cup {NoTable}) : IsFiniteSet(S)
  BY <1>2, FS_Subset
<1> QED
  BY <1>1, <1>3, <1>4, <1>5, FS_CardinalityType

LEMMA SlotsLeft ==
  ASSUME NEW S, Cardinality(S) \in Nat
  PROVE  /\ RetainedSlots(S) \in Nat
         /\ Cardinality(S) < MaxRetained => RetainedSlots(S) + Cardinality(S) = MaxRetained
         /\ ~(Cardinality(S) < MaxRetained) => RetainedSlots(S) = 0
  BY RetentionAssumption DEF RetainedSlots

\* No more tables than slots are the last modified ones.
LEMMA RanksFit ==
  ASSUME IInv, NEW among \in SUBSET Existing, NEW slots \in Nat
  PROVE  Cardinality({t \in among : Rank(t, among) <= slots}) <= slots
<1> DEFINE S == {t \in among : Rank(t, among) <= slots}
           Before(t) == {u \in among : Position(u) <= Position(t)}
<1>0. /\ IsFiniteSet(among) /\ IsFiniteSet(S) /\ Cardinality(S) \in Nat
      /\ \A t : IsFiniteSet(Before(t)) /\ Cardinality(Before(t)) \in Nat
  <2>1. among \in SUBSET Tables /\ S \in SUBSET Tables /\ \A t : Before(t) \in SUBSET Tables
    BY FiniteTables
  <2> QED
    BY <2>1, FiniteTables
<1>1. \A t \in among : Position(t) \in Nat /\ order[Position(t)] = t
  <2>1. ASSUME NEW t \in among PROVE Position(t) \in DOMAIN order /\ order[Position(t)] = t
    BY PositionOf
  <2> QED
    BY <2>1 DEF IInv, TypeOK
<1>2. ASSUME NEW t \in among PROVE Cardinality(Before(t)) \in Nat /\ Cardinality(Before(t)) > 0
  <2>1. t \in Before(t)
    BY <1>1
  <2> HIDE DEF Before
  <2>2. Before(t) # {} /\ IsFiniteSet(Before(t)) /\ Cardinality(Before(t)) \in Nat
    BY <1>0, <2>1
  <2>3. Cardinality(Before(t)) # 0
    BY <2>2, FS_EmptySet
  <2> QED
    BY <2>2, <2>3
<1>3. ASSUME NEW t \in among, NEW u \in among, Position(t) < Position(u)
      PROVE  Cardinality(Before(t)) # Cardinality(Before(u))
  <2>1. Before(t) \in SUBSET Before(u)
    BY <1>1, <1>3
  <2>2. u \in Before(u) /\ u \notin Before(t)
    BY <1>1, <1>3
  <2> HIDE DEF Before
  <2> QED
    BY <1>0, <2>1, <2>2, FS_Subset
<1>4. ASSUME NEW t \in among, NEW u \in among, t # u
      PROVE  Cardinality(Before(t)) # Cardinality(Before(u))
  <2>1. Position(t) # Position(u)
    BY <1>1, <1>4
  <2>2. Position(t) < Position(u) \/ Position(u) < Position(t)
    BY <1>1, <2>1
  <2> HIDE DEF Before
  <2> QED
    BY <1>3, <2>2
<1>5. SUFFICES ASSUME Cardinality(S) > slots PROVE FALSE
  BY <1>0
<1> DEFINE f == [t \in S |-> Cardinality(Before(t))]
<1>6. f \in [S -> 1 .. slots]
  <2>1. \A t \in S : Cardinality(Before(t)) <= slots
    BY DEF Rank
  <2> HIDE DEF Before
  <2> QED
    BY <1>2, <2>1
<1>7. IsFiniteSet(1 .. slots) /\ Cardinality(1 .. slots) = slots
  BY FS_Interval
<1>8. \E x, y \in S : x # y /\ f[x] = f[y]
  <2> HIDE DEF f, S
  <2> QED
    BY <1>0, <1>5, <1>6, <1>7, FS_PigeonHole
<1> HIDE DEF Before
<1> QED
  BY <1>4, <1>8

LEMMA BoundKept ==
  ASSUME "fail" \notin Events, IInv, BoundInv, [Next]_vars
  PROVE  BoundInv'
<1> USE DEF IInv, BoundInv
<1>1. CASE Inspect
  <2> DEFINE P == gc.kept \cup gc.names
             E == {t \in Existing : age[t] # "young"}
  <2>1. PICK safe \in BOOLEAN :
           gc' = [active |-> gc.active, kept |-> P, safe |-> safe,
                  doomed |-> IF safe THEN Orphaned(Existing, P) ELSE {},
                  settled |-> E,
                  names |-> CountedLeases, todo |-> LeaseFiles,
                  early |-> {r \in Readers : stage[r] = "reading" /\ (r \in Local \/ ~Overdue(r))},
                  overdue |-> gc.overdue]
    BY <1>1 DEF Inspect
  <2>2. Existing' = Existing
    BY <1>1 DEF Inspect, tableVars, Existing
  <2>3. P \in SUBSET (Tables \cup {NoTable})
    BY DEF TypeOK
  <2>4. RetainedSlots(P) \in Nat
    BY <2>3, FiniteTables, SlotsLeft
  <2> DEFINE A == Recent(Existing, P)
  <2>5. A \in SUBSET Existing
    BY DEF Recent, Eligible
  <2>6. (E \cap Existing) \ (P \cup Orphaned(Existing, P)) \in SUBSET {t \in A : Rank(t, A) <= RetainedSlots(P)}
    <3> SUFFICES ASSUME NEW t \in Existing, age[t] # "young", t \notin P, t \notin Orphaned(Existing, P)
                 PROVE  t \in A /\ Rank(t, A) <= RetainedSlots(P)
      OBVIOUS
    <3>1. t \in Eligible(Existing, P)
      BY DEF Eligible
    <3>2. t \in A /\ ~(Rank(t, A) > RetainedSlots(P))
      BY <3>1 DEF Orphaned
    <3>3. Rank(t, A) \in Nat
      <4>1. {u \in A : Position(u) <= Position(t)} \in SUBSET Tables
        BY <2>5, FiniteTables
      <4> QED
        BY <4>1, FiniteTables DEF Rank
    <3> QED
      BY <2>4, <3>2, <3>3
  <2>7. Cardinality((E \cap Existing) \ (P \cup Orphaned(Existing, P))) <= RetainedSlots(P)
    <3> DEFINE R == {t \in A : Rank(t, A) <= RetainedSlots(P)}
               L == (E \cap Existing) \ (P \cup Orphaned(Existing, P))
    <3>1. Cardinality(R) <= RetainedSlots(P)
      BY <2>4, <2>5, RanksFit
    <3>2. R \in SUBSET Tables /\ L \in SUBSET R /\ L \in SUBSET Tables
      BY <2>5, <2>6, FiniteTables
    <3> HIDE DEF R, L
    <3>3. /\ Cardinality(L) <= Cardinality(R)
          /\ Cardinality(L) \in Nat /\ Cardinality(R) \in Nat
      BY <3>2, FiniteTables, FS_Subset
    <3> QED
      BY <2>4, <3>1, <3>3 DEF L
  <2> HIDE DEF P, E, A
  <2>8. gc'.safe => gc'.doomed = Orphaned(Existing, P) /\ gc'.settled = E /\ gc'.kept = P
    BY <2>1
  <2> QED
    BY <2>2, <2>7, <2>8 DEF RetainedSlots
<1>2. ASSUME wpc \in {"recheck", "reclaim"}, gc'.safe = gc.safe, gc'.settled = gc.settled,
             gc'.kept = gc.kept,
             (gc.settled \cap Existing') \ (gc.kept \cup gc'.doomed)
                = (gc.settled \cap Existing) \ (gc.kept \cup gc.doomed)
      PROVE  BoundInv'
  BY <1>2 DEF RetainedSlots
<1>3. ASSUME NEW t \in Tables, DropTable(t) PROVE BoundInv'
  <2>1. /\ wpc = "reclaim" /\ t \in gc.doomed
        /\ gc' = [gc EXCEPT !.doomed = @ \ {t}] /\ order' = OrderWithout(t)
    BY <1>3 DEF DropTable, Discard
  <2>2. Existing' = Existing \ {t}
    BY <2>1, WithoutTable DEF TypeOK, Existing
  <2>3. /\ gc'.safe = gc.safe /\ gc'.settled = gc.settled /\ gc'.kept = gc.kept
        /\ gc'.doomed = gc.doomed \ {t}
    BY <2>1 DEF TypeOK
  <2> QED
    BY <1>2, <2>1, <2>2, <2>3
<1>4. ASSUME wpc \in {"recheck", "reclaim"}, order' = order, gc'.safe = gc.safe,
             gc'.settled = gc.settled, gc'.kept = gc.kept, gc'.doomed = gc.doomed
      PROVE  BoundInv'
  BY <1>2, <1>4 DEF Existing
<1>5. ASSUME NEW r \in Readers, ReadLease(r) PROVE wpc' \in {"recheck", "reclaim"} => BoundInv'
  <2>1. /\ wpc \in {"leases", "recheck"} /\ wpc' = wpc /\ order' = order
        /\ \/ gc' = [gc EXCEPT !.todo = @ \ {r}]
           \/ gc' = [gc EXCEPT !.todo = @ \ {r}, !.names = @ \cup {tab[r]}]
    BY <1>5 DEF ReadLease, tableVars
  <2>2. gc'.safe = gc.safe /\ gc'.settled = gc.settled
    BY <2>1 DEF TypeOK
  <2>3. gc'.kept = gc.kept /\ gc'.doomed = gc.doomed
    BY <2>1 DEF TypeOK
  <2> QED
    BY <1>4, <2>1, <2>2, <2>3
<1>6. CASE LeasesReread \/ GrowOld \/ UNCHANGED vars \/ \E r \in Readers : Read(r)
  <2>1. UNCHANGED <<order, gc>> /\ (wpc' = wpc \/ wpc = "recheck")
    BY <1>6
       DEF LeasesReread, GrowOld, vars, Read, Open, Lease, WriteLease, Confirm, ReleaseLease,
           CrashReader, ExpireLease, tableVars, writerVars
  <2> QED
    BY <1>4, <2>1
<1>7. CASE wpc' \notin {"recheck", "reclaim"}
  BY <1>7
<1> QED
  BY <1>1, <1>3, <1>5, <1>6, <1>7
     DEF Next, Ingest, Collection, WriterGo, BeginIngest, PersistRun, Validate, WritePrevious,
         WriteRows, WriteCanonical, FinishRun, FailRun, Evaluate, Collect, LeasesRead,
         EndCollection, CrashWriter, DropAbandoned

\* Once a collection is through, no more tables past their grace period are left than
\* it retains, or than it had to protect (generation-retention.ts, retainedSlots).
THEOREM GenerationsBounded == Spec => []BoundedGenerations
<1> DEFINE Bound == "fail" \notin Events => BoundInv
<1>1. Init => Bound
  BY DEF Init, BoundInv
<1>2. IInv /\ Bound /\ [Next]_vars => Bound'
  BY BoundKept
<1>3. ASSUME IInv, Bound PROVE BoundedGenerations
  <2> SUFFICES ASSUME Collected, gc.safe, "fail" \notin Events
               PROVE  \/ Cardinality((gc.settled \cap Existing) \ gc.names) <= MaxRetained
                      \/ Cardinality((gc.settled \cap Existing) \ gc.names) <= Cardinality(gc.kept)
    BY DEF BoundedGenerations
  <2> DEFINE L == (gc.settled \cap Existing) \ gc.names
             B == (gc.settled \cap Existing) \ (gc.kept \cup gc.doomed)
             K == gc.kept
  <2>1. Cardinality(B) <= RetainedSlots(K)
    BY <1>3 DEF Collected, BoundInv
  <2>2. L \in SUBSET (B \cup K)
    BY DEF Collected
  <2>3. B \in SUBSET Tables /\ K \in SUBSET (Tables \cup {NoTable})
    BY <1>3 DEF IInv, TypeOK
  <2> HIDE DEF L, B, K
  <2>4. /\ IsFiniteSet(B) /\ Cardinality(B) \in Nat
        /\ IsFiniteSet(K) /\ Cardinality(K) \in Nat
    BY <1>3, <2>3, FiniteTables
  <2>5. /\ IsFiniteSet(B \cup K) /\ Cardinality(B \cup K) \in Nat
        /\ Cardinality(B \cup K) <= Cardinality(B) + Cardinality(K)
    <3>1. B \cup K \in SUBSET (Tables \cup {NoTable})
      BY <2>3
    <3>2. IsFiniteSet(B \cup K) /\ Cardinality(B \cup K) \in Nat
      BY <1>3, <3>1, FiniteTables
    <3>3. Cardinality(B \cup K) = Cardinality(B) + Cardinality(K) - Cardinality(B \cap K)
      BY <2>4, FS_Union
    <3>4. Cardinality(B \cap K) \in Nat
      BY <2>4, FS_Intersection, FS_CardinalityType
    <3> QED
      BY <2>4, <3>2, <3>3, <3>4
  <2>6. Cardinality(L) \in Nat /\ Cardinality(L) <= Cardinality(B) + Cardinality(K)
    <3>1. IsFiniteSet(L) /\ Cardinality(L) <= Cardinality(B \cup K)
      BY <2>2, <2>5, FS_Subset
    <3>2. Cardinality(L) \in Nat
      BY <3>1, FS_CardinalityType
    <3> QED
      BY <2>4, <2>5, <3>1, <3>2
  <2>7. Cardinality(L) <= MaxRetained \/ Cardinality(L) <= Cardinality(K)
    BY <2>1, <2>4, <2>6, SlotsLeft, RetentionAssumption
  <2> QED
    BY <2>7 DEF L, K
<1>4. IInv /\ Bound => BoundedGenerations
  BY <1>3
<1> QED
  BY <1>1, <1>2, <1>4, Invariant, PTL DEF Spec

=============================================================================
