----------------------- MODULE ClientSnapshots_proofs -----------------------
(* Proofs about the snapshots of a client, for any calls and any writes.    *)
EXTENDS ClientSnapshots, FiniteSetTheorems, TLAPS

-----------------------------------------------------------------------------
(* The inductive invariant.                                                 *)

Readers(s) == {c \in Reads : pc[c] = "reading" /\ on[c] = s}

\* A call refers to a snapshot while it checks it, waits for it or reads it.
Positions ==
    /\ \A c \in Reads : pc[c] # "ingesting"
    /\ \A c \in Ingests : pc[c] \in {"idle", "ingesting", "settled"}
    /\ \A c \in Calls : on[c] # None <=> pc[c] \in {"checking", "waiting", "reading"}

\* The references of a snapshot are its readers, and keep its table open.
Counted ==
    \A s \in Snapshots :
        /\ snapshot[s].references = Cardinality(Readers(s))
        /\ snapshot[s].open <=> cached = s \/ Readers(s) # {}

\* What the client keeps, what it loads and what its calls wait for.
Held ==
    /\ \A s \in Snapshots :
          cached = s <=> snapshot[s].state = "loaded" /\ ~snapshot[s].retired
    /\ \A c \in Calls : pc[c] = "checking" => snapshot[on[c]].state = "loaded"
    /\ \A c \in Calls : pc[c] = "reading" => snapshot[on[c]].state = "loaded"
    /\ \A c \in Calls : pc[c] = "waiting" /\ on[c] # load =>
          snapshot[on[c]].state \in {"loaded", "failed"}

InFlight ==
    /\ load = None => loading.phase = "none"
    /\ load # None =>
          /\ \E c \in Reads : pc[c] = "waiting" /\ on[c] = load
          /\ \A c \in Reads : pc[c] = "reading" => on[c] # load \/ loading.phase = "none"
          /\ IF loading.phase # "none"
             THEN cached = None /\ snapshot[load].state = "loading" /\ ~snapshot[load].retired
             ELSE cached \in {None, load} /\ snapshot[load].state \in {"loaded", "failed"}

Drained ==
    /\ client # "open" => \A c \in Calls \ draining : pc[c] \in {"idle", "settled"}
    /\ client = "closed" => cached = None /\ \A c \in Calls : pc[c] \in {"idle", "settled"}

IInv == ClientTypeOK /\ Positions /\ Counted /\ Held /\ InFlight /\ Drained

-----------------------------------------------------------------------------
(* The entries.                                                             *)

SameLoad(e, f) ==
    e.state = f.state /\ e.generation = f.generation /\ e.fingerprint = f.fingerprint

\* closeRetiredIndexSnapshot changes nothing but the table.
LEMMA ClosedEntry ==
  ASSUME NEW e \in SnapshotEntries
  PROVE  /\ ClosedIfUnused(e) \in SnapshotEntries
         /\ SameLoad(ClosedIfUnused(e), e)
         /\ ClosedIfUnused(e).references = e.references
         /\ ClosedIfUnused(e).retired = e.retired
         /\ ClosedIfUnused(e).open <=> e.open /\ ~(e.retired /\ e.references = 0)
  BY DEF ClosedIfUnused, SameLoad, SnapshotEntries

LEMMA RetiredEntry ==
  ASSUME NEW e \in SnapshotEntries
  PROVE  /\ Retired(e) \in SnapshotEntries
         /\ SameLoad(Retired(e), e)
         /\ Retired(e).references = e.references
         /\ Retired(e).retired
         /\ Retired(e).open <=> e.open /\ e.references # 0
<1> DEFINE r == [e EXCEPT !.retired = TRUE]
<1>1. r \in SnapshotEntries /\ SameLoad(r, e) /\ r.references = e.references /\ r.retired = TRUE
      /\ r.open = e.open
  BY DEF SnapshotEntries, SameLoad
<1> HIDE DEF r
<1>2. Retired(e) = ClosedIfUnused(r)
  BY DEF Retired, r
<1> QED
  BY <1>1, <1>2, ClosedEntry DEF SameLoad

LEMMA RetainedEntry ==
  ASSUME NEW e \in SnapshotEntries
  PROVE  /\ Retained(e) \in SnapshotEntries
         /\ SameLoad(Retained(e), e)
         /\ Retained(e).references = e.references + 1
         /\ Retained(e).retired = e.retired
         /\ Retained(e).open = e.open
  BY DEF Retained, SameLoad, SnapshotEntries

LEMMA ReleasedEntry ==
  ASSUME NEW e \in SnapshotEntries, e.references > 0
  PROVE  /\ Released(e) \in SnapshotEntries
         /\ SameLoad(Released(e), e)
         /\ Released(e).references = e.references - 1
         /\ Released(e).retired = e.retired
         /\ Released(e).open <=> e.open /\ ~(e.retired /\ e.references = 1)
<1> DEFINE r == [e EXCEPT !.references = @ - 1]
<1>1. r \in SnapshotEntries /\ SameLoad(r, e) /\ r.references = e.references - 1
      /\ r.retired = e.retired /\ r.open = e.open
  BY DEF SnapshotEntries, SameLoad
<1> HIDE DEF r
<1>2. Released(e) = ClosedIfUnused(r)
  BY DEF Released, r
<1> QED
  BY <1>1, <1>2, ClosedEntry DEF SameLoad, SnapshotEntries

LEMMA BeganEntry ==
  /\ Began \in SnapshotEntries
  /\ Began.state = "loading" /\ Began.references = 0 /\ ~Began.retired /\ ~Began.open
  BY DEF Began, NoSnapshot, SnapshotEntries, Partial, Unread

\* What a load delivers.
LEMMA LoadedEntry ==
  ASSUME ClientTypeOK
  PROVE  /\ Loaded \in SnapshotEntries
         /\ Loaded.state = "loaded" /\ Loaded.generation = loading.generation
         /\ Loaded.fingerprint = loading.after
         /\ Loaded.references = 0 /\ ~Loaded.retired /\ Loaded.open
  BY DEF Loaded, NoSnapshot, SnapshotEntries, ClientTypeOK, Loadings, Partial

\* There is an object for the load that a call begins.
LEMMA ObjectFound ==
  ASSUME IInv, load = None, NEW c \in Reads, cached = None \/ on[c] = cached
  PROVE  NewObject \in Snapshots /\ Unreachable(NewObject)
<1>1. SUFFICES \E s \in Snapshots : Unreachable(s)
  BY DEF NewObject
<1>2. SUFFICES ASSUME \A s \in Snapshots : ~Unreachable(s) PROVE FALSE
  OBVIOUS
<1>3. ASSUME NEW s \in Snapshots PROVE \E d \in Reads : on[d] = s
  <2>1. \/ snapshot[s].open \/ cached = s \/ \E d \in Calls : on[d] = s
    BY <1>2, ClientAssumption DEF Unreachable
  <2>2. Readers(s) # {} => \E d \in Reads : on[d] = s
    BY DEF Readers
  <2>3. cached = s => on[c] = s
    BY ClientAssumption
  <2>4. ASSUME NEW d \in Calls, on[d] = s PROVE d \in Reads
    BY <2>4, ClientAssumption DEF IInv, Positions, Calls
  <2> QED
    BY <2>1, <2>2, <2>3, <2>4 DEF IInv, Counted
<1> DEFINE f == [s \in Snapshots |-> CHOOSE d \in Reads : on[d] = s]
<1>4. f \in [Snapshots -> Reads] /\ \A s \in Snapshots : on[f[s]] = s
  BY <1>3
<1> HIDE DEF f
<1>5. Cardinality(Reads) < Cardinality(Snapshots)
  <2>1. Cardinality(Reads) \in Nat /\ Cardinality(Snapshots) \in Nat
    BY ClientAssumption, FS_CardinalityType
  <2> QED
    BY <2>1, ClientAssumption
<1>6. \E s, t \in Snapshots : s # t /\ f[s] = f[t]
  BY <1>4, <1>5, FS_PigeonHole, ClientAssumption
<1> QED
  BY <1>4, <1>6

\* The locals at the beginning of an attempt.
LEMMA AttemptType ==
  ASSUME NEW n \in 0 .. MaxAttempts, NEW e \in Nat
  PROVE  Attempt(n, e) \in Loadings
<1>1. Unread \in Partial
  BY DEF Unread, Partial
<1> QED
  BY <1>1 DEF Attempt, Loadings

-----------------------------------------------------------------------------
(* The parts of the actions.                                                *)

Steady == UNCHANGED <<manifests, writer, client, draining>> /\ floor' \in [Calls -> Versions]

\* The entries after the part of the turn that comes before Seek: those of the
\* client, of which the checked one may have been retired.
Before(current, entries) ==
    /\ entries \in [Snapshots -> SnapshotEntries]
    /\ \A s \in Snapshots :
          /\ SameLoad(entries[s], snapshot[s])
          /\ entries[s].references = snapshot[s].references
          /\ entries[s].retired <=> snapshot[s].retired \/ (cached = s /\ current # s)
          /\ entries[s].open <=> current = s \/ Readers(s) # {}

\* Where a call may be that looks for a snapshot.
Seeking(c) ==
    /\ c \in Reads
    /\ \/ pc[c] \in {"idle", "checking"}
       \/ pc[c] = "waiting" /\ load # on[c]
    /\ pc[c] = "idle" => client = "open"

\* A turn of the loop leaves the other calls and their readers alone, and what it
\* does to the entries is to begin one, if at all.
LEMMA SeekSummary ==
  ASSUME IInv, NEW c, Seeking(c), NEW current, cached' = current,
         current = cached \/ (current = None /\ on[c] = cached),
         NEW entries, Before(current, entries), Seek(c, current, entries)
  PROVE  /\ current # None => /\ pc' = [pc EXCEPT ![c] = "checking"]
                              /\ on' = [on EXCEPT ![c] = current]
                              /\ snapshot' = entries /\ UNCHANGED <<load, loading, known>>
         /\ current = None => pc' = [pc EXCEPT ![c] = "waiting"]
         /\ current = None /\ load # None =>
               /\ on' = [on EXCEPT ![c] = load]
               /\ snapshot' = entries /\ UNCHANGED <<load, loading, known>>
         /\ current = None /\ load = None =>
               /\ load' = NewObject /\ on' = [on EXCEPT ![c] = NewObject]
               /\ snapshot' = [entries EXCEPT ![NewObject] = Began]
               /\ loading' = Attempt(1, epoch)
               /\ NewObject \in Snapshots /\ Unreachable(NewObject)
         /\ seen' = [seen EXCEPT ![c] = Unread]
  BY ObjectFound DEF Seek, Seeking

LEMMA SeekReaders ==
  ASSUME IInv, NEW c, Seeking(c), pc' \in {[pc EXCEPT ![c] = "checking"], [pc EXCEPT ![c] = "waiting"]},
         NEW t, on' = [on EXCEPT ![c] = t]
  PROVE  \A s \in Snapshots : Readers(s)' = Readers(s)
  BY DEF IInv, ClientTypeOK, Readers, Seeking, Calls

LEMMA SeekKeeps ==
  ASSUME IInv, NEW c, Seeking(c), NEW current, cached' = current,
         current = cached \/ (current = None /\ on[c] = cached),
         NEW entries, Before(current, entries), Seek(c, current, entries),
         Steady, UNCHANGED epoch
  PROVE  IInv'
<1> USE DEF IInv
<1>c. c \in Calls /\ c \in Reads
  BY DEF Seeking, Calls
<1>k. current \in Snapshots \cup {None}
  BY DEF ClientTypeOK
<1>1. CASE current # None
  <2>1. /\ pc' = [pc EXCEPT ![c] = "checking"] /\ on' = [on EXCEPT ![c] = current]
        /\ snapshot' = entries /\ UNCHANGED <<load, loading, known>>
        /\ seen' = [seen EXCEPT ![c] = Unread] /\ current = cached /\ current \in Snapshots
    BY <1>1, <1>k, SeekSummary
  <2>2. \A s \in Snapshots : Readers(s)' = Readers(s)
    BY <2>1, SeekReaders
  <2>3. ClientTypeOK'
    BY <1>c, <2>1, ClientAssumption DEF ClientTypeOK, Steady, Before, Unread, Partial, SnapshotEntries
  <2>4. Positions'
    BY <1>c, <2>1, ClientAssumption DEF ClientTypeOK, Positions, Calls
  <2>5. Counted'
    BY <2>1, <2>2 DEF Counted, Before
  <2>6. Held'
    BY <1>c, <2>1, ClientAssumption DEF Held, ClientTypeOK, Before, SameLoad, Seeking, Positions
  <2>7. InFlight'
    BY <1>c, <2>1, ClientAssumption DEF InFlight, ClientTypeOK, Before, SameLoad, Seeking, Positions
  <2>8. Drained'
    BY <1>c, <2>1 DEF Drained, ClientTypeOK, Steady, Seeking
  <2> QED
    BY <2>3, <2>4, <2>5, <2>6, <2>7, <2>8
<1>2. CASE current = None /\ load # None
  <2>1. /\ pc' = [pc EXCEPT ![c] = "waiting"] /\ on' = [on EXCEPT ![c] = load]
        /\ snapshot' = entries /\ UNCHANGED <<load, loading, known>>
        /\ seen' = [seen EXCEPT ![c] = Unread] /\ load \in Snapshots
    BY <1>2, SeekSummary DEF ClientTypeOK
  <2>2. \A s \in Snapshots : Readers(s)' = Readers(s)
    BY <2>1, SeekReaders
  <2>3. ClientTypeOK'
    BY <1>2, <1>c, <2>1, ClientAssumption DEF ClientTypeOK, Steady, Before, Unread, Partial, SnapshotEntries
  <2>4. Positions'
    BY <1>2, <1>c, <2>1, ClientAssumption DEF ClientTypeOK, Positions, Calls
  <2>5. Counted'
    BY <1>2, <2>1, <2>2 DEF Counted, Before
  <2>6. Held'
    BY <1>2, <1>c, <2>1, ClientAssumption DEF Held, ClientTypeOK, Before, SameLoad, Seeking, Positions
  <2>7. InFlight'
    BY <1>2, <1>c, <2>1, ClientAssumption DEF InFlight, ClientTypeOK, Before, SameLoad, Seeking, Positions
  <2>8. Drained'
    BY <1>2, <1>c, <2>1 DEF Drained, ClientTypeOK, Steady, Seeking
  <2> QED
    BY <2>3, <2>4, <2>5, <2>6, <2>7, <2>8
<1>3. CASE current = None /\ load = None
  <2>1. /\ pc' = [pc EXCEPT ![c] = "waiting"] /\ on' = [on EXCEPT ![c] = NewObject]
        /\ snapshot' = [entries EXCEPT ![NewObject] = Began] /\ load' = NewObject
        /\ loading' = Attempt(1, epoch)
        /\ NewObject \in Snapshots /\ Unreachable(NewObject)
        /\ seen' = [seen EXCEPT ![c] = Unread]
    BY <1>3, SeekSummary
  <2>2. \A s \in Snapshots : Readers(s)' = Readers(s)
    BY <2>1, SeekReaders
  <2>3. Readers(NewObject) = {}
    BY <2>1 DEF Readers, Unreachable, Calls
  <2>l. loading' \in Loadings /\ loading'.phase = "before"
    BY <2>1, AttemptType DEF ClientTypeOK, MaxAttempts, Attempt
  <2>4. ClientTypeOK'
    <3>1. snapshot' \in [Snapshots -> SnapshotEntries]
      BY <2>1, BeganEntry DEF Before
    <3>2. known' \in Versions
      BY <1>3 DEF Seek, ClientTypeOK, Fingerprints, Files
    <3> QED
      BY <1>3, <1>c, <2>1, <2>l, <3>1, <3>2, ClientAssumption DEF ClientTypeOK, Steady, Unread, Partial
  <2>5. Positions'
    BY <1>3, <1>c, <2>1, ClientAssumption DEF ClientTypeOK, Positions, Calls
  <2>6. Counted'
    BY <1>3, <2>1, <2>2, <2>3, BeganEntry, FS_EmptySet, ClientAssumption DEF Counted, Before
  <2>7. Held'
    BY <1>3, <1>c, <2>1, BeganEntry, ClientAssumption
       DEF Held, ClientTypeOK, Before, SameLoad, Seeking, Unreachable, Positions
  <2>8. InFlight'
    BY <1>3, <1>c, <2>1, <2>l, BeganEntry, ClientAssumption
       DEF InFlight, ClientTypeOK, Before, SameLoad, Seeking, Positions, Unreachable, Calls
  <2>9. Drained'
    BY <1>3, <1>c, <2>1 DEF Drained, ClientTypeOK, Steady, Seeking
  <2> QED
    BY <2>4, <2>5, <2>6, <2>7, <2>8, <2>9
<1> QED
  BY <1>1, <1>2, <1>3

\* A snapshot that a call retains is that of the client, and its table is open.
LEMMA RetainKeeps ==
  ASSUME IInv, NEW c \in Reads, on[c] # None, Retain(c, on[c]),
         pc[c] = "checking" \/ (pc[c] = "waiting" /\ load # on[c]),
         snapshot[on[c]].state = "loaded", ~snapshot[on[c]].retired,
         Steady, UNCHANGED <<cached, epoch>>
  PROVE  IInv'
<1> USE DEF IInv
<1>s. PICK s : s = on[c]
  OBVIOUS
<1>1. c \in Calls /\ s \in Snapshots /\ cached = s /\ c \notin Readers(s)
  BY <1>s DEF ClientTypeOK, Held, Calls, Readers
<1>2. /\ pc' = [pc EXCEPT ![c] = "reading"] /\ on' = on
      /\ seen' = [seen EXCEPT ![c] = Unread] /\ UNCHANGED <<load, loading, known>>
      /\ snapshot' = [snapshot EXCEPT ![s] = Retained(snapshot[s])]
  BY <1>s, <1>1 DEF Retain, ClientTypeOK
<1>3. \A t \in Snapshots : Readers(t)' = IF t = s THEN Readers(t) \cup {c} ELSE Readers(t)
  BY <1>s, <1>1, <1>2 DEF Readers, ClientTypeOK
<1>4. Cardinality(Readers(s)') = Cardinality(Readers(s)) + 1
  <2>1. IsFiniteSet(Readers(s))
    BY FS_Subset, ClientAssumption DEF Readers
  <2> QED
    BY <1>1, <1>3, <2>1, FS_AddElement
<1>5. /\ snapshot'[s] \in SnapshotEntries /\ SameLoad(snapshot'[s], snapshot[s])
      /\ snapshot'[s].references = snapshot[s].references + 1
      /\ snapshot'[s].retired = snapshot[s].retired /\ snapshot'[s].open = snapshot[s].open
      /\ \A t \in Snapshots : t # s => snapshot'[t] = snapshot[t]
  BY <1>1, <1>2, RetainedEntry DEF ClientTypeOK
<1>6. snapshot' \in [Snapshots -> SnapshotEntries]
  BY <1>1, <1>2, <1>5 DEF ClientTypeOK
<1>7. ClientTypeOK'
  BY <1>1, <1>2, <1>6 DEF ClientTypeOK, Steady, Unread, Partial
<1>8. Positions'
  BY <1>s, <1>1, <1>2, ClientAssumption DEF ClientTypeOK, Positions, Calls
<1>9. Counted'
  <2> SUFFICES ASSUME NEW t \in Snapshots
               PROVE  /\ snapshot'[t].references = Cardinality(Readers(t)')
                      /\ snapshot'[t].open <=> cached = t \/ Readers(t)' # {}
    BY DEF Counted
  <2>1. CASE t = s
    BY <2>1, <1>1, <1>3, <1>4, <1>5 DEF Counted
  <2>2. CASE t # s
    BY <2>2, <1>1, <1>3, <1>5 DEF Counted
  <2> QED
    BY <2>1, <2>2
<1>10. Held'
  BY <1>s, <1>1, <1>2, <1>5, ClientAssumption DEF Held, ClientTypeOK, SameLoad, Positions
<1>11. InFlight'
  BY <1>s, <1>1, <1>2, <1>5, ClientAssumption DEF InFlight, ClientTypeOK, SameLoad, Positions
<1>12. Drained'
  BY <1>1, <1>2, ClientAssumption DEF Drained, ClientTypeOK, Steady
<1> QED
  BY <1>7, <1>8, <1>9, <1>10, <1>11, <1>12

\* A call settles that no load and no table needs.
LEMMA SettleKeeps ==
  ASSUME IInv, NEW c \in Calls, Settle(c),
         pc[c] \in {"checking", "ingesting"} \/ (pc[c] = "waiting" /\ load # on[c]),
         Steady, UNCHANGED <<snapshot, cached, epoch, load, loading, known>>
  PROVE  IInv'
<1> USE DEF IInv
<1>1. /\ pc' = [pc EXCEPT ![c] = "settled"] /\ on' = [on EXCEPT ![c] = None]
      /\ seen' = [seen EXCEPT ![c] = Unread]
  BY DEF Settle
<1>2. \A s \in Snapshots : Readers(s)' = Readers(s)
  BY <1>1, ClientAssumption DEF Readers, ClientTypeOK, Calls
<1>3. ClientTypeOK'
  BY <1>1 DEF ClientTypeOK, Steady, Unread, Partial
<1>4. Positions'
  BY <1>1, ClientAssumption DEF ClientTypeOK, Positions, Calls
<1>5. Counted'
  BY <1>2 DEF Counted
<1>6. Held'
  BY <1>1 DEF Held, ClientTypeOK, Positions
<1>7. InFlight'
  BY <1>1, ClientAssumption DEF InFlight, ClientTypeOK, Positions, Calls
<1>8. Drained'
  BY <1>1 DEF Drained, ClientTypeOK, Steady
<1> QED
  BY <1>3, <1>4, <1>5, <1>6, <1>7, <1>8

\* What invalidateIndexSnapshot leaves of the entries.
LEMMA InvalidateSummary ==
  ASSUME IInv, Invalidate
  PROVE  /\ cached' = None /\ epoch' = epoch + 1
         /\ snapshot' \in [Snapshots -> SnapshotEntries]
         /\ \A s \in Snapshots :
               /\ SameLoad(snapshot'[s], snapshot[s])
               /\ snapshot'[s].references = snapshot[s].references
               /\ snapshot'[s].retired <=> snapshot[s].retired \/ cached = s
               /\ snapshot'[s].open <=> Readers(s) # {}
<1> USE DEF IInv
<1>1. CASE cached = None
  BY <1>1, ClientAssumption DEF Invalidate, ClientTypeOK, Counted, SameLoad
<1>2. CASE cached # None
  <2>1. cached \in Snapshots /\ snapshot[cached] \in SnapshotEntries
    BY <1>2 DEF ClientTypeOK
  <2>2. snapshot' = [snapshot EXCEPT ![cached] = Retired(snapshot[cached])]
    BY <1>2 DEF Invalidate
  <2>3. \A s \in Snapshots : s # cached => snapshot'[s] = snapshot[s]
    BY <2>1, <2>2 DEF ClientTypeOK
  <2>4. snapshot'[cached] = Retired(snapshot[cached])
    BY <2>1, <2>2 DEF ClientTypeOK
  <2>5. snapshot' \in [Snapshots -> SnapshotEntries]
    BY <2>1, <2>2, RetiredEntry DEF ClientTypeOK
  <2>6. snapshot[cached].references # 0 <=> Readers(cached) # {}
    <3>1. IsFiniteSet(Readers(cached))
      BY FS_Subset, ClientAssumption DEF Readers
    <3> QED
      BY <2>1, <3>1, FS_EmptySet DEF Counted
  <2>7. /\ SameLoad(snapshot'[cached], snapshot[cached])
        /\ snapshot'[cached].references = snapshot[cached].references
        /\ snapshot'[cached].retired
        /\ snapshot'[cached].open <=> Readers(cached) # {}
    BY <2>1, <2>4, <2>6, RetiredEntry DEF Counted
  <2>8. \A s \in Snapshots : s # cached => /\ SameLoad(snapshot'[s], snapshot[s])
                                           /\ snapshot[s].open <=> Readers(s) # {}
    BY <2>3 DEF Counted, SameLoad
  <2> QED
    BY <2>3, <2>5, <2>7, <2>8 DEF Invalidate
<1> QED
  BY <1>1, <1>2

-----------------------------------------------------------------------------
(* The actions.                                                             *)

LEMMA InitInv == ClientInit => IInv
<1> SUFFICES ASSUME ClientInit PROVE IInv
  OBVIOUS
<1>1. NoSnapshot \in SnapshotEntries /\ NoLoad \in Loadings
  BY DEF NoSnapshot, NoLoad, SnapshotEntries, Loadings, Partial, Unread, MaxAttempts
<1>2. ClientTypeOK
  BY <1>1, ClientAssumption DEF ClientInit, ClientTypeOK, Fingerprints, Versions, Unread, Partial
<1>3. \A s \in Snapshots : Readers(s) = {}
  BY DEF ClientInit, Readers, Calls
<1>4. Counted
  BY <1>3, FS_EmptySet, ClientAssumption DEF ClientInit, Counted, NoSnapshot
<1> QED
  BY <1>2, <1>4, ClientAssumption
     DEF ClientInit, IInv, Positions, Held, InFlight, Drained, NoSnapshot, NoLoad, Calls

LEMMA ReadersSame ==
  ASSUME UNCHANGED <<pc, on>>
  PROVE  \A s : Readers(s)' = Readers(s)
  BY DEF Readers

\* A manifest file is written, or not.
LEMMA WritesKeep ==
  ASSUME IInv,
         \/ \E w \in Ingests \cup {Others}, f \in Files : WriteManifest(w, f)
         \/ ManifestNotWritten
  PROVE  IInv'
<1> USE DEF IInv
<1>1. UNCHANGED <<pc, on, seen, snapshot, cached, load, loading, known, floor,
                  epoch, client, draining>>
  BY DEF WriteManifest, ManifestNotWritten, unchangedClient
<1>2. manifests' \in Fingerprints /\ writer' \in Ingests \cup {Others, None}
  <2>1. CASE ManifestNotWritten
    BY <2>1 DEF ManifestNotWritten, ClientTypeOK
  <2>2. ASSUME NEW w \in Ingests \cup {Others}, NEW f \in Files, WriteManifest(w, f)
        PROVE  manifests' \in Fingerprints /\ writer' \in Ingests \cup {Others, None}
    <3>1. manifests[f] < MaxWrites[f] /\ manifests[f] \in Nat
      BY <2>2 DEF WriteManifest, ClientTypeOK, Fingerprints, Versions, Files
    <3>2. MaxWrites["previous"] \in Nat /\ MaxWrites["canonical"] \in Nat
      BY ClientAssumption
    <3>3. manifests[f] + 1 \in Versions
      BY <3>1, <3>2 DEF Versions, Files
    <3> QED
      BY <2>2, <3>3 DEF WriteManifest, ClientTypeOK, Fingerprints
  <2> QED
    BY <2>1, <2>2
<1>3. ClientTypeOK'
  BY <1>1, <1>2 DEF ClientTypeOK
<1>4. Counted'
  BY <1>1, ReadersSame DEF Counted
<1> QED
  BY <1>1, <1>3, <1>4 DEF Positions, Held, InFlight, Drained

\* The calls look for a snapshot with entries as Seek expects them.
LEMMA BeforeNow ==
  ASSUME IInv
  PROVE  Before(cached, snapshot)
  BY DEF Before, IInv, ClientTypeOK, SameLoad, Counted

LEMMA BeforeRetired ==
  ASSUME IInv, cached # None
  PROVE  Before(None, [snapshot EXCEPT ![cached] = Retired(@)])
<1> USE DEF IInv
<1> DEFINE entries == [snapshot EXCEPT ![cached] = Retired(snapshot[cached])]
<1>1. cached \in Snapshots /\ snapshot[cached] \in SnapshotEntries
  BY DEF ClientTypeOK
<1>2. entries[cached] = Retired(snapshot[cached])
  BY <1>1 DEF ClientTypeOK
<1>3. \A s \in Snapshots : s # cached => entries[s] = snapshot[s]
  BY DEF ClientTypeOK
<1>4. entries \in [Snapshots -> SnapshotEntries]
  BY <1>1, RetiredEntry DEF ClientTypeOK
<1> HIDE DEF entries
<1>5. snapshot[cached].references # 0 <=> Readers(cached) # {}
  <2>1. IsFiniteSet(Readers(cached))
    BY FS_Subset, ClientAssumption DEF Readers
  <2> QED
    BY <1>1, <2>1, FS_EmptySet DEF Counted
<1>6. /\ SameLoad(entries[cached], snapshot[cached])
      /\ entries[cached].references = snapshot[cached].references
      /\ entries[cached].retired
      /\ entries[cached].open <=> Readers(cached) # {}
  BY <1>1, <1>2, <1>5, RetiredEntry DEF Counted
<1>7. \A s \in Snapshots : s # cached => SameLoad(entries[s], snapshot[s])
                                         /\ (snapshot[s].open <=> Readers(s) # {})
  BY <1>3 DEF SameLoad, Counted
<1>8. Before(None, entries)
  BY <1>3, <1>4, <1>6, <1>7, ClientAssumption DEF Before
<1> QED
  BY <1>8 DEF entries

LEMMA CallReadKeeps ==
  ASSUME IInv, NEW c \in Calls, CallRead(c)
  PROVE  IInv'
<1>1. Seeking(c) /\ cached' = cached /\ Seek(c, cached, snapshot)
  BY DEF CallRead, Seeking
<1>2. Steady /\ UNCHANGED epoch
  BY DEF CallRead, Steady, unchangedDisk, unchangedClient, IInv, ClientTypeOK, Fingerprints, Files
<1> QED
  BY <1>1, <1>2, BeforeNow, SeekKeeps

LEMMA CheckResumesKeeps ==
  ASSUME IInv, NEW c \in Calls, CheckResumes(c)
  PROVE  IInv'
<1>1. Steady /\ UNCHANGED epoch
  BY DEF CheckResumes, Steady, unchangedDisk, unchangedClient, IInv, ClientTypeOK
<1>2. c \in Reads /\ Seeking(c) /\ pc[c] = "checking" /\ on[c] # None
  BY DEF CheckResumes, Seeking, IInv, Positions, Calls
<1>3. CASE cached = on[c] /\ ~snapshot[on[c]].retired /\ Retain(c, on[c]) /\ cached' = cached
  <2>1. snapshot[on[c]].state = "loaded"
    BY <1>2 DEF IInv, Held, Calls
  <2> QED
    BY <1>1, <1>2, <1>3, <2>1, RetainKeeps
<1>4. CASE /\ cached = on[c] /\ cached' = None
           /\ Seek(c, None, [snapshot EXCEPT ![cached] = Retired(@)])
  BY <1>1, <1>2, <1>4, BeforeRetired, SeekKeeps
<1>5. CASE Seek(c, cached, snapshot) /\ cached' = cached
  BY <1>1, <1>2, <1>5, BeforeNow, SeekKeeps
<1> QED
  BY <1>3, <1>4, <1>5 DEF CheckResumes

LEMMA LoadAwaitedKeeps ==
  ASSUME IInv, NEW c \in Calls, LoadAwaited(c)
  PROVE  IInv'
<1>1. Steady /\ UNCHANGED <<cached, epoch>>
  BY DEF LoadAwaited, Steady, unchangedDisk, unchangedClient, IInv, ClientTypeOK
<1>2. c \in Reads /\ Seeking(c) /\ pc[c] = "waiting" /\ load # on[c] /\ on[c] # None
  BY DEF LoadAwaited, Seeking, IInv, Positions, Calls
<1>3. CASE Settle(c) /\ UNCHANGED <<snapshot, load, loading, known>>
  BY <1>1, <1>2, <1>3, SettleKeeps
<1>4. CASE snapshot[on[c]].state = "loaded" /\ ~snapshot[on[c]].retired /\ Retain(c, on[c])
  BY <1>1, <1>2, <1>4, RetainKeeps
<1>5. CASE Seek(c, cached, snapshot)
  BY <1>1, <1>2, <1>5, BeforeNow, SeekKeeps
<1> QED
  BY <1>3, <1>4, <1>5 DEF LoadAwaited

LEMMA FailuresKeep ==
  ASSUME IInv, NEW c \in Calls, CheckFails(c) \/ IngestFails(c)
  PROVE  IInv'
<1>1. Steady /\ UNCHANGED <<snapshot, cached, epoch, load, loading, known>>
  BY DEF CheckFails, IngestFails, Steady, unchangedDisk, unchangedClient, IInv, ClientTypeOK
<1> QED
  BY <1>1, SettleKeeps DEF CheckFails, IngestFails

LEMMA CheckStatKeeps ==
  ASSUME IInv, NEW c \in Calls, NEW f \in Files, CheckStat(c, f)
  PROVE  IInv'
<1> USE DEF IInv
<1>1. UNCHANGED <<manifests, writer, pc, on, snapshot, cached, load, loading, known, floor,
                  epoch, client, draining>>
  BY DEF CheckStat, unchangedDisk, unchangedClient
<1>2. seen' \in [Calls -> Partial]
  BY DEF CheckStat, ClientTypeOK, Partial, Fingerprints
<1>3. ClientTypeOK'
  BY <1>1, <1>2 DEF ClientTypeOK
<1>4. Counted'
  BY <1>1, ReadersSame DEF Counted
<1> QED
  BY <1>1, <1>3, <1>4 DEF Positions, Held, InFlight, Drained

LEMMA EndReadKeeps ==
  ASSUME IInv, NEW c \in Calls, EndRead(c)
  PROVE  IInv'
<1> USE DEF IInv
<1>s. PICK s : s = on[c]
  OBVIOUS
<1>1. c \in Reads /\ s \in Snapshots /\ c \in Readers(s) /\ pc[c] = "reading"
  BY <1>s DEF EndRead, ClientTypeOK, Positions, Calls, Readers
<1>2. /\ pc' = [pc EXCEPT ![c] = "settled"] /\ on' = [on EXCEPT ![c] = None]
      /\ seen' = [seen EXCEPT ![c] = Unread]
      /\ UNCHANGED <<cached, load, loading, known, floor, manifests, writer, epoch, client, draining>>
      /\ snapshot' = [snapshot EXCEPT ![s] = Released(snapshot[s])]
  BY <1>s, <1>1 DEF EndRead, Settle, ClientTypeOK, unchangedDisk, unchangedClient
<1>3. \A t \in Snapshots : Readers(t)' = IF t = s THEN Readers(t) \ {c} ELSE Readers(t)
  BY <1>s, <1>1, <1>2, ClientAssumption DEF Readers, ClientTypeOK, Calls
<1>4. /\ IsFiniteSet(Readers(s)) /\ IsFiniteSet(Readers(s)')
      /\ Cardinality(Readers(s)') = Cardinality(Readers(s)) - 1
      /\ Cardinality(Readers(s)) \in Nat /\ Cardinality(Readers(s)) # 0
  <2>1. IsFiniteSet(Readers(s))
    BY FS_Subset, ClientAssumption DEF Readers
  <2> QED
    BY <1>1, <1>3, <2>1, FS_RemoveElement, FS_EmptySet, FS_CardinalityType
<1>r. snapshot[s] \in SnapshotEntries /\ snapshot[s].references = Cardinality(Readers(s))
      /\ snapshot[s].references > 0
  BY <1>1, <1>4 DEF ClientTypeOK, Counted
<1>5. /\ snapshot'[s] \in SnapshotEntries /\ SameLoad(snapshot'[s], snapshot[s])
      /\ snapshot'[s].references = snapshot[s].references - 1
      /\ snapshot'[s].retired = snapshot[s].retired
      /\ snapshot'[s].open <=> snapshot[s].open /\ ~(snapshot[s].retired /\ snapshot[s].references = 1)
      /\ \A t \in Snapshots : t # s => snapshot'[t] = snapshot[t]
  BY <1>1, <1>2, <1>r, ReleasedEntry DEF ClientTypeOK
<1>6. snapshot' \in [Snapshots -> SnapshotEntries]
  BY <1>1, <1>2, <1>5 DEF ClientTypeOK
<1>o. Readers(s)' = {} <=> snapshot[s].references = 1
  BY <1>4, <1>r, FS_EmptySet
<1>k. cached = s <=> ~snapshot[s].retired
  BY <1>s, <1>1 DEF Held, Calls
<1>7. ClientTypeOK'
  BY <1>1, <1>2, <1>6 DEF ClientTypeOK, Unread, Partial
<1>8. Positions'
  BY <1>s, <1>1, <1>2, ClientAssumption DEF ClientTypeOK, Positions, Calls
<1>9. Counted'
  <2> SUFFICES ASSUME NEW t \in Snapshots
               PROVE  /\ snapshot'[t].references = Cardinality(Readers(t)')
                      /\ snapshot'[t].open <=> cached = t \/ Readers(t)' # {}
    BY <1>2 DEF Counted
  <2>1. CASE t = s
    <3>1. snapshot[s].open
      BY <1>1 DEF Counted
    <3> QED
      BY <2>1, <1>4, <1>5, <1>r, <1>o, <1>k, <3>1
  <2>2. CASE t # s
    BY <2>2, <1>3, <1>5 DEF Counted
  <2> QED
    BY <2>1, <2>2
<1>10. Held'
  BY <1>s, <1>1, <1>2, <1>5, ClientAssumption DEF Held, ClientTypeOK, SameLoad, Positions
<1>11. InFlight'
  BY <1>s, <1>1, <1>2, <1>5, ClientAssumption DEF InFlight, ClientTypeOK, SameLoad, Positions, Calls
<1>12. Drained'
  BY <1>1, <1>2, ClientAssumption DEF Drained, ClientTypeOK
<1> QED
  BY <1>7, <1>8, <1>9, <1>10, <1>11, <1>12

LEMMA CallIngestKeeps ==
  ASSUME IInv, NEW c \in Calls, CallIngest(c)
  PROVE  IInv'
<1> USE DEF IInv
<1>1. /\ c \in Ingests /\ pc[c] = "idle" /\ client = "open" /\ pc' = [pc EXCEPT ![c] = "ingesting"]
      /\ UNCHANGED <<manifests, writer, on, seen, snapshot, cached, load, loading, known, floor,
                     epoch, client, draining>>
  BY DEF CallIngest, unchangedDisk, unchangedClient
<1>2. \A s \in Snapshots : Readers(s)' = Readers(s)
  BY <1>1, ClientAssumption DEF Readers, ClientTypeOK, Calls
<1>3. ClientTypeOK'
  BY <1>1 DEF ClientTypeOK
<1>4. Positions'
  BY <1>1, ClientAssumption DEF ClientTypeOK, Positions, Calls
<1>5. Counted'
  BY <1>1, <1>2 DEF Counted
<1>6. Held'
  BY <1>1 DEF Held, ClientTypeOK
<1>7. InFlight'
  BY <1>1, ClientAssumption DEF InFlight, ClientTypeOK, Calls
<1>8. Drained'
  BY <1>1 DEF Drained, ClientTypeOK
<1> QED
  BY <1>3, <1>4, <1>5, <1>6, <1>7, <1>8

\* The snapshots of the client are invalidated, after an ingestion or at the end.
LEMMA InvalidationsKeep ==
  ASSUME IInv, (\E c \in Calls : EndIngest(c)) \/ CloseEnds
  PROVE  IInv'
<1> USE DEF IInv
<1>1. /\ Invalidate
      /\ UNCHANGED <<manifests, writer, load, loading, draining, floor>>
      /\ known' \in Versions /\ client' \in {"open", "closing", "closed"}
      /\ pc' \in [Calls -> {"idle", "checking", "waiting", "reading", "ingesting", "settled"}]
      /\ on' = on /\ seen' \in [Calls -> Partial]
      /\ \A c \in Calls : pc'[c] # pc[c] => c \in Ingests /\ pc[c] = "ingesting" /\ pc'[c] = "settled"
      /\ client' = "closed" /\ client # "closed" =>
            \A c \in Calls : pc'[c] \in {"idle", "settled"}
      /\ client' = "open" <=> client = "open"
      /\ client = "closed" => client' = "closed"
  <2>1. ASSUME NEW c \in Calls, EndIngest(c) PROVE <1>1!:
    <3>1. c \in Ingests /\ on[c] = None
      BY <2>1, ClientAssumption DEF EndIngest, Positions, Calls, ClientTypeOK
    <3>2. on' = on
      BY <2>1, <3>1 DEF EndIngest, Settle, ClientTypeOK
    <3> QED
      BY <2>1, <3>1, <3>2
         DEF EndIngest, Settle, ClientTypeOK, unchangedDisk, Fingerprints, Files, Unread, Partial
  <2>2. ASSUME CloseEnds PROVE <1>1!:
    BY <2>2 DEF CloseEnds, ClientTypeOK, Drained, unchangedDisk
  <2> QED
    BY <2>1, <2>2
<1>2. /\ cached' = None /\ epoch' = epoch + 1
      /\ snapshot' \in [Snapshots -> SnapshotEntries]
      /\ \A s \in Snapshots :
            /\ SameLoad(snapshot'[s], snapshot[s])
            /\ snapshot'[s].references = snapshot[s].references
            /\ snapshot'[s].retired <=> snapshot[s].retired \/ cached = s
            /\ snapshot'[s].open <=> Readers(s) # {}
  BY <1>1, InvalidateSummary
<1>3. \A s \in Snapshots : Readers(s)' = Readers(s)
  BY <1>1, ClientAssumption DEF Readers, Calls, Positions
<1>4. ClientTypeOK'
  BY <1>1, <1>2 DEF ClientTypeOK
<1>5. Positions'
  BY <1>1, ClientAssumption DEF Positions, Calls
<1>6. Counted'
  BY <1>2, <1>3, ClientAssumption DEF Counted
<1>7. Held'
  <2>1. \A s \in Snapshots : cached' = s <=> snapshot'[s].state = "loaded" /\ ~snapshot'[s].retired
    BY <1>2, ClientAssumption DEF Held, SameLoad
  <2>2. ASSUME NEW c \in Calls, pc'[c] \in {"checking", "reading", "waiting"}
        PROVE  pc'[c] = pc[c] /\ on[c] \in Snapshots
    BY <2>2, <1>1 DEF Positions, ClientTypeOK
  <2> QED
    BY <1>1, <1>2, <2>1, <2>2 DEF Held, SameLoad
<1>8. InFlight'
  <2>1. ASSUME NEW c \in Calls, pc'[c] \in {"reading", "waiting"} \/ pc[c] \in {"reading", "waiting"}
        PROVE  pc'[c] = pc[c]
    BY <2>1, <1>1
  <2>2. Reads \subseteq Calls
    BY DEF Calls
  <2>3. load # None => load \in Snapshots
    BY DEF ClientTypeOK
  <2> QED
    BY <1>1, <1>2, <2>1, <2>2, <2>3 DEF InFlight, SameLoad
<1>9. Drained'
  BY <1>1, <1>2 DEF Drained
<1> QED
  BY <1>4, <1>5, <1>6, <1>7, <1>8, <1>9

\* The steps of a load between its begin and its end change its locals only.
LEMMA LoadGoesOn ==
  ASSUME IInv,
         (\E f \in Files : LoadStat(f)) \/ LoadManifest \/ LoadAgrees \/ LoadRetries
  PROVE  IInv'
<1> USE DEF IInv
<1>1. /\ UNCHANGED <<manifests, writer, pc, on, seen, snapshot, cached, load, known, floor,
                     epoch, client, draining>>
      /\ loading' \in Loadings /\ loading.phase # "none" /\ loading'.phase # "none"
  <2>1. ASSUME NEW f \in Files, LoadStat(f) PROVE <1>1!:
    <3>1. manifests[f] \in Versions /\ loading.before \in Partial /\ loading.after \in Partial
      BY DEF ClientTypeOK, Loadings, Fingerprints
    <3>2. [loading.before EXCEPT ![f] = manifests[f]] \in Partial
          /\ [loading.after EXCEPT ![f] = manifests[f]] \in Partial
      BY <3>1 DEF Partial
    <3> QED
      BY <2>1, <3>2 DEF LoadStat, ClientTypeOK, Loadings, unchangedDisk, unchangedClient
  <2>2. ASSUME LoadManifest PROVE <1>1!:
    BY <2>2 DEF LoadManifest, ClientTypeOK, Loadings, unchangedDisk, unchangedClient, Fingerprints, Files
  <2>3. ASSUME LoadAgrees PROVE <1>1!:
    BY <2>3 DEF LoadAgrees, AfterRead, ClientTypeOK, Loadings, unchangedDisk, unchangedClient
  <2>4. ASSUME LoadRetries PROVE <1>1!:
    <3>1. loading.attempt + 1 \in 0 .. MaxAttempts /\ loading.epoch \in Nat
      BY <2>4 DEF LoadRetries, ClientTypeOK, Loadings, MaxAttempts
    <3>2. loading' \in Loadings /\ loading'.phase # "none"
      BY <2>4, <3>1, AttemptType DEF LoadRetries, Attempt
    <3> QED
      BY <2>4, <3>2 DEF LoadRetries, AfterRead, unchangedDisk, unchangedClient
  <2> QED
    BY <2>1, <2>2, <2>3, <2>4
<1>2. ClientTypeOK'
  BY <1>1 DEF ClientTypeOK
<1>3. Counted'
  BY <1>1, ReadersSame DEF Counted
<1> QED
  BY <1>1, <1>2, <1>3 DEF Positions, Held, InFlight, Drained

\* A load ends with a failed entry, with that of the client, or with a retired one.
LEMMA LoadDone ==
  ASSUME IInv, loading.phase # "none", NEW e \in SnapshotEntries,
         snapshot' = [snapshot EXCEPT ![load] = e], loading' = NoLoad,
         e.state \in {"loaded", "failed"}, e.references = 0,
         cached' \in {cached, load},
         e.open <=> cached' = load,
         cached' = load <=> e.state = "loaded" /\ ~e.retired,
         UNCHANGED <<manifests, writer, pc, on, seen, load, known, floor, epoch, client, draining>>
  PROVE  IInv'
<1> USE DEF IInv
<1>1. /\ load \in Snapshots /\ cached = None /\ snapshot[load].state = "loading"
      /\ ~snapshot[load].retired
      /\ snapshot'[load] = e /\ \A s \in Snapshots : s # load => snapshot'[s] = snapshot[s]
  BY DEF InFlight, ClientTypeOK
<1>2. Readers(load) = {}
  BY DEF InFlight, Readers
<1>3. NoLoad \in Loadings /\ NoLoad.phase = "none"
  BY DEF NoLoad, Loadings, Partial, Unread, MaxAttempts
<1>4. \A s : Readers(s)' = Readers(s)
  BY ReadersSame
<1>5. ClientTypeOK'
  BY <1>1, <1>3 DEF ClientTypeOK
<1>6. Positions'
  BY DEF Positions
<1>7. Counted'
  <2> SUFFICES ASSUME NEW s \in Snapshots
               PROVE  /\ snapshot'[s].references = Cardinality(Readers(s))
                      /\ snapshot'[s].open <=> cached' = s \/ Readers(s) # {}
    BY <1>4 DEF Counted
  <2>1. CASE s = load
    BY <2>1, <1>1, <1>2, FS_EmptySet
  <2>2. CASE s # load
    BY <2>2, <1>1, ClientAssumption DEF Counted
  <2> QED
    BY <2>1, <2>2
<1>8. Held'
  BY <1>1, ClientAssumption DEF Held, ClientTypeOK, Positions
<1>9. InFlight'
  BY <1>1, <1>3 DEF InFlight, ClientTypeOK
<1>10. Drained'
  BY <1>1, <1>2, ClientAssumption DEF Drained, InFlight, ClientTypeOK, Calls
<1> QED
  BY <1>5, <1>6, <1>7, <1>8, <1>9, <1>10

LEMMA LoadFailsKeeps ==
  ASSUME IInv, LoadFails
  PROVE  IInv'
<1> USE DEF IInv
<1>1. /\ load \in Snapshots /\ cached = None /\ snapshot[load] \in SnapshotEntries
      /\ snapshot[load].state = "loading" /\ loading.phase # "none" /\ load # None
  BY DEF LoadFails, InFlight, ClientTypeOK
<1>2. snapshot[load].references = 0 /\ ~snapshot[load].open
  <2>1. Readers(load) = {}
    BY <1>1 DEF InFlight, Readers
  <2> QED
    BY <1>1, <2>1, FS_EmptySet, ClientAssumption DEF Counted
<1> DEFINE e == [snapshot[load] EXCEPT !.state = "failed"]
<1>3. /\ e \in SnapshotEntries /\ e.state = "failed" /\ e.references = 0 /\ ~e.open
  BY <1>1, <1>2 DEF SnapshotEntries
<1>4. snapshot' = [snapshot EXCEPT ![load] = e]
  BY DEF LoadFails
<1> HIDE DEF e
<1>5. /\ loading' = NoLoad /\ cached' = cached
      /\ UNCHANGED <<manifests, writer, pc, on, seen, load, known, floor, epoch, client, draining>>
  BY DEF LoadFails, unchangedDisk, unchangedClient
<1> QED
  BY <1>1, <1>3, <1>4, <1>5, LoadDone

LEMMA LoadEndsKeeps ==
  ASSUME IInv, LoadEnds
  PROVE  IInv'
<1>1. /\ loading.phase # "none" /\ loading' = NoLoad
      /\ UNCHANGED <<manifests, writer, pc, on, seen, load, known, floor, epoch, client, draining>>
  BY DEF LoadEnds, unchangedDisk, unchangedClient
<1>2. load # None /\ cached = None
  BY <1>1 DEF IInv, InFlight
<1>3. /\ Loaded \in SnapshotEntries /\ Loaded.state = "loaded" /\ Loaded.references = 0
      /\ ~Loaded.retired /\ Loaded.open
  BY LoadedEntry DEF IInv
<1>4. /\ Retired(Loaded) \in SnapshotEntries /\ Retired(Loaded).state = "loaded"
      /\ Retired(Loaded).references = 0 /\ Retired(Loaded).retired /\ ~Retired(Loaded).open
  BY <1>3, RetiredEntry DEF SameLoad
<1>5. CASE cached' = load /\ snapshot' = [snapshot EXCEPT ![load] = Loaded]
  BY <1>1, <1>3, <1>5, LoadDone
<1>6. CASE cached' = cached /\ snapshot' = [snapshot EXCEPT ![load] = Retired(Loaded)]
  BY <1>1, <1>2, <1>4, <1>6, LoadDone
<1> QED
  BY <1>5, <1>6 DEF LoadEnds

LEMMA LoadClearedKeeps ==
  ASSUME IInv, LoadCleared
  PROVE  IInv'
<1> USE DEF IInv
<1>1. /\ load # None /\ loading.phase = "none" /\ load' = None
      /\ UNCHANGED <<manifests, writer, pc, on, seen, snapshot, cached, loading, known, floor,
                     epoch, client, draining>>
  BY DEF LoadCleared, unchangedDisk, unchangedClient
<1>2. ClientTypeOK'
  BY <1>1 DEF ClientTypeOK
<1>3. Counted'
  BY <1>1, ReadersSame DEF Counted
<1>4. Held'
  BY <1>1 DEF Held, InFlight
<1> QED
  BY <1>1, <1>2, <1>3, <1>4 DEF Positions, InFlight, Drained

LEMMA CloseKeeps ==
  ASSUME IInv, Close
  PROVE  IInv'
<1> USE DEF IInv
<1>1. /\ client' = "closing" /\ draining' = {c \in Calls : pc[c] \notin {"idle", "settled"}}
      /\ UNCHANGED <<manifests, writer, pc, on, seen, snapshot, cached, load, loading, known, floor, epoch>>
  BY DEF Close, unchangedDisk
<1>2. ClientTypeOK'
  BY <1>1 DEF ClientTypeOK
<1>3. Counted'
  BY <1>1, ReadersSame DEF Counted
<1> QED
  BY <1>1, <1>2, <1>3 DEF Positions, Held, InFlight, Drained

LEMMA StutterKeeps ==
  ASSUME IInv, UNCHANGED clientVars
  PROVE  IInv'
<1>1. Counted'
  BY ReadersSame DEF IInv, Counted, clientVars
<1> QED
  BY <1>1 DEF IInv, clientVars, ClientTypeOK, Positions, Held, InFlight, Drained

-----------------------------------------------------------------------------
(* The theorems.                                                            *)

LEMMA Inductive == IInv /\ [ClientNext]_clientVars => IInv'
<1> SUFFICES ASSUME IInv, [ClientNext]_clientVars PROVE IInv'
  OBVIOUS
<1>1. ASSUME NEW w \in Ingests \cup {Others}, NEW f \in Files, WriteManifest(w, f) PROVE IInv'
  BY <1>1, WritesKeep
<1>2. ASSUME ManifestNotWritten PROVE IInv'
  BY <1>2, WritesKeep
<1>3. ASSUME NEW c \in Calls, CallRead(c) PROVE IInv'
  BY <1>3, CallReadKeeps
<1>4. ASSUME NEW c \in Calls, CheckFails(c) \/ IngestFails(c) PROVE IInv'
  BY <1>4, FailuresKeep
<1>5. ASSUME NEW c \in Calls, CallIngest(c) PROVE IInv'
  BY <1>5, CallIngestKeeps
<1>6. ASSUME NEW c \in Calls, CheckResumes(c) PROVE IInv'
  BY <1>6, CheckResumesKeeps
<1>7. ASSUME NEW c \in Calls, LoadAwaited(c) PROVE IInv'
  BY <1>7, LoadAwaitedKeeps
<1>8. ASSUME NEW c \in Calls, EndRead(c) PROVE IInv'
  BY <1>8, EndReadKeeps
<1>9. ASSUME NEW c \in Calls, EndIngest(c) PROVE IInv'
  BY <1>9, InvalidationsKeep
<1>10. ASSUME NEW c \in Calls, NEW f \in Files, CheckStat(c, f) PROVE IInv'
  BY <1>10, CheckStatKeeps
<1>11. ASSUME (\E f \in Files : LoadStat(f)) \/ LoadManifest \/ LoadAgrees \/ LoadRetries
       PROVE IInv'
  BY <1>11, LoadGoesOn
<1>12. ASSUME LoadFails PROVE IInv'
  BY <1>12, LoadFailsKeeps
<1>13. ASSUME LoadEnds PROVE IInv'
  BY <1>13, LoadEndsKeeps
<1>14. ASSUME LoadCleared PROVE IInv'
  BY <1>14, LoadClearedKeeps
<1>15. ASSUME Close PROVE IInv'
  BY <1>15, CloseKeeps
<1>16. ASSUME CloseEnds PROVE IInv'
  BY <1>16, InvalidationsKeep
<1>17. ASSUME UNCHANGED clientVars PROVE IInv'
  BY <1>17, StutterKeeps
<1> QED
  BY <1>1, <1>2, <1>3, <1>4, <1>5, <1>6, <1>7, <1>8, <1>9, <1>10, <1>11, <1>12, <1>13,
     <1>14, <1>15, <1>16, <1>17 DEF ClientNext

\* Each table of the client is open exactly while it is used, none is closed under a
\* read or leaked, and nothing outlives close(), for any number of calls, of entries
\* and of manifest writes (client.ts: retain-, retire- and closeRetiredIndexSnapshot).
THEOREM SnapshotsSafe == ClientSpec => []SnapshotsSound
<1>1. IInv => SnapshotsSound
  <2> SUFFICES ASSUME IInv PROVE SnapshotsSound
    OBVIOUS
  <2>1. OpenWhileUsed
    BY DEF IInv, Counted, Readers, OpenWhileUsed
  <2>2. NothingOutlivesClose
    <3> SUFFICES ASSUME client = "closed" PROVE NothingOutlivesClose
      BY DEF NothingOutlivesClose
    <3>1. cached = None /\ \A c \in Calls : pc[c] \in {"idle", "settled"}
      BY DEF IInv, Drained
    <3>2. load = None /\ loading.phase = "none"
      BY <3>1 DEF IInv, InFlight, Calls
    <3>3. \A s \in Snapshots : ~snapshot[s].open
      BY <3>1, ClientAssumption DEF IInv, Counted, Readers, Calls
    <3> QED
      BY <3>1, <3>2, <3>3 DEF NothingOutlivesClose
  <2> QED
    BY <2>1, <2>2 DEF SnapshotsSound, IInv
<1> QED
  BY <1>1, InitInv, Inductive, PTL DEF ClientSpec

-----------------------------------------------------------------------------
(* Freshness: what the history variables know of the versions on disk.      *)

Floors ==
    /\ known <= manifests["canonical"]
    /\ \A c \in Calls : floor[c] <= manifests["canonical"]
    /\ load # None => \A c \in Calls : floor[c] <= known

\* A load that was not overtaken by an invalidation finds what was known when it
\* began, or later, and the table it opens is that of its fingerprint.
LoadFresh ==
    /\ loading.epoch <= epoch
    /\ loading.phase \notin {"none", "before"} => loading.before["canonical"] # None
    /\ loading.before["canonical"] # None =>
          /\ loading.epoch = epoch => known <= loading.before["canonical"]
          /\ loading.before["canonical"] <= manifests["canonical"]
    /\ loading.phase \in {"after", "table"} =>
          /\ loading.generation \in Versions
          /\ loading.before["canonical"] <= loading.generation
          /\ loading.generation <= manifests["canonical"]
          /\ loading.after["canonical"] # None =>
                loading.generation <= loading.after["canonical"]
    /\ loading.phase \notin {"after", "table"} => loading.after["canonical"] = None
    /\ loading.phase = "table" =>
          loading.before["canonical"] = loading.after["canonical"]

EntriesFresh ==
    \A s \in Snapshots : snapshot[s].state = "loaded" =>
        /\ snapshot[s].generation \in Versions
        /\ snapshot[s].generation = snapshot[s].fingerprint["canonical"]

ChecksFresh ==
    \A c \in Reads : pc[c] = "checking" /\ seen[c]["canonical"] # None =>
        floor[c] <= seen[c]["canonical"]

WaitsFresh ==
    \A c \in Reads :
        pc[c] = "waiting" /\ snapshot[on[c]].state = "loaded" /\ ~snapshot[on[c]].retired =>
        floor[c] <= snapshot[on[c]].generation

FreshInv == Floors /\ LoadFresh /\ EntriesFresh /\ ChecksFresh /\ WaitsFresh /\ FreshEnough

\* Versions are numbers, and a call's snapshot is one.
LEMMA FreshTypes ==
  ASSUME IInv
  PROVE  /\ Versions \subseteq Nat /\ None \notin Versions /\ Reads \subseteq Calls
         /\ manifests["canonical"] \in Versions /\ known \in Versions
         /\ floor \in [Calls -> Versions] /\ epoch \in Nat /\ loading.epoch \in Nat
         /\ loading.before \in [Files -> Versions \cup {None}]
         /\ loading.after \in [Files -> Versions \cup {None}]
         /\ loading.before["canonical"] \in Versions \cup {None}
         /\ loading.after["canonical"] \in Versions \cup {None}
         /\ seen \in [Calls -> [Files -> Versions \cup {None}]]
         /\ snapshot \in [Snapshots -> SnapshotEntries]
         /\ \A c \in Reads : pc[c] \in {"checking", "waiting", "reading"} => on[c] \in Snapshots
  BY ClientAssumption
     DEF IInv, ClientTypeOK, Positions, Versions, Fingerprints, Files, Calls, Loadings, Partial

LEMMA FreshInit == ClientInit => FreshInv
  BY ClientAssumption
     DEF ClientInit, FreshInv, Floors, LoadFresh, EntriesFresh, ChecksFresh, WaitsFresh, FreshEnough,
         NoLoad, NoSnapshot, Calls, Files, Unread

\* A turn of the loop: the call waits for a load that finds at least what was there
\* when the call was made.
LEMMA SeekFresh ==
  ASSUME IInv, IInv', FreshInv, NEW c, Seeking(c), NEW current, cached' = current,
         current = cached \/ (current = None /\ on[c] = cached),
         NEW entries, Before(current, entries), Seek(c, current, entries),
         UNCHANGED <<manifests, epoch>>,
         floor'[c] <= manifests["canonical"], load # None => floor'[c] <= known,
         \A d \in Calls : d # c => floor'[d] = floor[d]
  PROVE  FreshInv'
<1> USE DEF FreshInv
<1>t. c \in Reads /\ c \in Calls
  BY DEF Seeking, Calls
<1>1. /\ pc' \in {[pc EXCEPT ![c] = "checking"], [pc EXCEPT ![c] = "waiting"]}
      /\ seen' = [seen EXCEPT ![c] = Unread]
      /\ \E s : on' = [on EXCEPT ![c] = s]
  BY SeekSummary
<1>2. /\ \A d \in Reads : pc'[d] = "reading" => pc[d] = "reading" /\ d # c
      /\ \A d \in Calls : d # c => pc'[d] = pc[d] /\ on'[d] = on[d] /\ seen'[d] = seen[d]
      /\ pc'[c] \in {"checking", "waiting"} /\ seen'[c] = Unread
  BY <1>t, <1>1 DEF IInv, ClientTypeOK, Calls
<1>3. \/ UNCHANGED <<load, loading, known>>
      \/ load = None /\ known' = manifests["canonical"] /\ loading' = Attempt(1, epoch)
  BY DEF Seek
<1>4. \A s \in Snapshots : snapshot'[s].state = "loaded" =>
         /\ SameLoad(snapshot'[s], snapshot[s])
         /\ ~snapshot'[s].retired => ~snapshot[s].retired
  <2>1. CASE snapshot' = entries
    BY <2>1 DEF Before
  <2>2. CASE /\ snapshot' = [entries EXCEPT ![NewObject] = Began]
             /\ NewObject \in Snapshots
    BY <2>2, BeganEntry DEF Before
  <2> QED
    BY <2>1, <2>2, SeekSummary
<1>5. Floors'
  BY <1>t, <1>3, FreshTypes DEF Floors
<1>6. LoadFresh'
  BY <1>3, FreshTypes DEF LoadFresh, Attempt, Unread, Files
<1>7. EntriesFresh'
  BY <1>4 DEF EntriesFresh, SameLoad
<1>8. ChecksFresh'
  BY <1>t, <1>2 DEF ChecksFresh, Unread, Files, Calls
<1>9. WaitsFresh'
  <2> SUFFICES ASSUME NEW d \in Reads, pc'[d] = "waiting", snapshot'[on'[d]].state = "loaded",
                      ~snapshot'[on'[d]].retired
               PROVE  floor'[d] <= snapshot'[on'[d]].generation
    BY DEF WaitsFresh
  <2>1. on'[d] \in Snapshots
    BY FreshTypes, ClientAssumption DEF IInv, ClientTypeOK, Positions, Calls
  <2>2. CASE d = c
    <3>1. cached' = on'[c]
      BY <2>1, <2>2 DEF IInv, Held
    <3>2. on'[c] # None
      BY <2>1, <2>2, ClientAssumption
    <3>3. current # None /\ pc' = [pc EXCEPT ![c] = "checking"]
      BY <3>1, <3>2, SeekSummary
    <3> QED
      BY <1>t, <2>2, <3>3 DEF IInv, ClientTypeOK
  <2>3. CASE d # c
    BY <1>2, <1>4, <2>1, <2>3 DEF WaitsFresh, SameLoad, Calls
  <2> QED
    BY <2>2, <2>3
<1>10. FreshEnough'
  <2> SUFFICES ASSUME NEW d \in Reads, pc'[d] = "reading"
               PROVE  snapshot'[on'[d]].generation >= floor'[d]
    BY DEF FreshEnough
  <2>1. d # c /\ pc[d] = "reading" /\ on'[d] = on[d] /\ floor'[d] = floor[d] /\ on[d] \in Snapshots
    BY <1>2, FreshTypes DEF Calls
  <2>2. snapshot'[on'[d]].state = "loaded"
    BY DEF IInv, Held, Calls
  <2> QED
    BY <1>4, <2>1, <2>2 DEF FreshEnough, SameLoad
<1> QED
  BY <1>5, <1>6, <1>7, <1>8, <1>9, <1>10

\* Steps that leave each reader, waiter and loaded entry with what it had.
LEMMA FreshCalls ==
  ASSUME IInv, IInv', FreshInv, floor' = floor,
         \A c \in Reads : pc'[c] = "checking" =>
            pc[c] = "checking" /\ seen'[c]["canonical"] = seen[c]["canonical"],
         \A c \in Reads : pc'[c] = "waiting" => pc[c] = "waiting" /\ on'[c] = on[c],
         \A c \in Reads : pc'[c] = "reading" => pc[c] = "reading" /\ on'[c] = on[c],
         \A s \in Snapshots : snapshot'[s].state = "loaded" =>
            /\ SameLoad(snapshot'[s], snapshot[s])
            /\ ~snapshot'[s].retired => ~snapshot[s].retired
  PROVE  EntriesFresh' /\ ChecksFresh' /\ WaitsFresh' /\ FreshEnough'
<1> USE DEF FreshInv
<1>1. EntriesFresh'
  BY DEF EntriesFresh, SameLoad
<1>2. ChecksFresh'
  BY DEF ChecksFresh
<1>3. WaitsFresh'
  BY FreshTypes DEF WaitsFresh, SameLoad
<1>4. FreshEnough'
  <2> SUFFICES ASSUME NEW d \in Reads, pc'[d] = "reading"
               PROVE  snapshot'[on'[d]].generation >= floor'[d]
    BY DEF FreshEnough
  <2>1. snapshot'[on'[d]].state = "loaded"
    BY DEF IInv, Held, Calls
  <2> QED
    BY <2>1, FreshTypes DEF FreshEnough, SameLoad
<1> QED
  BY <1>1, <1>2, <1>3, <1>4

\* A call that retains a snapshot reads what was there when it was made, or later.
LEMMA RetainFresh ==
  ASSUME IInv, IInv', FreshInv, NEW c \in Reads, on[c] # None, Retain(c, on[c]),
         floor[c] <= snapshot[on[c]].generation,
         UNCHANGED <<manifests, floor, epoch>>
  PROVE  FreshInv'
<1> USE DEF FreshInv
<1>s. PICK s : s = on[c]
  OBVIOUS
<1>1. c \in Calls /\ s \in Snapshots
  BY <1>s DEF IInv, ClientTypeOK, Calls
<1>2. /\ pc' = [pc EXCEPT ![c] = "reading"] /\ on' = on
      /\ seen' = [seen EXCEPT ![c] = Unread] /\ UNCHANGED <<load, loading, known>>
      /\ snapshot' = [snapshot EXCEPT ![s] = Retained(snapshot[s])]
  BY <1>s, <1>1 DEF Retain, IInv, ClientTypeOK
<1>3. \A t \in Snapshots : /\ SameLoad(snapshot'[t], snapshot[t])
                           /\ snapshot'[t].retired = snapshot[t].retired
  <2>1. snapshot'[s] = Retained(snapshot[s]) /\ snapshot[s] \in SnapshotEntries
    BY <1>1, <1>2 DEF IInv, ClientTypeOK
  <2>2. \A t \in Snapshots : t # s => snapshot'[t] = snapshot[t]
    BY <1>2 DEF IInv, ClientTypeOK
  <2> QED
    BY <2>1, <2>2, RetainedEntry DEF SameLoad
<1>4. \A d \in Reads : d # c => pc'[d] = pc[d] /\ seen'[d] = seen[d]
  BY <1>2 DEF IInv, ClientTypeOK, Calls
<1>5. pc'[c] = "reading"
  BY <1>1, <1>2 DEF IInv, ClientTypeOK
<1>6. Floors' /\ LoadFresh'
  BY <1>2 DEF Floors, LoadFresh
<1>7. EntriesFresh'
  BY <1>3 DEF EntriesFresh, SameLoad
<1>8. ChecksFresh'
  BY <1>4, <1>5 DEF ChecksFresh
<1>9. WaitsFresh'
  BY <1>2, <1>3, <1>4, <1>5, FreshTypes DEF WaitsFresh, SameLoad
<1>10. FreshEnough'
  <2> SUFFICES ASSUME NEW d \in Reads, pc'[d] = "reading"
               PROVE  snapshot'[on'[d]].generation >= floor'[d]
    BY DEF FreshEnough
  <2>1. snapshot'[on'[d]].state = "loaded" /\ on'[d] \in Snapshots
    BY FreshTypes, ClientAssumption DEF IInv, Held, Calls, ClientTypeOK, Positions
  <2>2. snapshot'[on[d]].generation = snapshot[on[d]].generation /\ on'[d] = on[d]
        /\ snapshot[on[d]].generation \in Versions /\ floor[d] \in Versions
    BY <1>2, <1>3, <2>1, FreshTypes DEF SameLoad, EntriesFresh
  <2> QED
    BY <1>4, <2>2, FreshTypes DEF FreshEnough
<1> QED
  BY <1>6, <1>7, <1>8, <1>9, <1>10

LEMMA CallReadFresh ==
  ASSUME IInv, IInv', FreshInv, NEW c \in Calls, CallRead(c)
  PROVE  FreshInv'
<1>1. Seeking(c) /\ cached' = cached /\ Seek(c, cached, snapshot) /\ UNCHANGED <<manifests, epoch>>
  BY DEF CallRead, Seeking, unchangedDisk, unchangedClient
<1>2. /\ floor'[c] <= manifests["canonical"]
      /\ load # None => floor'[c] <= known
      /\ \A d \in Calls : d # c => floor'[d] = floor[d]
  BY FreshTypes DEF CallRead, FreshInv, Floors
<1> QED
  BY <1>1, <1>2, BeforeNow, SeekFresh

LEMMA CheckResumesFresh ==
  ASSUME IInv, IInv', FreshInv, NEW c \in Calls, CheckResumes(c)
  PROVE  FreshInv'
<1>1. /\ UNCHANGED <<manifests, floor, epoch>> /\ Seeking(c) /\ c \in Reads /\ on[c] \in Snapshots
      /\ pc[c] = "checking" /\ seen[c]["canonical"] # None
  BY FreshTypes
     DEF CheckResumes, unchangedDisk, unchangedClient, Seeking, IInv, Positions, Calls, Files
<1>2. /\ floor'[c] <= manifests["canonical"]
      /\ load # None => floor'[c] <= known
      /\ \A d \in Calls : d # c => floor'[d] = floor[d]
  BY <1>1 DEF FreshInv, Floors
<1>3. CASE seen[c] = snapshot[on[c]].fingerprint /\ Retain(c, on[c])
  <2>1. snapshot[on[c]].state = "loaded"
    BY <1>1 DEF IInv, Held, Calls
  <2>2. floor[c] <= snapshot[on[c]].generation
    BY <1>1, <1>3, <2>1 DEF FreshInv, ChecksFresh, EntriesFresh
  <2> QED
    BY <1>1, <1>3, <2>2, RetainFresh, ClientAssumption
<1>4. CASE /\ cached = on[c] /\ cached' = None
           /\ Seek(c, None, [snapshot EXCEPT ![cached] = Retired(@)])
  <2>1. cached # None
    BY <1>1, <1>4, ClientAssumption
  <2> QED
    BY <1>1, <1>2, <1>4, <2>1, BeforeRetired, SeekFresh
<1>5. CASE Seek(c, cached, snapshot) /\ cached' = cached
  BY <1>1, <1>2, <1>5, BeforeNow, SeekFresh
<1> QED
  BY <1>3, <1>4, <1>5 DEF CheckResumes

LEMMA LoadAwaitedFresh ==
  ASSUME IInv, IInv', FreshInv, NEW c \in Calls, LoadAwaited(c)
  PROVE  FreshInv'
<1>1. /\ UNCHANGED <<manifests, floor, epoch, cached>> /\ Seeking(c) /\ c \in Reads
      /\ on[c] \in Snapshots /\ pc[c] = "waiting"
  BY FreshTypes
     DEF LoadAwaited, unchangedDisk, unchangedClient, Seeking, IInv, Positions, Calls
<1>2. /\ floor'[c] <= manifests["canonical"]
      /\ load # None => floor'[c] <= known
      /\ \A d \in Calls : d # c => floor'[d] = floor[d]
  BY <1>1 DEF FreshInv, Floors
<1>3. CASE Settle(c) /\ UNCHANGED <<snapshot, load, loading, known>>
  <2>1. Floors' /\ LoadFresh'
    BY <1>1, <1>3 DEF FreshInv, Floors, LoadFresh
  <2>2. \A d \in Reads : /\ d # c => pc'[d] = pc[d] /\ on'[d] = on[d] /\ seen'[d] = seen[d]
                         /\ pc'[c] = "settled"
    BY <1>1, <1>3 DEF Settle, IInv, ClientTypeOK, Calls
  <2>3. EntriesFresh' /\ ChecksFresh' /\ WaitsFresh' /\ FreshEnough'
    BY <1>1, <1>3, <2>2, FreshCalls DEF SameLoad
  <2> QED
    BY <2>1, <2>3 DEF FreshInv
<1>4. CASE snapshot[on[c]].state = "loaded" /\ ~snapshot[on[c]].retired /\ Retain(c, on[c])
  <2>1. floor[c] <= snapshot[on[c]].generation
    BY <1>1, <1>4 DEF FreshInv, WaitsFresh
  <2> QED
    BY <1>1, <1>4, <2>1, RetainFresh, ClientAssumption
<1>5. CASE Seek(c, cached, snapshot)
  BY <1>1, <1>2, <1>5, BeforeNow, SeekFresh
<1> QED
  BY <1>3, <1>4, <1>5 DEF LoadAwaited

LEMMA WritesFresh ==
  ASSUME IInv, IInv', FreshInv,
         \/ \E w \in Ingests \cup {Others}, f \in Files : WriteManifest(w, f)
         \/ ManifestNotWritten
  PROVE  FreshInv'
<1>1. UNCHANGED <<pc, on, seen, snapshot, cached, load, loading, known, floor, epoch>>
  BY DEF WriteManifest, ManifestNotWritten, unchangedClient
<1>2. manifests["canonical"] <= manifests'["canonical"]
  <2>1. manifests \in [Files -> Versions] /\ "canonical" \in Files
    BY DEF IInv, ClientTypeOK, Fingerprints, Files
  <2>2. ASSUME NEW f \in Files, manifests' = [manifests EXCEPT ![f] = @ + 1]
        PROVE  manifests["canonical"] <= manifests'["canonical"]
    BY <2>1, <2>2, FreshTypes
  <2> QED
    BY <2>1, <2>2, FreshTypes DEF WriteManifest, ManifestNotWritten
<1>3. manifests'["canonical"] \in Nat
  BY FreshTypes DEF IInv, ClientTypeOK, Fingerprints, Files
<1>4. Floors'
  BY <1>1, <1>2, <1>3, FreshTypes DEF FreshInv, Floors
<1>5. LoadFresh'
  BY <1>1, <1>2, <1>3, FreshTypes DEF FreshInv, LoadFresh
<1>6. EntriesFresh' /\ ChecksFresh' /\ WaitsFresh' /\ FreshEnough'
  BY <1>1, FreshCalls DEF SameLoad
<1> QED
  BY <1>4, <1>5, <1>6 DEF FreshInv

LEMMA CheckStatFresh ==
  ASSUME IInv, IInv', FreshInv, NEW c \in Calls, NEW f \in Files, CheckStat(c, f)
  PROVE  FreshInv'
<1>1. UNCHANGED <<manifests, pc, on, snapshot, cached, load, loading, known, floor, epoch>>
  BY DEF CheckStat, unchangedDisk, unchangedClient
<1>2. Floors' /\ LoadFresh' /\ EntriesFresh' /\ WaitsFresh' /\ FreshEnough'
  BY <1>1 DEF FreshInv, Floors, LoadFresh, EntriesFresh, WaitsFresh, FreshEnough
<1>3. ChecksFresh'
  <2> SUFFICES ASSUME NEW d \in Reads, pc[d] = "checking", seen'[d]["canonical"] # None
               PROVE  floor[d] <= seen'[d]["canonical"]
    BY <1>1 DEF ChecksFresh
  <2>1. seen' = [seen EXCEPT ![c] = [seen[c] EXCEPT ![f] = manifests[f]]]
    BY DEF CheckStat
  <2>2. seen'[d]["canonical"] = IF d = c /\ f = "canonical" THEN manifests["canonical"]
                                ELSE seen[d]["canonical"]
    BY <2>1, FreshTypes DEF Files
  <2> QED
    BY <2>2, FreshTypes DEF FreshInv, ChecksFresh, Floors
<1> QED
  BY <1>2, <1>3 DEF FreshInv

\* Steps of the calls that look for no snapshot.
LEMMA OthersFresh ==
  ASSUME IInv, IInv', FreshInv,
         NEW c \in Calls, CheckFails(c) \/ IngestFails(c) \/ CallIngest(c) \/ EndRead(c)
  PROVE  FreshInv'
<1>1. UNCHANGED <<manifests, cached, load, loading, known, floor, epoch>>
  BY DEF CheckFails, IngestFails, CallIngest, EndRead, unchangedDisk, unchangedClient
<1>2. Floors' /\ LoadFresh'
  BY <1>1 DEF FreshInv, Floors, LoadFresh
<1>3. \A d \in Calls : d # c => pc'[d] = pc[d] /\ on'[d] = on[d] /\ seen'[d] = seen[d]
  BY DEF CheckFails, IngestFails, CallIngest, EndRead, Settle, IInv, ClientTypeOK
<1>4. pc'[c] \in {"settled", "ingesting"}
  BY DEF CheckFails, IngestFails, CallIngest, EndRead, Settle, IInv, ClientTypeOK
<1>5. \A s \in Snapshots : /\ SameLoad(snapshot'[s], snapshot[s])
                           /\ snapshot'[s].retired = snapshot[s].retired
  <2>1. CASE snapshot' = snapshot
    BY <2>1 DEF SameLoad
  <2>2. CASE EndRead(c)
    <3>1. PICK s : s = on[c]
      OBVIOUS
    <3>2. c \in Reads /\ s \in Snapshots /\ snapshot[s] \in SnapshotEntries /\ c \in Readers(s)
      BY <2>2, <3>1 DEF EndRead, IInv, ClientTypeOK, Positions, Calls, Readers
    <3>3. snapshot[s].references > 0
      <4>1. IsFiniteSet(Readers(s))
        BY FS_Subset, ClientAssumption DEF Readers
      <4>2. Cardinality(Readers(s)) \in Nat /\ Cardinality(Readers(s)) # 0
        BY <3>2, <4>1, FS_EmptySet, FS_CardinalityType
      <4> QED
        BY <3>2, <4>2 DEF IInv, Counted
    <3>4. snapshot' = [snapshot EXCEPT ![s] = Released(snapshot[s])]
      BY <2>2, <3>1 DEF EndRead
    <3>5. snapshot'[s] = Released(snapshot[s]) /\ \A t \in Snapshots : t # s => snapshot'[t] = snapshot[t]
      BY <3>2, <3>4 DEF IInv, ClientTypeOK
    <3> QED
      BY <3>2, <3>3, <3>5, ReleasedEntry DEF SameLoad
  <2> QED
    BY <2>1, <2>2 DEF CheckFails, IngestFails, CallIngest
<1>6. EntriesFresh' /\ ChecksFresh' /\ WaitsFresh' /\ FreshEnough'
  BY <1>1, <1>3, <1>4, <1>5, FreshCalls DEF Calls
<1> QED
  BY <1>2, <1>6 DEF FreshInv

\* An ingestion of this client ends: what a load in flight finds is not good enough.
LEMMA InvalidationsFresh ==
  ASSUME IInv, IInv', FreshInv, (\E c \in Calls : EndIngest(c)) \/ CloseEnds
  PROVE  FreshInv'
<1>1. /\ Invalidate /\ UNCHANGED <<manifests, load, loading, floor>>
      /\ known' \in {known, manifests["canonical"]}
  BY DEF EndIngest, CloseEnds, unchangedDisk
<1>2. /\ epoch' = epoch + 1
      /\ \A s \in Snapshots : /\ SameLoad(snapshot'[s], snapshot[s])
                              /\ ~snapshot'[s].retired => ~snapshot[s].retired
  BY <1>1, InvalidateSummary
<1>3. Floors'
  BY <1>1, FreshTypes DEF FreshInv, Floors
<1>4. LoadFresh'
  BY <1>1, <1>2, FreshTypes DEF FreshInv, LoadFresh
<1>5. \A c \in Reads : /\ pc'[c] = pc[c]
                       /\ pc[c] \in {"checking", "waiting", "reading"} => on'[c] = on[c] /\ seen'[c] = seen[c]
  <2>1. CASE CloseEnds
    BY <2>1 DEF CloseEnds
  <2>2. ASSUME NEW c \in Calls, EndIngest(c) PROVE <1>5!:
    BY <2>2 DEF EndIngest, Settle, IInv, Positions, ClientTypeOK, Calls
  <2> QED
    BY <2>1, <2>2
<1>6. EntriesFresh' /\ ChecksFresh' /\ WaitsFresh' /\ FreshEnough'
  BY <1>1, <1>2, <1>5, FreshCalls
<1> QED
  BY <1>3, <1>4, <1>6 DEF FreshInv

\* A load reads the files one after the other, while their versions only grow.
LEMMA LoadGoesOnFresh ==
  ASSUME IInv, IInv', FreshInv,
         (\E f \in Files : LoadStat(f)) \/ LoadManifest \/ LoadAgrees \/ LoadRetries
  PROVE  FreshInv'
<1>1. UNCHANGED <<manifests, pc, on, seen, snapshot, cached, load, known, floor, epoch>>
  BY DEF LoadStat, LoadManifest, LoadAgrees, LoadRetries, unchangedDisk, unchangedClient
<1>2. Floors' /\ EntriesFresh' /\ ChecksFresh' /\ WaitsFresh' /\ FreshEnough'
  BY <1>1 DEF FreshInv, Floors, EntriesFresh, ChecksFresh, WaitsFresh, FreshEnough
<1>3. LoadFresh'
  <2> USE DEF FreshInv, Floors, LoadFresh
  <2>t. loading \in Loadings /\ manifests["canonical"] \in Versions /\ manifests["canonical"] # None
    BY FreshTypes DEF IInv, ClientTypeOK
  <2>1. ASSUME NEW f \in Files, LoadStat(f) PROVE LoadFresh'
    <3>1. CASE /\ loading.phase = "before" /\ loading.before[f] = None
               /\ loading' = [loading EXCEPT !.before[f] = manifests[f],
                                !.phase = IF \E g \in Files \ {f} : loading.before[g] = None
                                          THEN "before" ELSE "manifest"]
      <4>1. /\ loading'.epoch = loading.epoch /\ loading'.phase \in {"before", "manifest"}
            /\ loading'.phase = "manifest" => \A g \in Files \ {f} : loading.before[g] # None
            /\ loading'.before = [loading.before EXCEPT ![f] = manifests[f]]
            /\ loading'.after = loading.after /\ loading.phase = "before"
        BY <2>t, <3>1 DEF Loadings
      <4>2. loading'.before["canonical"] = IF f = "canonical" THEN manifests["canonical"]
                                           ELSE loading.before["canonical"]
        BY <4>1, FreshTypes DEF Files
      <4> QED
        BY <1>1, <2>t, <4>1, <4>2, FreshTypes DEF Files
    <3>2. CASE /\ loading.phase = "after" /\ loading.after[f] = None
               /\ loading' = [loading EXCEPT !.after[f] = manifests[f]]
      <4>1. /\ loading'.epoch = loading.epoch /\ loading'.phase = "after"
            /\ loading'.before = loading.before /\ loading'.generation = loading.generation
            /\ loading'.after = [loading.after EXCEPT ![f] = manifests[f]]
        BY <2>t, <3>2 DEF Loadings
      <4>2. loading'.after["canonical"] = IF f = "canonical" THEN manifests["canonical"]
                                          ELSE loading.after["canonical"]
        BY <4>1, FreshTypes DEF Files
      <4> QED
        BY <1>1, <2>t, <3>2, <4>1, <4>2, FreshTypes DEF Files
    <3> QED
      BY <2>1, <3>1, <3>2 DEF LoadStat
  <2>2. ASSUME LoadManifest PROVE LoadFresh'
    <3>1. /\ loading.phase = "manifest" /\ loading'.phase = "after"
          /\ loading'.epoch = loading.epoch /\ loading'.before = loading.before
          /\ loading'.generation = manifests["canonical"] /\ loading'.after = loading.after
      BY <2>2, <2>t DEF LoadManifest, Loadings
    <3>2. loading.after["canonical"] = None
      BY <3>1
    <3> QED
      BY <1>1, <2>t, <3>1, <3>2, FreshTypes
  <2>3. ASSUME LoadAgrees PROVE LoadFresh'
    <3>1. /\ loading.phase = "after" /\ loading'.phase = "table"
          /\ loading.before = loading.after
          /\ loading'.epoch = loading.epoch /\ loading'.before = loading.before
          /\ loading'.generation = loading.generation /\ loading'.after = loading.after
      BY <2>3, <2>t DEF LoadAgrees, AfterRead, Loadings
    <3> QED
      BY <1>1, <2>t, <3>1, FreshTypes
  <2>4. ASSUME LoadRetries PROVE LoadFresh'
    BY <1>1, <2>4, <2>t, FreshTypes DEF LoadRetries, Attempt, Unread, Files
  <2> QED
    BY <2>1, <2>2, <2>3, <2>4
<1> QED
  BY <1>2, <1>3 DEF FreshInv

\* A load ends: the calls that wait for its entry find it new enough, or retired.
LEMMA LoadDoneFresh ==
  ASSUME IInv, IInv', FreshInv, LoadFails \/ LoadEnds \/ LoadCleared
  PROVE  FreshInv'
<1>1. UNCHANGED <<manifests, pc, on, seen, known, floor, epoch>>
  BY DEF LoadFails, LoadEnds, LoadCleared, unchangedDisk, unchangedClient
<1>2. load' \in {load, None} /\ loading' \in {loading, NoLoad}
  BY DEF LoadFails, LoadEnds, LoadCleared
<1>3. Floors'
  BY <1>1, <1>2 DEF FreshInv, Floors
<1>4. LoadFresh'
  BY <1>1, <1>2, FreshTypes DEF FreshInv, LoadFresh, NoLoad, Unread, Files
<1>5. CASE LoadCleared
  BY <1>1, <1>3, <1>4, <1>5 DEF FreshInv, LoadCleared, EntriesFresh, ChecksFresh, WaitsFresh, FreshEnough
<1>6. CASE LoadFails
  <2>1. \A s \in Snapshots : snapshot'[s].state = "loaded" => snapshot'[s] = snapshot[s]
    <3>1. snapshot' = [snapshot EXCEPT ![load] = [snapshot[load] EXCEPT !.state = "failed"]]
      BY <1>6 DEF LoadFails
    <3>2. load \in Snapshots => snapshot'[load].state = "failed"
      BY <3>1, FreshTypes DEF SnapshotEntries
    <3> QED
      BY <3>1, <3>2, FreshTypes
  <2> QED
    BY <1>1, <1>3, <1>4, <2>1, FreshCalls DEF FreshInv, SameLoad
<1>7. CASE LoadEnds
  <2>1. load \in Snapshots /\ loading.phase = "table"
    BY <1>7 DEF LoadEnds, IInv, InFlight, ClientTypeOK
  <2>2. PICK e \in SnapshotEntries : /\ snapshot' = [snapshot EXCEPT ![load] = e]
                                     /\ e.generation = loading.generation
                                     /\ e.fingerprint = loading.after
                                     /\ e.retired \/ loading.epoch = epoch
    <3>1. /\ Loaded \in SnapshotEntries /\ Loaded.generation = loading.generation
          /\ Loaded.fingerprint = loading.after
      BY LoadedEntry DEF IInv
    <3>2. /\ Retired(Loaded) \in SnapshotEntries /\ Retired(Loaded).generation = loading.generation
          /\ Retired(Loaded).fingerprint = loading.after /\ Retired(Loaded).retired
      BY <3>1, RetiredEntry DEF SameLoad
    <3> QED
      BY <1>7, <3>1, <3>2 DEF LoadEnds
  <2>3. snapshot'[load] = e /\ \A s \in Snapshots : s # load => snapshot'[s] = snapshot[s]
    BY <2>1, <2>2, FreshTypes
  <2>4. /\ e.generation \in Versions /\ e.generation = e.fingerprint["canonical"]
        /\ loading.epoch = epoch => known <= e.generation
    <3>1. /\ loading.before["canonical"] # None
          /\ loading.before["canonical"] = loading.after["canonical"]
      BY <2>1 DEF FreshInv, LoadFresh
    <3>2. /\ loading.generation \in Versions
          /\ loading.before["canonical"] <= loading.generation
          /\ loading.generation <= loading.after["canonical"]
          /\ loading.epoch = epoch => known <= loading.before["canonical"]
      BY <2>1, <3>1 DEF FreshInv, LoadFresh
    <3>3. loading.generation \in Nat /\ loading.after["canonical"] \in Nat
      BY <3>1, <3>2, FreshTypes
    <3>4. loading.generation = loading.after["canonical"]
      BY <3>1, <3>2, <3>3
    <3> QED
      BY <2>2, <3>1, <3>2, <3>4
  <2>5. EntriesFresh'
    BY <2>3, <2>4 DEF FreshInv, EntriesFresh
  <2>6. ChecksFresh'
    BY <1>1 DEF FreshInv, ChecksFresh
  <2>7. WaitsFresh'
    <3> SUFFICES ASSUME NEW c \in Reads, pc[c] = "waiting", snapshot'[on[c]].state = "loaded",
                        ~snapshot'[on[c]].retired
                 PROVE  floor[c] <= snapshot'[on[c]].generation
      BY <1>1 DEF WaitsFresh
    <3>1. on[c] \in Snapshots /\ c \in Calls
      BY FreshTypes
    <3>2. CASE on[c] = load
      <4>1. floor[c] <= known /\ known <= e.generation
        BY <2>1, <2>2, <2>3, <2>4, <3>1, <3>2, ClientAssumption DEF FreshInv, Floors
      <4> QED
        BY <2>3, <2>4, <3>1, <3>2, <4>1, FreshTypes
    <3>3. CASE on[c] # load
      BY <2>3, <3>1, <3>3 DEF FreshInv, WaitsFresh
    <3> QED
      BY <3>2, <3>3
  <2>8. FreshEnough'
    <3> SUFFICES ASSUME NEW c \in Reads, pc[c] = "reading"
                 PROVE  snapshot'[on[c]].generation >= floor[c]
      BY <1>1 DEF FreshEnough
    <3>1. on[c] \in Snapshots /\ on[c] # load
      BY <2>1, FreshTypes, ClientAssumption DEF IInv, InFlight
    <3> QED
      BY <2>3, <3>1 DEF FreshInv, FreshEnough
  <2> QED
    BY <1>3, <1>4, <2>5, <2>6, <2>7, <2>8 DEF FreshInv
<1> QED
  BY <1>5, <1>6, <1>7

LEMMA FreshInductive == IInv /\ IInv' /\ FreshInv /\ [ClientNext]_clientVars => FreshInv'
<1> SUFFICES ASSUME IInv, IInv', FreshInv, [ClientNext]_clientVars PROVE FreshInv'
  OBVIOUS
<1>1. ASSUME NEW w \in Ingests \cup {Others}, NEW f \in Files, WriteManifest(w, f) PROVE FreshInv'
  BY <1>1, WritesFresh
<1>2. ASSUME ManifestNotWritten PROVE FreshInv'
  BY <1>2, WritesFresh
<1>3. ASSUME NEW c \in Calls, CallRead(c) PROVE FreshInv'
  BY <1>3, CallReadFresh
<1>4. ASSUME NEW c \in Calls, CheckFails(c) \/ IngestFails(c) \/ CallIngest(c) \/ EndRead(c)
      PROVE  FreshInv'
  BY <1>4, OthersFresh
<1>5. ASSUME NEW c \in Calls, CheckResumes(c) PROVE FreshInv'
  BY <1>5, CheckResumesFresh
<1>6. ASSUME NEW c \in Calls, LoadAwaited(c) PROVE FreshInv'
  BY <1>6, LoadAwaitedFresh
<1>7. ASSUME (\E c \in Calls : EndIngest(c)) \/ CloseEnds PROVE FreshInv'
  BY <1>7, InvalidationsFresh
<1>8. ASSUME NEW c \in Calls, NEW f \in Files, CheckStat(c, f) PROVE FreshInv'
  BY <1>8, CheckStatFresh
<1>9. ASSUME (\E f \in Files : LoadStat(f)) \/ LoadManifest \/ LoadAgrees \/ LoadRetries
      PROVE FreshInv'
  BY <1>9, LoadGoesOnFresh
<1>10. ASSUME LoadFails \/ LoadEnds \/ LoadCleared PROVE FreshInv'
  BY <1>10, LoadDoneFresh
<1>11. ASSUME Close \/ UNCHANGED clientVars PROVE FreshInv'
  BY <1>11
     DEF Close, clientVars, unchangedDisk, FreshInv, Floors, LoadFresh, EntriesFresh, ChecksFresh,
         WaitsFresh, FreshEnough
<1> QED
  BY <1>1, <1>2, <1>3, <1>4, <1>5, <1>6, <1>7, <1>8, <1>9, <1>10, <1>11 DEF ClientNext

\* No call reads a generation older than the one that was active when it was made or,
\* if it found a load in flight, when that load began or an ingestion of this client
\* last returned (client.ts: indexSnapshotForRead, invalidateIndexSnapshot).
THEOREM ReadsFresh == ClientSpec => []FreshEnough
<1>1. FreshInv => FreshEnough
  BY DEF FreshInv
<1> QED
  BY <1>1, InitInv, Inductive, FreshInit, FreshInductive, PTL DEF ClientSpec

=============================================================================
