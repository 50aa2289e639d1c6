--------------------------- MODULE ClientSnapshots ---------------------------
(***************************************************************************)
(* The read snapshots of one RagmirClient (client.ts, with the loading of  *)
(* a snapshot in store.ts).  Searches and expansions of citations share a  *)
(* snapshot of the index: the table of one generation, opened once.  It is *)
(* checked against the manifest files before each use, replaced when they  *)
(* changed, and closed when the last operation that reads it releases it.  *)
(* Calls that find no snapshot share one load of the next.                 *)
(*                                                                         *)
(* An action is what the event loop runs between two awaits; the stat of a *)
(* file, the reading of the manifest and the opening of a table take place *)
(* at moments of their own.  Ingestions of this client and of other        *)
(* processes replace the manifest files meanwhile.                         *)
(***************************************************************************)
EXTENDS Helpers

CONSTANTS
    Reads,      \* calls of search() and expandCitation()
    Ingests,    \* calls of ingest()
    Snapshots,  \* IndexSnapshotEntry objects: more than the calls can refer to at once
    MaxWrites,  \* a bound on the writes of each of the two manifest files
    ClientEvents   \* what may go wrong: "ioError"

ASSUME ClientAssumption ==
    /\ Reads \cap Ingests = {}
    /\ None \notin Reads \cup Ingests \cup Snapshots \cup Nat
    /\ MaxWrites.previous \in Nat /\ MaxWrites.canonical \in Nat
    /\ ClientEvents \subseteq {"ioError"}
    /\ IsFiniteSet(Reads) /\ IsFiniteSet(Snapshots)
    /\ Cardinality(Snapshots) > Cardinality(Reads)

Files == {"previous", "canonical"}  \* the two manifest files, in the order of their writes
Others == "others"                  \* another process that ingests
MaxAttempts == 3                    \* of loadIndexReadSnapshot

VARIABLES
    manifests,  \* the version of each manifest file, which its fingerprint identifies
    writer,     \* who is between the writes of the two files: a call, Others or None
    pc,         \* where each call is
    on,         \* the snapshot each call checks, waits for or reads
    seen,       \* the fingerprints each call has read of the files, for its check
    snapshot,   \* the IndexSnapshotEntry objects
    cached,     \* this.indexSnapshot
    load,       \* this.indexSnapshotLoad, as the snapshot that it loads
    loading,    \* the locals of loadIndexReadSnapshot
    epoch,      \* this.indexSnapshotEpoch
    client,     \* "open", then "closing" (this.closed) and "closed" (the connection)
    draining,   \* the calls that close() waits for
    known,      \* history: the generation found by the last load when it began,
                \* or left by the last ingestion of this client when it returned
    floor       \* history: the oldest generation that each read may serve

clientVars == <<manifests, writer, pc, on, seen, snapshot, cached, load, loading, epoch,
                client, draining, known, floor>>

Calls == Reads \cup Ingests
Unread == [f \in Files |-> None]
Versions == 0 .. MaxWrites.previous + MaxWrites.canonical
Fingerprints == [Files -> Versions]
NoLoad == [phase |-> "none", attempt |-> 0, epoch |-> 0, before |-> Unread,
           generation |-> None, after |-> Unread]

\* The locals at the beginning of the n-th attempt of a load begun in an epoch.
Attempt(n, begun) == [phase |-> "before", attempt |-> n, epoch |-> begun, before |-> Unread,
                      generation |-> None, after |-> Unread]

NoSnapshot == [state |-> "none", generation |-> None, fingerprint |-> Unread,
               references |-> 0, retired |-> FALSE, open |-> FALSE]

Partial == [Files -> Versions \cup {None}]

SnapshotEntries == [state : {"none", "loading", "loaded", "failed"}, generation : Versions \cup {None},
            fingerprint : Partial, references : Nat, retired : BOOLEAN, open : BOOLEAN]

Loadings == [phase : {"none", "before", "manifest", "after", "table"},
             attempt : 0 .. MaxAttempts, epoch : Nat, before : Partial,
             generation : Versions \cup {None}, after : Partial]

ClientTypeOK ==
    /\ manifests \in Fingerprints
    /\ writer \in Ingests \cup {Others, None}
    /\ pc \in [Calls -> {"idle", "checking", "waiting", "reading", "ingesting", "settled"}]
    /\ on \in [Calls -> Snapshots \cup {None}]
    /\ seen \in [Calls -> Partial]
    /\ snapshot \in [Snapshots -> SnapshotEntries]
    /\ cached \in Snapshots \cup {None}
    /\ load \in Snapshots \cup {None}
    /\ loading \in Loadings
    /\ epoch \in Nat
    /\ client \in {"open", "closing", "closed"}
    /\ draining \subseteq Calls
    /\ known \in Versions
    /\ floor \in [Calls -> Versions]

ClientInit ==
    /\ manifests = [f \in Files |-> 0]
    /\ writer = None
    /\ pc = [c \in Calls |-> "idle"]
    /\ on = [c \in Calls |-> None]
    /\ seen = [c \in Calls |-> Unread]
    /\ snapshot = [s \in Snapshots |-> NoSnapshot]
    /\ cached = None
    /\ load = None
    /\ loading = NoLoad
    /\ epoch = 0
    /\ client = "open"
    /\ draining = {}
    /\ known = 0
    /\ floor = [c \in Calls |-> 0]

-----------------------------------------------------------------------------
(* The entries: these operators give the entries that a synchronous part of *)
(* the client leaves.                                                      *)

\* Variant for the checks: the table is closed whoever reads it.
ClosedIfUnused_Always(entry) == [entry EXCEPT !.open = @ /\ ~entry.retired]

\* closeRetiredIndexSnapshot
ClosedIfUnused(entry) ==
    [entry EXCEPT !.open = @ /\ ~(entry.retired /\ entry.references = 0)]

Retired(entry) == ClosedIfUnused([entry EXCEPT !.retired = TRUE])

Released(entry) == ClosedIfUnused([entry EXCEPT !.references = @ - 1])

Retained(entry) == [entry EXCEPT !.references = @ + 1]

\* An object that nothing refers to any more: its memory may be that of a new one.
Unreachable(s) ==
    /\ ~snapshot[s].open
    /\ cached # s /\ load # s
    /\ \A c \in Calls : on[c] # s

NewObject == CHOOSE s \in Snapshots : Unreachable(s)

Began == [NoSnapshot EXCEPT !.state = "loading"]

\* The next turn of the loop of indexSnapshotForRead, for the call c, when current is
\* indexSnapshot: the call checks that snapshot, joins the load in flight or begins one.
Seek(c, current, entries) ==
    /\ seen' = [seen EXCEPT ![c] = Unread]
    /\ IF current # None
       THEN /\ pc' = [pc EXCEPT ![c] = "checking"]
            /\ on' = [on EXCEPT ![c] = current]
            /\ snapshot' = entries
            /\ UNCHANGED <<load, loading, known>>
       ELSE /\ pc' = [pc EXCEPT ![c] = "waiting"]
            /\ \/ /\ load # None
                  /\ on' = [on EXCEPT ![c] = load]
                  /\ snapshot' = entries
                  /\ UNCHANGED <<load, loading, known>>
               \/ /\ load = None
                  /\ load' = NewObject
                  /\ on' = [on EXCEPT ![c] = NewObject]
                  /\ snapshot' = [entries EXCEPT ![NewObject] = Began]
                  /\ loading' = Attempt(1, epoch)
                  /\ known' = manifests["canonical"]

\* retainIndexSnapshot, and the reading of the table begins.
Retain(c, s) ==
    /\ snapshot' = [snapshot EXCEPT ![s] = Retained(@)]
    /\ pc' = [pc EXCEPT ![c] = "reading"]
    /\ on' = [on EXCEPT ![c] = s]
    /\ seen' = [seen EXCEPT ![c] = Unread]
    /\ UNCHANGED <<load, loading, known>>

\* The promise of the call settles.
Settle(c) ==
    /\ pc' = [pc EXCEPT ![c] = "settled"]
    /\ on' = [on EXCEPT ![c] = None]
    /\ seen' = [seen EXCEPT ![c] = Unread]

\* Variant for the checks: a load in flight survives the invalidation.
Invalidate_KeepsEpoch ==
    /\ cached' = None
    /\ snapshot' = IF cached = None THEN snapshot
                   ELSE [snapshot EXCEPT ![cached] = Retired(@)]
    /\ UNCHANGED epoch

\* invalidateIndexSnapshot: also what a load in flight delivers will be retired.
Invalidate ==
    /\ epoch' = epoch + 1
    /\ cached' = None
    /\ snapshot' = IF cached = None THEN snapshot
                   ELSE [snapshot EXCEPT ![cached] = Retired(@)]

unchangedDisk == <<manifests, writer>>
unchangedClient == <<epoch, client, draining>>

-----------------------------------------------------------------------------
(* The manifest files.                                                     *)

\* writeIndexManifest replaces the previous manifest, then the canonical one; the
\* writer lock keeps two writers apart.
WriteManifest(w, f) ==
    /\ IF f = "previous" THEN writer = None /\ writer' = w
                         ELSE writer = w /\ writer' = None
    /\ w # Others => pc[w] = "ingesting"
    /\ \A g \in Files : g = f \/ writer = None => manifests[g] < MaxWrites[g]
    /\ manifests' = [manifests EXCEPT ![f] = @ + 1]
    /\ UNCHANGED <<pc, on, seen, snapshot, cached, load, loading, known, floor>>
    /\ UNCHANGED unchangedClient

\* The second of the two writes fails, or its process dies.
ManifestNotWritten ==
    /\ "ioError" \in ClientEvents
    /\ writer # None
    /\ writer' = None
    /\ UNCHANGED <<manifests, pc, on, seen, snapshot, cached, load, loading, known, floor>>
    /\ UNCHANGED unchangedClient

-----------------------------------------------------------------------------
(* The calls.                                                              *)

\* Variant for the checks: run() does not look at this.closed.
CallRead_WhileClosing(c) ==
    /\ c \in Reads /\ pc[c] = "idle"
    /\ client # "closed"
    /\ floor' = [floor EXCEPT ![c] = IF load = None THEN manifests["canonical"] ELSE known]
    /\ Seek(c, cached, snapshot)
    /\ UNCHANGED <<cached>>
    /\ UNCHANGED unchangedDisk
    /\ UNCHANGED unchangedClient

\* search() or expandCitation(): run() refuses a closed client, else the call looks
\* for a snapshot at once.
CallRead(c) ==
    /\ c \in Reads /\ pc[c] = "idle"
    /\ client = "open"
    /\ floor' = [floor EXCEPT ![c] = IF load = None THEN manifests["canonical"] ELSE known]
    /\ Seek(c, cached, snapshot)
    /\ UNCHANGED <<cached>>
    /\ UNCHANGED unchangedDisk
    /\ UNCHANGED unchangedClient

\* indexReadSnapshotCurrent: the two files are read in either order.
CheckStat(c, f) ==
    /\ pc[c] = "checking"
    /\ seen[c][f] = None
    /\ seen' = [seen EXCEPT ![c][f] = manifests[f]]
    /\ UNCHANGED <<pc, on, snapshot, cached, load, loading, known, floor>>
    /\ UNCHANGED unchangedDisk
    /\ UNCHANGED unchangedClient

\* Back in the loop: the snapshot is current and still that of the client, and is
\* retained; else it is retired, unless another call replaced it, and the loop goes on.
CheckResumes(c) ==
    /\ pc[c] = "checking"
    /\ \A f \in Files : seen[c][f] # None
    /\ \/ /\ seen[c] = snapshot[on[c]].fingerprint
          /\ cached = on[c] /\ ~snapshot[on[c]].retired
          /\ Retain(c, on[c])
          /\ UNCHANGED cached
       \/ /\ seen[c] # snapshot[on[c]].fingerprint
          /\ cached = on[c]
          /\ cached' = None
          /\ Seek(c, None, [snapshot EXCEPT ![cached] = Retired(@)])
       \/ /\ cached # on[c]
          /\ Seek(c, cached, snapshot)
          /\ UNCHANGED cached
    /\ UNCHANGED floor
    /\ UNCHANGED unchangedDisk
    /\ UNCHANGED unchangedClient

\* The stat of a manifest file throws, and the call with it.
CheckFails(c) ==
    /\ "ioError" \in ClientEvents
    /\ pc[c] = "checking"
    /\ Settle(c)
    /\ UNCHANGED <<snapshot, cached, load, loading, known, floor>>
    /\ UNCHANGED unchangedDisk
    /\ UNCHANGED unchangedClient

\* Variant for the checks: a load that failed is tried again, for as long as it fails.
LoadAwaited_Again(c) ==
    /\ pc[c] = "waiting" /\ load # on[c]
    /\ IF snapshot[on[c]].state = "loaded" /\ ~snapshot[on[c]].retired
       THEN Retain(c, on[c])
       ELSE Seek(c, cached, snapshot)
    /\ UNCHANGED <<cached, floor>>
    /\ UNCHANGED unchangedDisk
    /\ UNCHANGED unchangedClient

\* A call that awaited the load goes on, after the callback that cleared it: it
\* throws what the load threw, retains the snapshot, or looks for another.
LoadAwaited(c) ==
    /\ pc[c] = "waiting" /\ load # on[c]
    /\ \/ /\ snapshot[on[c]].state = "failed"
          /\ Settle(c)
          /\ UNCHANGED <<snapshot, load, loading, known>>
       \/ /\ snapshot[on[c]].state = "loaded" /\ ~snapshot[on[c]].retired
          /\ Retain(c, on[c])
       \/ /\ snapshot[on[c]].state = "loaded" /\ snapshot[on[c]].retired
          /\ Seek(c, cached, snapshot)
    /\ UNCHANGED <<cached, floor>>
    /\ UNCHANGED unchangedDisk
    /\ UNCHANGED unchangedClient

\* The search ends, or fails, and its lease is released.
EndRead(c) ==
    /\ pc[c] = "reading"
    /\ snapshot' = [snapshot EXCEPT ![on[c]] = Released(@)]
    /\ Settle(c)
    /\ UNCHANGED <<cached, load, loading, known, floor>>
    /\ UNCHANGED unchangedDisk
    /\ UNCHANGED unchangedClient

\* ingest()
CallIngest(c) ==
    /\ c \in Ingests /\ pc[c] = "idle"
    /\ client = "open"
    /\ pc' = [pc EXCEPT ![c] = "ingesting"]
    /\ UNCHANGED <<on, seen, snapshot, cached, load, loading, known, floor>>
    /\ UNCHANGED unchangedDisk
    /\ UNCHANGED unchangedClient

\* ingestWithConfig returns, and the snapshot of the client is invalidated.
EndIngest(c) ==
    /\ pc[c] = "ingesting" /\ writer # c
    /\ Invalidate
    /\ Settle(c)
    /\ known' = manifests["canonical"]
    /\ UNCHANGED <<load, loading, client, draining, floor>>
    /\ UNCHANGED unchangedDisk

\* ingestWithConfig throws, before or after it replaced the manifest.
IngestFails(c) ==
    /\ "ioError" \in ClientEvents
    /\ pc[c] = "ingesting" /\ writer # c
    /\ Settle(c)
    /\ UNCHANGED <<snapshot, cached, load, loading, known, floor>>
    /\ UNCHANGED unchangedDisk
    /\ UNCHANGED unchangedClient

-----------------------------------------------------------------------------
(* loadIndexReadSnapshot, and the function of the client around it.          *)

\* The files are read for the fingerprint before the manifest, or after it.
LoadStat(f) ==
    /\ \/ /\ loading.phase = "before" /\ loading.before[f] = None
          /\ loading' = [loading EXCEPT !.before[f] = manifests[f],
                             !.phase = IF \E g \in Files \ {f} : loading.before[g] = None
                                       THEN "before" ELSE "manifest"]
       \/ /\ loading.phase = "after" /\ loading.after[f] = None
          /\ loading' = [loading EXCEPT !.after[f] = manifests[f]]
    /\ UNCHANGED <<pc, on, seen, snapshot, cached, load, known, floor>>
    /\ UNCHANGED unchangedDisk
    /\ UNCHANGED unchangedClient

\* readIndexManifestHeader
LoadManifest ==
    /\ loading.phase = "manifest"
    /\ loading' = [loading EXCEPT !.generation = manifests["canonical"], !.phase = "after"]
    /\ UNCHANGED <<pc, on, seen, snapshot, cached, load, known, floor>>
    /\ UNCHANGED unchangedDisk
    /\ UNCHANGED unchangedClient

AfterRead == loading.phase = "after" /\ \A f \in Files : loading.after[f] # None

\* The fingerprints agree: the table of the generation is opened.
LoadAgrees ==
    /\ AfterRead
    /\ loading.before = loading.after
    /\ loading' = [loading EXCEPT !.phase = "table"]
    /\ UNCHANGED <<pc, on, seen, snapshot, cached, load, known, floor>>
    /\ UNCHANGED unchangedDisk
    /\ UNCHANGED unchangedClient

\* The manifest changed meanwhile: another attempt.
LoadRetries ==
    /\ AfterRead
    /\ loading.before # loading.after
    /\ loading.attempt < MaxAttempts
    /\ loading' = Attempt(loading.attempt + 1, loading.epoch)
    /\ UNCHANGED <<pc, on, seen, snapshot, cached, load, known, floor>>
    /\ UNCHANGED unchangedDisk
    /\ UNCHANGED unchangedClient

\* The load throws: after the last attempt, or because of the file system.
LoadFails ==
    /\ loading.phase # "none"
    /\ \/ "ioError" \in ClientEvents
       \/ AfterRead /\ loading.before # loading.after /\ loading.attempt = MaxAttempts
    /\ snapshot' = [snapshot EXCEPT ![load].state = "failed"]
    /\ loading' = NoLoad
    /\ UNCHANGED <<pc, on, seen, cached, load, known, floor>>
    /\ UNCHANGED unchangedDisk
    /\ UNCHANGED unchangedClient

\* The entry that the load gives.
Loaded == [NoSnapshot EXCEPT !.state = "loaded", !.generation = loading.generation,
                             !.fingerprint = loading.after, !.open = TRUE]

\* The table is open: the entry becomes that of the client, unless the client
\* invalidated its snapshots since the load began.
LoadEnds ==
    /\ loading.phase = "table"
    /\ \/ /\ loading.epoch = epoch
          /\ cached' = load
          /\ snapshot' = [snapshot EXCEPT ![load] = Loaded]
       \/ /\ loading.epoch # epoch
          /\ snapshot' = [snapshot EXCEPT ![load] = Retired(Loaded)]
          /\ UNCHANGED cached
    /\ loading' = NoLoad
    /\ UNCHANGED <<pc, on, seen, load, known, floor>>
    /\ UNCHANGED unchangedDisk
    /\ UNCHANGED unchangedClient

\* The first callback of the promise of the load, whether it was kept or broken.
LoadCleared ==
    /\ load # None /\ loading.phase = "none"
    /\ load' = None
    /\ UNCHANGED <<pc, on, seen, snapshot, cached, loading, known, floor>>
    /\ UNCHANGED unchangedDisk
    /\ UNCHANGED unchangedClient

-----------------------------------------------------------------------------

\* close(): the client accepts no more calls.
Close ==
    /\ client = "open"
    /\ client' = "closing"
    /\ draining' = {c \in Calls : pc[c] \notin {"idle", "settled"}}
    /\ UNCHANGED <<pc, on, seen, snapshot, cached, load, loading, epoch, known, floor>>
    /\ UNCHANGED unchangedDisk

\* The calls that were active have settled: the snapshot and the connection are closed.
CloseEnds ==
    /\ client = "closing"
    /\ \A c \in draining : pc[c] = "settled"
    /\ Invalidate
    /\ client' = "closed"
    /\ UNCHANGED <<pc, on, seen, load, loading, draining, known, floor>>
    /\ UNCHANGED unchangedDisk

Resumes(c) ==
    \/ \E f \in Files : CheckStat(c, f)
    \/ CheckResumes(c) \/ LoadAwaited(c) \/ EndRead(c)
    \/ WriteManifest(c, "canonical") \/ EndIngest(c)

LoadSteps ==
    \/ \E f \in Files : LoadStat(f)
    \/ LoadManifest \/ LoadAgrees \/ LoadRetries \/ LoadFails \/ LoadEnds \/ LoadCleared

ClientNext ==
    \/ \E w \in Ingests \cup {Others}, f \in Files : WriteManifest(w, f)
    \/ ManifestNotWritten
    \/ \E c \in Calls : CallRead(c) \/ CheckFails(c) \/ CallIngest(c) \/ IngestFails(c)
    \/ \E c \in Calls : CheckResumes(c) \/ LoadAwaited(c) \/ EndRead(c) \/ EndIngest(c)
    \/ \E c \in Calls, f \in Files : CheckStat(c, f)
    \/ \E f \in Files : LoadStat(f)
    \/ LoadManifest \/ LoadAgrees \/ LoadRetries \/ LoadFails \/ LoadEnds \/ LoadCleared
    \/ Close \/ CloseEnds

ClientSpec == ClientInit /\ [][ClientNext]_clientVars

\* The event loop runs what is due, and the reads, the loads and the ingestions that
\* were begun take a step in the end.
ClientFairness ==
    /\ \A c \in Calls : WF_clientVars(Resumes(c))
    /\ WF_clientVars(LoadSteps)
    /\ WF_clientVars(CloseEnds)

FairClientSpec == ClientSpec /\ ClientFairness

-----------------------------------------------------------------------------
(* Properties.                                                             *)

\* The table of a snapshot is open exactly while the client holds the snapshot for the
\* next call or a call reads it: none is closed under a search, and none is leaked,
\* whatever invalidates it and whenever (retain-, retire- and closeRetiredIndexSnapshot).
OpenWhileUsed ==
    \A s \in Snapshots :
        snapshot[s].open <=> \/ cached = s
                             \/ \E c \in Reads : pc[c] = "reading" /\ on[c] = s

\* When close() has closed the connection, no call, no load and no ingestion uses it,
\* and no table of the client is open (close).
NothingOutlivesClose ==
    client = "closed" =>
        /\ load = None /\ loading.phase = "none"
        /\ \A c \in Calls : pc[c] \in {"idle", "settled"}
        /\ \A s \in Snapshots : ~snapshot[s].open

SnapshotsSound == ClientTypeOK /\ OpenWhileUsed /\ NothingOutlivesClose

\* A call reads no generation older than the one that was active when it was made or,
\* if it found a load in flight, when that load began; and none older than what an
\* ingestion of this client had left when the call was made (indexSnapshotForRead,
\* with the epochs of invalidateIndexSnapshot and the check of the fingerprint).
FreshEnough ==
    \A c \in Reads : pc[c] = "reading" => snapshot[on[c]].generation >= floor[c]

\* Every call of the client settles, for good, and close() returns, whatever fails and
\* however often the generation is replaced (indexSnapshotForRead, close).
CallsSettle ==
    []<>(client # "closing" /\ \A c \in Calls : pc[c] \in {"idle", "settled"})

=============================================================================
