# Ragmir in TLA+

Ragmir keeps a private, local index of a project's documents: it discovers and parses files, embeds
their passages, stores them in LanceDB tables under `.ragmir/storage`, and answers searches from the
command line, from a library client and from an MCP server. Everything runs in Node processes of
one host, several at a time, and they share nothing but the storage directory. This directory holds
the formal model of the program: the parts in which that sharing, or the interleaving of awaits inside one
process, decides whether it is correct, and the algorithms between them whose boundary cases do.

All source files are relative to `src/packages/ragmir-core/src` in the repository.

## Inventory

| component | sources | state | operations | hard behaviour |
| --- | --- | --- | --- | --- |
| Writer lock | `index-write-lock.ts`, `destroy.ts`, `fs-retry.ts` | directories `.writer-lock`, `.writer-lock-recovery`, each with an `owner.json` | acquire, heartbeat, release, recover, signal cleanup | mkdir/rm races between processes, deaths at every point, recycled pids, late heartbeats |
| Writer queue | `index-write-lock.ts` | `writeQueues`, a chain of promises per directory | call, give up, run, settle | calls that give up in the middle of the chain |
| Index generations | `ingest.ts`, `store.ts`, `generation-retention.ts`, `query.ts` | tables, canonical and previous manifest, ingestion state, lease files, in-process lease counts | ingest, activate, collect, lease, confirm, search | readers take no lock; stale names; deaths between writes |
| Ingestion journal | `ingestion-state.ts` | header, snapshot and journal of a run | create, append, compact, read, resume | torn writes, resumption |
| Ingestion run | `ingest.ts`, `store.ts` | rows and checksums per file, last-known-good rows, lists of indexed and empty files | reuse, parse, embed, commit, validate, activate | failed runs that changed the active table; stale checksums |
| Workload admission | `workload.ts` | queue objects per project and workload | run, start, finish, drain, reject | nested admission, limits that change, deadlines |
| Client snapshots | `client.ts`, `store.ts` | cached snapshot, references, epoch | read, invalidate, close | a snapshot retired while it is in use |
| Embedding pipelines | `embeddings.ts` | cache of pipelines with leases, owners of models, the model on disk | acquire, release, evict, dispose, pull | disposal racing creation; crash between two renames |
| Retrieval | `query.ts`, `ranking.ts`, `retrieval-diversity.ts`, `abstention-calibration.ts`, `source-weights.ts` | caches of term statistics and noise floors | search, fuse, abstain, diversify, expand | four reads at different moments of a changing index; candidate limits |
| Discovery | `files.ts`, `source-fingerprint-cache.ts` | the fingerprint cache | inventory | a file that changes between two stats; patterns that re-enable each other |
| Parsing, extraction, chunking | `document-structure.ts`, `parsing.ts`, `ocr.ts`, `ocr-cache.ts`, `chunking.ts` | the OCR cache, an external command | structure, extract, cut, sample | commands that hang, overflow or ignore signals; windows at boundaries |
| MCP server | `mcp.ts`, `mcp-scope.ts`, `mcp-session.ts`, `mcp-output.ts` | clients, workspace verdict, seen passages, background ingestion | search, expand, replace the client, stop | configuration and workspace that change under a call; a memory that runs ahead of the answer |
| Storage maintenance | `storage-maintenance.ts`, `vector-index.ts` | the table's indices, `storage-maintenance.json`, the manifest's vector index | plan, compact, rebuild, save | partial failures; counts and signatures of another table |
| Project settings | `config.ts`, `project-config-file.ts`, `sources.ts`, `semantic-config.ts`, `config-migration.ts` | the shared and the local file | add, enable, migrate | read, change, rewrite; precedence that changes in between |
| Agent kit and hooks | `skill.ts`, `setup.ts`, `init.ts`, `gitignore.ts`, `git-hooks.ts` | skills, helpers, guides, `.gitignore`, a Git hook | install, repair, remove, install hook | the user's files in the same places; commands cut short |
| Setup, upgrade, doctor | `setup.ts`, `upgrade.ts`, `doctor.ts`, `freshness.ts`, `index-diagnostics.ts`, `index-policy.ts` | none of their own | report, repair, upgrade | a decision made from one report and carried out later |
| Evaluation | `evaluate.ts`, `quality-report.ts` | the quality report in the manifest | measure, persist | rewriting a manifest that moved on |
| The rest | CLI, security audit, knowledge-base discovery, landing site, scripts | none | — | none |

How they interact: an ingestion asks for an `ingestion` slot, then its turn in the writer queue, then the
writer lock; it asks for `embedding` slots while it holds all three. A search asks for a `search` slot,
opens the table that the manifest names, leases it with a file, and asks for an `embedding` slot. A
collection runs inside an ingestion or on its own, always under the writer lock, and looks at the leases.
So slots are asked for in one order, and a reader meets a writer only in the files of the storage
directory.

What makes each correct: writers never overlap and a dead one does not block the rest (lock); turns come in
order and always come (queue); a table somebody needs is never dropped, whatever failed before
(generations); whatever was interrupted, the table that is activated holds what the
sources hold, and finished work is not done again (ingestion); the ceilings hold and nobody waits for ever
(admission); a table or a pipeline is open exactly while it is used (client, embeddings); a result says what is in the
index at one moment and the pool it is chosen from suffices (retrieval); no text is lost or misplaced on its way into a passage
(parsing, chunking); what one party writes stays while others write (settings, kit); what a report says is what a
check would find (doctor, manifest, maintenance).

## Modules

| module | what it is |
| --- | --- |
| `WriteMutex` | abstract: operations of writers never overlap |
| `WriterLock` | the lock between processes, one action per file-system call or synchronous decision |
| `WriteQueue` | the promise chain inside a process, composed with `WriteMutex` as the lock of the host |
| `GenerationRetention` | ingestion run, manifests, collection and readers' leases, at the level of tables |
| `IngestRun` | one ingestion after another at the level of files, checksums and rows: reuse, resumption, commits, validation, activation |
| `WorkloadQueue` | admission to the three workloads, nested |
| `ClientSnapshots` | the read snapshots of a client: shared loads, checks, references, retirement, closing |
| `Embeddings` | cached pipelines with leases and retirement, the queue for the library's environment, pulls and their renames |
| `Extraction`, `OfficeText` | PDFs, images and archives: pages, OCR batches, the external command and its signals, the regions of decks, books and workbooks |
| `DocumentStructure`, `Chunking` | sections, fences, entries and nodes of a text; its passages, and the sample of a large data file |
| `Discovery` | inventories beside edits, selection by patterns, the fingerprint cache |
| `Search` | one search over a generation and the expansion of what it cites |
| `McpOutput`, `McpServer` | stubs and budgets of an answer; the server of a connection |
| `Maintenance` | a table's commits, compactions and indices, and what the manifest says of them |
| `ProjectConfig`, `AgentKit`, `Readiness` | settings files; kit and hooks; doctor, setup, upgrade and the snapshot in the manifest |
| `Helpers` | small operators that several modules share |
| `*_proofs` | theorems with their proofs: `Queues_proofs` is about `WriteQueue` and `WorkloadQueue`, `Project_proofs` about `Maintenance`, `ProjectConfig` and `Readiness`, `Operations_proofs` about `Chunking`, `Discovery`, `McpServer` and `Search`, `Resources_proofs` about `Embeddings` and `Extraction`, each of the others about the module it is named after |
| `MC*` | constants for model checking, and the composites below |

The composition is by refinement where the components promise each other something: `WriterLock` implements
`WriteMutex` between processes; `WriteQueue`
takes `WriteMutex` for the lock of the host and implements `WriteMutex` between the calls of all processes;
`GenerationRetention` and `IngestRun` then take for granted that one writer is active at a time. `Extraction` extends
`OfficeText`, `McpServer` extends `McpOutput`, and the documents that `Chunking` cuts are those that `DocumentStructure` and
`OfficeText` structure. Four MC modules put components with no state in common side by side: a variable (`followed` in `MCQueues`,
`watched` in `MCResources`, `doing` in `MCOperations`, `kept` in `MCProject`) chooses the one a behaviour follows while the others
stand still, so that one run checks the properties of all. That is no composition, and no property relates two of them.

A definition named `X_Something` is a variant of the definition `X` in which a plausible mistake has been made.
No specification uses it; it is there to confirm that a property would notice the mistake.

### WriterLock

`lock` and `rec` are the two directories: absent, without a valid `owner.json` (younger or older than 30
seconds), or owned by a token. A token is a process and a fresh number, for the random
`ownerToken` and the `pid` in the file. `pc` is the position of a process in
`acquireInterprocessLock`, `recoverAbandonedWriterLock`, `recoverAbandonedRecoveryLock` or in the release;
`obs` and `seen` are the owners it has read. `writeOwner` is the rename of a temporary file, so it is
atomic, and it goes by path: it lands in whatever directory stands there. `removeTree` is atomic unless the
process dies within it; then it may leave the directory without its `owner.json`.

`Events` selects what may happen around the protocol: deadlines, aborts, I/O errors, exits, crashes inside and
outside the two critical windows (between `mkdir` and `owner.json`, and under the recovery directory), a
creator that takes 30 seconds, recycled pids, signals, and an operation that is `destroyIndex`.

Fairness: `Acquire`, `Recover`, `Release` and `HeartbeatWrite` of a living process are weakly fair, because the
event loop runs and file-system calls return; the ageing of a directory is weakly fair because time passes.
Nothing obliges an operation to end, a caller to call or give up, or a process to die.

### WriteQueue

`prev` is the promise a call awaits, `released` the calls whose `current` has resolved, `resolved` those
whose `tail` has, `last` the map `writeQueues`. `GiveUp` is `waitForTurn` throwing because of the deadline or
the signal. `before` is history: the calls made earlier in the process. Crash of a process frees the host lock:
that recovery is the business of `WriterLock`. Fairness: promise reactions run,
`acquireInterprocessLock` answers, operations settle; giving up is not assumed.

### GenerationRetention

A table is a name, with its place in the order of modification and its age in three classes (within the
grace of five minutes, up to seven days, older). `canonical` and `previous` are the table names in the two
manifests, `disk` the stored run, `run` the one in progress, `wpc` the writer's position between
awaits, `gc` what the collection has read so far. A lease file is absent, created but not written ("torn"), or valid.
`late` are the readers past the term of their lease: 24 hours, which nothing renews. A collection takes the time once, at its
beginning, and both its listings ignore and remove a lease whose term was over by then (`Overdue`), although its process lives. The leases that the
collecting process counts in memory (`Local`) know no term. A collection is taken to be much shorter than the term.
Readers come in the two forms of the code: those that open first and lease later (`searchWithConfig`,
`expandCitationWithConfig`) and those under `withActiveGenerationReadLease` (`Confirming`). `Local` readers
belong to the collecting process, which counts their leases in memory.

`BeginIngest` makes the choice of `ingestUnlocked`: resume the stored run, or start a rebuild or an
incremental one. `WriteRows` stands for one file's rows in the table followed, in `PersistRun`, by the
stored progress; they alternate any number of times. A failed run stores its failure, unless that write fails too.
Validation is taken to succeed or to fail (`FailRun`) freely. A dry run of a collection is a collection
that stops after it has classified.

### IngestRun

A source has a version, which stands for its text and its checksum together; `Chunks` gives the number of chunks of
a version, and one of the three versions has none. `tables` holds for each file the rows as a pair: the checksum
they are stored under (`sum`, from the inventory) and the text they come from (`text`, read later by
the parse). `manifest`, `empties`, `saved` and `journal` are the other durable parts: the activated table and its
files, `empty-text-files.json`, the run state, and whether its journal still parses. `run` is the state in memory;
a record of it carries the fields of `IngestionFileState` that decide anything: checksum, stage, chunk count,
last good checksum and count, the stale flag, the reused flag.

The actions follow `ingestUnlocked`. `Start` is everything up to the first `persistIngestionProgress`: it reads
the stored state, resumes it after `reconcileCommittedFiles` or replaces it, with the reuse by checksum.
`ParseWindow` parses up to `BatchSize` files and marks them, `Embed` and `Commit` take them one by one,
and after each of the three `Persist` writes the state (`unsaved` is the point between the two). `RemoveLeftovers`,
`WriteEmptyTextFiles` (with the validation before it), `WriteIndexManifest` and `Finish` are the end of the run;
`RejectTable`, `FailStep`, `Crash` and `CrashInAppend` are the other ways to stop. The writer lock is taken for
granted. A crash in a journal append leaves any subset of the records, optionally with a torn last line.

Three names of tables are enough: an orphan of an abandoned generation can no longer be reached, so the
model drops it at once (`Only`), and what a collection really keeps is the business of `GenerationRetention`.

`Events` selects the events. The passing run has rebuilds, failed parses, I/O errors and crashes; the following need
their own event, because the code does not tolerate them:

- `"editPartial"`: a source changes while the rows of an unfinished incremental run, or its list of empty files, are
  ahead of the manifest. `CleanRunValidates` fails (run `ingest_reverted`): the file returns to its old text, the
  manifest vouches for it, the rows are gone, and every run is turned away until a rebuild.
  `CompletedMeansIndexed` fails too, with `MaxEdits = 2`: a file became empty, the run died between `writeEmptyTextFiles` and
  `writeIndexManifest`, the file got its old text back; the record of the empty file wins over the manifest entry in
  `previousFiles` (line 208), so the file is reused with no chunks and is never indexed again.
- `"editDuringRun"`: a source changes between its inventory and its parse. The rows of the new text are stored under the
  old checksum. The next run repairs this, unless the file has its old text again by then: `CompletedMeansIndexed` fails.
- `"tornLine"`: the line that a crash cut short is completed by the next append, so it no longer is the last one, and
  the reader rejects the whole state. No invariant of the index fails; the progress is lost.

`FairSpec` says that steps never end. As edits and faults are bounded and some step of a run is always possible, this is
the weak fairness of `RunStep`: somebody calls `ingest` again and again. No call is assumed to succeed; a failed call is
followed by another one. `Converges` then says that the index becomes and stays that of the sources.

### WorkloadQueue

JavaScript runs an admission to its end, so one action is a whole `run`, `finish` or `rejectQueued`, with
its `drain`. Queue objects are explicit, because an idle one leaves the map and the next call makes another: the
ceiling counts all of them. `Path` gives the workloads that a request holds one inside the other. Deadlines and
aborts may happen at any time to a waiting request, and are never needed: fairness is only that
an operation which can end again and again does end.

### ClientSnapshots

An action is the code of `client.ts` between two awaits: `CallRead`, `CheckResumes`, `LoadAwaited` and `EndRead` are
the synchronous parts of a search (`Seek` is one turn of the loop of `indexSnapshotForRead`), `LoadEnds` and `LoadCleared` those of
the shared load. `disk` is the version of the two manifest files, which stands for their fingerprints; a
`stat` reads one file, so a fingerprint may mix two versions. `snapshot` holds the entries with their references, `cached`, `load` and
`epoch` are the fields of the client, `draining` the operations `close()` waits for. An object that nothing refers to is used again
(`Unreachable`). The writers of the manifest are the client's own ingestions and everybody else (`Others`), one at a time;
each writes the previous manifest and then the canonical one, and may fail in between.

`known` and `floor` are history: what a read may serve at the oldest. A call that joins a load in flight may get the
generation that was active when the load began, even if another process has activated a newer one before the call:
`FreshEnough` says so, and says that the client's own ingestions are never missed that way, for which the epochs exist.
Fairness: promises that are settled run their reactions, `stat`, reads and searches return or throw; calling, closing and the
ingestions of others are not assumed.

### Embeddings

An action is what the event loop runs between two awaits. `entry` holds the objects of
`transformersPipelines` with their leases, retirement, creation and disposal, `cache` the entries that the map names, the
one used last at the end; `queue`, `env` and `saved` are the chain of jobs that change the library's global settings and what
each job restores. `AcquireCached`/`AcquireNew`, `Acquired`, `Release` and `Leave` follow one call of `embedTexts`;
`BeginJob`, `CreationReady`, `CreationFails` (with its second attempt on the CPU) and `Forget` a creation; `BeginDisposal` and
`EndDisposal` the promise `disposal`; `RetainModel`, `ReleaseModel` and `ModelReleased` a client's share in a model. The pulls
follow `pullEmbeddingModel` and `replaceDirectory` rename by rename: `model` is what stands at the path, `aside` what a pull has
renamed. A pull of another process (`Elsewhere`) may put its model there in the middle of a swap. A crash keeps only the files.

Cached query vectors and the digests of snapshots are left out; the "hash" provider has no state.

### Extraction and OfficeText

`reading` is the parse of one file and `child` the external command. Text is a record that says where it comes from (page, content
of the file, engine), so that a text under the wrong page or of another content is visible. `missing` are the blank pages without a
text yet and `Batch` the ones the next command is asked for. `LookUp`, `ReadPages`,
`ReadWithCommand`, `Store` and `Join` are the steps of `parsePdf` around the OCR cache; `Spawn`, `Timer`, `Abort`, `TooLarge`, `Escalate`,
`Ends` and `Close` those of the command in `ocr.ts`, which may ignore a signal and exit with any code. `Rewrite` changes the file between
two steps. `OfficeText` computes the regions of decks, books and workbooks from abstract archives, whose texts are only lengths, and
the limits on the sizes of an archive.

### DocumentStructure and Chunking

`DocumentStructure` computes sections, fences, groups of entries and nodes of a text that is a sequence of lines [kind, level,
length]; these are functions of the text. `Chunking` cuts a document region by region: `cursor`, `region` and `chunks` are the
locals of `chunkDocument`, `Cut` is one chunk, `SkipBlank`, `TooMany` and `AbortCutting` the other ways on, and `SampleData` is
`capDataFileChunks`. A document is what parsing delivers, as offsets.

### Discovery

`disk` gives each file its content and a stamp, which stands for size, times, device, inode and mode together; `cache` is the
fingerprint cache as a set of records. Several inventories run while files are written and removed. `StartInventory` resolves the
entries, which are known by their numbers; `Walk` is fast-glob coming upon one file, `EndWalk` the end of one of its calls, which may have
missed what was written after the call had begun and nothing else; `LoadCache`, `Reuse`, `Checksum`, `StatAgain`,
`WriteFingerprints` and `Diagnose` are the rest. Patterns are the sets of files they match; what an entry names decides which
default exclusions hold below it, and patterns that exclude the same are one call (`WalkOf`). An exclusion has the files it matches from the project
root, and the pairs of a root and a file that it matches from there, because one that starts with `*` is tried on the paths within each root, too (`IgnoredIn`).

### Search

A generation is a sequence of rows, fixed once it is active. `Begin` is the synchronous beginning of `searchWithConfig`;
`CountTerms`, `NoiseFloor`, `KeywordCandidates` and `VectorCandidates` are the four reads, which end in any order; `Select` is
the fusion, abstention and diverse selection, `Deliver` the contexts; `CandidatesFail`, `Throw` and `Return` the other ends.
`Expand` is `expandCitationWithConfig` over what the caller keeps, `Activate` a new generation at any time. Distances and
word statistics are small numbers; the keyword rank of the library is replaced by any positive weight that falls with the frequency
of a word. The constants `RrfK`, `Multiplier`, `CrowdingMin`, `WeakDepth` and the limits have values in the runs that are smaller than in
the code, in the same proportions to the corpus.

### McpOutput and McpServer

`McpOutput` has the pure part of an answer: stubs for what the session has seen, the groups of a batch, the budget in bytes.
`McpServer` is the server of a connection: `calls` with their position between two awaits, `clients` and `current` the chain of
clients that a changed configuration replaces (a new one is created once the previous ones have closed), `memory` what counts as
seen, `scope` what is known of the workspace, `auto` the ingestion a search may start, `server`
the stop. Roots are numbered as the agent moves, and 0 stands for none: then the relation of a call to the allowed roots is "unknown" and the call is
allowed (`Relation`, `Allowed`). The agent may list its roots or not; a call awaits the listing that was begun last (`Pending`, `Awaited`) and is judged by the roots
known then (`judged`). `received` (texts that were sent) and `windows` (passages in the windows of expansions, which the budget may have trimmed) are history. Edits of the configuration, other workspaces and new texts come at any time, up to
`MaxChanges`.

### Maintenance

A table is its rows, fragments, versions, commits and the three kinds of index with what they cover and what they were built
as. A job (`job`) is an ingestion, `rgr storage optimize` or its `--dry-run`; its phases follow `maintainIndexStorage` and
`maintainAdaptiveIndices`: compact, meet the positional error and retry without positions, refresh, act on the vector and scalar indices,
save the count of mutations and the signature of the policy, activate. `jobs` bounds them. LanceDB is external: a commit leaves indices behind, a compaction may
catch them up, every call may fail, and a job may die at any step.

### ProjectConfig, AgentKit, Readiness

`ProjectConfig` has the shared and the local file as records of keys; a call is one record whatever it is for, and the digest of a
pulled model is known by the model it is of (`digest`), whatever `embeddingModel` says. `Locate`, `Enqueue`, `ReadSettings`, `BackUp`, `WriteSettings`
are the steps of `mutateProjectConfig` and its callers, `CheckConfig` and `WriteInitial` the two of `initProject`, which looks for a file, awaits a directory and
writes the defaults, without the queue; `undone` (history) are the calls whose file it has written over. `TweakSettings` is an edit by the user between the commands' windows.
`AgentKit` follows a command that writes the kit and exposes it to each agent, target by target and file by file, and may be
cut short anywhere; beside it, the block in a Git hook, as a sequence of kinds of lines. `Readiness` has the sources with content,
size and identity, the rows, whether there is a table (`created`: it appears with the first row and stays without any), the records of
empty files and the header of the manifest; an ingestion is three steps
(inventory, rows, header) of which any prefix may happen, and the reports of doctor, upgrade and the snapshot are operators
over the state.

## Runs

| run | what it checks |
| --- | --- |
| `lock_safety` | Three processes under the tolerated events: deadlines, aborts, I/O errors, exits, reused pids, and deaths outside the two critical windows. No two operations overlap and recovery is exclusive (`MutualExclusion`, `LeaseSound`), a live owner keeps its lock (`LiveOwnerKeepsLock`), the protocol implements the mutex (`ImplementsMutex`). |
| `lock_recovery` | Two processes with two runs each and every event that removes or ages the directories: crashes at every point, signals, `destroyIndex`, reused pids, under `FairSpec`. No late heartbeat brings back a released token (`ReleasedMeansGone`); an abandoned lock or recovery directory goes while somebody waits or recovers, unless its pid is in use again (`AbandonedRecovered`). |
| `queues` | `WriteQueue` with four calls in two processes that give up, fail and crash: `FirstComeFirstServed`, `ImplementsMutex`, `WritesProceed` (turns come, and an idle queue leaves the map). `WorkloadQueue` with four requests that hold a slot while they queue for embedding, under two configurations: `AdmissionSound`, `EveryoneServed`. |
| `retention_leases` | A reader of another process that leases, confirms and may read beyond the term of its lease, against failing runs, dying writers, quality reports and collections: `LeasedTablesKept`, `ConfirmedReaderKeepsTable`, `RolesKept`. |
| `project` | What a project keeps on disk. Generations with a local reader: `BoundedGenerations`, `FallbackKept`. A table: `MaintenanceSound`. Settings, kit and hook: `ConfigSound`, `AgentKitSound`. Reports: `ReadinessSound`. Two reads and an ingestion of a client that is closed at any moment, while others replace the manifest files: `SnapshotsSound`, `FreshEnough`, `CallsSettle`. |
| `ingest` | Two files that change, runs and rebuilds that crash or fail at any step and are resumed or replaced, unparsable files under both policies: `SavedStateReadable`, `CleanRunValidates`, `CompletedMeansIndexed`, `RebuildIsStaged`, `CommittedNotReparsed`, `SearchableUntilReplaced`, `Converges`. |
| `resources` | Calls and a client on cached pipelines of two devices, pulls that die or fail between renames; readers whose commands hang, overflow and are cancelled: `EmbeddingSound`, `ExtractionSound`, `ArchiveKept`, `BegunEnds`. |
| `operations` | Searches while generations change (`AnswersSound`), all texts of up to four lines cut into chunks (`ChunksCover`, `ChunksPlaced`), inventories beside edits (`DiscoverySound`). An agent's server under changes of the world, for agents with and without roots: one client at a time, calls judged by the roots they awaited, a memory of what was sent or in a window (`McpSound`), stubs for such passages (`StubsExplained`). |

Each of the following runs checks one statement of the documentation, a comment or a test, and finds it violated:

| run | property | what happens | against |
| --- | --- | --- | --- |
| `lock_incomplete` | `MutualExclusion` | Of four processes one dies between `mkdir` and `owner.json`. The owners read at lines 109 and 211 are compared only when both exist, so a slow recoverer removes the directory of a later, running owner (`index-write-lock.ts:212`). | `docs/api-reference.md:126-127` |
| `retention_search` | `SearchKeepsTable` | A search opens its table first and leases it later; a collection in between drops it (`query.ts:208`). | `docs/cli-reference.md:215-216` |
| `ingest_reverted` | `CleanRunValidates` | A run dies after it has committed a changed file, the file gets its old text back, and every later run is turned away (`ingest.ts:212`). | `docs/troubleshooting.md:54-55` |
| `mcp_stubs` | `StubsKnown` | A batch sends a stub for a passage that its budget has dropped from an earlier group (`mcp-output.ts:184`). | `docs/agent-integration.md:127-130` |

`AdmissionSound`, `EmbeddingSound`, `ExtractionSound`, `MaintenanceSound`, `ConfigSound`, `AgentKitSound`, `ReadinessSound`, `AnswersSound`, `ChunksPlaced`,
`DiscoverySound` and `McpSound` are conjunctions of named parts, each with its own comment in its module.

### Other disagreements

Each of these can be reproduced with the modules by changing a line or two of a configuration, and none is among the runs.

- `FallbackKept` with `Events = {"fail"}` in `GenerationRetention_search.cfg`: a rebuild, a failed run and a collection in a row. The state that knew the
  previous table is replaced, and the table dropped while the previous manifest names it (`generation-retention.ts:466`, against
  `docs/cli-reference.md:245-246` and `docs/troubleshooting.md:73-74`).
- `LeasedTablesKept` with `Events = {"torn"}` in `GenerationRetention_search.cfg`: a collection reads a lease file between its creation and its write, takes it for corrupt,
  removes it, and drops the leased table (`generation-retention.ts:171`, against `docs/cli-reference.md:245-246`).
- `ChangesKept` of `ProjectConfig` in `Project.cfg`: `initProject` has found no file, another call creates one and reports its entry, and the
  defaults are written over it (`init.ts:58`, against `sources.test.ts:80`).
- `ReadyUnderPolicy` of `Readiness` in `Project.cfg`, with one source: a first run leaves a manifest and no table; under another policy a run commits rows in place
  and dies; when the policy changes back, `doctor --deep` reports ready over rows of the other one (`ingest.ts:248`, against
  `docs/cli-reference.md:124-125`). What does hold, and is proved, is that the rows a manifest counts are of its policy (`ReadyTrue`).
- `HeadersBelong` of `Extraction` in `Resources.cfg`: a row refers to its header by the header's place among the parts, and a row of white
  space alone is a part without a region, so the rows behind it refer to another row (`parsing.ts:275`, against `docs/api-reference.md:77-78`).
- `ExcludedFromProjectRoot` of `Discovery` in `Operations.cfg`, with `{<<3, conf>>}` for `{<<0, nfc>>}` in `MCSettings`: an exclusion that
  starts with `*` also applies to the paths within a root, so a file is neither indexed nor reported although no exclusion
  matches its path from the project root (`files.ts:836`, against `docs/configuration.md:212`).
- `MemoryReached` of `McpServer` in `Operations.cfg`: an expansion remembers its whole window before the budget trims it (`mcp.ts:610`, against `mcp.ts:551`).
- `MutualExclusion` of `WriterLock` holds under the tolerated events, for any number of processes (`WriterLock_proofs`). Besides `lock_incomplete`, with any of these sets
  of events TLC shows two operations at once: `{"signal"}` (two processes: the handler removes the lock while the operation runs, until the process is
  killed), `{"destroy"}` (two processes: `destroyIndex` deletes its own lock in the middle of the deletion) and
  `{"crash", "crashRecovering"}` (four processes: `removeOwnedDirectory` reads and removes in two steps, so the
  slower of two waiting processes removes the recovery directory of the faster one). These windows need a signal,
  or a crash followed by an unlucky schedule; they are why `Tolerated` is what it is.
- `{"pidReuse"}` is excused by `AbandonedRecovered`: `ownerProcessIsAlive` asks only whether the pid exists, so a lock whose dead
  owner's pid is in use again stays, however old its heartbeat is (`docs/cli-reference.md:263` names the heartbeat).
- `FetchedIsEnabled` of `ProjectConfig` fails in the run `project`, with `MaxTweaks = 0`. `models pull --enable` and `setup --semantic` fetch the
  model of the merged settings, but `enableSemanticEmbeddings` takes `embeddingModel` from the one file it writes (`semantic-config.ts:38-41`). A local
  file that names no model, beside a shared one that does, gets the default model with the revision and digest of the fetched one
  (`docs/configuration.md:305-307`).

Others were met while reading the code for the models:

- Slides are numbered by their place among those with text (`parsing.ts:183-195` and 357-373, against `docs/api-reference.md:84-85`).
- A file that is rewritten between its checksum and its OCR leaves texts of the new content in the cache of the old one
  (`parsing.ts:786-792`, against `docs/configuration.md:347-349`); `"rewrite"` among the `ExtractionEvents` shows it in `CacheTrue`.
- `storage-maintenance.ts:132` returns a promise without awaiting it, so an error is thrown instead of reported
  (`docs/cli-reference.md:223-224`). An index rebuilt without positions stays so when its refresh fails or the process dies, because
  later runs find complete coverage (236-237). A lost write of `storage-maintenance.json` leaves a stale signature and count. `rgr storage optimize
  --dry-run` always calls itself needed.
- A skill that is copied and not yet marked when the command dies is refused by every later command without `--force`; an edited copy keeps its marker and is
  removed with it; a start marker without end in a hook swallows the rest on removal; installing for one agent removes the helpers of the others; a
  repair turns copies into links.
- The queue of `mutateProjectConfig` is of one process. A migration edits one of the two files: with a retired key in the shared one
  and a local one beside it, `rgr upgrade` fails each time (`docs/migration.md:118-124`).
- A touched file makes doctor advise "doctor --fix" and keeps an upgrade at repair-required although the audit finds nothing
  (`ingest.ts:1170`). The counts of empty and oversized files in the snapshot outlive the files. The fast mode of doctor does not see rows that an
  interrupted run left outside the manifest, and rows without a manifest get no advice from the deep mode.
- A lost list file makes both sidecars "missing" and the default table the active one, without a warning
  (`docs/troubleshooting.md:72-76`). An evaluation sees commits that are made in place while it runs, so its report may mix two states;
  thresholds and `topK` over 10 are not part of the fingerprint by which a stored report is compared.

### Bounds

- `WriterLock`: `MaxRuns` = 2 bounds the tokens of a process. Two per process let an owner come back after its release, which is
  what a stale reading of it has to be confused by. `lock_safety` has three processes, two recoverers and an owner; under its events three are not the limit of what is known, as the
  theorems hold for any number. `lock_incomplete` needs four: one that dies between `mkdir` and `owner.json`, two that recover its lock, and one whose new lock is taken.
  With three processes these events show nothing, so that no passing run claims exclusion under them.
- `WriteQueue`: four calls (three and one) let a call give up between two others, in two processes. `WorkloadQueue`: four requests, limits of 1
  and 2: a full queue, a raised and a lowered limit, two holders of slots that both need the embedding slot.
- `GenerationRetention`: `MaxTable` is 2: an old, an active and a staged table, numbered from 0;
  `MaxRetained` is 1 in the passing runs so that slots run out, and the real 3 in the violated one. The run `project` was also made once with one more
  table and two slots. One reader: leases of different readers
  interact only in that any of them protects a table.
- `IngestRun`: two files, three versions (one chunk, two chunks, none), windows of up to two files, one edit and two faults: a run that
  is interrupted, resumed or replaced, interrupted again and then finished, with a file beside the one it happens to. The safety
  properties were also run once with two edits (2.7 million states).
- `ClientSnapshots`: two reads, one ingestion, two writes of the previous manifest and one of the canonical one: three changes exhaust the attempts of a load,
  and two reads share a load, or one holds the snapshot that the other replaces. Three reads with one write of each file were run
  once for the invariants (7.4 million states).
- `Embeddings`: two calls, one client, two pulls of which one is of another process, a cache of one pipeline with two keys, so that every second key evicts;
  three objects, which no state exhausts. `Extraction`: three pages, batches of two, two contents.
- `Maintenance`: two tables, two commits, two jobs, thresholds of 2 to 4 with at most four rows, so that each is met and missed.
- `AgentKit`: two agents, two commands, one edit, two lines in a hook. `ProjectConfig`: two changes, one edit. `Readiness`: two
  sources (symmetric), two changes, two commands, one parse error; three commands were run once (6.4 million states).
- `Search`: two generations of seven and five rows, five requests that meet each scope, cap and fallback. `Chunking`: all
  texts of up to four lines of five kinds, windows of 8 with an overlap of 3. `Discovery`: five files, three of them there at the start, two inventories, two writes.
  `McpServer`: two calls, two configurations, one change of configuration, workspace or text; the roots of the environment, none, or those the agent lists, whose
  listing may fail.

Runs whose behaviours end (all calls made, all processes dead, an operation done) do not report deadlock, and the
configuration says so. `retention_leases`, `ingest` and the violated runs on their modules do check it.

### Fairness

Safety is checked without fairness. The liveness properties assume only this: promise reactions run, file-system calls and the library's calls return or
throw, a killed command ends, a timer fires, time passes over an abandoned directory, and somebody calls `ingest` again after a call that failed (`IngestRun`).
Nothing obliges a caller to call or to give up, a user to edit, an operation to succeed or a process to die, and no event of `Events`
is ever needed. `CallsSettle` and `BegunEnds` are stated as `[]<>` of a moment when nothing is owed, because calls are finitely many.

## Proofs

TLC checks the instances above; the theorems hold for every value of the constants that the named assumptions of a module allow. These are what
the definitions need: names are distinct from `None`, bounds are numbers, sets of callers are finite. Where the code gives a promise only
under conditions, the condition on `Events` is a hypothesis of the theorem, and the section of the module above says what happens otherwise. Each
strengthening was checked by TLC before it was proved, as an invariant of the run of its module.

### WriterLock_proofs

`TypeCorrect` under every set of events; `Exclusion`, `LeaseKept`, `Gone`, `NoEviction` and `Refinement` under `Events \subseteq Tolerated`. The
inductive invariant `IInv`: the lock without owner belongs to the one process creating it, a token in the lock
belongs to a process that is dead or between its hold and its removal, a process working under the recovery
directory has put its token there, and what it remembers of a dead owner is still true. Exclusion is not
inductive by itself: whether a removal is harmless depends on whose directory it is and on what the remover read
two awaits ago, which is what `MemoryInv` carries. Outside the tolerated events exclusion fails (see above), so these theorems
cannot be extended without changing the code.

### Queues_proofs

For any calls and processes, turns come in order (`Order`) and the queue with the lock of the host implements the mutex between
calls (`Refinement`). The invariant says that the calls of a process are totally ordered by `before`, that a resolved tail implies all
earlier ones resolved, and that the registered tail is that of the last call. Order follows because a call in turn
has a resolved predecessor, hence all earlier calls have left.

For any requests, workloads, paths, limits and objects: `Admission` (ceilings, order of arrival, who is in which queue and which object the map
has; no step leaves somebody waiting beside a free slot). `Limits` is not empty, a request does not ask for a workload that it
holds. The invariant `WInv` says that each request is in at most one queue, in the place its path gives, that an
object outside the map is idle, and that queues hold nobody twice. `drain` is treated as what it is, one step that starts a prefix of the queue; its lemmas
(`Started`, `Rest`) say which.

### IngestRun_proofs

For any finite set of files, any versions and any window. Under every event, those that the passing run leaves out included: `TypeCorrect`;
`Readable`, that what a run leaves on disk at any step is what `readIngestionState` accepts; and `Staged`, that a rebuild leaves the active table alone.
`IInv` adds to the types what makes them inductive: a file that is still to be processed is neither indexed nor reused (`TodoInv`); the
state in memory and the one on disk are both readable, and one exists as soon as
the journal is appended to (`StateInv`), because a crash in an append mixes the two; a new rebuild
has a table other than the active one until its manifest is written (`StagedInv`). `Staged` speaks of new rebuilds, and of
resumed ones as long as their table is not the active one: a run that failed after its manifest was written is resumed in the
table it has activated.

Under `Disturbances \cap Events = {}` (no source changes behind an unfinished run or within one, no torn journal line): `CleanRuns`, `CompletedRuns`, `Resumes`
and `Replaced`, from the invariant `TableInv` (`RowsKept`), which relates rows, manifest, lists, stored run and run in memory:

- `FileSound`: the record of a file determines which rows it may have (`Expected`): those of its own version when it is indexed, else
  those of its last good version or none, and once it is parsed also its new ones, because a crash may come between the commit of the rows and
  the persisted record.
- `Usable`: a stored run says something only if its table exists, because a rebuild creates its table with the first commit; a
  completed run is usable, and so is one that has changed the active table (`PartlyUpdated`).
- `Outside`: a file the run does not know has rows only if the manifest lists it, so the removal of leftovers finds it.
- `PersistedInv`: between two persists the state on disk is the one in memory or the one before its last step, of the same sources and in the same table.
- `WindowInv` and `ActivatedInv`: a parsed text has the checksum of the record, and a run whose table was validated only has to write it down.

A record that is reused by the checksum of the manifest is sound because of `Unlisted` and `Counted`: the rows behind the checksum have
not been touched by an earlier, incremental run. This is the step that fails with `"editPartial"`.

### GenerationRetention_proofs

For any numbers of tables and readers. `RolesSurvive` needs no condition on events. `LeasesRespected` and `ConfirmedReaderKeeps` assume for every reader that
its leases reach the collection (`Leasable`: it belongs to the collecting process, or lease files can be written and are not read halfway).
Both promise the table until the term of the lease: `LeasesRespected` to a reader whose lease was not past it when the collection
began, `ConfirmedReaderKeeps` to one whose lease is not past it now, and to a reader of the collecting process as long as it reads. `FallbackSurvives` excludes failed and crashed runs. `GenerationsBounded` has no hypothesis because `BoundedGenerations` excludes failures itself. The
inductive invariant keeps the order of the tables without repetitions, relates a run to its table and to the stored state, and says what each stage of a collection
has read: `Protected` bounds what may be dropped by what the manifests and the run name,
`LeaseInv` says that a reader seen in the second listing is covered by a name the collection keeps, or that its table is not among the doomed.
The bound on the generations is a counting argument: the ranks of the tables that stay are distinct numbers up to the number of free slots (`RanksFit`), by the pigeonhole
theorem of the library. `RunAssumption` says that `NoRun` is not a run.

### ClientSnapshots_proofs

For any finite set of reads and of entries, any ingestions and any writes of others. `SnapshotsSafe`: tables are open exactly
while they are used and nothing outlives `close()`. Its invariant `IInv` counts: the references of an entry are the calls that read from it
(`Counted`), an entry is cached, loading or retired, whoever waits for a load waits for the one in flight, and `draining` holds the operations
not yet ended. `ClientAssumption` asks for more entries than reads, so that a load always finds an unused one; the code allocates. `ReadsFresh`: what a read serves is no
older than its floor, from `FreshInv`: every fingerprint in memory is no older than the load that took it, and every floor is at most what the
canonical manifest has now.

### Resources_proofs

For any calls, clients, pulls, keys, objects and cache size: `Invariance` and `PipelinesKept`, the whole of `EmbeddingSound`, under every
event. `LeaseInv` makes the leases of an entry the number of the calls that hold it (`Holders`), so that a disposal, which
waits for no leases, cannot overlap a call. `CacheInv` says that an entry that is not retired is in the cache unless its creation failed. `QueueInv` says that the members
of the queue are the jobs that wait or load, and that only the first one can have the environment; hence the settings a job finds are those of the start, and
those it restores too. `ModelInv` says where a model is while it is away: aside, at a pull that is
past its rename and not yet at its cleanup. Objects have to be available (`NewEntry`), for the code allocates them.

`PagesAreTheirOwn`, the whole of `ExtractionSound`, for any PDFs, engines, limits and batches, under aborts, failures and crashes and any end of a
command. Its one hypothesis is that the file is not rewritten while it is read, without which the code does not keep it (see "Other
disagreements"). `ExtractionInv` says which pages have their text in each phase (`MissingInv`), that an answer is made of whole texts and covers the
pages of its batch that are not stored yet (`AnswerInv`), and that a command which was struck by a timer, an abort or its output is never
believed (`ChildInv`). A command may reorder its batch or leave pages out: `Fits` finds out, because `AscendingFacts` says that the sorted
pages are all of them. A command for one page is not compared with its request, so the invariant needs `ExtractedFacts`, that the command which
`rgr ocr setup` configures answers for the page it was asked for.

### Operations_proofs

`NoTextLost`: for every document that is well formed, every chunk size and every smaller overlap, chunks are within the size and their region
and leave no text between them. The invariant adds that the cursor is in its region and that the last chunk reaches
up to it, less the overlap; the lemmas are about the boundary that is searched for in a window.

`CitationsHold`, the whole of `ChunksPlaced`, for every document whose parsing kept its order (`ParsedInOrder`: the text is in the regions, a
line starts behind each break, pages and located elements follow one another; `DocumentsInOrder` has TLC evaluate it for
the documents of the run): all text is in chunks, the lines, pages and the element a chunk names are those of its text, a repeated header is the
region that the row refers to, whole, and the sample of a data file is even. Whether that region is the header of the row's table is decided by the parser, and not always so (`HeadersBelong` above). `PlaceInv` says besides that the first chunk of a region starts where the text of the region does, by which
the header a row repeats is known to be whole. `EvenPlaces` is the arithmetic of the sample: the middles of equal parts of the chunks,
rounded down, are apart, and none is further from the next than a part and one.

`InventoryIsSound`, the whole of `DiscoverySound`, for any files, entries and names, any number of inventories side by side and any edits:
from the assumption that there are finitely many entries and that each selects files. For the selection, every entry belongs to one
walk (`EveryPatternWalked`: the group of a pattern has a first member), a walk finds what its entries reach and nothing else (`WalkFinds`, where a bug in
the grouping would be); an entry reaches what it selects and neither the default exclusions nor those tried within its own root pass over (`Reaches`), and `Gathered` says of every walk that has ended that the steady files its entries reach are recorded. For the
fingerprints, `Read` says that what an inventory read of a file is not newer than the file. So a checksum of a later text lies under
times the file no longer has, and the second stat finds out (`HashTrue`); nothing is ever said about a file that has changed since.

`ServerIsSound`, the whole of `McpSound`, for any number of calls, clients, changes and passages, on the condition that the agent answers the requests
for its roots in their order (without it a late answer brings old roots back, and a call can be admitted by roots that no
moment of it had). `ScopeKept` does not say that no call is admitted without evidence: as in the code, one is while the agent has never shared
its roots, or could not. `CallsServed` gives a call past its admission a client of the configuration it read; `ClientChain` says that every client was begun
behind the one before it, or when none was left, so that at most one can be open; `ServerEnds` that a closed server has no client and no
ingestion; `MemoryTrue` that what counts as seen was sent, or was in the window of an expansion (sent or not: `MemoryReached` above); `ScopeInv` that the roots by which a call was judged
are not older than those known when it began, nor than those of the listing it awaited.

`SearchesStayTrue`: the parts `TermsTrue` and `EvidenceHonest` of `AnswersSound`, for any generations, requests, policies, cache sizes and failures. What is
cached is true of its generation (`TrueEntries`), an entry that grows takes in only counts of the generation it is about, and a search
keeps the generation it began with while others become active (`Goes`). The identifier of a piece of evidence covers its text, so an
expansion that expects it shows that text or fails.

### Project_proofs

What doctor, setup, upgrade and maintenance rely on, three invariants under every event and any bound.

`ReadinessIsSound`, for any files, texts, policies and numbers of changes, commands and errors: what `doctor --deep` calls ready has the
text of every file, the fast mode agrees with it, an undisturbed upgrade leaves nothing to the next one, nothing starts external extractors by
itself, and what is not ready has advice. The invariant (`ReadinessInv`) says what each of the four descriptions of a file owes the others: a stat
belongs to one content unless the user kept size and time on purpose; a fingerprint in the cache was true of its stat; rows that the
manifest counts have its content and its policy; the snapshot in the manifest repeats its counts. For a command under way it says
which of these its inventory has already replaced and that the report it goes by is that of the state it began in.

`SettingsAreSound`, for any calls of any kinds and any number of edits: no call of the queue undoes what another has reported, and what a migration takes
out of a file is in a backup. An initialization that found no file and writes late is outside the queue and may (`ChangesKept` above); `KeptUnlessReset` excepts the calls whose file it
has written over since, and only them. The invariant (`ConfigInv`) says that only the head of the queue is past its turn; that what it has read is what its file holds,
or what the file held before late defaults were written, which then are all it holds, with no reported change left in it (`Current`); and that a reported change is
in its file until such an initialization.

`MaintenanceIsSound`, for any thresholds, commits and tables: searches use the vector index only where it holds every row, a clean run
leaves a complete text index with positions and nothing to do, and uncompacted commits stay below the threshold. `MaintenanceInv` is the conjunction of

- the types, which say of each table that what an index covers is not more than its rows;
- `ManifestInv`: what the manifest says of the active table's vector index was true when it was written, and stays
  true of it until the next commit, which only makes it smaller than the rows;
- `CountInv`: the count saved for a table, with what the run in progress has to add, is at least the commits since its last compaction,
  less those that a lost write or a death has left uncounted;
- `JobInv`: what the run in progress has established of its table, phase by phase: that the text index is complete and positional
  (`TextInv`), that the compaction it owed has happened (`CompactionInv`), that the vector index is what its policy asks for
  (`VectorInv`), and that the saved signature is of that policy (`SavedInv`).

The assumptions are that `None` is not a name, that bounds and thresholds are natural numbers, and that those which divide or trigger
(`MutationThreshold`, `PileUp`, `AnnRows`, `MaxTables`) are positive. The theorem starts from `MaintenanceInit`, a project without a table; the
run also starts from a maintained one, from where TLC has checked the invariant too.

### Only model-checked

- Liveness under fairness: `AbandonedRecovered`, `WritesProceed`, `EveryoneServed`, `Converges`, `CallsSettle`, `BegunEnds`.
- `SelectionSound`, `ContextComplete` and `PoolSuffices` of a search: the ranks, folds and filters over sequences they are about would need
  induction over data. All three are in `AnswersSound`. The part of the server's promises of this kind is `StubsExplained`: a stub
  stands for a passage that was sent or in a window, or for one that the same batch has found twice.
- `ArchiveKept`: the regions of an archive are computed by a fold.
- `AgentKitSound`: the lines of a hook are cut by `SelectSeq`.

## Not modelled

- The schemas of the manifest, its quarantine and the lists of indexed and unsupported files (only their order of writes is modelled); the
  metrics of an evaluation; reports over the rows of the index (`index-diagnostics.ts` beyond what doctor decides).
- Discovery of knowledge bases, registrations of servers, the security audit, the command line, the landing site, release scripts: reads and output
  without state of their own.
- Decoders of PDF, XML and archives, tokenizers and models; LanceDB itself, whose tables appear, change and go atomically and whose calls may fail;
  other hosts (the lock is local by its documentation); jumps of the clock.
- Distances, word statistics, wording, layout and logs, except where a property is about them.
- In `WriterLock`, errors of `removeTree` that are not crashes; in `GenerationRetention`, rows and checksums, which are those of `IngestRun`.

## Plan

- Modules to come: the order in which the manifest files are written and read back, with the quarantine of a damaged one; the evaluation that runs beside commits.
