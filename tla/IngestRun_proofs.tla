--------------------------- MODULE IngestRun_proofs ---------------------------
(* Proofs about IngestRun, for any files, versions, events and bounds.      *)
EXTENDS IngestRun, FiniteSetTheorems, TLAPS

-----------------------------------------------------------------------------
(* The operators of the model.                                             *)

\* An update of a map of files is a map of files.
LEMMA OverMaps ==
  ASSUME NEW S, NEW g, NEW h, MapsFiles(g, S), MapsFiles(h, S)
  PROVE  MapsFiles(Over(g, h), S)
  BY DEF MapsFiles, Over

\* It covers the files that either map covers.
LEMMA OverDomain ==
  ASSUME NEW g, NEW h
  PROVE  DOMAIN Over(g, h) = DOMAIN g \cup DOMAIN h
  BY DEF Over

\* An update of the rows of a table are the rows of a table.
LEMMA OverRows ==
  ASSUME NEW S, NEW T, NEW g, MapsFiles(g, S), S \subseteq T, NEW h \in [Files -> T]
  PROVE  Over(g, h) \in [Files -> T]
  BY DEF MapsFiles, Over

\* What updateRowsInTable leaves is a table, or no table.
LEMMA UpdateRowsType ==
  ASSUME TypeOK, NEW t \in TableNames, NEW new, MapsFiles(new, Rows), NEW paths
  PROVE  UpdateRows(t, new, paths) \in [Files -> Rows \cup {None}] \cup {Missing}
<1>1. CASE tables[t] = Missing
  <2>1. NoRows \in [Files -> Rows \cup {None}]
    BY DEF NoRows
  <2>2. Over(new, NoRows) \in [Files -> Rows \cup {None}]
    BY <2>1, OverRows
  <2> QED
    BY <1>1, <2>2 DEF UpdateRows
<1>2. CASE tables[t] # Missing
  <2> DEFINE kept == [f \in Files |-> IF f \in paths THEN None ELSE tables[t][f]]
  <2>1. tables[t] \in [Files -> Rows \cup {None}]
    BY <1>2 DEF TypeOK
  <2>2. kept \in [Files -> Rows \cup {None}]
    BY <2>1
  <2> HIDE DEF kept
  <2>3. Over(new, kept) \in [Files -> Rows \cup {None}]
    BY <2>2, OverRows
  <2> QED
    BY <1>2, <2>3 DEF UpdateRows, kept
<1> QED
  BY <1>1, <1>2

\* What the manifest says of a file.
LEMMA ListedType ==
  ASSUME NEW r, IsRunState(r)
  PROVE  /\ Listed(r) \in [Files -> ListedFiles \cup {None}]
         /\ EmptyFiles(r) \in [Files -> Versions \cup {None}]
<1>1. ASSUME NEW s \in FileStates PROVE ListedFile(s) \in ListedFiles \cup {None}
  BY DEF ListedFile, FileStates, ListedFiles
<1>2. ASSUME NEW s \in FileStates PROVE EmptyFile(s) \in Versions \cup {None}
  BY DEF EmptyFile, FileStates
<1> QED
  BY <1>1, <1>2 DEF Listed, EmptyFiles, IsRunState, MapsFiles

-----------------------------------------------------------------------------
(* The state of one file: each update keeps it readable.                   *)

Good(s) == s \in FileStates /\ ReadableFile(s)
Open(s) == s.stage # "indexed" /\ ~s.reused

\* A file whose rows are committed.
LEMMA AsIndexedGood ==
  ASSUME NEW s, Good(s), Open(s)
  PROVE  Good(AsIndexed(s))
  BY NoneAssumption DEF Good, Open, AsIndexed, FileStates, ReadableFile, Stages

\* A file that starts again.
LEMMA AsPendingGood ==
  ASSUME NEW s, Good(s), s.stage # "indexed"
  PROVE  Good(AsPending(s)) /\ Open(AsPending(s))
  BY DEF Good, Open, AsPending, FileStates, ReadableFile, Stages

\* A file that has been parsed, or could not be.
LEMMA AsParsedGood ==
  ASSUME NEW s, Good(s), Open(s), NEW text \in Versions \cup {ParseError}
  PROVE  Good(AsParsed(s, text)) /\ Open(AsParsed(s, text))
<1>1. CASE text = ParseError
  BY <1>1 DEF Good, Open, AsParsed, FileStates, ReadableFile, Stages
<1>2. CASE text # ParseError
  <2>1. Chunks[text] \in Nat
    BY <1>2, ChunksAssumption
  <2> QED
    BY <1>2, <2>1 DEF Good, Open, AsParsed, FileStates, ReadableFile, Stages
<1> QED
  BY <1>1, <1>2

\* A file that has been embedded.
LEMMA EmbeddedGood ==
  ASSUME NEW s, Good(s), Open(s)
  PROVE  Good([s EXCEPT !.stage = "embedded"]) /\ Open([s EXCEPT !.stage = "embedded"])
  BY DEF Good, Open, FileStates, ReadableFile, Stages

\* A file after its turn.
LEMMA AfterCommitGood ==
  ASSUME NEW s, Good(s), Open(s), NEW f
  PROVE  Good(AfterCommit(s, f))
<1>1. CASE parsed[f] # ParseError
  BY <1>1, AsIndexedGood DEF AfterCommit
<1>2. CASE parsed[f] = ParseError
  BY <1>2 DEF AfterCommit, Good, Open, FileStates, ReadableFile, Stages
<1> QED
  BY <1>1, <1>2

\* A file of a new run.
LEMMA NewFileGood ==
  ASSUME TypeOK, NEW rebuild \in BOOLEAN, NEW f \in Present
  PROVE  /\ Good(NewFile(rebuild, f))
         /\ NewFile(rebuild, f).stage # "indexed" => Open(NewFile(rebuild, f))
<1>1. f \in Files /\ source[f] \in Versions /\ source[f] # None
  BY DEF Present, TypeOK
<1> DEFINE previous == IF NewMode(rebuild) = "incremental" THEN Previous(rebuild, f) ELSE None
           reused == NewMode(rebuild) = "incremental" /\ Reusable(rebuild, f)
<1>2. previous \in ListedFiles \cup {None}
  <2>1. PreviousListed(rebuild) \in [Files -> ListedFiles \cup {None}]
    BY DEF PreviousListed, TypeOK, NoRows
  <2>2. PreviousEmpty(rebuild) \in [Files -> Versions \cup {None}]
    BY DEF PreviousEmpty, TypeOK, NoRows
  <2>3. Previous(rebuild, f) \in ListedFiles \cup {None}
    BY <1>1, <2>1, <2>2 DEF Previous, ListedFiles
  <2> QED
    BY <2>3
<1>3. reused \in BOOLEAN
  OBVIOUS
<1> HIDE DEF previous, reused
<1> DEFINE goodSum == IF reused THEN source[f] ELSE IF previous # None THEN previous.sum ELSE None
           goodChunks == IF previous # None THEN previous.chunks ELSE 0
<1>4. goodSum \in Versions \cup {None} /\ goodChunks \in Nat
  BY <1>1, <1>2 DEF ListedFiles
<1>5. goodSum = None => goodChunks = 0
  BY <1>1, <1>2, NoneAssumption DEF ListedFiles
<1>6. reused => goodSum = source[f]
  OBVIOUS
<1>7. NewFile(rebuild, f) =
        [sum |-> source[f], stage |-> IF reused THEN "indexed" ELSE "pending", chunks |-> goodChunks,
         goodSum |-> goodSum, goodChunks |-> goodChunks,
         stale |-> goodSum # None /\ goodSum # source[f], reused |-> reused]
  BY DEF NewFile, previous, reused
<1> DEFINE stale == goodSum # None /\ goodSum # source[f]
           stage == IF reused THEN "indexed" ELSE "pending"
<1>8. stale \in BOOLEAN /\ stage \in Stages
  BY DEF Stages
<1>9. stale => goodSum # None /\ goodSum # source[f] /\ stage # "indexed"
  BY <1>6
<1>10. stage = "indexed" => goodSum = source[f] /\ ~stale
  BY <1>6
<1>11. (reused => stage = "indexed") /\ (stage # "indexed" => ~reused)
  OBVIOUS
<1> HIDE DEF goodSum, goodChunks, stale, stage
<1> DEFINE s == NewFile(rebuild, f)
<1>12. s = [sum |-> source[f], stage |-> stage, chunks |-> goodChunks, goodSum |-> goodSum,
            goodChunks |-> goodChunks, stale |-> stale, reused |-> reused]
  BY <1>7 DEF stale, stage
<1>13. s \in FileStates
  BY <1>1, <1>3, <1>4, <1>8, <1>12 DEF FileStates
<1>14. /\ s.sum = source[f] /\ s.stage = stage /\ s.chunks = goodChunks /\ s.goodSum = goodSum
       /\ s.goodChunks = goodChunks /\ s.stale = stale /\ s.reused = reused
  BY <1>12
<1> HIDE DEF s
<1>15. ReadableFile(s)
  BY <1>5, <1>9, <1>10, <1>11, <1>14 DEF ReadableFile
<1>16. s.stage # "indexed" => Open(s)
  BY <1>11, <1>14 DEF Open
<1> QED
  BY <1>13, <1>15, <1>16 DEF Good, s

-----------------------------------------------------------------------------
(* A run state.                                                            *)

GoodRun(r) == IsRunState(r) /\ ReadableState(r)
GoodFiles(g) == DOMAIN g \subseteq Files /\ g = [f \in DOMAIN g |-> g[f]] /\ \A f \in DOMAIN g : Good(g[f])

\* A run state is good when its files are.
LEMMA RunFiles ==
  ASSUME NEW r
  PROVE  GoodRun(r) <=> /\ r = [table |-> r.table, mode |-> r.mode, status |-> r.status, files |-> r.files]
                        /\ r.table \in TableNames /\ r.mode \in {"incremental", "rebuild"}
                        /\ r.status \in {"open", "completed"} /\ GoodFiles(r.files)
  BY DEF GoodRun, IsRunState, ReadableState, GoodFiles, MapsFiles, Good

\* It stays good when good files replace its files, and nothing else of it changes.
LEMMA WithFiles ==
  ASSUME NEW r, GoodRun(r), NEW g, GoodFiles(g)
  PROVE  /\ GoodRun([r EXCEPT !.files = g])
         /\ [r EXCEPT !.files = g].files = g
         /\ [r EXCEPT !.files = g].mode = r.mode /\ [r EXCEPT !.files = g].table = r.table
<1> DEFINE q == [table |-> r.table, mode |-> r.mode, status |-> r.status, files |-> g]
<1>1. r = [table |-> r.table, mode |-> r.mode, status |-> r.status, files |-> r.files]
  BY RunFiles
<1>2. [r EXCEPT !.files = g] = q
  BY <1>1
<1>3. q.table = r.table /\ q.mode = r.mode /\ q.status = r.status /\ q.files = g
  OBVIOUS
<1> HIDE DEF q
<1>4. q = [table |-> q.table, mode |-> q.mode, status |-> q.status, files |-> q.files]
  BY <1>3 DEF q
<1>5. GoodRun(q)
  BY <1>3, <1>4, RunFiles
<1> QED
  BY <1>2, <1>3, <1>5

\* Good files that replace some files of good files.
LEMMA OverGood ==
  ASSUME NEW g, GoodFiles(g), NEW h, GoodFiles(h)
  PROVE  GoodFiles(Over(g, h))
  BY DEF GoodFiles, Over

\* One file of a good run changes.
LEMMA OneFile ==
  ASSUME NEW r, GoodRun(r), NEW f \in DOMAIN r.files, NEW s, Good(s)
  PROVE  /\ GoodRun([r EXCEPT !.files[f] = s])
         /\ [r EXCEPT !.files[f] = s].files = [r.files EXCEPT ![f] = s]
         /\ [r EXCEPT !.files[f] = s].mode = r.mode /\ [r EXCEPT !.files[f] = s].table = r.table
<1> DEFINE g == [r.files EXCEPT ![f] = s]
<1>1. r = [table |-> r.table, mode |-> r.mode, status |-> r.status, files |-> r.files]
  BY RunFiles
<1>2. [r EXCEPT !.files[f] = s] = [r EXCEPT !.files = g]
  BY <1>1
<1>3. GoodFiles(g)
  BY RunFiles DEF GoodFiles
<1> HIDE DEF g
<1>4. GoodRun([r EXCEPT !.files = g]) /\ [r EXCEPT !.files = g].files = g
        /\ [r EXCEPT !.files = g].mode = r.mode /\ [r EXCEPT !.files = g].table = r.table
  BY <1>3, WithFiles
<1> QED
  BY <1>2, <1>4 DEF g

\* Only a file that has not been indexed is open in what a run begins with.
LEMMA NewRunGood ==
  ASSUME TypeOK, NEW rebuild \in BOOLEAN
  PROVE  LET q == NewRun(rebuild) IN
         /\ GoodRun(q)
         /\ \A f \in DOMAIN q.files : q.files[f].stage # "indexed" => Open(q.files[f])
         /\ q.mode = "rebuild" => q.table # ActiveTable
<1> DEFINE q == NewRun(rebuild)
           g == [f \in Present |-> NewFile(rebuild, f)]
<1>1. q.files = g /\ q.mode = NewMode(rebuild) /\ q.table = NewTable(NewMode(rebuild)) /\ q.status = "open"
  BY DEF NewRun
<1>2. q = [table |-> q.table, mode |-> q.mode, status |-> q.status, files |-> q.files]
  BY <1>1 DEF NewRun
<1>3. GoodFiles(g)
  BY NewFileGood DEF GoodFiles, Present
<1>4. \A f \in DOMAIN g : g[f].stage # "indexed" => Open(g[f])
  BY NewFileGood
<1>5. NewMode(rebuild) \in {"incremental", "rebuild"}
  BY DEF NewMode
<1>6. ActiveTable \in TableNames
  BY DEF ActiveTable, TypeOK
<1>7. \E t \in TableNames \ {BaseTable} : t # ActiveTable
  <2>1. 1 \in TableNames \ {BaseTable} /\ 2 \in TableNames \ {BaseTable}
    BY DEF TableNames, BaseTable
  <2> QED
    BY <2>1
<1>8. NewTable(NewMode(rebuild)) \in TableNames
  BY <1>5, <1>6, <1>7 DEF NewTable
<1>9. NewMode(rebuild) = "rebuild" => NewTable(NewMode(rebuild)) # ActiveTable
  BY <1>7 DEF NewTable
<1> HIDE DEF g, q
<1>10. GoodRun(q)
  BY <1>1, <1>2, <1>3, <1>5, <1>8, RunFiles
<1> QED
  BY <1>1, <1>4, <1>9, <1>10 DEF q

\* A resumed run is as good as the state it comes from.
LEMMA ResumedRunGood ==
  ASSUME NEW s, GoodRun(s)
  PROVE  LET q == ResumedRun(s) IN
         /\ GoodRun(q)
         /\ \A f \in DOMAIN q.files : q.files[f].stage # "indexed" => Open(q.files[f])
<1> DEFINE g == [f \in DOMAIN s.files |-> IF s.files[f].stage = "indexed" THEN s.files[f]
                                          ELSE IF Committed(s, f) THEN AsIndexed(s.files[f])
                                          ELSE AsPending(s.files[f])]
<1>1. ASSUME NEW f \in DOMAIN s.files
      PROVE  Good(g[f]) /\ (g[f].stage # "indexed" => Open(g[f]))
  <2>1. Good(s.files[f])
    BY RunFiles DEF GoodFiles
  <2>2. CASE s.files[f].stage = "indexed"
    BY <2>1, <2>2
  <2>3. CASE s.files[f].stage # "indexed"
    <3>1. Open(s.files[f])
      BY <2>1, <2>3 DEF Good, Open, ReadableFile
    <3>2. Good(AsIndexed(s.files[f])) /\ AsIndexed(s.files[f]).stage = "indexed"
      BY <2>1, <3>1, AsIndexedGood DEF AsIndexed, Good, FileStates
    <3>3. Good(AsPending(s.files[f])) /\ Open(AsPending(s.files[f]))
      BY <2>1, <2>3, AsPendingGood
    <3> QED
      BY <2>3, <3>2, <3>3
  <2> QED
    BY <2>2, <2>3
<1>2. DOMAIN g = DOMAIN s.files /\ DOMAIN s.files \subseteq Files
  BY RunFiles DEF GoodFiles
<1>3. g = [f \in DOMAIN g |-> g[f]]
  OBVIOUS
<1> HIDE DEF g
<1>4. GoodFiles(g)
  BY <1>1, <1>2, <1>3 DEF GoodFiles
<1>5. ResumedRun(s) = [s EXCEPT !.files = g]
  BY DEF ResumedRun, g
<1> QED
  BY <1>1, <1>2, <1>4, <1>5, WithFiles

-----------------------------------------------------------------------------
(* The steps.                                                              *)

\* What the invariant says of a run in progress.
LEMMA InProgress ==
  ASSUME IInv, pc # "idle"
  PROVE  /\ GoodRun(run) /\ GoodFiles(run.files)
         /\ \A f \in todo : f \in DOMAIN run.files /\ Good(run.files[f]) /\ Open(run.files[f])
<1>1. GoodRun(run)
  BY DEF IInv, TypeOK, StateInv, GoodRun
<1>2. GoodFiles(run.files)
  BY <1>1, RunFiles
<1> QED
  BY <1>1, <1>2 DEF IInv, TodoInv, Open, GoodFiles

\* What the invariant says of the state on disk.
LEMMA OnDisk ==
  ASSUME IInv, saved # None
  PROVE  GoodRun(saved)
  BY DEF IInv, TypeOK, StateInv, GoodRun

\* However a call ends, a good state on disk is enough.
LEMMA StopStep ==
  ASSUME IInv, Stopped, saved' = None \/ GoodRun(saved)', journal' \in {"clean", "torn", "malformed"},
         source' \in [Files -> Versions \cup {None}], UNCHANGED <<manifest, empties>>,
         tables' \in [TableNames -> [Files -> Rows \cup {None}] \cup {Missing}],
         edits' \in 0 .. MaxEdits, faults' \in 0 .. MaxFaults
  PROVE  IInv'
<1>1. DOMAIN parsed' = {} /\ MapsFiles(parsed, Versions \cup {ParseError})'
  BY DEF Stopped, MapsFiles
<1>2. TypeOK'
  BY <1>1 DEF IInv, TypeOK, Stopped, GoodRun
<1>3. TodoInv' /\ IdleInv' /\ StagedInv'
  BY DEF Stopped, TodoInv, IdleInv, StagedInv
<1>4. StateInv'
  BY DEF Stopped, StateInv, GoodRun
<1> QED
  BY <1>2, <1>3, <1>4 DEF IInv

\* The call up to its first write.
LEMMA StartStep == IInv /\ Start => IInv'
<1> SUFFICES ASSUME IInv, Start PROVE IInv'
  OBVIOUS
<1>1. pc = "idle" /\ pc' = "process" /\ unsaved' = TRUE
        /\ UNCHANGED <<source, manifest, empties, saved, journal, parsed, edits, faults>>
  BY DEF Start
<1>2. PICK rebuild \in BOOLEAN :
        LET resume == Resumable(StoredState, rebuild)
            next == IF resume THEN ResumedRun(StoredState) ELSE NewRun(rebuild) IN
        /\ run' = next
        /\ tables' = IF resume THEN tables ELSE Only(ActiveTable)
        /\ todo' = {f \in Present : next.files[f].stage # "indexed"}
        /\ removed' \subseteq Files
        /\ resumed' = resume /\ snapshotPersisted' = resume
        /\ policy' \in Policies \cup {None}
  BY DEF Start
<1> DEFINE resume == Resumable(StoredState, rebuild)
<1>3. resume \in BOOLEAN
  BY DEF Resumable
<1>4. TypeOK
  BY DEF IInv
<1>5. ASSUME resume
      PROVE  /\ GoodRun(saved) /\ saved # None /\ run' = ResumedRun(saved)
             /\ DOMAIN run'.files = Present
  <2>1. StoredState = saved /\ saved # None
    BY <1>5 DEF Resumable, StoredState
  <2>2. run' = ResumedRun(saved) /\ DOMAIN saved.files = Present
    BY <1>2, <1>5, <2>1 DEF Resumable
  <2>3. GoodRun(saved)
    BY <2>1, OnDisk
  <2>4. saved = [table |-> saved.table, mode |-> saved.mode, status |-> saved.status, files |-> saved.files]
    BY <2>3, RunFiles
  <2>5. DOMAIN ResumedRun(saved).files = DOMAIN saved.files
    BY <2>4 DEF ResumedRun
  <2> QED
    BY <2>1, <2>2, <2>3, <2>5
<1>6. ASSUME ~resume
      PROVE  run' = NewRun(rebuild) /\ DOMAIN run'.files = Present
  BY <1>2, <1>6 DEF NewRun
<1>7. /\ GoodRun(run')
      /\ \A f \in DOMAIN run'.files : run'.files[f].stage # "indexed" => Open(run'.files[f])
      /\ ~resume /\ run'.mode = "rebuild" => run'.table # ActiveTable
  BY <1>4, <1>5, <1>6, NewRunGood, ResumedRunGood
<1>8. GoodRun(run)'
  BY <1>7 DEF GoodRun, IsRunState, ReadableState
<1>9. DOMAIN run'.files = Present /\ todo' = {f \in Present : run'.files[f].stage # "indexed"}
  BY <1>2, <1>5, <1>6
<1>10. tables' \in [TableNames -> [Files -> Rows \cup {None}] \cup {Missing}]
  BY <1>2, <1>4 DEF Only, TypeOK
<1>11. DOMAIN parsed = {}
  BY <1>1, <1>4 DEF IInv, IdleInv, TypeOK
<1>12. MapsFiles(parsed, Versions \cup {ParseError})'
  BY <1>1, <1>4 DEF TypeOK
<1>13. TypeOK'
  BY <1>1, <1>2, <1>3, <1>4, <1>8, <1>9, <1>10, <1>11, <1>12 DEF TypeOK, GoodRun, Present
<1>14. TodoInv'
  BY <1>7, <1>9 DEF TodoInv, Open
<1>15. IdleInv' /\ StagedInv'
  BY <1>1, <1>2, <1>7 DEF IdleInv, StagedInv, ActiveTable
<1>16. StateInv'
  BY <1>1, <1>2, <1>5, <1>8, OnDisk DEF StateInv, GoodRun, IsRunState, ReadableState
<1> QED
  BY <1>13, <1>14, <1>15, <1>16 DEF IInv
\* A write of the state.
LEMMA PersistStep == IInv /\ Persist => IInv'
<1> SUFFICES ASSUME IInv, Persist PROVE IInv'
  OBVIOUS
<1>1. pc # "idle" /\ GoodRun(run)
  BY InProgress DEF Persist, IInv, IdleInv
<1>2. saved' = run /\ journal' \in {"clean", "malformed"}
  BY DEF Persist, Written, Compacted, Appended
<1>3. TypeOK'
  BY <1>1, <1>2 DEF IInv, TypeOK, Persist, GoodRun
<1>4. TodoInv' /\ IdleInv' /\ StagedInv'
  BY <1>1 DEF IInv, TodoInv, IdleInv, StagedInv, Persist, ActiveTable
<1>5. StateInv'
  BY <1>1, <1>2 DEF IInv, StateInv, Persist, GoodRun, IsRunState, ReadableState
<1> QED
  BY <1>3, <1>4, <1>5 DEF IInv

\* A window of files is parsed.
LEMMA ParseStep == IInv /\ ParseWindow => IInv'
<1> SUFFICES ASSUME IInv, ParseWindow PROVE IInv'
  OBVIOUS
<1>1. pc = "process" /\ pc' = "process" /\ UNCHANGED <<source, disk, flags, todo, removed, edits>>
  BY DEF ParseWindow
<1>0. PICK window \in SUBSET todo : \E texts \in [window -> Versions \cup {ParseError}] :
        /\ faults' = faults + Cardinality({f \in window \cap Present : texts[f] = ParseError})
        /\ faults' <= MaxFaults
        /\ parsed' = texts
        /\ run' = [run EXCEPT !.files = Over([f \in window |-> AsParsed(run.files[f], texts[f])], run.files)]
  BY DEF ParseWindow
<1>2. PICK texts \in [window -> Versions \cup {ParseError}] :
        /\ faults' = faults + Cardinality({f \in window \cap Present : texts[f] = ParseError})
        /\ faults' <= MaxFaults
        /\ parsed' = texts
        /\ run' = [run EXCEPT !.files = Over([f \in window |-> AsParsed(run.files[f], texts[f])], run.files)]
  BY <1>0
<1>3. GoodRun(run) /\ GoodFiles(run.files)
        /\ \A f \in todo : f \in DOMAIN run.files /\ Good(run.files[f]) /\ Open(run.files[f])
  BY <1>1, InProgress
<1> DEFINE new == [f \in window |-> AsParsed(run.files[f], texts[f])]
<1>4. todo \subseteq Files
  BY DEF IInv, TypeOK
<1>5. ASSUME NEW f \in window PROVE Good(new[f]) /\ Open(new[f])
  BY <1>3, AsParsedGood
<1>6. GoodFiles(new)
  BY <1>4, <1>5 DEF GoodFiles
<1> HIDE DEF new
<1>7. GoodFiles(Over(new, run.files))
  BY <1>3, <1>6, OverGood
<1>8. /\ GoodRun(run') /\ run'.files = Over(new, run.files)
      /\ run'.mode = run.mode /\ run'.table = run.table
  BY <1>2, <1>3, <1>7, WithFiles DEF new
<1>9. GoodRun(run)'
  BY <1>8 DEF GoodRun, IsRunState, ReadableState
<1>10. faults' \in 0 .. MaxFaults
  <2>1. IsFiniteSet({f \in window \cap Present : texts[f] = ParseError})
    BY <1>4, FilesAssumption, FS_Subset
  <2>2. Cardinality({f \in window \cap Present : texts[f] = ParseError}) \in Nat
    BY <2>1, FS_CardinalityType
  <2> QED
    BY <1>2, <2>2, BoundsAssumption DEF IInv, TypeOK
<1>11. MapsFiles(parsed, Versions \cup {ParseError})' /\ DOMAIN parsed' \subseteq todo
  BY <1>2, <1>4 DEF MapsFiles
<1>12. TypeOK'
  BY <1>1, <1>9, <1>10, <1>11 DEF IInv, TypeOK, GoodRun, ParseWindow, disk, flags
<1>13. \A f \in todo : f \in DOMAIN run'.files /\ Open(run'.files[f])
  BY <1>3, <1>5, <1>8 DEF Over, new
<1>14. TodoInv'
  BY <1>1, <1>13 DEF TodoInv, Open
<1>15. IdleInv' /\ StagedInv'
  BY <1>1, <1>8 DEF IInv, IdleInv, StagedInv, disk, flags, ActiveTable
<1>16. StateInv'
  BY <1>1, <1>9 DEF IInv, StateInv, GoodRun, disk, flags, IsRunState, ReadableState
<1> QED
  BY <1>12, <1>14, <1>15, <1>16 DEF IInv

\* A file of the window is embedded.
LEMMA EmbedStep == ASSUME IInv, NEW f \in Files, Embed(f) PROVE IInv'
<1>1. f \in todo /\ pc = "process"
  BY DEF Embed, InTurn, IInv, TypeOK
<1>2. /\ GoodRun(run) /\ GoodFiles(run.files)
      /\ \A g \in todo : g \in DOMAIN run.files /\ Good(run.files[g]) /\ Open(run.files[g])
  BY <1>1, InProgress
<1> DEFINE s == [run.files[f] EXCEPT !.stage = "embedded"]
<1>3. Good(s) /\ Open(s)
  BY <1>1, <1>2, EmbeddedGood
<1>4. run' = [run EXCEPT !.files[f] = s]
  BY <1>2, RunFiles DEF Embed
<1> HIDE DEF s
<1>5. /\ GoodRun(run') /\ run'.files = [run.files EXCEPT ![f] = s]
      /\ run'.mode = run.mode /\ run'.table = run.table
  BY <1>1, <1>2, <1>3, <1>4, OneFile
<1>6. GoodRun(run)'
  BY <1>5 DEF GoodRun, IsRunState, ReadableState
<1>7. TypeOK'
  BY <1>1, <1>6 DEF IInv, TypeOK, GoodRun, Embed, disk, flags
<1>8. \A g \in todo : g \in DOMAIN run'.files /\ Open(run'.files[g])
  BY <1>1, <1>2, <1>3, <1>5
<1>9. TodoInv'
  BY <1>8 DEF TodoInv, Open, Embed
<1>10. IdleInv' /\ StagedInv'
  BY <1>1, <1>5 DEF IInv, IdleInv, StagedInv, Embed, disk, flags, ActiveTable
<1>11. StateInv'
  BY <1>6 DEF IInv, StateInv, GoodRun, Embed, disk, flags, IsRunState, ReadableState
<1> QED
  BY <1>7, <1>9, <1>10, <1>11 DEF IInv

\* The rows of a file of the window are committed.
LEMMA CommitStep == ASSUME IInv, NEW f \in Files, Commit(f) PROVE IInv'
<1>1. f \in todo /\ f \in DOMAIN parsed /\ pc = "process"
  BY DEF Commit, InTurn, IInv, TypeOK
<1>2. /\ GoodRun(run) /\ GoodFiles(run.files)
      /\ \A g \in todo : g \in DOMAIN run.files /\ Good(run.files[g]) /\ Open(run.files[g])
  BY <1>1, InProgress
<1>3. run.table \in TableNames
  BY <1>2, RunFiles
<1> DEFINE rows == [g \in {h \in {f} : parsed[h] # ParseError /\ run.files[h].chunks > 0} |->
                     [sum |-> run.files[g].sum, text |-> parsed[g]]]
           s == AfterCommit(run.files[f], f)
<1>4. MapsFiles(rows, Rows)
  <2>1. run.files[f].sum \in Versions
    BY <1>1, <1>2 DEF Good, FileStates
  <2>2. parsed[f] \in Versions \cup {ParseError}
    BY <1>1 DEF IInv, TypeOK, MapsFiles
  <2> QED
    BY <2>1, <2>2 DEF MapsFiles, Rows
<1> HIDE DEF rows
<1>5. UpdateRows(run.table, rows, ReplacePaths(f)) \in [Files -> Rows \cup {None}] \cup {Missing}
  BY <1>3, <1>4, UpdateRowsType DEF IInv
<1>6. /\ tables' \in [TableNames -> [Files -> Rows \cup {None}] \cup {Missing}]
      /\ removed' \subseteq Files
  <2>1. \/ /\ tables' = [tables EXCEPT ![run.table] = UpdateRows(run.table, rows, ReplacePaths(f))]
           /\ removed' = {}
        \/ UNCHANGED <<tables, removed>>
    BY DEF Commit, rows
  <2> QED
    BY <1>3, <1>5, <2>1 DEF IInv, TypeOK
<1>7. Good(s)
  BY <1>1, <1>2, AfterCommitGood
<1>8. run' = [run EXCEPT !.files[f] = s]
  BY <1>2, RunFiles DEF Commit
<1> HIDE DEF s
<1>9. /\ GoodRun(run') /\ run'.files = [run.files EXCEPT ![f] = s]
      /\ run'.mode = run.mode /\ run'.table = run.table
  BY <1>1, <1>2, <1>7, <1>8, OneFile
<1>10. GoodRun(run)'
  BY <1>9 DEF GoodRun, IsRunState, ReadableState
<1>11. MapsFiles(parsed, Versions \cup {ParseError})' /\ DOMAIN parsed' \subseteq todo'
  BY DEF Commit, IInv, TypeOK, MapsFiles
<1>12. TypeOK'
  BY <1>1, <1>6, <1>10, <1>11 DEF IInv, TypeOK, GoodRun, Commit, flags
<1>13. todo' = todo \ {f}
  BY DEF Commit
<1>14. \A g \in todo' : g \in DOMAIN run'.files /\ Open(run'.files[g])
  BY <1>2, <1>9, <1>13
<1>15. TodoInv'
  BY <1>14 DEF TodoInv, Open
<1>16. IdleInv' /\ StagedInv'
  BY <1>1, <1>9 DEF IInv, IdleInv, StagedInv, Commit, flags, ActiveTable
<1>17. StateInv'
  BY <1>10 DEF IInv, StateInv, GoodRun, Commit, flags, IsRunState, ReadableState
<1> QED
  BY <1>12, <1>15, <1>16, <1>17 DEF IInv
\* The removals that are still due are made.
LEMMA RemoveStep == IInv /\ RemoveLeftovers => IInv'
<1> SUFFICES ASSUME IInv, RemoveLeftovers PROVE IInv'
  OBVIOUS
<1>1. pc = "process" /\ GoodRun(run)
  BY InProgress DEF RemoveLeftovers, Processed
<1>2. run.table \in TableNames
  BY <1>1, RunFiles
<1>3. MapsFiles(<<>>, Rows)
  BY DEF MapsFiles
<1>4. UpdateRows(run.table, <<>>, removed) \in [Files -> Rows \cup {None}] \cup {Missing}
  BY <1>2, <1>3, UpdateRowsType DEF IInv
<1>5. TypeOK'
  BY <1>1, <1>2, <1>4 DEF IInv, TypeOK, RemoveLeftovers, flags
<1>6. TodoInv' /\ IdleInv' /\ StagedInv' /\ StateInv'
  BY <1>1 DEF IInv, TodoInv, IdleInv, StagedInv, StateInv, RemoveLeftovers, flags, ActiveTable
<1> QED
  BY <1>5, <1>6 DEF IInv

\* The list of empty files is written.
LEMMA ListStep == IInv /\ WriteEmptyTextFiles => IInv'
<1> SUFFICES ASSUME IInv, WriteEmptyTextFiles PROVE IInv'
  OBVIOUS
<1>1. pc = "process" /\ GoodRun(run)
  BY InProgress DEF WriteEmptyTextFiles, Processed
<1>2. empties' \in [Files -> Versions \cup {None}]
  BY <1>1, ListedType DEF WriteEmptyTextFiles, GoodRun
<1>3. TypeOK'
  BY <1>1, <1>2 DEF IInv, TypeOK, WriteEmptyTextFiles, flags
<1>4. TodoInv' /\ IdleInv' /\ StagedInv' /\ StateInv'
  BY <1>1 DEF IInv, TodoInv, IdleInv, StagedInv, StateInv, WriteEmptyTextFiles, Processed, flags, ActiveTable
<1> QED
  BY <1>3, <1>4 DEF IInv

\* The manifest is written.
LEMMA ActivateStep == IInv /\ WriteIndexManifest => IInv'
<1> SUFFICES ASSUME IInv, WriteIndexManifest PROVE IInv'
  OBVIOUS
<1>1. pc = "listed" /\ GoodRun(run)
  BY InProgress DEF WriteIndexManifest
<1>2. run.table \in TableNames
  BY <1>1, RunFiles
<1>3. Listed(run) \in [Files -> ListedFiles \cup {None}]
  BY <1>1, ListedType DEF GoodRun
<1>4. TypeOK'
  BY <1>1, <1>2, <1>3 DEF IInv, TypeOK, WriteIndexManifest, flags
<1>5. TodoInv' /\ IdleInv' /\ StagedInv' /\ StateInv'
  BY <1>1 DEF IInv, TodoInv, IdleInv, StagedInv, StateInv, WriteIndexManifest, flags
<1> QED
  BY <1>4, <1>5 DEF IInv

\* The end of a run that went well.
LEMMA FinishStep == IInv /\ Finish => IInv'
<1> SUFFICES ASSUME IInv, Finish PROVE IInv'
  OBVIOUS
<1>1. GoodRun(run)
  BY InProgress DEF Finish
<1> DEFINE q == [table |-> run.table, mode |-> run.mode, status |-> "completed", files |-> run.files]
<1>2. saved' = q /\ journal' = "clean"
  BY <1>1, RunFiles DEF Finish, Compacted
<1>3. q.table = run.table /\ q.mode = run.mode /\ q.status = "completed" /\ q.files = run.files
  OBVIOUS
<1>4. q = [table |-> q.table, mode |-> q.mode, status |-> q.status, files |-> q.files]
  OBVIOUS
<1> HIDE DEF q
<1>5. GoodRun(q)
  BY <1>1, <1>3, <1>4, RunFiles
<1>6. GoodRun(saved)'
  BY <1>2, <1>5 DEF GoodRun, IsRunState, ReadableState
<1>7. tables' \in [TableNames -> [Files -> Rows \cup {None}] \cup {Missing}]
  BY DEF Finish, Only, IInv, TypeOK
<1> QED
  BY <1>2, <1>6, <1>7, StopStep DEF Finish, IInv, TypeOK

\* The end of a run that did not.
LEMMA CaughtStep ==
  ASSUME IInv, pc # "idle", Caught, faults' \in 0 .. MaxFaults
  PROVE  IInv'
<1>1. GoodRun(run)
  BY InProgress
<1>2. \/ saved' = run /\ journal' \in {"clean", "malformed"}
      \/ saved' = saved /\ journal' = journal
  BY DEF Caught, Written, Compacted, Appended
<1>3. saved' = None \/ GoodRun(saved)'
  BY <1>1, <1>2, OnDisk DEF GoodRun, IsRunState, ReadableState
<1>4. journal' \in {"clean", "torn", "malformed"}
  BY <1>2 DEF IInv, TypeOK
<1> QED
  BY <1>3, <1>4, StopStep DEF Caught, IInv, TypeOK

\* The process dies between two steps.
LEMMA CrashStep == IInv /\ Crash => IInv'
<1> SUFFICES ASSUME IInv, Crash PROVE IInv'
  OBVIOUS
<1>1. saved' = None \/ GoodRun(saved)'
  BY OnDisk DEF Crash, disk, GoodRun, IsRunState, ReadableState
<1>2. faults' \in 0 .. MaxFaults
  BY BoundsAssumption DEF Crash, IInv, TypeOK
<1> QED
  BY <1>1, <1>2, StopStep DEF Crash, disk, IInv, TypeOK

\* It dies in an append: records of the run are mixed with those of the state before.
LEMMA CrashInAppendStep == IInv /\ CrashInAppend => IInv'
<1> SUFFICES ASSUME IInv, CrashInAppend PROVE IInv'
  OBVIOUS
<1>1. pc # "idle" /\ GoodFiles(run.files)
  BY InProgress DEF CrashInAppend, IInv, IdleInv
<1>2. GoodRun(saved)
  BY DEF CrashInAppend, IInv, StateInv, GoodRun
<1>3. PICK records \in SUBSET DOMAIN run.files :
        saved' = [saved EXCEPT !.files = Over([f \in records |-> run.files[f]], saved.files)]
  BY DEF CrashInAppend
<1> DEFINE new == [f \in records |-> run.files[f]]
<1>4. GoodFiles(new)
  BY <1>1 DEF GoodFiles
<1> HIDE DEF new
<1>5. GoodFiles(Over(new, saved.files))
  BY <1>2, <1>4, OverGood, RunFiles
<1>6. GoodRun(saved)'
  BY <1>2, <1>3, <1>5, WithFiles DEF new, GoodRun, IsRunState, ReadableState
<1>7. journal' \in {"clean", "torn", "malformed"}
  BY DEF CrashInAppend
<1>8. faults' \in 0 .. MaxFaults
  BY BoundsAssumption DEF CrashInAppend, IInv, TypeOK
<1> QED
  BY <1>6, <1>7, <1>8, StopStep DEF CrashInAppend, IInv, TypeOK

\* A source changes.
LEMMA EditStep == IInv /\ Edit => IInv'
<1> SUFFICES ASSUME IInv, Edit PROVE IInv'
  OBVIOUS
<1>1. source' \in [Files -> Versions \cup {None}] /\ edits' \in 0 .. MaxEdits
  BY BoundsAssumption DEF Edit, IInv, TypeOK
<1>2. TypeOK'
  BY <1>1 DEF IInv, TypeOK, Edit, disk, memory
<1>3. TodoInv' /\ IdleInv' /\ StagedInv' /\ StateInv'
  BY DEF IInv, TodoInv, IdleInv, StagedInv, StateInv, Edit, disk, memory, ActiveTable
<1> QED
  BY <1>2, <1>3 DEF IInv

-----------------------------------------------------------------------------
(* The theorems.                                                           *)

\* The invariant holds at the start.
LEMMA InitInv == Init => IInv
<1> SUFFICES ASSUME Init PROVE IInv
  OBVIOUS
<1>1. MapsFiles(<<>>, Versions \cup {ParseError}) /\ DOMAIN <<>> = {}
  BY DEF MapsFiles
<1>2. TypeOK
  BY <1>1, BoundsAssumption DEF Init, TypeOK, NoManifest, NoRows, TableNames, BaseTable
<1> QED
  BY <1>2 DEF Init, IInv, TodoInv, IdleInv, StateInv, StagedInv

\* Every step keeps it.
LEMMA NextInv == IInv /\ [Next]_vars => IInv'
<1> SUFFICES ASSUME IInv, [Next]_vars PROVE IInv'
  OBVIOUS
<1>1. CASE RunStep
  <2>1. CASE RejectTable
    BY <2>1, CaughtStep DEF RejectTable, Processed, IInv, TypeOK
  <2> QED
    BY <1>1, <2>1, StartStep, PersistStep, ParseStep, EmbedStep, CommitStep, RemoveStep, ListStep,
       ActivateStep, FinishStep DEF RunStep
<1>2. CASE FailStep
  <2>1. faults' \in 0 .. MaxFaults
    BY <1>2, BoundsAssumption DEF FailStep, IInv, TypeOK
  <2> QED
    BY <1>2, <2>1, CaughtStep DEF FailStep
<1>3. CASE UNCHANGED vars
  <2>1. TypeOK'
    BY <1>3 DEF IInv, TypeOK, vars, disk, memory
  <2>2. TodoInv' /\ IdleInv' /\ StateInv' /\ StagedInv'
    BY <1>3 DEF IInv, TodoInv, IdleInv, StateInv, StagedInv, ActiveTable, vars, disk, memory
  <2> QED
    BY <2>1, <2>2 DEF IInv
<1> QED
  BY <1>1, <1>2, <1>3, CrashStep, CrashInAppendStep, EditStep DEF Next

\* The inductive invariant of the run: the types, what is left to do, and the states of the run in
\* memory and on disk.
THEOREM Invariance == Spec => []IInv
  BY InitInv, NextInv, PTL DEF Spec

\* Every variable keeps its type, whatever fails or crashes.
THEOREM TypeCorrect == Spec => []TypeOK
<1>1. IInv => TypeOK
  BY DEF IInv
<1> QED
  BY <1>1, Invariance, PTL

\* Whatever a run leaves on disk, at whatever point it stops, readIngestionState accepts.
THEOREM Readable == Spec => []SavedStateReadable
<1>1. IInv => SavedStateReadable
  BY DEF IInv, StateInv, SavedStateReadable
<1> QED
  BY <1>1, Invariance, PTL

\* A rebuild changes no row of the active table until its own table is the active one.
THEOREM Staged == Spec => RebuildIsStaged
<1> DEFINE A == run # None /\ run.mode = "rebuild" /\ (resumed => run.table # ActiveTable)
                  => tables'[ActiveTable] = tables[ActiveTable]
<1>1. IInv /\ [Next]_vars => [A]_vars
  <2> SUFFICES ASSUME IInv, Next, run # None, run.mode = "rebuild", resumed => run.table # ActiveTable
               PROVE  tables'[ActiveTable] = tables[ActiveTable]
    BY DEF vars
  <2>1. pc # "idle" /\ run.table \in TableNames /\ ActiveTable \in TableNames
    BY DEF IInv, TypeOK, IsRunState, ActiveTable
  <2>2. resumed \in BOOLEAN
    BY DEF IInv, TypeOK
  <2>3. ASSUME pc = "process" PROVE run.table # ActiveTable
    BY <2>2, <2>3 DEF IInv, StagedInv
  <2>4. tables \in [TableNames -> [Files -> Rows \cup {None}] \cup {Missing}]
    BY DEF IInv, TypeOK
  <2>5. ASSUME NEW f \in Files, Commit(f) PROVE tables'[ActiveTable] = tables[ActiveTable]
    <3>1. \/ \E rows : tables' = [tables EXCEPT ![run.table] = rows]
          \/ tables' = tables
      BY <2>5 DEF Commit
    <3> QED
      BY <2>1, <2>3, <2>4, <2>5, <3>1 DEF Commit, InTurn
  <2>6. CASE RemoveLeftovers
    BY <2>1, <2>3, <2>4, <2>6 DEF RemoveLeftovers, Processed
  <2>7. CASE Finish
    BY <2>1, <2>7 DEF Finish, Only
  <2>8. CASE Start
    BY <2>1, <2>8 DEF Start
  <2>9. CASE Persist \/ ParseWindow \/ (\E f \in Files : Embed(f)) \/ WriteEmptyTextFiles
               \/ WriteIndexManifest \/ RejectTable \/ FailStep \/ Crash \/ CrashInAppend \/ Edit
    BY <2>9 DEF Persist, ParseWindow, Embed, WriteEmptyTextFiles, WriteIndexManifest, RejectTable, FailStep,
                Caught, Crash, CrashInAppend, Edit, disk
  <2> QED
    BY <2>5, <2>6, <2>7, <2>8, <2>9 DEF Next, RunStep
<1> QED
  BY <1>1, Invariance, PTL DEF Spec, RebuildIsStaged

-----------------------------------------------------------------------------
(* The rows of the files.  What is left of a run, wherever it stopped, is enough to go on: the     *)
(* records of its state and the rows of its table tell the same story.  This needs sources that    *)
(* stay as they are during a run and until an interrupted one is completed, and a journal whose    *)
(* last line is whole.                                                                             *)

Disturbances == {"editDuringRun", "editPartial", "tornLine"}

\* The rows of a version; a file that is gone or has no text has none.
RowOf(v) == IF v = None THEN None ELSE IF Chunks[v] = 0 THEN None ELSE [sum |-> v, text |-> v]

\* The rows of a file in a table of T.
RowsIn(T, t, f) == IF T[t] = Missing THEN None ELSE T[t][f]

\* The chunks a record speaks of are those of its versions.
Counted(s) ==
  /\ s.stage \in {"parsed", "embedded", "indexed"} => s.chunks = Chunks[s.sum]
  /\ s.stage = "pending" => s.chunks = s.goodChunks
  /\ s.goodSum # None => s.goodChunks = Chunks[s.goodSum]
  /\ s.stage # "indexed" => s.goodSum # s.sum

\* The rows that a file with this record may have.
Expected(s) ==
  IF s.stage = "indexed" THEN {RowOf(s.sum)}
  ELSE {None, RowOf(s.goodSum)} \cup (IF s.stage \in {"parsed", "embedded"} THEN {RowOf(s.sum)} ELSE {})

\* A file on the list of empty files that is still to be processed was never indexed.
Unlisted(s, mode, empty) ==
  mode = "incremental" /\ s.stage # "indexed" /\ empty = s.sum => s.goodSum = None

FileSound(s, mode, rows, empty) == Counted(s) /\ rows \in Expected(s) /\ Unlisted(s, mode, empty)
RunSound(r, T, empty) ==
  \A f \in DOMAIN r.files : FileSound(r.files[f], r.mode, RowsIn(T, r.table, f), empty[f])

\* The table that the indexed files of a run need is there.
Usable(r, T) ==
  \/ T[r.table] # Missing
  \/ ~\E f \in DOMAIN r.files : r.files[f].stage = "indexed" /\ r.files[f].chunks > 0

\* A run of the sources as they are.
OfSources(r, sources) ==
  /\ r.status = "open" /\ DOMAIN r.files = {f \in Files : sources[f] # None}
  /\ \A f \in DOMAIN r.files : r.files[f].sum = sources[f]

\* Rows of other files are there for the manifest to list them.
Outside(r, T, listing) == \A f \in Files \ DOMAIN r.files :
  RowsIn(T, r.table, f) # None => r.mode = "incremental" /\ listing.written /\ listing.files[f] # None

RowsSound(T) == \A t \in TableNames, f \in Files : \E v \in Versions \cup {None} : RowsIn(T, t, f) = RowOf(v)
ListsSound(listing, empty) == \A f \in Files :
  /\ listing.files[f] # None => listing.files[f].chunks = Chunks[listing.files[f].sum] /\ listing.files[f].chunks > 0
  /\ empty[f] # None => Chunks[empty[f]] = 0

\* What is on disk.
StateSound(r, T, listing, empty) ==
  /\ r.mode = "incremental" => r.table = listing.table
  /\ Usable(r, T) => RunSound(r, T, empty) /\ (r.status = "open" => Outside(r, T, listing))
  /\ r.status = "completed" => r.table = listing.table /\ Usable(r, T)
DiskInv ==
  /\ journal = "clean"
  /\ RowsSound(tables)
  /\ ListsSound(manifest, empties)
  /\ saved # None => StateSound(saved, tables, manifest, empties)
  /\ PartlyUpdated => saved # None /\ OfSources(saved, source) /\ Usable(saved, tables)

\* The run, what it has persisted, and its window.
RunInv == pc # "idle" =>
  /\ OfSources(run, source)
  /\ RunSound(run, tables, empties)
  /\ run.mode = "incremental" => run.table = ActiveTable
  /\ Outside(run, tables, manifest)
  /\ removed \cap Present = {}
  /\ \A f \in Files \ Present : RowsIn(tables, run.table, f) # None => f \in removed
PersistedInv == pc # "idle" =>
  /\ ~snapshotPersisted => unsaved /\ pc = "process"
  /\ snapshotPersisted => /\ saved # None /\ OfSources(saved, source) /\ Usable(saved, tables)
                          /\ saved.table = run.table /\ saved.mode = run.mode
                          /\ ~unsaved => saved = run
InWindow(s, f, texts) ==
  IF f \notin DOMAIN texts THEN s.stage = "pending"
  ELSE IF texts[f] = ParseError THEN s.stage = "error"
  ELSE s.stage \in {"parsed", "embedded"} /\ texts[f] = s.sum
WindowInv == \A f \in todo : InWindow(run.files[f], f, parsed)

\* A run whose table was found right has nothing left to do but to say so.
ActivatedInv ==
  /\ pc \in {"listed", "active"} =>
       ~unsaved /\ removed = {} /\ todo = {} /\ ValidTable(run) /\ empties = EmptyFiles(run)
  /\ pc = "active" => manifest = [table |-> run.table, files |-> Listed(run), written |-> TRUE]

TableInv == DiskInv /\ RunInv /\ PersistedInv /\ WindowInv /\ ActivatedInv

-----------------------------------------------------------------------------
(* The operators of the rows.                                              *)

\* The rows of a version are a record of it, or there are none.
LEMMA RowOfIs ==
  ASSUME NEW v \in Versions \cup {None}
  PROVE  /\ RowOf(v) # None <=> v # None /\ Chunks[v] # 0
         /\ RowOf(v) # None => /\ v \in Versions /\ Chunks[v] \in Nat /\ Chunks[v] > 0
                               /\ RowOf(v) = [sum |-> v, text |-> v] /\ RowOf(v) \in Rows
                               /\ RowOf(v).sum = v /\ ChunksOf(RowOf(v)) = Chunks[v]
<1>1. CASE v = None
  BY <1>1 DEF RowOf
<1>2. CASE v # None
  <2>1. v \in Versions /\ Chunks[v] \in Nat
    BY <1>2, ChunksAssumption
  <2> DEFINE row == [sum |-> v, text |-> v]
  <2>2. row \in Rows /\ row # None /\ row.sum = v /\ row.text = v
    BY <2>1, RowsAssumption DEF Rows
  <2> HIDE DEF row
  <2>3. RowOf(v) = IF Chunks[v] = 0 THEN None ELSE row
    BY <1>2 DEF RowOf, row
  <2> QED
    BY <1>2, <2>1, <2>2, <2>3 DEF ChunksOf, row
<1> QED
  BY <1>1, <1>2

\* What an update of a table does to the rows of each file, and that the table stays.
Updated(t, new, paths) == [tables EXCEPT ![t] = UpdateRows(t, new, paths)]

LEMMA UpdateRowsDoes ==
  ASSUME TypeOK, NEW t \in TableNames, NEW new, MapsFiles(new, Rows), NEW paths
  PROVE  LET T == Updated(t, new, paths) IN
         /\ \A f \in Files : RowsIn(T, t, f) = IF f \in DOMAIN new THEN new[f]
                                               ELSE IF f \in paths THEN None ELSE RowsOf(t, f)
         /\ \A u \in TableNames : u # t => T[u] = tables[u]
         /\ tables[t] # Missing => T[t] # Missing
         /\ DOMAIN new # {} => T[t] # Missing
<1> SUFFICES ASSUME NEW T, T = Updated(t, new, paths)
             PROVE  /\ \A f \in Files : RowsIn(T, t, f) = IF f \in DOMAIN new THEN new[f]
                                                          ELSE IF f \in paths THEN None ELSE RowsOf(t, f)
                    /\ \A u \in TableNames : u # t => T[u] = tables[u]
                    /\ tables[t] # Missing => T[t] # Missing
                    /\ DOMAIN new # {} => T[t] # Missing
  OBVIOUS
<1>1. tables \in [TableNames -> [Files -> Rows \cup {None}] \cup {Missing}]
  BY DEF TypeOK
<1>2. T[t] = UpdateRows(t, new, paths) /\ \A u \in TableNames : u # t => T[u] = tables[u]
  BY <1>1 DEF Updated
<1>3. DOMAIN new \subseteq Files /\ \A f \in DOMAIN new : new[f] \in Rows
  BY DEF MapsFiles
<1>4. CASE tables[t] = Missing
  <2>1. CASE DOMAIN new = {}
    BY <1>2, <1>4, <2>1 DEF UpdateRows, RowsIn, RowsOf
  <2>2. CASE DOMAIN new # {}
    <3>1. T[t] = Over(new, NoRows)
      BY <1>2, <1>4, <2>2 DEF UpdateRows
    <3>2. Over(new, NoRows) \in [Files -> Rows \cup {None}]
      BY OverRows DEF NoRows
    <3>3. T[t] # Missing
      BY <3>1, <3>2, RowsAssumption
    <3>4. \A f \in Files : T[t][f] = IF f \in DOMAIN new THEN new[f] ELSE None
      BY <1>3, <3>1 DEF Over, NoRows
    <3> QED
      BY <1>2, <1>4, <3>3, <3>4 DEF RowsIn, RowsOf
  <2> QED
    BY <2>1, <2>2
<1>5. CASE tables[t] # Missing
  <2> DEFINE kept == [f \in Files |-> IF f \in paths THEN None ELSE tables[t][f]]
  <2>1. tables[t] \in [Files -> Rows \cup {None}]
    BY <1>1, <1>5
  <2>2. kept \in [Files -> Rows \cup {None}]
    BY <2>1
  <2>3. T[t] = Over(new, kept)
    BY <1>2, <1>5 DEF UpdateRows
  <2>4. \A f \in Files : kept[f] = IF f \in paths THEN None ELSE tables[t][f]
    OBVIOUS
  <2>5. DOMAIN kept = Files
    OBVIOUS
  <2> HIDE DEF kept
  <2>6. T[t] # Missing
    <3>1. Over(new, kept) \in [Files -> Rows \cup {None}]
      BY <2>2, OverRows
    <3> QED
      BY <2>3, <3>1, RowsAssumption
  <2>7. \A f \in Files : T[t][f] = IF f \in DOMAIN new THEN new[f] ELSE kept[f]
    BY <1>3, <2>3, <2>5 DEF Over
  <2> QED
    BY <1>2, <1>5, <2>4, <2>6, <2>7 DEF RowsIn, RowsOf
<1> QED
  BY <1>4, <1>5

-----------------------------------------------------------------------------
(* The record of a file and its rows.                                      *)

\* The fields of an updated record.
LEMMA Fields ==
  ASSUME NEW s \in FileStates
  PROVE  /\ LET q == AsIndexed(s) IN /\ q.sum = s.sum /\ q.stage = "indexed" /\ q.chunks = s.chunks
                                     /\ q.goodSum = s.sum /\ q.goodChunks = s.chunks /\ q.stale = FALSE
         /\ LET q == AsPending(s) IN /\ q.sum = s.sum /\ q.stage = "pending" /\ q.chunks = s.goodChunks
                                     /\ q.goodSum = s.goodSum /\ q.goodChunks = s.goodChunks
         /\ LET q == [s EXCEPT !.stage = "embedded"] IN
              /\ q.sum = s.sum /\ q.stage = "embedded" /\ q.chunks = s.chunks
              /\ q.goodSum = s.goodSum /\ q.goodChunks = s.goodChunks
  BY DEF FileStates, AsIndexed, AsPending

\* Those of a file that has been parsed.
LEMMA ParsedFields ==
  ASSUME NEW s \in FileStates, NEW text
  PROVE  LET q == AsParsed(s, text) IN
         /\ q.sum = s.sum /\ q.goodSum = s.goodSum /\ q.goodChunks = s.goodChunks
         /\ text = ParseError => q.stage = "error"
         /\ text # ParseError => q.stage = "parsed" /\ q.chunks = Chunks[text]
  BY DEF FileStates, AsParsed

\* A file whose rows are in the table.
LEMMA IndexedSound ==
  ASSUME NEW s \in FileStates, s.chunks = Chunks[s.sum], NEW mode, NEW empty
  PROVE  FileSound(AsIndexed(s), mode, RowOf(s.sum), empty)
  BY Fields DEF FileSound, Counted, Expected, Unlisted

\* A file that was committed, whether or not that was recorded.
LEMMA CommittedSound ==
  ASSUME NEW s \in FileStates, NEW mode, NEW rows, NEW empty \in Versions \cup {None},
         FileSound(s, mode, rows, empty), empty # None => Chunks[empty] = 0,
         NEW v \in Versions \cup {None}, rows = RowOf(v), s.goodSum = None => s.goodChunks = 0,
         s.stage \notin {"indexed", "error"},
         IF s.chunks > 0 THEN rows # None /\ rows.sum = s.sum /\ ChunksOf(rows) = s.chunks
                         ELSE mode = "incremental" /\ empty = s.sum
  PROVE  FileSound(AsIndexed(s), mode, rows, empty)
<1>1. s.sum \in Versions /\ s.goodSum \in Versions \cup {None} /\ s.chunks \in Nat /\ s.stage \in Stages
  BY DEF FileStates
<1>2. rows = RowOf(s.sum) /\ s.chunks = Chunks[s.sum]
  <2>1. CASE s.chunks > 0
    <3>1. v = s.sum /\ ChunksOf(rows) = Chunks[v]
      BY <2>1, RowOfIs
    <3> QED
      BY <2>1, <3>1
  <2>2. CASE ~(s.chunks > 0)
    <3>1. Chunks[s.sum] = 0 /\ s.chunks = 0 /\ s.goodSum = None /\ RowOf(s.sum) = None /\ RowOf(None) = None
      BY <1>1, <2>2, NoneAssumption DEF FileSound, Unlisted, RowOf
    <3>2. rows = None
      BY <3>1 DEF FileSound, Expected
    <3> QED
      BY <3>1, <3>2
  <2> QED
    BY <2>1, <2>2
<1> QED
  BY <1>2, IndexedSound

\* A file that was not starts again.
LEMMA PendingSound ==
  ASSUME NEW s \in FileStates, NEW mode, NEW rows, NEW empty, FileSound(s, mode, rows, empty),
         NEW v \in Versions \cup {None}, rows = RowOf(v), s.stage # "indexed",
         ~ /\ s.stage # "error"
           /\ s.chunks > 0 /\ rows # None /\ rows.sum = s.sum /\ ChunksOf(rows) = s.chunks
  PROVE  FileSound(AsPending(s), mode, rows, empty)
<1>1. s.sum \in Versions /\ s.goodSum \in Versions \cup {None} /\ s.stage \in Stages
  BY DEF FileStates
<1>2. rows \in {None, RowOf(s.goodSum)}
  <2> SUFFICES ASSUME rows # None, s.stage \in {"parsed", "embedded"}, rows = RowOf(s.sum) PROVE FALSE
    BY DEF FileSound, Expected
  <2>1. rows.sum = s.sum /\ ChunksOf(rows) = Chunks[s.sum] /\ Chunks[s.sum] > 0
    BY <1>1, RowOfIs
  <2>2. s.chunks = Chunks[s.sum]
    BY DEF FileSound, Counted
  <2> QED
    BY <2>1, <2>2
<1>3. Counted(AsPending(s)) /\ Unlisted(AsPending(s), mode, empty)
  BY Fields DEF FileSound, Counted, Unlisted
<1> QED
  BY <1>2, <1>3, Fields DEF FileSound, Expected

\* A pending file that has been parsed: the text is the one of the inventory.
LEMMA ParsedSound ==
  ASSUME NEW s \in FileStates, NEW mode, NEW rows, NEW empty, FileSound(s, mode, rows, empty),
         s.stage = "pending", NEW text, text \in {s.sum, ParseError}
  PROVE  FileSound(AsParsed(s, text), mode, rows, empty)
<1>1. s.sum # ParseError
  BY NoneAssumption DEF FileStates
<1>2. CASE text = ParseError
  BY <1>2, ParsedFields DEF FileSound, Counted, Expected, Unlisted
<1>3. CASE text # ParseError
  BY <1>1, <1>3, ParsedFields DEF FileSound, Counted, Expected, Unlisted
<1> QED
  BY <1>2, <1>3

\* One that has been embedded.
LEMMA EmbeddedSound ==
  ASSUME NEW s \in FileStates, NEW mode, NEW rows, NEW empty, FileSound(s, mode, rows, empty),
         s.stage = "parsed"
  PROVE  FileSound([s EXCEPT !.stage = "embedded"], mode, rows, empty)
  BY Fields DEF FileSound, Counted, Expected, Unlisted

\* A file of a window after its turn.
LEMMA AfterCommitSound ==
  ASSUME NEW s \in FileStates, NEW mode, NEW rows, NEW empty, FileSound(s, mode, rows, empty),
         NEW f, InWindow(s, f, parsed), f \in DOMAIN parsed, s.stage # "parsed", NEW after,
         IF parsed[f] # ParseError THEN after = RowOf(s.sum)
         ELSE IF run.mode = "incremental" /\ policy = "remove-stale" THEN after = None
         ELSE after = rows
  PROVE  /\ FileSound(AfterCommit(s, f), mode, after, empty)
         /\ AfterCommit(s, f).sum = s.sum
         /\ FileSound(s, mode, after, empty)
<1>1. CASE parsed[f] # ParseError
  <2>1. s.stage = "embedded" /\ s.chunks = Chunks[s.sum]
    BY <1>1 DEF InWindow, FileSound, Counted
  <2>2. AfterCommit(s, f) = AsIndexed(s) /\ after = RowOf(s.sum)
    BY <1>1 DEF AfterCommit
  <2>3. FileSound(s, mode, after, empty)
    BY <2>1, <2>2 DEF FileSound, Expected
  <2>4. AsIndexed(s).sum = s.sum
    BY Fields
  <2>5. FileSound(AsIndexed(s), mode, RowOf(s.sum), empty)
    BY <2>1, IndexedSound
  <2> QED
    BY <2>2, <2>3, <2>4, <2>5
<1>2. CASE parsed[f] = ParseError
  <2>1. s.stage = "error"
    BY <1>2 DEF InWindow
  <2>2. FileSound(s, mode, after, empty)
    BY <1>2, <2>1 DEF FileSound, Expected
  <2>3. CASE run.mode = "incremental" /\ policy = "remove-stale"
    <3> DEFINE q == AfterCommit(s, f)
    <3>1. q.sum = s.sum /\ q.stage = "error" /\ q.goodSum = None
      BY <1>2, <2>1, <2>3 DEF AfterCommit, FileStates
    <3>2. s.sum # None
      BY NoneAssumption DEF FileStates
    <3>3. after = None
      BY <1>2, <2>3
    <3> HIDE DEF q
    <3>4. FileSound(q, mode, after, empty)
      BY <3>1, <3>2, <3>3 DEF FileSound, Counted, Expected, Unlisted
    <3> QED
      BY <2>2, <3>1, <3>4 DEF q
  <2>4. CASE ~(run.mode = "incremental" /\ policy = "remove-stale")
    <3>1. AfterCommit(s, f) = s
      BY <1>2, <2>4 DEF AfterCommit
    <3> QED
      BY <2>2, <3>1
  <2> QED
    BY <2>2, <2>3, <2>4
<1> QED
  BY <1>1, <1>2

\* A file of a new run: what is reused, and what the record of a changed file says of it, is what
\* the table holds, because nothing was left half done in the active table.
LEMMA NewFileSound ==
  ASSUME IInv, DiskInv, NEW rebuild \in BOOLEAN, NEW f \in Present,
         NEW rows, rows = IF NewMode(rebuild) = "rebuild" THEN None ELSE RowsOf(ActiveTable, f),
         NewMode(rebuild) = "incremental" => ~PartlyUpdated
  PROVE  /\ FileSound(NewFile(rebuild, f), NewMode(rebuild), rows, empties[f])
         /\ NewFile(rebuild, f).sum = source[f]
         /\ NewFile(rebuild, f).stage \in {"indexed", "pending"}
<1>1. f \in Files /\ source[f] \in Versions /\ source[f] # None
  BY DEF Present, IInv, TypeOK
<1> DEFINE previous == IF NewMode(rebuild) = "incremental" THEN Previous(rebuild, f) ELSE None
           reused == NewMode(rebuild) = "incremental" /\ Reusable(rebuild, f)
           listed == manifest.files[f]
           empty == empties[f]
<1>2. listed \in ListedFiles \cup {None} /\ empty \in Versions \cup {None}
  BY <1>1 DEF IInv, TypeOK
<1>3. /\ previous = None \/ (previous.sum \in Versions \cup {None} /\ previous.chunks = Chunks[previous.sum])
      /\ rows = IF previous = None THEN None ELSE RowOf(previous.sum)
      /\ reused <=> previous # None /\ previous.sum = source[f]
      /\ previous # None /\ NewMode(rebuild) = "incremental" /\ empty = source[f] => reused
  <2>1. CASE NewMode(rebuild) = "rebuild"
    BY <2>1
  <2>2. CASE NewMode(rebuild) # "rebuild" /\ ~CanReuse(rebuild)
    <3>1. tables[ActiveTable] = Missing
      BY <2>2 DEF NewMode, CanReuse
    <3>2. rows = None
      BY <2>2, <3>1 DEF RowsOf
    <3>3. PreviousListed(rebuild)[f] = None /\ PreviousEmpty(rebuild)[f] = None
      BY <1>1, <2>2 DEF PreviousListed, PreviousEmpty, NoRows
    <3>4. previous = None /\ ~reused
      BY <3>3 DEF Previous, Reusable
    <3> QED
      BY <3>2, <3>4
  <2>3. CASE NewMode(rebuild) # "rebuild" /\ CanReuse(rebuild)
    <3>1. NewMode(rebuild) = "incremental" /\ manifest.written
      BY <2>3 DEF NewMode, CanReuse, Compatible
    <3>2. PreviousListed(rebuild)[f] = listed /\ PreviousEmpty(rebuild)[f] = empty
      BY <2>3 DEF PreviousListed, PreviousEmpty
    <3>3. rows = RowsOf(ActiveTable, f) /\ Matches(rows, listed) /\ ~(listed # None /\ empty # None)
      BY <1>1, <2>3, <3>1 DEF PartlyUpdated
    <3>4. previous = IF empty # None THEN [sum |-> empty, chunks |-> 0] ELSE listed
      BY <3>1, <3>2 DEF Previous
    <3>5. reused <=> \/ listed # None /\ listed.sum = source[f]
                     \/ empty # None /\ empty = source[f]
      BY <3>1, <3>2 DEF Reusable
    <3> HIDE DEF previous, reused
    <3>6. CASE empty # None
      <4>1. listed = None /\ rows = None
        BY <3>3, <3>6 DEF Matches
      <4> DEFINE p == [sum |-> empty, chunks |-> 0]
      <4>2. p \in ListedFiles /\ p.sum = empty /\ p.chunks = 0
        BY <1>2, <3>6 DEF ListedFiles
      <4>3. p # None
        BY <4>2, RowsAssumption
      <4>4. Chunks[empty] = 0
        BY <1>1, <3>6 DEF DiskInv, ListsSound
      <4>5. RowOf(empty) = None
        BY <3>6, <4>4 DEF RowOf
      <4>6. previous = p
        BY <3>4, <3>6
      <4> HIDE DEF p, listed, empty
      <4> QED
        BY <1>2, <3>5, <3>6, <4>1, <4>2, <4>3, <4>4, <4>5, <4>6
    <3>7. CASE empty = None /\ listed # None
      <4>1. listed.sum \in Versions /\ listed.chunks = Chunks[listed.sum]
        BY <1>1, <1>2, <3>7 DEF DiskInv, ListsSound, ListedFiles
      <4>2. PICK v \in Versions \cup {None} : RowsIn(tables, ActiveTable, f) = RowOf(v)
        BY <1>1 DEF DiskInv, RowsSound, ActiveTable, IInv, TypeOK
      <4>3. rows = RowOf(v) /\ rows # None /\ rows.sum = listed.sum
        BY <3>3, <3>7, <4>2 DEF RowsIn, RowsOf, Matches
      <4>4. rows = RowOf(listed.sum)
        BY <4>3, RowOfIs
      <4> HIDE DEF listed, empty
      <4> QED
        BY <1>1, <3>4, <3>5, <3>7, <4>1, <4>4
    <3>8. CASE empty = None /\ listed = None
      <4> HIDE DEF listed, empty
      <4> QED
        BY <1>1, <3>3, <3>4, <3>5, <3>8 DEF Matches
    <3> QED
      BY <3>6, <3>7, <3>8
  <2> QED
    BY <2>1, <2>2, <2>3
<1> HIDE DEF empty, listed
<1> DEFINE goodSum == IF reused THEN source[f] ELSE IF previous # None THEN previous.sum ELSE None
           goodChunks == IF previous # None THEN previous.chunks ELSE 0
           s == NewFile(rebuild, f)
<1>4. s = [sum |-> source[f], stage |-> IF reused THEN "indexed" ELSE "pending", chunks |-> goodChunks,
           goodSum |-> goodSum, goodChunks |-> goodChunks,
           stale |-> goodSum # None /\ goodSum # source[f], reused |-> reused]
  BY DEF NewFile
<1> HIDE DEF previous, reused, goodSum, goodChunks, s
<1>5. /\ s.sum = source[f] /\ s.stage = IF reused THEN "indexed" ELSE "pending"
      /\ s.chunks = goodChunks /\ s.goodSum = goodSum /\ s.goodChunks = goodChunks
  BY <1>4
<1>6. goodSum = IF previous # None THEN previous.sum ELSE None
  BY <1>3 DEF goodSum
<1>7. RowOf(None) = None
  BY DEF RowOf
<1>8. Counted(s)
  BY <1>1, <1>3, <1>5, <1>6 DEF Counted, goodChunks
<1>9. rows \in Expected(s)
  BY <1>3, <1>5, <1>6, <1>7 DEF Expected
<1>10. Unlisted(s, NewMode(rebuild), empty)
  BY <1>3, <1>5, <1>6 DEF Unlisted
<1>11. FileSound(s, NewMode(rebuild), rows, empty)
  BY <1>8, <1>9, <1>10 DEF FileSound
<1> QED
  BY <1>5, <1>11 DEF s, empty

-----------------------------------------------------------------------------
(* The table of a run.                                                     *)

\* What is left when every table but one is dropped.
LEMMA OnlyOne ==
  ASSUME TypeOK, DiskInv, NEW T, T = Only(ActiveTable)
  PROVE  /\ T[ActiveTable] = tables[ActiveTable]
         /\ \A t \in TableNames : t # ActiveTable => T[t] = Missing
         /\ RowsSound(T)
         /\ saved # None /\ saved.table \in TableNames => StateSound(saved, T, manifest, empties)
<1>1. ActiveTable \in TableNames
  BY DEF ActiveTable, TypeOK
<1>2. T[ActiveTable] = tables[ActiveTable] /\ \A t \in TableNames : t # ActiveTable => T[t] = Missing
  BY <1>1 DEF Only
<1>3. RowsSound(T)
  <2> SUFFICES ASSUME NEW t \in TableNames, NEW f \in Files
               PROVE  \E v \in Versions \cup {None} : RowsIn(T, t, f) = RowOf(v)
    BY DEF RowsSound
  <2>1. CASE t = ActiveTable
    BY <1>2, <2>1 DEF DiskInv, RowsSound, RowsIn
  <2>2. CASE t # ActiveTable
    <3>1. RowsIn(T, t, f) = None /\ RowOf(None) = None
      BY <1>2, <2>2 DEF RowsIn, RowOf
    <3> QED
      BY <3>1
  <2> QED
    BY <2>1, <2>2
<1>4. ASSUME saved # None, saved.table \in TableNames PROVE StateSound(saved, T, manifest, empties)
  <2>1. StateSound(saved, tables, manifest, empties)
    BY <1>4 DEF DiskInv
  <2>2. CASE saved.table = ActiveTable
    BY <1>2, <2>1, <2>2 DEF StateSound, Usable, RunSound, Outside, RowsIn
  <2>3. CASE saved.table # ActiveTable
    <3>1. T[saved.table] = Missing
      BY <1>2, <1>4, <2>3
    <3>2. saved.mode # "incremental" /\ saved.status # "completed"
      BY <2>1, <2>3 DEF StateSound, ActiveTable
    <3>3. Outside(saved, T, manifest)
      BY <3>1 DEF Outside, RowsIn
    <3>4. ASSUME Usable(saved, T) PROVE RunSound(saved, T, empties)
      <4>1. ~\E f \in DOMAIN saved.files : saved.files[f].stage = "indexed" /\ saved.files[f].chunks > 0
        BY <3>1, <3>4 DEF Usable
      <4>2. RunSound(saved, tables, empties)
        BY <2>1, <4>1 DEF StateSound, Usable
      <4> SUFFICES ASSUME NEW f \in DOMAIN saved.files
                   PROVE  FileSound(saved.files[f], saved.mode, None, empties[f])
        BY <3>1 DEF RunSound, RowsIn
      <4> DEFINE s == saved.files[f]
      <4>3. Counted(s) /\ Unlisted(s, saved.mode, empties[f])
        BY <4>2 DEF RunSound, FileSound
      <4>4. s \in FileStates
        BY <1>4 DEF TypeOK, IsRunState, MapsFiles
      <4>5. s.stage = "indexed" => RowOf(s.sum) = None
        <5> SUFFICES ASSUME s.stage = "indexed" PROVE RowOf(s.sum) = None
          OBVIOUS
        <5>1. s.chunks = 0
          BY <4>1, <4>4 DEF FileStates
        <5>2. Chunks[s.sum] = 0
          BY <4>3, <5>1 DEF Counted
        <5> QED
          BY <5>2 DEF RowOf
      <4> HIDE DEF s
      <4>6. None \in Expected(s)
        BY <4>5 DEF Expected
      <4> QED
        BY <4>3, <4>6 DEF FileSound, s
    <3> QED
      BY <2>3, <3>2, <3>3, <3>4 DEF StateSound
  <2> QED
    BY <2>2, <2>3
<1> QED
  BY <1>2, <1>3, <1>4

\* The table that the rows of a sound run are in is there.
LEMMA SoundUsable ==
  ASSUME NEW r, \A f \in DOMAIN r.files : r.files[f] \in FileStates, NEW T, NEW empty, RunSound(r, T, empty)
  PROVE  Usable(r, T)
<1> SUFFICES ASSUME T[r.table] = Missing, NEW f \in DOMAIN r.files,
                    r.files[f].stage = "indexed", r.files[f].chunks > 0
             PROVE  FALSE
  BY DEF Usable
<1>1. FileSound(r.files[f], r.mode, None, empty[f])
  BY DEF RunSound, RowsIn
<1>2. RowOf(r.files[f].sum) = None /\ r.files[f].chunks = Chunks[r.files[f].sum]
  BY <1>1 DEF FileSound, Counted, Expected
<1>3. r.files[f].sum \in Versions
  BY DEF FileStates
<1> QED
  BY <1>2, <1>3, RowOfIs, NoneAssumption

\* Once every file is indexed and no other row is left, the table is what the state lists.
LEMMA ValidWhenIndexed ==
  ASSUME IInv, GoodRun(run), RunSound(run, tables, empties),
         \A f \in DOMAIN run.files : run.files[f].stage = "indexed",
         \A f \in Files \ DOMAIN run.files : RowsOf(run.table, f) = None
  PROVE  ValidTable(run)
<1> SUFFICES ASSUME NEW f \in Files PROVE Matches(RowsOf(run.table, f), Listed(run)[f])
  BY DEF ValidTable
<1>1. CASE f \notin DOMAIN run.files
  BY <1>1 DEF Listed, Matches
<1>2. CASE f \in DOMAIN run.files
  <2> DEFINE s == run.files[f]
  <2>1. Good(s) /\ s.stage = "indexed"
    BY <1>2, RunFiles DEF GoodFiles
  <2>2. RowsOf(run.table, f) = RowOf(s.sum) /\ s.chunks = Chunks[s.sum]
    BY <1>2, <2>1 DEF RunSound, FileSound, Expected, Counted, RowsIn, RowsOf
  <2>3. s.sum \in Versions /\ s.chunks \in Nat /\ ~s.stale
    BY <2>1 DEF Good, FileStates, ReadableFile
  <2>4. Listed(run)[f] = ListedFile(s)
    BY <1>2 DEF Listed
  <2> HIDE DEF s
  <2>5. CASE s.chunks > 0
    <3> DEFINE listed == [sum |-> s.sum, chunks |-> s.chunks]
    <3>1. ListedFile(s) = listed /\ listed.sum = s.sum /\ listed.chunks = s.chunks
      BY <2>1, <2>5 DEF ListedFile
    <3>2. listed # None
      BY <2>3, RowsAssumption DEF ListedFiles
    <3>3. /\ RowOf(s.sum) # None /\ RowOf(s.sum).sum = s.sum /\ ChunksOf(RowOf(s.sum)) = s.chunks
      BY <2>2, <2>3, <2>5, RowOfIs, NoneAssumption
    <3> HIDE DEF listed
    <3> QED
      BY <2>2, <2>4, <3>1, <3>2, <3>3 DEF Matches
  <2>6. CASE ~(s.chunks > 0)
    <3>1. ListedFile(s) = None
      BY <2>3, <2>6 DEF ListedFile
    <3>2. RowOf(s.sum) = None
      BY <2>2, <2>3, <2>6, RowOfIs
    <3> QED
      BY <2>2, <2>4, <3>1, <3>2 DEF Matches
  <2> QED
    BY <2>5, <2>6
<1> QED
  BY <1>1, <1>2

-----------------------------------------------------------------------------
(* The steps and the rows.                                                 *)

\* What the invariants say of a run in progress.
LEMMA RunFacts ==
  ASSUME IInv, TableInv, pc # "idle"
  PROVE  /\ run.table \in TableNames /\ run.mode \in {"incremental", "rebuild"} /\ run.status = "open"
         /\ DOMAIN run.files = Present
         /\ \A f \in Present : /\ run.files[f] \in FileStates /\ run.files[f].sum = source[f]
                               /\ FileSound(run.files[f], run.mode, RowsOf(run.table, f), empties[f])
         /\ run = [table |-> run.table, mode |-> run.mode, status |-> run.status, files |-> run.files]
         /\ Present \subseteq Files
<1>1. GoodRun(run)
  BY InProgress
<1>2. OfSources(run, source) /\ RunSound(run, tables, empties)
  BY DEF TableInv, RunInv
<1> QED
  BY <1>1, <1>2, RunFiles DEF OfSources, RunSound, RowsIn, RowsOf, Present, GoodFiles, Good

\* The whole of the rows is a row or none.
LEMMA RowIs ==
  ASSUME DiskInv, NEW t \in TableNames, NEW f \in Files
  PROVE  \E v \in Versions \cup {None} : RowsOf(t, f) = RowOf(v)
  BY DEF DiskInv, RowsSound, RowsIn, RowsOf

\* A run that goes on where another one stopped.
LEMMA ResumeSound ==
  ASSUME IInv, DiskInv, saved # None, NEW rebuild \in BOOLEAN, Resumable(saved, rebuild)
  PROVE  LET next == ResumedRun(saved) IN
         /\ OfSources(next, source) /\ RunSound(next, tables, empties)
         /\ next.table = saved.table /\ next.mode = saved.mode
         /\ \A f \in Present : next.files[f].stage \in {"indexed", "pending"}
         /\ OfSources(saved, source) /\ Usable(saved, tables)
<1>1. GoodRun(saved) /\ GoodFiles(saved.files)
  BY OnDisk, RunFiles
<1>2. saved = [table |-> saved.table, mode |-> saved.mode, status |-> saved.status, files |-> saved.files]
      /\ saved.table \in TableNames
  BY <1>1, RunFiles
<1>3. saved.status = "open" /\ DOMAIN saved.files = Present
        /\ \A f \in Present : saved.files[f].sum = source[f]
  BY DEF Resumable
<1>4. OfSources(saved, source) /\ Usable(saved, tables)
  BY <1>3 DEF OfSources, Present, Usable, Resumable
<1>5. RunSound(saved, tables, empties)
  BY <1>4 DEF DiskInv, StateSound
<1> DEFINE files == [f \in DOMAIN saved.files |-> IF saved.files[f].stage = "indexed" THEN saved.files[f]
                                                  ELSE IF Committed(saved, f) THEN AsIndexed(saved.files[f])
                                                  ELSE AsPending(saved.files[f])]
           next == ResumedRun(saved)
<1>6. next.files = files /\ next.table = saved.table /\ next.mode = saved.mode /\ next.status = saved.status
  BY <1>2 DEF ResumedRun
<1>7. ASSUME NEW f \in Present
      PROVE  /\ FileSound(files[f], saved.mode, RowsOf(saved.table, f), empties[f])
             /\ files[f].sum = source[f] /\ files[f].stage \in {"indexed", "pending"}
  <2> DEFINE s == saved.files[f]
             rows == RowsOf(saved.table, f)
             empty == empties[f]
  <2>1. f \in Files
    BY DEF Present
  <2>2. Good(s) /\ s \in FileStates /\ s.sum = source[f] /\ FileSound(s, saved.mode, rows, empty)
    BY <1>1, <1>3, <1>5 DEF GoodFiles, Good, RunSound, RowsIn, RowsOf
  <2>3. empty \in Versions \cup {None} /\ (empty # None => Chunks[empty] = 0)
    BY <2>1 DEF IInv, TypeOK, DiskInv, ListsSound
  <2>4. s.goodSum = None => s.goodChunks = 0
    BY <2>2 DEF Good, ReadableFile
  <2>5. PICK v \in Versions \cup {None} : rows = RowOf(v)
    BY <1>2, <2>1, RowIs
  <2>6. files[f] = IF s.stage = "indexed" THEN s ELSE IF Committed(saved, f) THEN AsIndexed(s) ELSE AsPending(s)
    BY <1>3
  <2>7. Committed(saved, f) <=>
          /\ s.stage \notin {"indexed", "error"}
          /\ IF s.chunks > 0 THEN rows # None /\ rows.sum = s.sum /\ ChunksOf(rows) = s.chunks
                             ELSE saved.mode = "incremental" /\ empty = s.sum
    BY DEF Committed
  <2> HIDE DEF s, rows, empty, files
  <2>8. CASE s.stage = "indexed"
    BY <2>2, <2>6, <2>8 DEF rows, empty
  <2>9. CASE s.stage # "indexed" /\ Committed(saved, f)
    <3>1. FileSound(AsIndexed(s), saved.mode, rows, empty)
      BY <2>2, <2>3, <2>4, <2>5, <2>7, <2>9, CommittedSound
    <3>2. AsIndexed(s).sum = s.sum /\ AsIndexed(s).stage = "indexed"
      BY <2>2, Fields
    <3> QED
      BY <2>2, <2>6, <2>9, <3>1, <3>2 DEF rows, empty
  <2>10. CASE s.stage # "indexed" /\ ~Committed(saved, f)
    <3>1. FileSound(AsPending(s), saved.mode, rows, empty)
      BY <2>2, <2>5, <2>7, <2>10, PendingSound
    <3>2. AsPending(s).sum = s.sum /\ AsPending(s).stage = "pending"
      BY <2>2, Fields
    <3> QED
      BY <2>2, <2>6, <2>10, <3>1, <3>2 DEF rows, empty
  <2> QED
    BY <2>8, <2>9, <2>10
<1>8. DOMAIN files = Present
  BY <1>3
<1> HIDE DEF files, next
<1>9. OfSources(next, source)
  BY <1>3, <1>6, <1>7, <1>8 DEF OfSources, Present
<1>10. RunSound(next, tables, empties)
  BY <1>6, <1>7, <1>8 DEF RunSound, RowsIn, RowsOf
<1>11. \A f \in Present : next.files[f].stage \in {"indexed", "pending"}
  BY <1>6, <1>7
<1> QED
  BY <1>4, <1>6, <1>9, <1>10, <1>11 DEF next

\* A new run.
LEMMA NewSound ==
  ASSUME IInv, DiskInv, NEW rebuild \in BOOLEAN, NewMode(rebuild) = "incremental" => ~PartlyUpdated,
         NEW T, T = Only(ActiveTable)
  PROVE  LET next == NewRun(rebuild) IN
         /\ OfSources(next, source) /\ RunSound(next, T, empties)
         /\ next.mode = NewMode(rebuild) /\ next.table = NewTable(NewMode(rebuild))
         /\ \A f \in Present : next.files[f].stage \in {"indexed", "pending"}
         /\ \A f \in Files : next.mode = "rebuild" => RowsIn(T, next.table, f) = None
<1>1. TypeOK
  BY DEF IInv
<1> DEFINE next == NewRun(rebuild)
           files == [f \in Present |-> NewFile(rebuild, f)]
<1>2. next.files = files /\ next.mode = NewMode(rebuild) /\ next.table = NewTable(NewMode(rebuild))
        /\ next.status = "open"
  BY DEF NewRun
<1>3. NewMode(rebuild) \in {"incremental", "rebuild"}
  BY DEF NewMode
<1>4. GoodRun(next) /\ (next.mode = "rebuild" => next.table # ActiveTable)
  BY <1>1, NewRunGood
<1>5. next.table \in TableNames
  BY <1>4, RunFiles
<1>6. ASSUME NEW f \in Files
      PROVE  RowsIn(T, next.table, f) = IF next.mode = "rebuild" THEN None ELSE RowsOf(ActiveTable, f)
  <2>1. CASE next.mode = "rebuild"
    BY <1>1, <1>4, <1>5, <2>1, OnlyOne DEF RowsIn
  <2>2. CASE next.mode # "rebuild"
    <3>1. next.table = ActiveTable
      BY <1>2, <1>3, <2>2 DEF NewTable
    <3> QED
      BY <1>1, <2>2, <3>1, OnlyOne DEF RowsIn, RowsOf
  <2> QED
    BY <2>1, <2>2
<1>7. ASSUME NEW f \in Present
      PROVE  /\ FileSound(files[f], next.mode, RowsIn(T, next.table, f), empties[f])
             /\ files[f].sum = source[f] /\ files[f].stage \in {"indexed", "pending"}
  <2>1. f \in Files
    BY DEF Present
  <2> DEFINE rows == RowsIn(T, next.table, f)
  <2>2. rows = IF NewMode(rebuild) = "rebuild" THEN None ELSE RowsOf(ActiveTable, f)
    BY <1>2, <1>6, <2>1
  <2> HIDE DEF rows
  <2>3. /\ FileSound(NewFile(rebuild, f), NewMode(rebuild), rows, empties[f])
        /\ NewFile(rebuild, f).sum = source[f]
        /\ NewFile(rebuild, f).stage \in {"indexed", "pending"}
    BY <2>2, NewFileSound
  <2> QED
    BY <1>2, <2>3 DEF rows
<1> HIDE DEF files, next
<1>8. DOMAIN files = Present
  BY DEF files
<1>9. OfSources(next, source)
  BY <1>2, <1>7, <1>8 DEF OfSources, Present
<1>10. RunSound(next, T, empties)
  BY <1>2, <1>7, <1>8 DEF RunSound
<1>11. \A f \in Present : next.files[f].stage \in {"indexed", "pending"}
  BY <1>2, <1>7
<1> QED
  BY <1>2, <1>6, <1>9, <1>10, <1>11 DEF next

\* The call up to its first write.
LEMMA StartRows == ASSUME IInv, TableInv, Start PROVE TableInv'
<1>1. pc = "idle" /\ pc' = "process" /\ unsaved' = TRUE
        /\ UNCHANGED <<source, manifest, empties, saved, journal, parsed, edits, faults>>
  BY DEF Start
<1>2. PICK rebuild \in {FALSE} \cup (IF "rebuild" \in Events THEN {TRUE} ELSE {}) :
        LET resume == Resumable(StoredState, rebuild)
            next == IF resume THEN ResumedRun(StoredState) ELSE NewRun(rebuild) IN
        /\ run' = next
        /\ tables' = IF resume THEN tables ELSE Only(ActiveTable)
        /\ todo' = {f \in Present : next.files[f].stage # "indexed"}
        /\ removed' = IF next.mode = "incremental"
                      THEN {f \in Files : PreviousListed(rebuild)[f] # None} \ Present
                      ELSE {}
        /\ resumed' = resume /\ snapshotPersisted' = resume
        /\ policy' \in IF todo' = {} \/ next.mode = "rebuild" THEN {None} ELSE Policies
  BY Zenon DEF Start
<1> rebuild \in BOOLEAN
  OBVIOUS
<1>3. DiskInv /\ TypeOK /\ DOMAIN parsed = {}
  BY <1>1 DEF IInv, TypeOK, IdleInv, TableInv
<1>4. StoredState = saved
  BY DEF StoredState, IInv, StateInv, TableInv, DiskInv
<1>5. saved # None => saved.table \in TableNames /\ saved.mode \in {"incremental", "rebuild"}
  BY <1>3 DEF TypeOK, IsRunState
<1>6. Present' = Present /\ ActiveTable' = ActiveTable /\ ActiveTable \in TableNames
  BY <1>1, <1>3 DEF Present, ActiveTable, TypeOK
<1> DEFINE resume == Resumable(StoredState, rebuild)
<1>7. ASSUME resume
      PROVE  /\ saved # None /\ run' = ResumedRun(saved) /\ tables' = tables /\ snapshotPersisted' = TRUE
             /\ OfSources(run', source) /\ RunSound(run', tables', empties)
             /\ run'.table = saved.table /\ run'.mode = saved.mode
             /\ \A f \in Present : run'.files[f].stage \in {"indexed", "pending"}
             /\ OfSources(saved, source) /\ Usable(saved, tables')
  <2>1. saved # None /\ Resumable(saved, rebuild)
    BY <1>4, <1>7 DEF Resumable
  <2>2. run' = ResumedRun(saved) /\ tables' = tables /\ snapshotPersisted' = TRUE
    BY <1>2, <1>4, <1>7
  <2> QED
    BY <1>3, <2>1, <2>2, ResumeSound
<1>8. ASSUME ~resume
      PROVE  /\ run' = NewRun(rebuild) /\ tables' = Only(ActiveTable) /\ snapshotPersisted' = FALSE
             /\ OfSources(run', source) /\ RunSound(run', tables', empties)
             /\ run'.mode = NewMode(rebuild) /\ run'.table = NewTable(NewMode(rebuild))
             /\ \A f \in Present : run'.files[f].stage \in {"indexed", "pending"}
             /\ \A f \in Files : run'.mode = "rebuild" => RowsIn(tables', run'.table, f) = None
             /\ NewMode(rebuild) = "incremental" => ~PartlyUpdated
  <2>1. run' = NewRun(rebuild) /\ tables' = Only(ActiveTable) /\ snapshotPersisted' = FALSE
    BY <1>2, <1>8
  <2>2. NewMode(rebuild) = "incremental" => ~PartlyUpdated
    <3> SUFFICES ASSUME PartlyUpdated, NewMode(rebuild) = "incremental" PROVE FALSE
      OBVIOUS
    <3>1. saved # None /\ OfSources(saved, source) /\ Usable(saved, tables) /\ ~rebuild
      BY <1>3 DEF DiskInv, NewMode
    <3>2. Resumable(saved, rebuild)
      BY <3>1 DEF OfSources, Usable, Resumable, Present
    <3> QED
      BY <1>4, <1>8, <3>2
  <2> QED
    BY <1>3, <2>1, <2>2, NewSound
<1> HIDE DEF resume
<1>9. RowsSound(tables')
  BY <1>3, <1>7, <1>8, OnlyOne DEF DiskInv
<1>10. saved # None => StateSound(saved, tables', manifest, empties)
  BY <1>3, <1>5, <1>7, <1>8, OnlyOne DEF DiskInv
<1>11. \A f \in Files : RowsIn(tables', ActiveTable, f) = RowsOf(ActiveTable, f)
  BY <1>3, <1>7, <1>8, OnlyOne DEF RowsIn, RowsOf
<1>12. PartlyUpdated' => saved # None /\ OfSources(saved, source) /\ Usable(saved, tables')
  <2> SUFFICES ASSUME PartlyUpdated' PROVE saved # None /\ OfSources(saved, source) /\ Usable(saved, tables')
    OBVIOUS
  <2>1. PartlyUpdated
    BY <1>1, <1>6, <1>11 DEF PartlyUpdated, RowsIn, RowsOf, Matches, ChunksOf
  <2>2. saved # None /\ OfSources(saved, source) /\ Usable(saved, tables)
    BY <1>3, <2>1 DEF DiskInv
  <2>3. CASE resume
    BY <1>7, <2>2, <2>3
  <2>4. CASE ~resume
    <3>1. rebuild /\ saved.mode # "rebuild"
      BY <1>4, <2>2, <2>4 DEF resume, Resumable, OfSources, Usable, Present
    <3>2. saved.table = ActiveTable
      BY <1>3, <1>5, <2>2, <3>1 DEF DiskInv, StateSound, ActiveTable
    <3>3. tables'[saved.table] = tables[saved.table]
      BY <1>3, <1>8, <2>4, <3>2, OnlyOne
    <3> QED
      BY <2>2, <3>3 DEF Usable
  <2> QED
    BY <2>3, <2>4
<1>13. DiskInv'
  BY <1>1, <1>3, <1>9, <1>10, <1>12 DEF DiskInv
<1>14. OfSources(run', source) /\ RunSound(run', tables', empties) /\ DOMAIN run'.files = Present
  BY <1>7, <1>8 DEF OfSources, Present
<1>15. run'.mode = "incremental" => run'.table = ActiveTable
  BY <1>3, <1>7, <1>8 DEF DiskInv, StateSound, ActiveTable, NewTable
<1>16. removed' \cap Present = {}
  BY <1>2
<1>17. ASSUME NEW f \in Files \ Present, RowsIn(tables', run'.table, f) # None
       PROVE  f \in removed' /\ run'.mode = "incremental" /\ manifest.written /\ manifest.files[f] # None
  <2>1. CASE resume
    <3>1. Outside(saved, tables, manifest) /\ DOMAIN saved.files = Present
      BY <1>3, <1>7, <2>1 DEF DiskInv, StateSound, OfSources, Present
    <3>2. saved.mode = "incremental" /\ manifest.written /\ manifest.files[f] # None
      BY <1>7, <1>17, <2>1, <3>1 DEF Outside
    <3>3. saved.table = ActiveTable /\ tables[ActiveTable] # Missing
      BY <1>3, <1>7, <1>17, <2>1, <3>2 DEF DiskInv, StateSound, ActiveTable, RowsIn
    <3>4. ~rebuild
      BY <1>4, <2>1, <3>2 DEF resume, Resumable
    <3>5. PreviousListed(rebuild)[f] # None
      BY <3>2, <3>3, <3>4 DEF PreviousListed, CanReuse, Compatible
    <3> QED
      BY <1>2, <1>4, <1>7, <2>1, <3>2, <3>5 DEF resume
  <2>2. CASE ~resume
    <3>1. run'.mode = "incremental" /\ run'.table = ActiveTable /\ ~PartlyUpdated
      BY <1>8, <1>15, <1>17, <2>2 DEF NewMode
    <3>2. RowsOf(ActiveTable, f) # None
      BY <1>11, <1>17, <3>1
    <3>3. tables[ActiveTable] # Missing /\ CanReuse(rebuild) /\ manifest.written
      BY <1>8, <2>2, <3>1, <3>2 DEF RowsOf, NewMode, CanReuse, Compatible
    <3>4. manifest.files[f] # None
      BY <3>1, <3>2, <3>3 DEF PartlyUpdated, Matches
    <3>5. PreviousListed(rebuild)[f] # None
      BY <3>3, <3>4 DEF PreviousListed
    <3> QED
      BY <1>2, <1>8, <2>2, <3>1, <3>3, <3>4, <3>5 DEF resume
  <2> QED
    BY <2>1, <2>2
<1>18. RunInv'
  <2>1. Outside(run', tables', manifest)
    BY <1>14, <1>17 DEF Outside
  <2> QED
    BY <1>1, <1>6, <1>14, <1>15, <1>16, <1>17, <2>1 DEF RunInv
<1>19. PersistedInv'
  BY <1>1, <1>7, <1>8 DEF PersistedInv
<1>20. WindowInv'
  <2>1. \A f \in todo' : run'.files[f].stage = "pending" /\ f \notin DOMAIN parsed'
    BY <1>1, <1>2, <1>3, <1>7, <1>8 DEF resume
  <2> QED
    BY <2>1 DEF WindowInv, InWindow
<1>21. ActivatedInv'
  BY <1>1 DEF ActivatedInv
<1> QED
  BY <1>13, <1>18, <1>19, <1>20, <1>21 DEF TableInv

\* What a run persists of itself.
LEMMA RunState ==
  ASSUME IInv, TableInv, pc # "idle"
  PROVE  StateSound(run, tables, manifest, empties) /\ OfSources(run, source) /\ Usable(run, tables)
<1>1. /\ OfSources(run, source) /\ RunSound(run, tables, empties) /\ Outside(run, tables, manifest)
      /\ run.mode = "incremental" => run.table = ActiveTable
  BY DEF TableInv, RunInv
<1>2. \A f \in DOMAIN run.files : run.files[f] \in FileStates
  BY RunFacts
<1>3. Usable(run, tables)
  BY <1>1, <1>2, SoundUsable
<1> QED
  BY <1>1, <1>3 DEF StateSound, OfSources, ActiveTable

\* A step that writes nothing to disk.
LEMMA SameDisk ==
  ASSUME DiskInv, UNCHANGED <<source, tables, manifest, empties, saved, journal>>
  PROVE  DiskInv'
<1>1. PartlyUpdated' <=> PartlyUpdated
  BY DEF PartlyUpdated, RowsOf, ChunksOf, Matches, ActiveTable
<1> QED
  BY <1>1 DEF DiskInv

\* A write of the run state.
LEMMA WriteRows ==
  ASSUME IInv, TableInv, pc # "idle", UNCHANGED <<source, tables, manifest, empties>>,
         saved' = run, journal' = "clean"
  PROVE  DiskInv'
<1>1. PartlyUpdated' <=> PartlyUpdated
  BY DEF PartlyUpdated, RowsOf, ChunksOf, Matches, ActiveTable
<1>2. run # None
  BY StatesAssumption, RunFacts DEF IInv, TypeOK, IsRunState, MapsFiles
<1> QED
  BY <1>1, <1>2, RunState DEF DiskInv, TableInv

\* However a call ends, a sound disk is enough.
LEMMA StopRows == ASSUME Stopped, DiskInv' PROVE TableInv'
  BY DEF Stopped, TableInv, RunInv, PersistedInv, WindowInv, ActivatedInv

\* A write of the state.
LEMMA PersistRows == ASSUME IInv, TableInv, Persist PROVE TableInv'
<1>1. pc # "idle" /\ unsaved' = FALSE /\ unsaved /\ snapshotPersisted' = TRUE
        /\ UNCHANGED <<source, tables, manifest, empties, run, pc, todo, parsed, removed>>
  BY DEF Persist, IInv, IdleInv
<1>2. saved' = run /\ journal' = "clean"
  BY DEF Persist, Written, Compacted, Appended, TableInv, DiskInv
<1>3. run # None
  BY <1>1, StatesAssumption, RunFacts DEF IInv, TypeOK, IsRunState, MapsFiles
<1>4. DiskInv'
  BY <1>1, <1>2, WriteRows
<1>5. RunInv'
  BY <1>1 DEF TableInv, RunInv, Present, ActiveTable
<1>6. PersistedInv'
  BY <1>1, <1>2, <1>3, RunState DEF PersistedInv
<1>7. WindowInv' /\ ActivatedInv'
  BY <1>1 DEF TableInv, WindowInv, ActivatedInv
<1> QED
  BY <1>4, <1>5, <1>6, <1>7 DEF TableInv

\* A step that changes the records of some files of the run, and nothing else of it.
LEMMA MemoryStep ==
  ASSUME IInv, TableInv, pc = "process", ~unsaved, unsaved' = TRUE,
         UNCHANGED <<source, disk, pc, snapshotPersisted, todo, removed>>,
         NEW files, run' = [run EXCEPT !.files = files], DOMAIN files = Present,
         \A f \in Present : /\ files[f].sum = source[f]
                            /\ FileSound(files[f], run.mode, RowsOf(run.table, f), empties[f]),
         \A f \in todo : InWindow(files[f], f, parsed')
  PROVE  TableInv'
<1> pc # "idle"
  OBVIOUS
<1>1. /\ run'.files = files /\ run'.mode = run.mode /\ run'.table = run.table /\ run'.status = "open"
      /\ DOMAIN run.files = Present
  BY RunFacts
<1>2. DiskInv'
  BY SameDisk DEF TableInv, disk
<1>3. /\ RunSound(run', tables, empties)
      /\ OfSources(run', source)
      /\ Outside(run', tables, manifest)
  BY <1>1 DEF RunSound, OfSources, Outside, Present, RowsIn, RowsOf, TableInv, RunInv
<1>4. RunInv'
  BY <1>1, <1>3 DEF TableInv, RunInv, disk, Present, ActiveTable
<1>5. PersistedInv'
  BY <1>1 DEF TableInv, PersistedInv, disk
<1>6. WindowInv'
  BY <1>1 DEF WindowInv
<1>7. ActivatedInv'
  BY DEF ActivatedInv
<1> QED
  BY <1>2, <1>4, <1>5, <1>6, <1>7 DEF TableInv

\* A window of files is parsed: it reads the texts of the inventory.
LEMMA ParseRows == ASSUME IInv, TableInv, ParseWindow PROVE TableInv'
<1>1. pc = "process" /\ ~unsaved /\ unsaved' = TRUE /\ DOMAIN parsed = {}
        /\ UNCHANGED <<source, disk, pc, snapshotPersisted, todo, removed>>
  BY DEF ParseWindow, flags
<1>0. PICK window \in SUBSET todo : \E texts \in [window -> Versions \cup {ParseError}] :
        /\ \A f \in window : texts[f] \in ParseResults(f)
        /\ parsed' = texts
        /\ run' = [run EXCEPT !.files = Over([f \in window |-> AsParsed(run.files[f], texts[f])], run.files)]
  BY <1>1 DEF ParseWindow
<1>2. PICK texts \in [window -> Versions \cup {ParseError}] :
        /\ \A f \in window : texts[f] \in ParseResults(f)
        /\ parsed' = texts
        /\ run' = [run EXCEPT !.files = Over([f \in window |-> AsParsed(run.files[f], texts[f])], run.files)]
  BY <1>0
<1>3. /\ DOMAIN run.files = Present
      /\ \A f \in Present : /\ run.files[f] \in FileStates /\ run.files[f].sum = source[f]
                            /\ FileSound(run.files[f], run.mode, RowsOf(run.table, f), empties[f])
  BY <1>1, RunFacts
<1>4. \A f \in todo : f \in Present /\ run.files[f].stage = "pending"
  BY <1>1, <1>3 DEF IInv, TodoInv, TableInv, WindowInv, InWindow
<1> DEFINE new == [f \in window |-> AsParsed(run.files[f], texts[f])]
           files == Over(new, run.files)
<1>5. DOMAIN files = Present
  <2>1. DOMAIN files = DOMAIN new \cup DOMAIN run.files
    BY OverDomain, Zenon
  <2>2. DOMAIN new = window /\ window \subseteq Present
    BY <1>4
  <2> HIDE DEF files, new
  <2> QED
    BY <1>3, <2>1, <2>2
<1>6. \A f \in Present : files[f] = IF f \in window THEN AsParsed(run.files[f], texts[f]) ELSE run.files[f]
  BY <1>3, <1>4 DEF Over
<1>7. ASSUME NEW f \in window PROVE texts[f] \in {run.files[f].sum, ParseError}
  BY <1>2, <1>3, <1>4, <1>7 DEF ParseResults
<1>8. ASSUME NEW f \in Present
      PROVE  files[f].sum = source[f] /\ FileSound(files[f], run.mode, RowsOf(run.table, f), empties[f])
  <2>1. CASE f \in window
    <3>1. files[f] = AsParsed(run.files[f], texts[f])
      BY <1>6, <2>1
    <3>2. FileSound(AsParsed(run.files[f], texts[f]), run.mode, RowsOf(run.table, f), empties[f])
      BY <1>3, <1>4, <1>7, <2>1, ParsedSound
    <3>3. AsParsed(run.files[f], texts[f]).sum = run.files[f].sum
      BY <1>3, ParsedFields
    <3> QED
      BY <1>3, <3>1, <3>2, <3>3
  <2>2. CASE f \notin window
    BY <1>3, <1>6, <2>2
  <2> QED
    BY <2>1, <2>2
<1>9. ASSUME NEW f \in todo PROVE InWindow(files[f], f, parsed')
  <2>1. DOMAIN parsed' = window
    BY <1>2
  <2>2. CASE f \in window
    <3>1. files[f] = AsParsed(run.files[f], texts[f]) /\ parsed'[f] = texts[f]
      BY <1>2, <1>4, <1>6, <2>2
    <3> DEFINE q == AsParsed(run.files[f], texts[f])
    <3>2. /\ q.sum = run.files[f].sum
          /\ texts[f] = ParseError => q.stage = "error"
          /\ texts[f] # ParseError => q.stage = "parsed"
      BY <1>3, <1>4, ParsedFields
    <3>3. texts[f] \in {run.files[f].sum, ParseError}
      BY <1>7, <2>2
    <3> HIDE DEF q
    <3>4. InWindow(q, f, parsed')
      BY <2>1, <2>2, <3>1, <3>2, <3>3 DEF InWindow
    <3> QED
      BY <3>1, <3>4 DEF q
  <2>3. CASE f \notin window
    BY <1>4, <1>6, <2>1, <2>3 DEF InWindow
  <2> QED
    BY <2>2, <2>3
<1> HIDE DEF files
<1>10. run' = [run EXCEPT !.files = files]
  BY <1>2 DEF files
<1> QED
  BY <1>1, <1>5, <1>8, <1>9, <1>10, MemoryStep

\* A file of the window is embedded.
LEMMA EmbedRows == ASSUME IInv, TableInv, NEW f \in Files, Embed(f) PROVE TableInv'
<1>1. pc = "process" /\ ~unsaved /\ unsaved' = TRUE /\ f \in DOMAIN parsed /\ f \in todo
        /\ UNCHANGED <<source, disk, pc, snapshotPersisted, todo, removed, parsed>>
        /\ run.files[f].stage = "parsed"
  BY DEF Embed, InTurn, flags, IInv, TypeOK
<1>2. /\ DOMAIN run.files = Present
      /\ run = [table |-> run.table, mode |-> run.mode, status |-> run.status, files |-> run.files]
      /\ \A g \in Present : /\ run.files[g] \in FileStates /\ run.files[g].sum = source[g]
                            /\ FileSound(run.files[g], run.mode, RowsOf(run.table, g), empties[g])
  BY <1>1, RunFacts
<1>3. f \in Present
  BY <1>1, <1>2 DEF IInv, TodoInv
<1> DEFINE s == run.files[f]
           q == [s EXCEPT !.stage = "embedded"]
           files == [run.files EXCEPT ![f] = q]
<1>4. q.sum = s.sum /\ q.stage = "embedded"
  BY <1>2, <1>3, Fields
<1>5. FileSound(q, run.mode, RowsOf(run.table, f), empties[f])
  BY <1>1, <1>2, <1>3, EmbeddedSound
<1>6. run' = [run EXCEPT !.files = files]
  BY <1>2 DEF Embed
<1> HIDE DEF q
<1>7. DOMAIN files = Present /\ \A g \in Present : files[g] = IF g = f THEN q ELSE run.files[g]
  BY <1>2, <1>3
<1> HIDE DEF files
<1>8. \A g \in Present : /\ files[g].sum = source[g]
                         /\ FileSound(files[g], run.mode, RowsOf(run.table, g), empties[g])
  BY <1>2, <1>3, <1>4, <1>5, <1>7
<1>9. ASSUME NEW g \in todo PROVE InWindow(files[g], g, parsed')
  <2>1. g \in Present /\ InWindow(run.files[g], g, parsed)
    BY <1>2 DEF IInv, TodoInv, TableInv, WindowInv
  <2>2. CASE g = f
    BY <1>1, <1>3, <1>4, <1>7, <2>1, <2>2 DEF InWindow
  <2>3. CASE g # f
    BY <1>1, <1>7, <2>1, <2>3
  <2> QED
    BY <2>2, <2>3
<1> QED
  BY <1>1, <1>6, <1>7, <1>8, <1>9, MemoryStep

\* A step that changes the rows of the table of the run, at most to what its records expect.
LEMMA TableStep ==
  ASSUME IInv, TableInv, pc = "process", ~unsaved,
         UNCHANGED <<source, manifest, empties, saved, journal>>,
         RunSound(run, tables', empties), RowsSound(tables'),
         \A f \in Files \ Present : RowsIn(tables', run.table, f) = None
  PROVE  DiskInv' /\ Outside(run, tables', manifest) /\ Usable(saved, tables')
<1>1. saved = run /\ saved # None
  BY DEF TableInv, PersistedInv
<1>2. OfSources(run, source) /\ (run.mode = "incremental" => run.table = ActiveTable)
  BY DEF TableInv, RunInv
<1>3. Outside(run, tables', manifest)
  BY <1>2 DEF Outside, OfSources, Present
<1>4. \A f \in DOMAIN run.files : run.files[f] \in FileStates
  BY RunFacts
<1>5. Usable(run, tables')
  BY <1>4, SoundUsable
<1>6. StateSound(run, tables', manifest, empties)
  BY <1>2, <1>3, <1>5 DEF StateSound, OfSources, ActiveTable
<1> QED
  BY <1>1, <1>2, <1>3, <1>5, <1>6 DEF TableInv, DiskInv

\* The rows of a file of the window are committed, with the removals that are due.
LEMMA CommitRows == ASSUME IInv, TableInv, NEW f \in Files, Commit(f) PROVE TableInv'
<1>1. /\ pc = "process" /\ ~unsaved /\ unsaved' = TRUE /\ f \in DOMAIN parsed /\ f \in todo
      /\ UNCHANGED <<source, manifest, empties, saved, journal, pc, snapshotPersisted>>
      /\ run.files[f].stage \in {"embedded", "error"}
      /\ todo' = todo \ {f} /\ parsed' = [g \in DOMAIN parsed \ {f} |-> parsed[g]]
  BY DEF Commit, InTurn, flags, IInv, TypeOK
<1>2. /\ DOMAIN run.files = Present /\ run.table \in TableNames /\ run.status = "open"
      /\ run = [table |-> run.table, mode |-> run.mode, status |-> run.status, files |-> run.files]
      /\ Present \subseteq Files
      /\ \A g \in Present : /\ run.files[g] \in FileStates /\ run.files[g].sum = source[g]
                            /\ FileSound(run.files[g], run.mode, RowsOf(run.table, g), empties[g])
  BY <1>1, RunFacts
<1>3. f \in Present
  BY <1>1, <1>2 DEF IInv, TodoInv
<1> DEFINE rows == [g \in {h \in {f} : parsed[h] # ParseError /\ run.files[h].chunks > 0} |->
                     [sum |-> run.files[g].sum, text |-> parsed[g]]]
           s == run.files[f]
           stays == ~(run.mode = "incremental" /\ policy = "remove-stale")
           after == IF parsed[f] # ParseError THEN RowOf(s.sum)
                    ELSE IF stays THEN RowsOf(run.table, f) ELSE None
<1>4. s \in FileStates /\ s.sum \in Versions /\ s.sum = source[f] /\ InWindow(s, f, parsed)
        /\ FileSound(s, run.mode, RowsOf(run.table, f), empties[f])
  BY <1>1, <1>2, <1>3 DEF TableInv, WindowInv, FileStates
<1>5. parsed[f] # ParseError => parsed[f] = s.sum /\ s.chunks = Chunks[s.sum] /\ Chunks[s.sum] \in Nat
  BY <1>1, <1>4, ChunksAssumption DEF InWindow, FileSound, Counted
<1>6. MapsFiles(rows, Rows)
  BY <1>4, <1>5 DEF MapsFiles, Rows
<1>7. /\ f \in DOMAIN rows <=> parsed[f] # ParseError /\ s.chunks > 0
      /\ DOMAIN rows \subseteq {f}
      /\ f \in DOMAIN rows => rows[f] = [sum |-> s.sum, text |-> parsed[f]]
  OBVIOUS
<1>8. \/ /\ tables' = [tables EXCEPT ![run.table] = UpdateRows(run.table, rows, ReplacePaths(f))]
         /\ removed' = {}
      \/ DOMAIN rows = {} /\ ReplacePaths(f) = {} /\ UNCHANGED <<tables, removed>>
  BY DEF Commit
<1> HIDE DEF rows
<1>9. removed' = {} /\ removed \subseteq ReplacePaths(f) /\ removed \cap Present = {}
  BY <1>1, <1>8 DEF ReplacePaths, TableInv, RunInv
<1>10. /\ \A g \in Files : RowsIn(tables', run.table, g) =
            IF g \in DOMAIN rows THEN rows[g] ELSE IF g \in ReplacePaths(f) THEN None ELSE RowsOf(run.table, g)
       /\ \A u \in TableNames : u # run.table => tables'[u] = tables[u]
  <2>1. CASE tables' = [tables EXCEPT ![run.table] = UpdateRows(run.table, rows, ReplacePaths(f))]
    <3>1. TypeOK
      BY DEF IInv
    <3>2. run.table \in TableNames
      BY <1>2
    <3>3. tables' = Updated(run.table, rows, ReplacePaths(f))
      BY <2>1 DEF Updated
    <3> QED
      BY <1>6, <3>1, <3>2, <3>3, UpdateRowsDoes
  <2>2. CASE DOMAIN rows = {} /\ ReplacePaths(f) = {} /\ UNCHANGED <<tables, removed>>
    BY <2>2 DEF RowsIn, RowsOf
  <2> QED
    BY <1>8, <2>1, <2>2
<1>11. ReplacePaths(f) = (IF parsed[f] # ParseError \/ ~stays THEN {f} ELSE {}) \cup removed
  BY DEF ReplacePaths
<1>12. RowsIn(tables', run.table, f) = after
  <2>1. CASE parsed[f] # ParseError /\ s.chunks > 0
    <3>1. RowsIn(tables', run.table, f) = [sum |-> s.sum, text |-> s.sum]
      BY <1>5, <1>7, <1>10, <2>1
    <3>2. RowOf(s.sum) = [sum |-> s.sum, text |-> s.sum]
      BY <1>4, <1>5, <2>1, RowOfIs, NoneAssumption
    <3> QED
      BY <2>1, <3>1, <3>2
  <2>2. CASE parsed[f] # ParseError /\ ~(s.chunks > 0)
    <3>1. RowsIn(tables', run.table, f) = None
      BY <1>7, <1>10, <1>11, <2>2
    <3>2. Chunks[s.sum] = 0
      BY <1>5, <2>2
    <3> QED
      BY <2>2, <3>1, <3>2 DEF RowOf
  <2>3. CASE parsed[f] = ParseError
    BY <1>3, <1>7, <1>9, <1>10, <1>11, <2>3
  <2> QED
    BY <2>1, <2>2, <2>3
<1>13. ASSUME NEW g \in Present, g # f PROVE RowsIn(tables', run.table, g) = RowsOf(run.table, g)
  <2>1. g \notin DOMAIN rows /\ g \notin ReplacePaths(f) /\ g \in Files
    BY <1>2, <1>7, <1>9, <1>11, <1>13
  <2> QED
    BY <1>10, <2>1
<1>14. ASSUME NEW g \in Files \ Present PROVE RowsIn(tables', run.table, g) = None
  <2>1. RowsOf(run.table, g) # None => g \in removed
    BY <1>1 DEF TableInv, RunInv, RowsIn, RowsOf
  <2>2. g \notin DOMAIN rows
    BY <1>3, <1>7
  <2> QED
    BY <1>9, <1>10, <2>1, <2>2
<1>15. RowsSound(tables')
  <2> SUFFICES ASSUME NEW t \in TableNames, NEW g \in Files
               PROVE  \E v \in Versions \cup {None} : RowsIn(tables', t, g) = RowOf(v)
    BY DEF RowsSound
  <2>1. \E v \in Versions \cup {None} : RowsOf(t, g) = RowOf(v)
    BY RowIs DEF TableInv
  <2>2. RowOf(None) = None
    BY DEF RowOf
  <2>3. CASE t # run.table
    BY <1>10, <2>1, <2>3 DEF RowsIn, RowsOf
  <2>4. CASE t = run.table /\ g = f
    BY <1>4, <1>12, <2>1, <2>2, <2>4
  <2>5. CASE t = run.table /\ g # f
    BY <1>13, <1>14, <2>1, <2>2, <2>5
  <2> QED
    BY <2>3, <2>4, <2>5
<1>16. /\ FileSound(AfterCommit(s, f), run.mode, after, empties[f])
       /\ AfterCommit(s, f).sum = s.sum
       /\ FileSound(s, run.mode, after, empties[f])
  <2>1. s.stage # "parsed"
    BY <1>1
  <2>2. IF parsed[f] # ParseError THEN after = RowOf(s.sum)
        ELSE IF run.mode = "incremental" /\ policy = "remove-stale" THEN after = None
        ELSE after = RowsOf(run.table, f)
    OBVIOUS
  <2> HIDE DEF s, after
  <2> QED
    BY <1>1, <1>4, <2>1, <2>2, AfterCommitSound
<1> DEFINE q == AfterCommit(s, f)
           files == [run.files EXCEPT ![f] = q]
<1>17. run' = [table |-> run.table, mode |-> run.mode, status |-> run.status, files |-> files]
  BY <1>2 DEF Commit
<1>18. DOMAIN files = Present /\ \A g \in Present : files[g] = IF g = f THEN q ELSE run.files[g]
  BY <1>2, <1>3
<1> HIDE DEF s, q, files, after
<1>19. /\ run'.files = files /\ run'.mode = run.mode /\ run'.table = run.table /\ run'.status = "open"
  BY <1>2, <1>17
<1>20. RunSound(run, tables', empties)
  BY <1>2, <1>12, <1>13, <1>16 DEF RunSound, s
<1>21. RunSound(run', tables', empties)
  BY <1>2, <1>12, <1>13, <1>16, <1>18, <1>19 DEF RunSound, q
<1>22. OfSources(run', source)
  BY <1>2, <1>4, <1>16, <1>18, <1>19 DEF OfSources, Present, q
<1>23. DiskInv' /\ Usable(saved, tables')
  BY <1>1, <1>14, <1>15, <1>20, TableStep
<1>24. Outside(run', tables', manifest)
  BY <1>14, <1>18, <1>19 DEF Outside
<1>25. RunInv'
  BY <1>1, <1>9, <1>14, <1>19, <1>21, <1>22, <1>24 DEF TableInv, RunInv, Present, ActiveTable
<1>26. PersistedInv'
  BY <1>1, <1>19, <1>23 DEF TableInv, PersistedInv
<1>27. WindowInv'
  <2> SUFFICES ASSUME NEW g \in todo' PROVE InWindow(run'.files[g], g, parsed')
    BY DEF WindowInv
  <2>1. g \in todo /\ g # f /\ g \in Present
    BY <1>1, <1>2 DEF IInv, TodoInv
  <2>2. InWindow(run.files[g], g, parsed) /\ run'.files[g] = run.files[g]
    BY <1>18, <1>19, <2>1 DEF TableInv, WindowInv
  <2>3. (g \in DOMAIN parsed' <=> g \in DOMAIN parsed) /\ (g \in DOMAIN parsed => parsed'[g] = parsed[g])
    BY <1>1, <2>1
  <2> QED
    BY <2>2, <2>3 DEF InWindow
<1>28. ActivatedInv'
  BY <1>1 DEF ActivatedInv
<1> QED
  BY <1>23, <1>25, <1>26, <1>27, <1>28 DEF TableInv

\* The removals that are still due are made.
LEMMA RemoveRows == ASSUME IInv, TableInv, RemoveLeftovers PROVE TableInv'
<1>1. /\ pc = "process" /\ ~unsaved /\ todo = {} /\ removed' = {}
      /\ UNCHANGED <<source, manifest, empties, saved, journal, run, pc, unsaved, snapshotPersisted, todo, parsed>>
      /\ tables' = [tables EXCEPT ![run.table] = UpdateRows(run.table, <<>>, removed)]
  BY DEF RemoveLeftovers, Processed, flags
<1>2. /\ DOMAIN run.files = Present /\ run.table \in TableNames /\ Present \subseteq Files
      /\ \A g \in Present : FileSound(run.files[g], run.mode, RowsOf(run.table, g), empties[g])
  BY <1>1, RunFacts
<1> DEFINE none == <<>>
<1>3. MapsFiles(none, Rows) /\ DOMAIN none = {} /\ TypeOK
  BY DEF MapsFiles, IInv
<1> HIDE DEF none
<1>4. /\ \A g \in Files : RowsIn(tables', run.table, g) = IF g \in removed THEN None ELSE RowsOf(run.table, g)
      /\ \A u \in TableNames : u # run.table => tables'[u] = tables[u]
  <2>1. tables' = Updated(run.table, none, removed) /\ run.table \in TableNames
    BY <1>1, <1>2 DEF none, Updated
  <2>2. /\ \A g \in Files : RowsIn(tables', run.table, g) =
             IF g \in DOMAIN none THEN none[g] ELSE IF g \in removed THEN None ELSE RowsOf(run.table, g)
        /\ \A u \in TableNames : u # run.table => tables'[u] = tables[u]
    BY <1>3, <2>1, UpdateRowsDoes
  <2> QED
    BY <1>3, <2>2
<1>5. \A g \in Files \ Present : RowsIn(tables', run.table, g) = None
  BY <1>1, <1>4 DEF TableInv, RunInv, RowsIn, RowsOf
<1>6. \A g \in Present : RowsIn(tables', run.table, g) = RowsOf(run.table, g)
  BY <1>1, <1>2, <1>4 DEF TableInv, RunInv
<1>7. RowsSound(tables')
  <2> SUFFICES ASSUME NEW t \in TableNames, NEW g \in Files
               PROVE  \E v \in Versions \cup {None} : RowsIn(tables', t, g) = RowOf(v)
    BY DEF RowsSound
  <2>1. \E v \in Versions \cup {None} : RowsOf(t, g) = RowOf(v)
    BY RowIs DEF TableInv
  <2>2. RowOf(None) = None
    BY DEF RowOf
  <2>3. RowsIn(tables', t, g) \in {RowsOf(t, g), None}
    BY <1>4 DEF RowsIn, RowsOf
  <2> QED
    BY <2>1, <2>2, <2>3
<1>8. RunSound(run, tables', empties)
  BY <1>2, <1>6 DEF RunSound
<1>9. DiskInv' /\ Outside(run, tables', manifest) /\ Usable(saved, tables')
  BY <1>1, <1>5, <1>7, <1>8, TableStep
<1>10. RunInv'
  BY <1>1, <1>5, <1>8, <1>9 DEF TableInv, RunInv, Present, ActiveTable
<1>11. PersistedInv'
  BY <1>1, <1>9 DEF TableInv, PersistedInv
<1>12. WindowInv' /\ ActivatedInv'
  BY <1>1 DEF WindowInv, ActivatedInv
<1> QED
  BY <1>9, <1>10, <1>11, <1>12 DEF TableInv

\* What the manifest and the list of empty files say of a file: never both.
LEMMA ListedSound ==
  ASSUME NEW s, Good(s), Counted(s)
  PROVE  /\ ListedFile(s) # None => /\ ListedFile(s).chunks = Chunks[ListedFile(s).sum]
                                    /\ ListedFile(s).chunks > 0
                                    /\ s.stage # "indexed" => s.goodChunks > 0
                                    /\ s.stage = "indexed" => s.chunks > 0
         /\ EmptyFile(s) # None => Chunks[EmptyFile(s)] = 0 /\ EmptyFile(s) \in {s.sum, s.goodSum}
         /\ s.stage # "indexed" => EmptyFile(s) # s.sum
         /\ ~(ListedFile(s) # None /\ EmptyFile(s) # None)
<1>1. s.sum \in Versions /\ s.goodSum \in Versions \cup {None} /\ s.chunks \in Nat /\ s.goodChunks \in Nat
      /\ (s.stage = "indexed" => ~s.stale)
  BY DEF Good, FileStates, ReadableFile
<1>2. s.sum # None
  BY <1>1, NoneAssumption
<1> DEFINE now == [sum |-> s.sum, chunks |-> s.chunks]
           good == [sum |-> s.goodSum, chunks |-> s.goodChunks]
<1>3. now.sum = s.sum /\ now.chunks = s.chunks /\ good.sum = s.goodSum /\ good.chunks = s.goodChunks
  OBVIOUS
<1>4. ListedFile(s) = IF s.stage = "indexed" /\ s.chunks > 0 THEN now
                      ELSE IF s.stale /\ s.goodSum # None /\ s.goodChunks > 0 THEN good ELSE None
  BY DEF ListedFile
<1>5. EmptyFile(s) = IF s.stage = "indexed" /\ s.chunks = 0 THEN s.sum
                     ELSE IF s.stale /\ s.goodSum # None /\ s.goodChunks = 0 THEN s.goodSum ELSE None
  BY DEF EmptyFile
<1> HIDE DEF now, good
<1>6. CASE s.stage = "indexed"
  <2>1. s.chunks = Chunks[s.sum]
    BY <1>6 DEF Counted
  <2>2. CASE s.chunks > 0
    BY <1>1, <1>3, <1>4, <1>5, <1>6, <2>1, <2>2
  <2>3. CASE ~(s.chunks > 0)
    <3>1. s.chunks = 0
      BY <1>1, <2>3
    <3>2. ListedFile(s) = None /\ EmptyFile(s) = s.sum /\ Chunks[s.sum] = 0
      BY <1>1, <1>4, <1>5, <1>6, <2>1, <3>1
    <3> QED
      BY <1>6, <3>2
  <2> QED
    BY <2>2, <2>3
<1>7. CASE s.stage # "indexed"
  <2>1. s.goodSum # s.sum /\ (s.goodSum # None => s.goodChunks = Chunks[s.goodSum])
    BY <1>7 DEF Counted
  <2> QED
    BY <1>1, <1>2, <1>3, <1>4, <1>5, <1>7, <2>1
<1> QED
  BY <1>6, <1>7

\* The list of empty files is written: the table has been found right.
LEMMA ListRows == ASSUME IInv, TableInv, WriteEmptyTextFiles PROVE TableInv'
<1>1. /\ pc = "process" /\ ~unsaved /\ todo = {} /\ removed = {} /\ pc' = "listed" /\ ValidTable(run)
      /\ empties' = EmptyFiles(run)
      /\ UNCHANGED <<source, tables, manifest, saved, journal, run, unsaved, snapshotPersisted, todo,
                     parsed, removed>>
  BY DEF WriteEmptyTextFiles, Processed, flags
<1>2. GoodRun(run) /\ DOMAIN run.files = Present /\ Present \subseteq Files /\ GoodFiles(run.files)
  BY <1>1, InProgress, RunFacts
<1>3. RunSound(run, tables, empties) /\ Outside(run, tables, manifest) /\ OfSources(run, source)
        /\ (run.mode = "incremental" => run.table = ActiveTable)
  BY <1>1 DEF TableInv, RunInv
<1>4. \A f \in Present : Good(run.files[f]) /\ Counted(run.files[f])
  BY <1>2, <1>3 DEF GoodFiles, RunSound, FileSound
<1>5. /\ \A f \in Present : empties'[f] = EmptyFile(run.files[f])
      /\ \A f \in Files \ Present : empties'[f] = None
  BY <1>1, <1>2 DEF EmptyFiles
<1>6. ListsSound(manifest, empties')
  BY <1>2, <1>4, <1>5, ListedSound DEF ListsSound, TableInv, DiskInv
<1>7. RunSound(run, tables, empties')
  <2> SUFFICES ASSUME NEW f \in Present
               PROVE  FileSound(run.files[f], run.mode, RowsIn(tables, run.table, f), empties'[f])
    BY <1>2 DEF RunSound
  <2>1. FileSound(run.files[f], run.mode, RowsIn(tables, run.table, f), empties[f])
    BY <1>2, <1>3 DEF RunSound
  <2>2. run.files[f].stage # "indexed" => empties'[f] # run.files[f].sum
    BY <1>4, <1>5, ListedSound
  <2> QED
    BY <2>1, <2>2 DEF FileSound, Unlisted
<1>8. saved = run /\ saved # None /\ Usable(saved, tables)
  BY <1>1 DEF TableInv, PersistedInv
<1>9. StateSound(run, tables, manifest, empties')
  BY <1>3, <1>7, <1>8 DEF StateSound, OfSources, ActiveTable
<1>10. DiskInv'
  BY <1>1, <1>3, <1>6, <1>8, <1>9 DEF TableInv, DiskInv
<1>11. RunInv'
  BY <1>1, <1>7 DEF TableInv, RunInv, Present, ActiveTable
<1>12. PersistedInv'
  BY <1>1 DEF TableInv, PersistedInv
<1>13. WindowInv'
  BY <1>1 DEF WindowInv
<1>14. ActivatedInv'
  <2>1. ValidTable(run)'
    BY <1>1 DEF ValidTable, RowsOf, Listed, Matches, ChunksOf
  <2>2. EmptyFiles(run)' = EmptyFiles(run)
    BY <1>1 DEF EmptyFiles
  <2> QED
    BY <1>1, <2>1, <2>2 DEF ActivatedInv
<1> QED
  BY <1>10, <1>11, <1>12, <1>13, <1>14 DEF TableInv

\* The manifest is written: it lists what the table holds.
LEMMA ActivateRows == ASSUME IInv, TableInv, WriteIndexManifest PROVE TableInv'
<1>1. /\ pc = "listed" /\ pc' = "active" /\ ~unsaved /\ todo = {} /\ removed = {} /\ ValidTable(run)
      /\ empties = EmptyFiles(run)
      /\ manifest' = [table |-> run.table, files |-> Listed(run), written |-> TRUE]
      /\ UNCHANGED <<source, tables, empties, saved, journal, run, unsaved, snapshotPersisted, todo,
                     parsed, removed>>
  BY DEF WriteIndexManifest, flags, TableInv, ActivatedInv
<1>2. GoodRun(run) /\ DOMAIN run.files = Present /\ Present \subseteq Files /\ GoodFiles(run.files)
  BY <1>1, InProgress, RunFacts
<1>3. RunSound(run, tables, empties) /\ OfSources(run, source)
  BY <1>1 DEF TableInv, RunInv
<1>4. \A f \in Present : Good(run.files[f]) /\ Counted(run.files[f])
  BY <1>2, <1>3 DEF GoodFiles, RunSound, FileSound
<1>5. manifest'.table = run.table /\ manifest'.files = Listed(run) /\ manifest'.written = TRUE
  BY <1>1
<1>6. /\ \A f \in Present : Listed(run)[f] = ListedFile(run.files[f])
      /\ \A f \in Files \ Present : Listed(run)[f] = None
  BY <1>2 DEF Listed
<1>7. ListsSound(manifest', empties)
  BY <1>2, <1>4, <1>5, <1>6, ListedSound DEF ListsSound, TableInv, DiskInv
<1>8. \A f \in Files \ Present : RowsIn(tables, run.table, f) = None
  BY <1>1, <1>6 DEF ValidTable, Matches, RowsIn, RowsOf
<1>9. Outside(run, tables, manifest')
  BY <1>2, <1>8 DEF Outside
<1>10. saved = run /\ saved # None /\ Usable(saved, tables)
  BY <1>1 DEF TableInv, PersistedInv
<1>11. StateSound(run, tables, manifest', empties)
  BY <1>3, <1>5, <1>9, <1>10 DEF StateSound, OfSources
<1>12. DiskInv'
  BY <1>1, <1>3, <1>7, <1>10, <1>11 DEF TableInv, DiskInv
<1>13. RunInv'
  BY <1>1, <1>3, <1>5, <1>8, <1>9 DEF RunInv, Present, ActiveTable
<1>14. PersistedInv'
  BY <1>1 DEF TableInv, PersistedInv
<1>15. WindowInv'
  BY <1>1 DEF WindowInv
<1>16. ActivatedInv'
  <2>1. ValidTable(run)'
    BY <1>1 DEF ValidTable, RowsOf, Listed, Matches, ChunksOf
  <2>2. EmptyFiles(run)' = EmptyFiles(run) /\ Listed(run)' = Listed(run)
    BY <1>1 DEF EmptyFiles, Listed
  <2> QED
    BY <1>1, <2>1, <2>2 DEF ActivatedInv
<1> QED
  BY <1>12, <1>13, <1>14, <1>15, <1>16 DEF TableInv

\* The end of a run that went well: nothing of the active index is half done.
LEMMA FinishRows == ASSUME IInv, TableInv, Finish PROVE TableInv'
<1>1. /\ pc = "active" /\ ValidTable(run) /\ empties = EmptyFiles(run)
      /\ manifest = [table |-> run.table, files |-> Listed(run), written |-> TRUE]
      /\ tables' = Only(ActiveTable) /\ Stopped /\ UNCHANGED <<source, manifest, empties>>
      /\ saved' = [run EXCEPT !.status = "completed"] /\ journal' = "clean"
  BY DEF Finish, Compacted, TableInv, ActivatedInv
<1>2. GoodRun(run) /\ DOMAIN run.files = Present /\ Present \subseteq Files /\ GoodFiles(run.files)
        /\ run = [table |-> run.table, mode |-> run.mode, status |-> run.status, files |-> run.files]
  BY <1>1, InProgress, RunFacts
<1>3. RunSound(run, tables, empties)
  BY <1>1 DEF TableInv, RunInv
<1>4. \A f \in Present : Good(run.files[f]) /\ Counted(run.files[f])
  BY <1>2, <1>3 DEF GoodFiles, RunSound, FileSound
<1>5. manifest.table = run.table /\ manifest.files = Listed(run) /\ ActiveTable = run.table
  BY <1>1 DEF ActiveTable
<1>6. tables'[run.table] = tables[run.table] /\ RowsSound(tables')
  BY <1>1, <1>5, OnlyOne DEF IInv, TableInv
<1> DEFINE q == [table |-> run.table, mode |-> run.mode, status |-> "completed", files |-> run.files]
<1>7. saved' = q
  BY <1>1, <1>2
<1>8. q.table = run.table /\ q.mode = run.mode /\ q.status = "completed" /\ q.files = run.files
  OBVIOUS
<1> HIDE DEF q
<1>9. RunSound(q, tables', empties)
  BY <1>3, <1>6, <1>8 DEF RunSound, RowsIn
<1>10. Usable(q, tables')
  <2>1. \A f \in DOMAIN q.files : q.files[f] \in FileStates
    BY <1>2, <1>4, <1>8 DEF Good
  <2> QED
    BY <1>9, <2>1, SoundUsable
<1>11. StateSound(q, tables', manifest, empties)
  BY <1>5, <1>8, <1>9, <1>10 DEF StateSound
<1>12. ~PartlyUpdated'
  <2> SUFFICES ASSUME NEW f \in Files
               PROVE  /\ Matches(RowsOf(ActiveTable, f)', manifest.files[f])
                      /\ ~(manifest.files[f] # None /\ empties[f] # None)
    BY <1>1 DEF PartlyUpdated, Matches, ChunksOf
  <2>1. RowsOf(ActiveTable, f)' = RowsOf(run.table, f)
    BY <1>1, <1>5, <1>6 DEF RowsOf, ActiveTable
  <2>2. Matches(RowsOf(run.table, f), manifest.files[f])
    BY <1>1, <1>5 DEF ValidTable
  <2>3. CASE f \in Present
    <3>1. manifest.files[f] = ListedFile(run.files[f]) /\ empties[f] = EmptyFile(run.files[f])
      BY <1>1, <1>2, <1>5, <2>3 DEF Listed, EmptyFiles
    <3> QED
      BY <1>4, <2>1, <2>2, <2>3, <3>1, ListedSound
  <2>4. CASE f \notin Present
    <3>1. manifest.files[f] = None
      BY <1>2, <1>5, <2>4 DEF Listed
    <3> QED
      BY <2>1, <2>2, <3>1
  <2> QED
    BY <2>3, <2>4
<1>13. DiskInv'
  BY <1>1, <1>6, <1>7, <1>11, <1>12 DEF TableInv, DiskInv
<1> QED
  BY <1>1, <1>13, StopRows

\* The end of a run that did not.
LEMMA CaughtRows == ASSUME IInv, TableInv, pc # "idle", Caught PROVE TableInv'
<1>1. Stopped /\ UNCHANGED <<source, tables, manifest, empties>>
  BY DEF Caught
<1>2. \/ saved' = run /\ journal' = "clean"
      \/ UNCHANGED <<saved, journal>>
  BY DEF Caught, Written, Compacted, Appended, TableInv, DiskInv
<1>3. DiskInv'
  <2>1. CASE saved' = run /\ journal' = "clean"
    BY <1>1, <2>1, WriteRows
  <2>2. CASE UNCHANGED <<saved, journal>>
    BY <1>1, <2>2, SameDisk DEF TableInv
  <2> QED
    BY <1>2, <2>1, <2>2
<1> QED
  BY <1>1, <1>3, StopRows

\* The process dies between two steps.
LEMMA CrashRows == ASSUME TableInv, Crash PROVE TableInv'
<1>1. DiskInv'
  BY SameDisk DEF Crash, disk, TableInv
<1> QED
  BY <1>1, StopRows DEF Crash

\* It dies in an append: each record it leaves is one of the run or of the state before, and both
\* agree with the rows.
LEMMA CrashInAppendRows ==
  ASSUME "tornLine" \notin Events, IInv, TableInv, CrashInAppend
  PROVE  TableInv'
<1>1. /\ Stopped /\ snapshotPersisted /\ journal' = "clean"
      /\ UNCHANGED <<source, tables, manifest, empties>>
  BY DEF CrashInAppend, TableInv, DiskInv
<1>2. pc # "idle" /\ GoodFiles(run.files)
  BY <1>1, InProgress DEF IInv, IdleInv
<1>3. /\ saved # None /\ OfSources(saved, source) /\ Usable(saved, tables)
      /\ saved.table = run.table /\ saved.mode = run.mode
  BY <1>1, <1>2 DEF TableInv, PersistedInv
<1>4. StateSound(saved, tables, manifest, empties)
  BY <1>3 DEF TableInv, DiskInv
<1>5. OfSources(run, source) /\ RunSound(run, tables, empties)
  BY <1>2 DEF TableInv, RunInv
<1>6. GoodRun(saved) /\ GoodFiles(saved.files)
        /\ saved = [table |-> saved.table, mode |-> saved.mode, status |-> saved.status, files |-> saved.files]
  BY <1>3, OnDisk, RunFiles
<1>7. PICK records \in SUBSET DOMAIN run.files :
        saved' = [saved EXCEPT !.files = Over([f \in records |-> run.files[f]], saved.files)]
  BY DEF CrashInAppend
<1> DEFINE new == [f \in records |-> run.files[f]]
           files == Over(new, saved.files)
           q == [table |-> saved.table, mode |-> saved.mode, status |-> saved.status, files |-> files]
<1>8. saved' = q
  BY <1>6, <1>7
<1>9. q.table = saved.table /\ q.mode = saved.mode /\ q.status = saved.status /\ q.files = files
  OBVIOUS
<1>10. DOMAIN run.files = Present /\ DOMAIN saved.files = Present
  BY <1>3, <1>5 DEF OfSources, Present
<1>11. DOMAIN files = Present
         /\ \A f \in Present : files[f] = IF f \in records THEN run.files[f] ELSE saved.files[f]
  BY <1>10 DEF Over
<1>12. q # None
  <2>1. GoodFiles(new)
    BY <1>2 DEF GoodFiles
  <2>2. GoodFiles(files)
    BY <1>6, <2>1, OverGood
  <2>3. q.table \in TableNames /\ q.mode \in {"incremental", "rebuild"} /\ q.status \in {"open", "completed"}
    BY <1>6, <1>9, RunFiles
  <2> HIDE DEF files
  <2>4. files \in UNION {[S -> FileStates] : S \in SUBSET Files}
    BY <2>2 DEF GoodFiles, Good
  <2> QED
    BY <1>9, <2>3, <2>4, StatesAssumption
<1> HIDE DEF files, q
<1>13. \A f \in Present : files[f] \in FileStates
  BY <1>2, <1>6, <1>10, <1>11 DEF GoodFiles, Good
<1>14. RunSound(saved, tables, empties) /\ Outside(saved, tables, manifest)
  BY <1>3, <1>4 DEF StateSound, OfSources
<1>15. RunSound(q, tables, empties)
  BY <1>3, <1>5, <1>9, <1>10, <1>11, <1>14 DEF RunSound
<1>16. Usable(q, tables)
  BY <1>9, <1>11, <1>13, <1>15, SoundUsable
<1>17. OfSources(q, source) /\ Outside(q, tables, manifest)
  BY <1>3, <1>5, <1>9, <1>10, <1>11, <1>14 DEF OfSources, Outside, Present
<1>18. StateSound(q, tables, manifest, empties)
  BY <1>4, <1>9, <1>15, <1>16, <1>17 DEF StateSound
<1>19. DiskInv'
  BY <1>1, <1>8, <1>12, <1>16, <1>17, <1>18 DEF TableInv, DiskInv
<1> QED
  BY <1>1, <1>19, StopRows

\* A source changes, while nothing of the active index is half done.
LEMMA EditRows ==
  ASSUME "editDuringRun" \notin Events, "editPartial" \notin Events, IInv, TableInv, Edit
  PROVE  TableInv'
<1>1. pc = "idle" /\ ~PartlyUpdated /\ UNCHANGED <<disk, memory>>
  BY DEF Edit
<1>2. ~PartlyUpdated'
  BY <1>1 DEF PartlyUpdated, RowsOf, ChunksOf, Matches, ActiveTable, disk
<1>3. DiskInv'
  BY <1>1, <1>2 DEF TableInv, DiskInv, disk
<1>4. RunInv' /\ PersistedInv' /\ ActivatedInv'
  BY <1>1 DEF RunInv, PersistedInv, ActivatedInv, memory
<1>5. WindowInv'
  BY <1>1 DEF TableInv, WindowInv, memory
<1> QED
  BY <1>3, <1>4, <1>5 DEF TableInv

-----------------------------------------------------------------------------
(* The theorems about the rows.                                            *)

\* The rows and the records agree at the start.
LEMMA InitRows == ASSUME Init PROVE TableInv
<1>1. \A f \in Files : \A t \in TableNames : RowsOf(t, f) = None /\ RowsIn(tables, t, f) = None
  BY DEF Init, RowsOf, RowsIn
<1>2. RowOf(None) = None
  BY DEF RowOf
<1>3. RowsSound(tables)
  BY <1>1, <1>2 DEF RowsSound
<1>4. ListsSound(manifest, empties) /\ ~PartlyUpdated
  BY DEF Init, ListsSound, PartlyUpdated, NoManifest, NoRows
<1>5. DiskInv
  BY <1>3, <1>4 DEF Init, DiskInv
<1> QED
  BY <1>5 DEF Init, TableInv, RunInv, PersistedInv, WindowInv, ActivatedInv

\* Every step keeps that.
LEMMA NextRows ==
  ASSUME Disturbances \cap Events = {}, IInv, TableInv, [Next]_vars
  PROVE  TableInv'
<1>1. "editDuringRun" \notin Events /\ "editPartial" \notin Events /\ "tornLine" \notin Events
  BY DEF Disturbances
<1>2. CASE RunStep
  <2>1. CASE RejectTable
    BY <2>1, CaughtRows DEF RejectTable, Processed
  <2> QED
    BY <1>2, <2>1, StartRows, PersistRows, ParseRows, EmbedRows, CommitRows, RemoveRows, ListRows,
       ActivateRows, FinishRows DEF RunStep
<1>3. CASE FailStep
  BY <1>3, CaughtRows DEF FailStep
<1>4. CASE UNCHANGED vars
  <2>1. DiskInv'
    BY <1>4, SameDisk DEF TableInv, vars, disk
  <2>2. RunInv' /\ PersistedInv' /\ WindowInv'
    BY <1>4 DEF TableInv, RunInv, PersistedInv, WindowInv, Present, ActiveTable, vars, disk, memory
  <2>3. ActivatedInv'
    BY <1>4 DEF TableInv, ActivatedInv, ValidTable, RowsOf, Listed, Matches, ChunksOf, EmptyFiles, vars, disk, memory
  <2> QED
    BY <2>1, <2>2, <2>3 DEF TableInv
<1> QED
  BY <1>1, <1>2, <1>3, <1>4, CrashRows, CrashInAppendRows, EditRows DEF Next

\* The records of the run, in memory and on disk, agree with the rows, whatever fails or crashes.
THEOREM RowsKept ==
  ASSUME Disturbances \cap Events = {}
  PROVE  Spec => [](IInv /\ TableInv)
<1>1. Init => IInv /\ TableInv
  BY InitInv, InitRows
<1>2. IInv /\ TableInv /\ [Next]_vars => (IInv /\ TableInv)'
  BY NextInv, NextRows
<1> QED
  BY <1>1, <1>2, PTL DEF Spec

\* A run in which every file was parsed, resumed or new, passes the validation of its table.
THEOREM CleanRuns ==
  ASSUME Disturbances \cap Events = {}
  PROVE  Spec => []CleanRunValidates
<1>1. IInv /\ TableInv => CleanRunValidates
  <2> SUFFICES ASSUME IInv, TableInv, Processed, removed = {},
                      \A f \in DOMAIN run.files : run.files[f].stage = "indexed"
               PROVE  ValidTable(run)
    BY DEF CleanRunValidates
  <2>1. pc # "idle" /\ GoodRun(run) /\ DOMAIN run.files = Present
    BY InProgress, RunFacts DEF Processed
  <2>2. RunSound(run, tables, empties) /\ \A f \in Files \ Present : RowsOf(run.table, f) = None
    BY <2>1 DEF TableInv, RunInv, RowsIn, RowsOf
  <2> QED
    BY <2>1, <2>2, ValidWhenIndexed
<1> QED
  BY <1>1, RowsKept, PTL

\* After a run, the files it reports as indexed have the rows of the version that was inventoried.
THEOREM CompletedRuns ==
  ASSUME Disturbances \cap Events = {}
  PROVE  Spec => []CompletedMeansIndexed
<1>1. IInv /\ TableInv => CompletedMeansIndexed
  <2> SUFFICES ASSUME IInv, TableInv, saved # None, saved.status = "completed",
                      NEW f \in DOMAIN saved.files, saved.files[f].stage = "indexed"
               PROVE  RowsOf(ActiveTable, f) = IF Chunks[saved.files[f].sum] = 0 THEN None
                                               ELSE [sum |-> saved.files[f].sum, text |-> saved.files[f].sum]
    BY DEF CompletedMeansIndexed
  <2>1. RunSound(saved, tables, empties) /\ saved.table = ActiveTable
    BY DEF TableInv, DiskInv, StateSound, ActiveTable
  <2>2. RowsOf(ActiveTable, f) = RowOf(saved.files[f].sum)
    BY <2>1 DEF RunSound, FileSound, Expected, RowsIn, RowsOf
  <2>3. saved.files[f].sum # None
    BY NoneAssumption DEF IInv, TypeOK, IsRunState, MapsFiles, FileStates
  <2> QED
    BY <2>2, <2>3 DEF RowOf
<1> QED
  BY <1>1, RowsKept, PTL

\* A resumed run parses no file again whose rows are in its table.
THEOREM Resumes ==
  ASSUME Disturbances \cap Events = {}
  PROVE  Spec => CommittedNotReparsed
<1> DEFINE A == \A f \in DOMAIN parsed' \ DOMAIN parsed :
                  LET rows == RowsOf(run.table, f) IN
                  resumed => rows = None \/ rows.sum # run.files[f].sum
<1>1. IInv /\ TableInv /\ [Next]_vars => [A]_vars
  <2> SUFFICES ASSUME IInv, TableInv, Next, NEW f \in DOMAIN parsed' \ DOMAIN parsed,
                      RowsOf(run.table, f) # None
               PROVE  RowsOf(run.table, f).sum # run.files[f].sum
    BY DEF vars
  <2>1. ParseWindow
    <3>1. CASE Start \/ Persist \/ (\E g \in Files : Embed(g)) \/ RemoveLeftovers \/ WriteEmptyTextFiles
                 \/ WriteIndexManifest \/ Edit
      BY <3>1 DEF Start, Persist, Embed, RemoveLeftovers, WriteEmptyTextFiles, WriteIndexManifest, Edit, memory
    <3>2. CASE \E g \in Files : Commit(g)
      <4>1. DOMAIN parsed' \subseteq DOMAIN parsed
        BY <3>2 DEF Commit
      <4> QED
        BY <4>1
    <3>3. CASE Stopped
      <4>1. DOMAIN parsed' = {}
        BY <3>3 DEF Stopped
      <4> QED
        BY <4>1
    <3>4. Finish \/ RejectTable \/ FailStep \/ Crash \/ CrashInAppend => Stopped
      BY DEF Finish, RejectTable, FailStep, Caught, Crash, CrashInAppend
    <3> QED
      BY <3>1, <3>2, <3>3, <3>4 DEF Next, RunStep
  <2>2. pc # "idle" /\ f \in todo /\ DOMAIN parsed = {}
    BY <2>1 DEF ParseWindow
  <2>3. f \in Present /\ f \in Files /\ run.files[f].stage = "pending" /\ run.table \in TableNames
    BY <2>2, RunFacts DEF IInv, TodoInv, TableInv, WindowInv, InWindow
  <2> DEFINE s == run.files[f]
  <2>4. s \in FileStates /\ FileSound(s, run.mode, RowsOf(run.table, f), empties[f])
    BY <2>2, <2>3, RunFacts
  <2>5. RowsOf(run.table, f) = RowOf(s.goodSum) /\ s.goodSum # s.sum /\ s.goodSum \in Versions \cup {None}
    BY <2>3, <2>4 DEF FileSound, Counted, Expected, FileStates
  <2>6. RowsOf(run.table, f).sum = s.goodSum
    BY <2>5, RowOfIs
  <2> QED
    BY <2>5, <2>6
<1> QED
  BY <1>1, RowsKept, PTL DEF Spec, CommittedNotReparsed

\* An incremental step takes the last rows of a file out of the active table only when its source
\* is gone or empty, or it failed under remove-stale.
THEOREM Replaced ==
  ASSUME Disturbances \cap Events = {}
  PROVE  Spec => SearchableUntilReplaced
<1> DEFINE A == \A f \in Files :
                  run # None /\ run.mode = "incremental" /\ RowsOf(ActiveTable, f) # None
                    /\ RowsOf(ActiveTable, f)' = None
                  => \/ f \notin DOMAIN run.files
                     \/ Chunks[run.files[f].sum] = 0
                     \/ policy = "remove-stale" /\ run.files[f].stage = "error"
<1>1. IInv /\ TableInv /\ [Next]_vars => [A]_vars
  <2> SUFFICES ASSUME IInv, TableInv, Next, NEW f \in Files, run # None, run.mode = "incremental",
                      RowsOf(ActiveTable, f) # None, RowsOf(ActiveTable, f)' = None, f \in DOMAIN run.files
               PROVE  \/ Chunks[run.files[f].sum] = 0
                      \/ policy = "remove-stale" /\ run.files[f].stage = "error"
    BY DEF vars
  <2>1. pc # "idle" /\ run.table = ActiveTable /\ ActiveTable \in TableNames
    BY DEF IInv, TypeOK, TableInv, RunInv, ActiveTable
  <2>2. f \in Present /\ f \notin removed /\ run.files[f] \in FileStates
    BY <2>1, RunFacts DEF TableInv, RunInv
  <2>3. tables'[ActiveTable'] # tables[ActiveTable]
    BY DEF RowsOf
  <2>4. ASSUME NEW g \in Files, Commit(g)
        PROVE  \/ Chunks[run.files[f].sum] = 0
               \/ policy = "remove-stale" /\ run.files[f].stage = "error"
    <3> DEFINE rows == [x \in {h \in {g} : parsed[h] # ParseError /\ run.files[h].chunks > 0} |->
                         [sum |-> run.files[x].sum, text |-> parsed[x]]]
    <3>1. /\ pc = "process" /\ g \in DOMAIN parsed /\ g \in todo /\ ActiveTable' = ActiveTable
          /\ run.files[g].stage \in {"embedded", "error"}
      BY <2>4 DEF Commit, InTurn, IInv, TypeOK, ActiveTable
    <3>2. tables' = Updated(run.table, rows, ReplacePaths(g))
      BY <2>3, <2>4, <3>1 DEF Commit, Updated
    <3>3. run.files[g] \in FileStates /\ InWindow(run.files[g], g, parsed) /\ Counted(run.files[g])
      BY <2>1, <3>1, RunFacts DEF IInv, TodoInv, TableInv, WindowInv, FileSound
    <3>4. MapsFiles(rows, Rows)
      BY <3>1, <3>3 DEF MapsFiles, Rows, InWindow, FileStates
    <3>5. /\ f \in DOMAIN rows <=> f = g /\ parsed[g] # ParseError /\ run.files[g].chunks > 0
          /\ f \in DOMAIN rows => rows[f] # None
      BY <3>1, <3>3, RowsAssumption DEF Rows, InWindow, FileStates
    <3> HIDE DEF rows
    <3>6. RowsIn(tables', run.table, f) = IF f \in DOMAIN rows THEN rows[f]
                                          ELSE IF f \in ReplacePaths(g) THEN None ELSE RowsOf(run.table, f)
      <4>1. TypeOK /\ run.table \in TableNames
        BY <2>1 DEF IInv
      <4> QED
        BY <3>2, <3>4, <4>1, UpdateRowsDoes
    <3>7. RowsIn(tables', run.table, f) = None
      BY <2>1, <3>1 DEF RowsIn, RowsOf
    <3>8. f \notin DOMAIN rows /\ f \in ReplacePaths(g)
      BY <2>1, <3>5, <3>6, <3>7
    <3>9. f = g /\ (parsed[g] # ParseError \/ policy = "remove-stale")
      BY <2>2, <3>8 DEF ReplacePaths
    <3>10. CASE parsed[g] = ParseError
      BY <3>1, <3>3, <3>9, <3>10 DEF InWindow
    <3>11. CASE parsed[g] # ParseError
      <4>1. run.files[g].chunks = Chunks[run.files[g].sum] /\ run.files[g].chunks \in Nat
        BY <3>1, <3>3, <3>11 DEF InWindow, Counted, FileStates
      <4>2. ~(run.files[g].chunks > 0)
        BY <3>5, <3>8, <3>9, <3>11
      <4> QED
        BY <3>9, <4>1, <4>2
    <3> QED
      BY <3>10, <3>11
  <2>5. CASE RemoveLeftovers
    <3> DEFINE none == <<>>
    <3>1. TypeOK /\ MapsFiles(none, Rows) /\ DOMAIN none = {}
      BY DEF IInv, MapsFiles
    <3>2. tables' = Updated(run.table, none, removed) /\ ActiveTable' = ActiveTable
      BY <2>5 DEF RemoveLeftovers, Updated, ActiveTable
    <3> HIDE DEF none
    <3>3. RowsIn(tables', run.table, f) = IF f \in DOMAIN none THEN none[f]
                                          ELSE IF f \in removed THEN None ELSE RowsOf(run.table, f)
      BY <2>1, <3>1, <3>2, UpdateRowsDoes
    <3>4. RowsIn(tables', run.table, f) = RowsOf(run.table, f)
      BY <2>2, <3>1, <3>3
    <3> QED
      BY <2>1, <3>2, <3>4 DEF RowsIn, RowsOf
  <2>6. CASE Finish
    BY <2>1, <2>3, <2>6 DEF Finish, Only, ActiveTable
  <2>7. CASE WriteIndexManifest
    BY <2>1, <2>3, <2>7 DEF WriteIndexManifest, ActiveTable
  <2>8. CASE Start
    BY <2>1, <2>8 DEF Start
  <2>9. CASE Persist \/ ParseWindow \/ (\E g \in Files : Embed(g)) \/ WriteEmptyTextFiles
               \/ RejectTable \/ FailStep \/ Crash \/ CrashInAppend \/ Edit
    BY <2>3, <2>9 DEF Persist, ParseWindow, Embed, WriteEmptyTextFiles, RejectTable, FailStep,
                      Caught, Crash, CrashInAppend, Edit, disk, ActiveTable
  <2> QED
    BY <2>4, <2>5, <2>6, <2>7, <2>8, <2>9 DEF Next, RunStep
<1> QED
  BY <1>1, RowsKept, PTL DEF Spec, SearchableUntilReplaced

=============================================================================
