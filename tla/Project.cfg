\* The generations, the table, the settings, the kit and the reports of a project, and the
\* snapshots of a client that is closed while others ingest.
SPECIFICATION ProjectSpec
CONSTANTS
    None = None
    r1 = r1  t1 = t1  t2 = t2
    NoTable = NoTable
    NoRun = NoRun
    Readers = {r1}
    Local = {r1}
    Confirming = {}
    MaxRetained = 1
    MaxTable = 2
    Events = {"readOnly"}
    CompactionRows = 2
    MutationThreshold = 2
    FewFragments = 3
    ManyFragments = 4
    PileUp = 3
    AnnRows = 2
    LargeRows = 4
    ScalarRows = 2
    MinPartitions = 1
    MaxProbes = 1
    Commits <- MCCommits
    MaxRows = 4
    MaxCommits = 2
    MaxTables = 2
    MaxJobs = 2
    AgentOrder <- MCAgents
    MaxInstalls = 2
    MaxEdits = 1
    OwnLines = 2
    Changes = {c1, c2}
    MaxTweaks = 1
    Sources = {t1, t2}
    MaxChanges = 2
    MaxCommands = 2
    MaxErrors = 1
    r2 = r2  i1 = i1
    s1 = s1  s2 = s2  s3 = s3
    Reads = {r1, r2}
    Ingests = {i1}
    Snapshots = {s1, s2, s3}
    MaxWrites <- MCMaxWrites
    ClientEvents = {"ioError"}
INVARIANTS BoundedGenerations MaintenanceSound ConfigSound AgentKitSound ReadinessSound
INVARIANTS SnapshotsSound FreshEnough
PROPERTIES FallbackKept CallsSettle
\* An operation may have ended.
CHECK_DEADLOCK FALSE
