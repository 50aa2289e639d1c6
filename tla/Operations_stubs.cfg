\* A batch leaves a stub for a passage that the agent has not seen.
SPECIFICATION AgentSpec
CONSTANTS
    None = None
    NoHeader = None
    d1 = d1  d2 = d2  d3 = d3  w1 = w1  w2 = w2  w3 = w3  w4 = w4  the = the
    nfc = nfc  nfd = nfd  tool = tool  conf = conf  dep = dep  x = x  y = y  big = big  r1 = r1  r2 = r2
    p1 = p1  p2 = p2  p3 = p3  q1 = q1  q2 = q2
    Generations = {1, 2}
    Corpus <- MCCorpus
    IndexOf <- MCIndexOf
    Requests <- MCRequests
    Paths <- MCPaths
    PathRank <- MCRank
    LocaleKey <- MCLocale
    LowInformation = {the}
    RrfK = 3
    Unit = 2520
    Multiplier = 2
    CrowdingMin = 2
    WeakDepth = 2
    MaxCandidates = 20
    MaxCached = 1
    Documents <- MCDocuments
    ChunkSize = 8
    ChunkOverlap = 3
    MaxChunks = 5
    Sample = 4
    Files = {nfc, nfd, tool, conf, dep}
    Place <- MCPlace
    Settings <- MCSettings
    Fixed = {"git"}
    Default = {"claude"}
    Contents = {y, big}
    Oversized = {big}
    Inventories = {r1, r2}
    MaxWrites = 2
    McpCalls = {1, 2}
    McpRequests <- MCMcpRequests
    McpConfigs <- MCMcpConfigs
    Ranked <- MCRanked
    Question <- MCQuestion
    Window <- MCWindow
    WeightOf <- MCWeight
    Snippet = 2
    Workspaces <- MCWorkspaces
    MaxChanges = 1
    McpEvents = {"abort", "ioError", "rootsFail"}
INVARIANT StubsKnown
\* An operation may have ended.
CHECK_DEADLOCK FALSE
