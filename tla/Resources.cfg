\* The pipelines and models of the embedder, and the commands of the readers.
SPECIFICATION ResourcesSpec
CONSTANTS
    o1 = o1  c1 = c1  c2 = c2  p1 = p1  p2 = p2  e1 = e1  e2 = e2  e3 = e3  m1 = m1
    None = None
    Calls = {c1, c2}
    Clients = {o1}
    Pulls = {p1, p2}
    Elsewhere = {p2}
    Keys <- MCKeys
    Entries = {e1, e2, e3}
    MaxPipelines = 1
    Remote = FALSE
    Events = {"crash", "rollback"}
    ModelOf <- MCModelOf
    MaxPages = 3
    MaxBatch = 2
    Engines = {"tesseract"}
    Pdfs <- MCPdfs
    Decks <- MCDecks
    Books <- MCBooks
    Workbooks <- MCWorkbooks
    MaxContents = 2
    ExtractionEvents = {"abort", "crash", "ioError"}
INVARIANTS EmbeddingSound ExtractionSound ArchiveKept
PROPERTY BegunEnds
CHECK_DEADLOCK FALSE
