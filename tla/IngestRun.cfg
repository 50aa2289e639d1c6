SPECIFICATION FairSpec
CONSTANTS
  Files = {f1, f2}
  Versions <- MCVersions
  Chunks <- MCChunks
  BatchSize = 2
  Policies = {"preserve-last-good", "remove-stale"}
  Events = {"rebuild", "parse", "ioError", "crash"}
  MaxEdits = 1
  MaxFaults = 2
  None = None
  Missing = Missing
  ParseError = ParseError
INVARIANTS SavedStateReadable CleanRunValidates CompletedMeansIndexed
PROPERTIES RebuildIsStaged CommittedNotReparsed SearchableUntilReplaced Converges
