SPECIFICATION Spec
CONSTANTS
  Files = {f1, f2}
  Versions <- MCVersions
  Chunks <- MCChunks
  BatchSize = 2
  Policies = {"preserve-last-good", "remove-stale"}
  Events = {"crash", "editPartial"}
  MaxEdits = 2
  MaxFaults = 1
  None = None
  Missing = Missing
  ParseError = ParseError
INVARIANT CleanRunValidates
