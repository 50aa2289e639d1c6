\* The tolerated events, for three processes.
SPECIFICATION Spec
CONSTANTS
  Procs = {p1, p2, p3}
  MaxRuns = 2
  Events = {"deadline", "abort", "exit", "ioError", "crash", "pidReuse"}
  Absent = Absent
  Fresh = Fresh
  Stale = Stale
  NoOwner = NoOwner
SYMMETRY Symmetry
INVARIANTS MutualExclusion LeaseSound
PROPERTIES LiveOwnerKeepsLock ImplementsMutex
CHECK_DEADLOCK FALSE
