\* Four processes, one of which dies between mkdir and owner.json.
SPECIFICATION Spec
CONSTANTS
  Procs = {p1, p2, p3, p4}
  MaxRuns = 2
  Events = {"crashCreating", "exit"}
  Absent = Absent
  Fresh = Fresh
  Stale = Stale
  NoOwner = NoOwner
SYMMETRY Symmetry
INVARIANT MutualExclusion
CHECK_DEADLOCK FALSE
