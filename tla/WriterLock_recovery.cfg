SPECIFICATION FairSpec
CONSTANTS
  Procs = {p1, p2}
  MaxRuns = 2
  Events = {"abort", "crash", "crashCreating", "crashRecovering", "slow", "pidReuse", "signal", "destroy"}
  Absent = Absent
  Fresh = Fresh
  Stale = Stale
  NoOwner = NoOwner
INVARIANT ReleasedMeansGone
PROPERTY AbandonedRecovered
CHECK_DEADLOCK FALSE
