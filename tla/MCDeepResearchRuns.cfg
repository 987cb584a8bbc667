CONSTANTS
  Workers = {w1, w2}
  Requests = {r1, r2}
  Passes = {c1}
  None = None
  Attempts = 2
  MaxStalls = 1
  MaxFaults = 1
SPECIFICATION FairSpec
INVARIANTS OneExecutor CancelledLeavesNothing
PROPERTIES WholeUntilRemoved EndedStays ImplementsLease EveryRunEnds
CHECK_DEADLOCK FALSE
