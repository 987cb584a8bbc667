CONSTANTS
  Execs = {e1}
  Procs = {p1, p2, p3}
  None = None
  Lease = 1
  MaxNow = 2
SPECIFICATION Spec
INVARIANTS OnlyConfirmedWrites SuccessHasRecord OneRecord DispatchedOnce
PROPERTIES SuccessStays
SYMMETRY Symmetry
CHECK_DEADLOCK FALSE
