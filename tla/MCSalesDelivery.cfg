\* Two handlers in flight, two approvals, one receipt, two sends.
SPECIFICATION Spec
CONSTANTS
  Procs = {p1, p2}
  Approvals = {a1, a2}
  Keys = {k1}
  None = None
  MaxAttempts = 2
  MaxSends = 2
SYMMETRY Symmetry
INVARIANTS FenceIsSound SuccessIsAttested
PROPERTIES SettledStays FailureStands
