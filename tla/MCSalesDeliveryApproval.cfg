\* Expected violation: a send nobody approved.
SPECIFICATION Spec
CONSTANTS
  Procs = {p1, p2}
  Approvals = {a1}
  Keys = {k1}
  None = None
  MaxAttempts = 2
  MaxSends = 1
INVARIANTS SentOnlyIfApproved
