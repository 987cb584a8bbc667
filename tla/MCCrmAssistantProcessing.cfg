\* One turn that may be repeated, one callback, two leases; no symmetry, for liveness.
SPECIFICATION FairSpec
CONSTANTS
  Turns = {u1}
  Calls = {c1}
  Searches = {s1}
  Actions = {}
  Admissions = {t1, t2}
  None = None
  Limit = 2
  Stale = 1
  SelectionTtl = 1
  Lease = 1
  SessionTtl = 1
  MaxNow = 2
PROPERTY NoKeyStaysProcessing
CHECK_DEADLOCK FALSE
