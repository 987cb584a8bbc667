\* Two turns, two callbacks, one search and two actions, two leases.
SPECIFICATION Spec
CONSTANTS
  Turns = {u1, u2}
  Calls = {c1, c2}
  Searches = {s1}
  Actions = {a1, a2}
  Admissions = {t1, t2}
  None = None
  Limit = 3
  Stale = 1
  SelectionTtl = 1
  Lease = 1
  SessionTtl = 1
  MaxNow = 2
SYMMETRY Symmetry
INVARIANTS AtMostOneInvocation SelectionIsSpentOnce ReceiptsAndRunsAgree SettledIsQuiet
PROPERTIES SettledStays OnlyTheHolderEnds
CHECK_DEADLOCK FALSE
