\* Two overlapping cycles, two attempts, and time to expire.
SPECIFICATION FairSpec
CONSTANTS
  Cycles = {c1, c2}
  None = None
  MaxAttempts = 2
  Lease = 0
  RetryBase = 1
  Ttl = 3
  MaxNow = 4
INVARIANTS AttemptsAreExclusive SettledForCause
PROPERTIES SettledStays EventuallySettled
