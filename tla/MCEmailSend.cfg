CONSTANTS
  Keys = {m1}
  Digests = {1, 2}
  Workers = {w1}
  Jobs = {j1, j2}
  None = None
  MaxAttempts = 2
  Target <- OneTarget
  Limits <- NoLimits
  Hour = 0
  Day = 0
  Lease = 1
  RetryDelay = 1
  Ttl = 2
  MaxNow = 2
  Tries = 2
  MaxRetries = 2
SPECIFICATION EmailSpec
INVARIANTS SentIsAttested NotStranded
PROPERTIES ImplementsOutbox
CONSTRAINT OneFault
SYMMETRY Symmetry
CHECK_DEADLOCK FALSE
