CONSTANTS
  Keys = {k1, k2}
  a = a
  b = b
  Digests <- Payloads
  Workers = {w1, w2}
  None = None
  MaxAttempts = 2
  Target <- Targets
  Limits <- TightLimits
  Hour = 0
  Day = 1
  Lease = 1
  RetryDelay = 1
  Ttl = 2
  MaxNow = 2
SPECIFICATION Spec
INVARIANTS AtMostOneAcceptance StatusIsTruthful OverlapOnlyOnRetry QuotasHold
PROPERTIES RetryOnlyAfterRejection ImplementsContract
CONSTRAINT OneTroubled
SYMMETRY FullSymmetry
CHECK_DEADLOCK FALSE
