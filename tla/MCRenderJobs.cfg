\* Four handlers over one job of two quote contents, three claims of two attempts.
SPECIFICATION Spec
CONSTANTS
  Procs = {p1, p2, p3, p4}
  Hashes = {h1, h2}
  None = None
  MaxJobs = 1
  MaxAttempts = 2
  MaxClaims = 3
SYMMETRY Symmetry
INVARIANTS OneRenderer
PROPERTIES LeaseEndsOnce ImplementsLease
