\* Expected violation: the PDF shows another content than the one hashed.
SPECIFICATION Spec
CONSTANTS
  Procs = {p1, p2}
  Hashes = {h1, h2}
  None = None
  MaxJobs = 1
  MaxAttempts = 1
  MaxClaims = 1
INVARIANTS SnapshotIsRendered
