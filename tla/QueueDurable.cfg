SPECIFICATION Spec
CONSTANTS
  e1 = e1  e2 = e2  worker = worker
  Entries <- TwoEntries
  Drain <- worker
  NoFile = NoFile
  MaxAttempts = 2
  MaxMishaps = 0
  MaxRows = 2
INVARIANTS AcceptedIsDurable
CHECK_DEADLOCK FALSE
