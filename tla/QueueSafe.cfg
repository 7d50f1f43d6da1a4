SPECIFICATION Spec
CONSTANTS
  e1 = e1  e2 = e2  worker = worker
  Entries <- TwoEntries
  Drain <- worker
  NoFile = NoFile
  MaxAttempts = 2
  MaxMishaps = 1
  MaxRows = 2
SYMMETRY Interchangeable
VIEW Relevant
INVARIANTS TypeOK SettledOnce DurableUnlessRaced
PROPERTIES ImplementsOutbox
CHECK_DEADLOCK FALSE
