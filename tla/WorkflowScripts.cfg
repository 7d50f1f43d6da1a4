SPECIFICATION Spec
CONSTANTS
  r1 = r1  r2 = r2
  Requests <- TwoRequests
  Variants <- FewVariants
  None = None
  Gone = Gone
  MaxClips = 2
  MaxMishaps = 2
SYMMETRY Interchangeable
INVARIANT ScriptsFindHook
CHECK_DEADLOCK FALSE
