SPECIFICATION Spec
CONSTANTS
  Calls = {c1, c2}
  CliAttempts = 2
  FailureThreshold = 3
  FailureWindow = 1
  BreakDuration = 2
  Edits = {r1, r2}
  MaxScenes = 3
  MaxUpsets = 1
  Videos = {v1, v2}
  Stacks = {s1, s2}
  Caps = {10, 20}
  MaxRuns = 2
  MaxNames = 3
  Stray = stray
  Flawed = flawed
  Garbage = garbage
  MaxEntries = 2
  Sizes = {2}
  Distinct = 2
  Exports = {x1, x2}
  Deliverables = 2
  BundleFiles = 2
INVARIANTS TypesOK OrdersInLine AnswersFit BundlesWhole
PROPERTIES DeletedStaysDeleted BreakerKeepsWord EveryCallEnds ConfigRecovers QuotaStopsTheRun
CHECK_DEADLOCK FALSE
