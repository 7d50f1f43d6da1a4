SPECIFICATION Spec
CONSTANTS
  p1 = p1  r1 = r1  r2 = r2  d1 = d1  d2 = d2  bootPass = bootPass
  Plans <- OnePlan
  Requests <- TwoRequests
  Drainers <- TwoDrainers
  Boot <- bootPass
  MaxQueue = 2
  MaxMishaps = 1
SYMMETRY Interchangeable
VIEW LiveView
INVARIANTS TypeOK SerialWorker LockExclusion NoLostWakeup RunningIsReal
PROPERTIES LockedStepsFollowTable
