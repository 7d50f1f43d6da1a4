SPECIFICATION Spec
CONSTANTS
  p1 = p1  r1 = r1  r2 = r2  d1 = d1  d2 = d2  bootPass = bootPass
  Plans <- OnePlan
  Requests <- TwoRequests
  Drainers <- OneDrainer
  Boot <- bootPass
  MaxQueue = 2
  MaxMishaps = 0
PROPERTY StatusFollowsTable
