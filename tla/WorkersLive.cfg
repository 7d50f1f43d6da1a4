SPECIFICATION WorkersSpec
CONSTANTS
  p1 = p1  r1 = r1  r2 = r2  d1 = d1  d2 = d2  bootPass = bootPass
  Plans <- OnePlan
  Requests <- OneRequest
  Drainers <- OneDrainer
  Boot <- bootPass
  MaxQueue = 2
  MaxMishaps = 1
  Entries = {e1}
  Drain = outboxDrain
  NoFile = NoFile
  MaxAttempts = 2
  MaxRows = 2
  OutboxMishaps = 2
PROPERTIES Served RunningSettles QueuedSettles AcceptedSettles
CHECK_DEADLOCK FALSE
