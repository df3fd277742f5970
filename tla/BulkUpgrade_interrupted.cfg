SPECIFICATION RestSpec
CONSTANTS
  s1 = s1
  s2 = s2
  Services = {s1, s2}
  Versions = {1, 2}
  Requests <- OneRequest
  MaxRequests = 1
  Troubles = {"failure", "stop"}
  MaxTroubles = 1
  MaxWrites = 0
PROPERTY
  InterruptedIsRetried
CHECK_DEADLOCK FALSE
