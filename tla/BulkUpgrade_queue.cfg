SPECIFICATION RestSpec
CONSTANTS
  s1 = s1
  s2 = s2
  Services = {s1, s2}
  Versions = {1, 2}
  Requests <- TwoRequests
  MaxRequests = 2
  Troubles = {"call", "failure", "stop"}
  MaxTroubles = 1
  MaxWrites = 1
INVARIANTS
  OneAtATime
  CancelledByThird
PROPERTIES
  RequestsKept
  JobsEnd
CHECK_DEADLOCK FALSE
