SPECIFICATION RestFairSpec
CONSTANTS
  d1 = d1
  d2 = d2
  NoDomain = NoDomain
  Threads = {t1, t2}
  Versions = {1, 2}
  Domains = {d1, d2}
  Requests <- ProgressRequests
  Faults = {"docker", "kill", "caddy", "cache", "zfs", "host", "crash"}
  MaxRequests = 3
  MaxFaults = 1
INVARIANTS
  BusyHasOwner
  RunningIsServed
  StoppedIsQuiet
PROPERTIES
  OperationsEnd
  DeletesEnd
CHECK_DEADLOCK FALSE
