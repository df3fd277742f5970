SPECIFICATION RestSpec
CONSTANTS
  d1 = d1
  d2 = d2
  NoDomain = NoDomain
  Threads = {t1, t2, t3}
  Versions = {1, 2}
  Domains = {d1, d2}
  Requests <- ServingRequests
  Faults = {"docker", "caddy", "host", "image"}
  MaxRequests = 3
  MaxFaults = 2
SYMMETRY ThreadSymmetry
INVARIANTS
  RunningIsServed
  RunsItsVersion
  StoppedIsQuiet
  RoutedByName
  UpgradeKeepsServing
PROPERTIES
  SwitchedToChecked
CHECK_DEADLOCK FALSE
