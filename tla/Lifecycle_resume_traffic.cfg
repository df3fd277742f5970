SPECIFICATION RestSpec
CONSTANTS
  d1 = d1
  d2 = d2
  NoDomain = NoDomain
  Threads = {t1, t2}
  Versions = {1, 2}
  Domains = {d1, d2}
  Requests <- ServingRequests
  Faults = {"crash"}
  MaxRequests = 2
  MaxFaults = 1
SYMMETRY ThreadSymmetry
INVARIANT
  OnlyCheckedGetsTraffic
CHECK_DEADLOCK FALSE
