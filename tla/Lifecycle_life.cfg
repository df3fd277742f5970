SPECIFICATION Spec
CONSTANTS
  d1 = d1
  d2 = d2
  NoDomain = NoDomain
  Threads = {t1, t2, t3}
  Versions = {1, 2}
  Domains = {d1}
  Requests <- LifeRequests
  Faults = {"docker", "kill", "caddy", "zfs", "host", "cache", "image", "repo", "crash"}
  MaxRequests = 4
  MaxFaults = 1
SYMMETRY ThreadSymmetry
INVARIANTS
  TypeOK
  OneWriter
PROPERTIES
  DestroyIsLast
  KeepsPromise
CHECK_DEADLOCK FALSE
