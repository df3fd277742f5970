SPECIFICATION Spec
CONSTANTS
  s1 = s1
  s2 = s2
  h1 = h1
  h2 = h2
  Services = {s1, s2}
  HostSets <- OneName
  Faults = {"write", "map", "command", "again", "restore", "crash"}
  MaxCalls = 3
  MaxFaults = 1
SYMMETRY Symmetry
INVARIANTS
  TypeOK
  AnsweredIsLoaded
  QuietIsValid
  QuietIsLoaded
CHECK_DEADLOCK FALSE
