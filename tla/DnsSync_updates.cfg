SPECIFICATION MCSpec
CONSTANTS
  NoName = NoName
  a = a
  b = b
  s1 = s1
  s2 = s2
  Services = {s1, s2}
  Names = {a, b}
  Attempts = 2
  Calls <- MostlyTheFirst
  MaxCalls = 2
  MaxRefusals = 2
  MaxTroubles = 1
INVARIANTS
  TypeOK
  InSyncIsTrue
PROPERTIES
  QueuedIsDecided
CHECK_DEADLOCK FALSE
