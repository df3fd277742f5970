SPECIFICATION MCSpec
CONSTANTS
  NoName = NoName
  a = a
  b = b
  s1 = s1
  s2 = s2
  Services = {s1}
  Names = {a, b}
  Attempts = 2
  Calls <- OneIsRenamed
  MaxCalls = 2
  MaxRefusals = 0
  MaxTroubles = 0
INVARIANTS
  SettledIsTrue
CHECK_DEADLOCK FALSE
