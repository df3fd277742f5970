SPECIFICATION Spec
CONSTANTS
  None = None
  Imported = Imported
  k1 = k1
  k2 = k2
  k3 = k3
  k4 = k4
  k5 = k5
  k6 = k6
  t1 = t1
  t2 = t2
  Threads = {t1, t2}
  Keys = {k1, k2, k3, k4, k5, k6}
  MaxSaves = 2
  MaxTroubles = 3
INVARIANTS
  TypeOK
  AtMostOneSite
  NoneForgotten
  ReturnsTheSaved
  OkIsSynced
PROPERTIES
  Converges
