CONSTANTS
  NULL = NULL
  k1 = k1  k2 = k2  k3 = k3
  Threads = {t1, t2}
  Keys = {k1, k2, k3}
  Cells = {c1, c2, c3}
  NBuckets = 2
  Hash <- MCHash
  Max = 2
SPECIFICATION Spec
CHECK_DEADLOCK FALSE
INVARIANTS
  TypeOK
  KeyNumBound
  CountMatches
  ChainsSafe
  UniqueKeys
  WaitsEnd
  QuietFlushExact
PROPERTIES
  GetMissIsRight
