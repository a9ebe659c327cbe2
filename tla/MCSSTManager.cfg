CONSTANTS
  NULL = NULL
  i1 = i1  i2 = i2  i3 = i3
  k1 = k1  k2 = k2
  Threads = {t1, t2}
  Getters = {t1, t2}
  Items = {i1, i2, i3}
  Keys = {k1, k2}
  KeyOf <- MCKeyOf
  Max = 1
  MaxId = 3
  MaxRuns = 1
  Crashes = FALSE
SPECIFICATION Spec
CHECK_DEADLOCK FALSE
SYMMETRY MCSymmetry
INVARIANTS
  TypeOK
  OneWriteTable
  QueuedOnce
  ClosedWhenDone
PROPERTIES
  GetIsRight
