CONSTANTS
  NULL = NULL
  i1 = i1  i2 = i2  i3 = i3
  k1 = k1  k2 = k2
  Threads = {t1, t2}
  Getters = {}
  Items = {i1, i2, i3}
  Keys = {k1, k2}
  KeyOf <- MCKeyOf
  Max = 1
  MaxId = 3
  MaxRuns = 1
  Crashes = FALSE
SPECIFICATION FairSpec
CHECK_DEADLOCK FALSE
PROPERTIES
  PutReturns
  RotatedIsFlushed
