CONSTANTS
  NULL = NULL
  i1 = i1  i2 = i2  i3 = i3
  k1 = k1  k2 = k2
  Threads = {t1}
  Getters = {t1}
  Items = {i1, i2}
  Keys = {k1, k2}
  KeyOf <- MCKeyOf
  Max = 1
  MaxId = 2
  MaxRuns = 2
  Crashes = FALSE
SPECIFICATION FairSpec
CHECK_DEADLOCK FALSE
PROPERTIES
  PutAlwaysReturns
