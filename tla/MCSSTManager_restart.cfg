CONSTANTS
  NULL = NULL
  i1 = i1  i2 = i2  i3 = i3
  k1 = k1  k2 = k2
  Threads = {t1}
  Getters = {t1}
  Items = {i1, i2, i3}
  Keys = {k1, k2}
  KeyOf <- MCKeyOf
  Max = 1
  MaxId = 5
  MaxRuns = 2
  Crashes = TRUE
SPECIFICATION Spec
CHECK_DEADLOCK FALSE
SYMMETRY MCSymmetry
INVARIANTS
  KeptOnDisk
PROPERTIES
  GetIsRight
  ListedFilesKept
