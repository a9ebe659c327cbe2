CONSTANTS
  NULL = NULL
  Keys <- MCKeys
  Values <- MCValues
  Hash <- MCHash
  EXTEND = 1024
  N = 3
  NBuckets = 3
  MAX = 2
  MaxNew = 8
  Limit = 2
  Contents <- MCContents
SPECIFICATION Spec
CHECK_DEADLOCK FALSE
INVARIANTS
  MergedInOrder
  NewestKept
  NoKeyLost
