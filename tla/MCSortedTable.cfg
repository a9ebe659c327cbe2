CONSTANTS
  NULL = NULL
  Uninit = Uninit
  Keys <- MCKeys
  Values <- MCValues
  Hash <- MCHash
  Times <- MCTimes
  Id = 1
  MAX = 3
  RESERVE = 20
  EXTEND = 30
  FLUSH_AT = 40
SPECIFICATION Spec
CHECK_DEADLOCK FALSE
INVARIANTS
  KeysSorted
  GetFindsNewest
  ReopenedAsFlushed
