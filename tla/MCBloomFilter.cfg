CONSTANTS
  NULL = NULL
  NoByte = NoByte
  MaxFed = 5
  MaxAdded = 1
  MaxSaved = 1
  Keys = {}
  Values = {}
  Hash <- MCHash
  EXTEND = 16
  f1 = f1  f2 = f2
  Filters = {f1, f2}
  Sizes = {4, 33}
  HashNumber <- MCHashNumber
SPECIFICATION FilterSpec
CHECK_DEADLOCK FALSE
SYMMETRY MCSymmetry
INVARIANTS
  SameAsAtOnce
  ReadsAligned
  KeysAreFound
