CONSTANTS
  Workers = {w1, w2}
  Adders = {a1, a2}
  Jobs = {j1, j2, j3}
  Destroyer = d
  NoJob = NoJob
  None = None
SPECIFICATION FairSpec
INVARIANTS
  TypeOK
  NoLostWakeup
  FreedWhenDone
PROPERTIES
  ImplementsJobPool
  EveryJobRuns
  DestroyReturns
