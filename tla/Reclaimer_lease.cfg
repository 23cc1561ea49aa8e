SPECIFICATION Spec
CONSTANTS
  LeafLimit = 3
  IndexLimit = 2
  MaxLevel = 3
  Workers = {v1, v2}
  NoOwner = NoOwner
  DeleteDelay = 1
  MaxPass = 1
  ListPageSize = 2
  MaxObjects = 1
  MaxDeletes = 2
  CASAttempts = 2
  Committed = 2
  MaxLSN = 1
  MaxEpoch = 1
  MaxGen = 4
  MaxTime = 4
  MaxPasses = 3
  MaxFaults = 1
  Cuts = {1}
SYMMETRY MCSymmetry
INVARIANTS
  PassesAreSound
PROPERTIES
  WatermarksAdvance
CHECK_DEADLOCK FALSE
