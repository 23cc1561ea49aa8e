SPECIFICATION Spec
CONSTANTS
  LeafLimit = 2
  IndexLimit = 2
  MaxLevel = 3
  Workers = {v1}
  NoOwner = NoOwner
  DeleteDelay = 2
  MaxPass = 1
  ListPageSize = 3
  MaxObjects = 6
  MaxDeletes = 2
  CASAttempts = 2
  Committed = 3
  MaxLSN = 3
  MaxEpoch = 2
  MaxGen = 6
  MaxTime = 3
  MaxPasses = 3
  MaxFaults = 0
  Cuts = {3}
INVARIANTS
  FindIsExact
  PassesAreSound
PROPERTIES
  DeletesOnlyGarbage
  GraceIsKept
CHECK_DEADLOCK FALSE
