SPECIFICATION ScrubSpec
CONSTANTS
  LeafLimit = 1
  IndexLimit = 2
  MaxLevel = 2
  Workers = {v1}
  NoOwner = NoOwner
  DeleteDelay = 2
  MaxPass = 1
  ListPageSize = 2
  MaxObjects = 4
  MaxDeletes = 1
  CASAttempts = 2
  Committed = 1
  MaxLSN = 1
  MaxEpoch = 2
  MaxGen = 4
  MaxTime = 2
  MaxPasses = 3
  MaxFaults = 1
  Cuts = {1}
  MaxQuarantine = 1
INVARIANTS
  ReachableIsStored
  ScrubSkipsNothing
PROPERTIES
  GraceIsKept
CHECK_DEADLOCK FALSE
