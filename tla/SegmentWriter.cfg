SPECIFICATION Spec
CONSTANTS
    Workers = {w1, w2}
    BlockBufferCount = 3
    BlockRecords = 2
    MaxRecords = 6
    MaxFaults = 2
    MaxCancels = 1
INVARIANTS
  CommittedIsExact
  DurableIsNotDenied
  NothingLeaks
PROPERTIES
  CallsReturn
CHECK_DEADLOCK FALSE
