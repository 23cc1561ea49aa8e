SPECIFICATION Spec
CONSTANTS
  Writers = {w1, w2}
  NoWriter = NoWriter
  MaxLSN = 1
  MaxEpoch = 2
  MaxGeneration = 6
  Requests <- MCOneRequest
  AcquireAttempts = 2
  CommitAttempts = 2
  StartLSNs = {1}
SYMMETRY MCSymmetry
INVARIANTS
  TypeOK
  LogIsExact
  FencingHolds
PROPERTIES
  PendingIsKept
  ImplementsLog
CHECK_DEADLOCK FALSE
