SPECIFICATION FairSpec
CONSTANTS
  Writers = {w1, w2}
  NoWriter = NoWriter
  MaxLSN = 0
  MaxEpoch = 2
  MaxGeneration = 3
  Requests <- MCOneRequest
  AcquireAttempts = 2
  CommitAttempts = 2
  StartLSNs = {}
PROPERTY CallsReturn
CHECK_DEADLOCK FALSE
