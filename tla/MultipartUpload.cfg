SPECIFICATION Spec
CONSTANTS
    Providers = {"s3", "gcs", "azure"}
    Clients = {c1, c2}
    Workers = {w1, w2}
    QueueSize = 1
    PoolBuffers = 2
    PartSize = 2
    WriteSizes = {3}
    ComposeLimit = 1
    MaxParts = 2
    MaxFaults = 2
    MaxCalls = 3
    MaxCancels = 1
INVARIANTS
  NothingLeaks
PROPERTIES
  ImplementsTxn
  CallsReturn
CHECK_DEADLOCK FALSE
