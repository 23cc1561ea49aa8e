SPECIFICATION Spec
CONSTANTS
    Providers = {"s3", "gcs", "azure"}
    Clients = {c1}
    Workers = {w1}
    QueueSize = 1
    PoolBuffers = 2
    PartSize = 2
    WriteSizes = {3}
    ComposeLimit = 1
    MaxParts = 2
    MaxFaults = 1
    MaxCalls = 3
    MaxCancels = 1
INVARIANTS
  AbortedIsAbsent
CHECK_DEADLOCK FALSE
