SPECIFICATION FairSpec
CONSTANTS
  w1 = w1
  w2 = w2
  r1 = r1
  t1 = t1
  v1 = v1
  v2 = v2
  NoWriter = NoWriter
  Writers = {w1, w2}
  Clients = {r1, t1}
  Tailers = {t1}
  Watches = {v1, v2}
  MaxLSN = 2
  MaxEpoch = 2
  MaxGeneration = 0
  PageLimit = 1
  BatchLimit = 2
  WholeMax = 1
  MaxWhole = 1
  Threshold = 100
  OpenMax = 1
  RangeMax = 2
  Requests <- MCRequests
  Workloads <- MCWorkloads
INVARIANTS
  BatchIsExact
  AnswersAreTrue
  NothingSkipped
  SubscriptionsExact
  QuietAfterClose
  CachesAreExact
PROPERTIES
  ImplementsLog
  CallsReturn
CHECK_DEADLOCK FALSE
