SPECIFICATION Spec
CONSTANTS
  MaxLSN = 3
  Policies <- SafetyPolicies
  MaxInflightSegments = 2
  MaxInflightBytes = 5
INVARIANTS
  RecordsAccounted
  FlushIsDurable
  CauseToldOnce
  SnapshotsAreSound
PROPERTIES
  CommittedAdvances
