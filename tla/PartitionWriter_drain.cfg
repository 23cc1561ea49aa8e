SPECIFICATION FairSpec
CONSTANTS
  MaxLSN = 2
  Policies <- DrainPolicies
  MaxInflightSegments = 1
  MaxInflightBytes = 3
PROPERTIES
  CallsReturn
  DrainCompletes
  RecordsArePublished
