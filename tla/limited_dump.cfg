SPECIFICATION Spec
CONSTANTS
  Configs <- MCConfigs
  MaxId = 3
  MaxJobs = 2
  TOTAL_SIZE = 2
  MIN_SPACE_REQD = 1
  MAX_SIZE = 2
  EXCESS = 1
INVARIANTS
  TypeOK
  NextIdIsFree
  QuotaKept
PROPERTIES
  ImplementsDumpStore
  OldestFirst
  CountLimited
  RemovesOnlyWhatItMust
CHECK_DEADLOCK FALSE
