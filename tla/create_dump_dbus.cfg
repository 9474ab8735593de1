SPECIFICATION FairSpec
CONSTANTS
  Clients = {c1, c2}
  SUPPORTED <- MCTypes
  MaxPolls = 1
  TIMEOUT = 1
  MaxFails = 2
INVARIANTS
  OneVerdictPerType
  ToldCopyIsThere
PROPERTIES
  RequestEnds
CHECK_DEADLOCK FALSE
