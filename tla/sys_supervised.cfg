SPECIFICATION FairSpec
CONSTANTS
  MaxId = 3
  Pids = {p1, p2}
  Types <- MCTwoTypes
  MaxLimit = 1
  Faults = {"client", "i2c"}
INVARIANTS
  InProgressHasCollector
  IdsNameOneDump
PROPERTIES
  TypeGivenBack
CHECK_DEADLOCK FALSE
