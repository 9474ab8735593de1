SPECIFICATION FairSpec
CONSTANTS
  MaxId = 2
  Pids = {p1, p2}
  Requests <- MCRequests
  Faults = {"rmfail"}
INVARIANTS
  UserDumpExclusion
  IdsNameOneDump
PROPERTIES
  WatchedDumpSettles
  UserSlotFreed
CHECK_DEADLOCK FALSE
