SPECIFICATION Spec
CONSTANTS
  MaxId = 2
  Pids = {p1, p2}
  Requests <- MCRequests
  Faults = {"stop", "source", "survive", "rmfail", "savefail"}
SYMMETRY PidSymmetry
INVARIANTS
  FlagHasOwner
  OfferedDumpsAreOnDisk
  CompletedDumpsRecoverable
PROPERTIES
  ImplementsDumpStore
CHECK_DEADLOCK FALSE
