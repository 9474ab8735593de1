SPECIFICATION Spec
CONSTANTS
  MaxId = 3
  Pids = {p1, p2, p3}
  Types <- MCRetimerTypes
  MaxLimit = 3
  Faults = {}
SYMMETRY PidSymmetry
INVARIANTS
  NoConflictingDumps
CHECK_DEADLOCK FALSE
