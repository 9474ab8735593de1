SPECIFICATION Spec
CONSTANTS
  MaxId = 2
  Pids = {p1, p2}
  Types <- MCRetimerTypes
  MaxLimit = 2
  Faults = {"fork", "source", "stop", "rmfail"}
SYMMETRY PidSymmetry
INVARIANTS
  RegisteredLtssmInDebugMode
  ReportedFilesExist
PROPERTIES
  ImplementsDumpStore
CHECK_DEADLOCK FALSE
