SPECIFICATION FairSpec
CONSTANTS
  EIds <- MCEIds
  Supported <- MCSupported
  MaxSignals = 2
  MaxTears = 1
INVARIANTS
  OneDumpPerLog
  ListSurvivesRestart
PROPERTIES
  AnnouncedLogRecorded
CHECK_DEADLOCK FALSE
