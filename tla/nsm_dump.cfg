SPECIFICATION FairSpec
CONSTANTS
  Records <- MCRecords
  MAX_ERROR_COUNT <- MCErrorCount
  MAX_IN_PROGRESS_COUNT <- MCInProgress
INVARIANTS
  TypeOK
  ErasedOnlyIfSaved
  SuccessMeansSaved
  OutputInOrder
PROPERTIES
  Terminates
CHECK_DEADLOCK FALSE
