SPECIFICATION FairSpec
CONSTANTS
  d1 = d1
  d2 = d2
  r1 = r1
  r2 = r2
  u1 = u1
  Dumps <- MCDumps
  Readers <- MCReaders
  Uris <- MCUris
  Fds <- MCFds
  Size = 2
  BUFFER = 1
INVARIANTS
  TypeOK
  HandleIsOfItsDump
  OffloadedWasSent
  NothingLeftBehind
PROPERTIES
  OffloadEnds
CHECK_DEADLOCK FALSE
