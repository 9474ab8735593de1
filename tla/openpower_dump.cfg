SPECIFICATION Spec
CONSTANTS
  MaxId = 3
  SourceIds <- MCSourceIds
  Sizes <- MCSizes
  MaxAsked = 2
INVARIANTS
  SourceNamesOneEntry
  HostDumpsKnown
PROPERTY
  OffloadNotDeleted
