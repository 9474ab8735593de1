SPECIFICATION Spec
CONSTANTS
  MaxId = 3
  SourceIds <- MCSourceIds
  Sizes <- MCSizes
  MaxAsked = 2
PROPERTY
  NewDumpIsKept
