SPECIFICATION Spec
CONSTANTS
  Delay = 2
  MaxMessages = 5
  AutoFinalize = TRUE
  None = None
INVARIANTS
  FinalizedTellsTheWhole
PROPERTIES
  ReportsAreSealed
  MissionsAreKeptApart
  EndsAreReported
