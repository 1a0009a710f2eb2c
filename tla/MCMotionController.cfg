SPECIFICATION Spec
CONSTANTS
  Decisions <- MCDecisions
  Timeout = 1
  MaxRejected = 1
  CommandTimeout = 1
  MissionTimeout = 1
  MaxTime = 4
INVARIANTS
  MovesOnLiveInputs
PROPERTIES
  RestartsAfterTheFault
