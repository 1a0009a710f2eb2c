SPECIFICATION Spec
CONSTANTS
  Timeout = 2
  MaxRejected = 1
  WatchdogPeriod = 1
  MaxTime = 5
INVARIANTS
  StopsWhenTheSceneIsOld
PROPERTIES
  PermitsAfterTheFault
