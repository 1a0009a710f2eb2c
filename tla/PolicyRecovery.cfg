SPECIFICATION RSpec
CONSTANTS
  Timeout = 2
  MaxRejected = 2
  MaxTime = 14
  ClockMayStep = TRUE
  Lag = 2
  Healing = 3
INVARIANTS
  RecoversInTime
PROPERTIES
  NeverAdmitsForeseen
  SpeaksAfterTheFault
CHECK_DEADLOCK FALSE
