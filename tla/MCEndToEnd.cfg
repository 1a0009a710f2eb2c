SPECIFICATION ESpec
CONSTANTS
  Waypoints <- MCWaypoints
  Names <- MCNames
  SafeName <- MCSafeName
  Evidence <- MCEvidence
  PolicyTimeout = 5
  RerouteTimeout = 1
  None = None
  Decisions <- MCDecisions
  MaxRejected = 1
  WatchdogPeriod = 1
  MaxTime = 24
  Intruder <- MCIntruder
  MinSamples = 2
  FrameInterval = 1
  PrimeRetry = 2
  StallSamples = 2
  AssessmentTimeout = 8
  SupervisorPeriod = 1
  CommandTimeout = 1
  MissionTimeout = 2
  Segment <- MCSegment
  Deadline = 24
  Scenarios <- MCScenarios
INVARIANTS
  PermissionIsTheNewest
  MovesWithinTheTimeout
  EndsInTime
  RecoverableFaultsDoNotStop
  FaultsStopTheMission
  StopReachesTheRobot
PROPERTIES
  ArrivalsAreEarned
  NoFrameStraddles
CHECK_DEADLOCK FALSE
