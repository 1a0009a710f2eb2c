SPECIFICATION FairSpec
CONSTANTS
  Waypoints <- MCWaypoints
  Names <- MCNames
  SafeName <- MCSafeName
  Evidence <- MCEvidence
  PolicyTimeout = 2
  RerouteTimeout = 2
  None = None
INVARIANTS
  TypeOK
  EmergencyStopIsLatched
  PermissionIsForTheGoal
PROPERTIES
  MotionStartsFresh
  MotionEndsWithCancel
  StopsAreLiftedKnowingly
  KeepsTheLifecycle
  RerouteWaitEnds
  UnrenewedMotionStops
