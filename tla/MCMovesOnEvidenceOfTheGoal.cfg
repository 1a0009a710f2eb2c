SPECIFICATION HSpec
CONSTANTS
  Waypoints <- MCWaypoints
  Names <- MCNames
  SafeName <- MCSafeName
  Evidence <- MCEvidence
  PolicyTimeout = 2
  RerouteTimeout = 2
  None = None
INVARIANT
  MovesOnEvidenceOfTheGoal
