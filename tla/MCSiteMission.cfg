SPECIFICATION Spec
CONSTANTS
  A = A
  B = B
  C = C
  Required <- MCRequired
  MaxViews = 2
  MaxSteps = 6
  Elsewhere = Elsewhere
  None = None
INVARIANTS
  CompletedMeansCovered
  StepLimitIsAShortage
PROPERTIES
  MovesAsJudged
  ReturnsStopped
CHECK_DEADLOCK FALSE
