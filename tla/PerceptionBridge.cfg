SPECIFICATION Spec
CONSTANTS
  Inference = 2
  MaxFrames = 4
  NoFrame = NoFrame
INVARIANTS
  AnswersFollowCaptures
  AnsweredInTime
  DeathOrphansTwoCaptures
CHECK_DEADLOCK FALSE
