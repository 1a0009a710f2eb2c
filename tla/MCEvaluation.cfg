SPECIFICATION ESpec
CONSTANTS
  Full = 3
  ConfidenceThreshold = 2
  QualityThreshold = 2
  Labels <- MCLabels
  SampleCount = 2
  Answers <- MCAnswers
  RunCount = 2
  NoPrediction = NoPrediction
INVARIANTS
  MotionIsAMisreading
  StableRunsScoreAlike
CHECK_DEADLOCK FALSE
