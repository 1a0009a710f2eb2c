SPECIFICATION ReadingSpec
CONSTANTS
  Full = 3
  ConfidenceThreshold = 2
  QualityThreshold = 2
INVARIANTS
  PoliciesAgree
PROPERTIES
  NeverFreer
