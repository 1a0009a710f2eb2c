---------------------------- MODULE MCEvaluation ----------------------------
EXTENDS Evaluation

MCLabels ==
  [traversability : Traversabilities,
   hazards : {{}, {"DEBRIS"}, {"HUMAN_IN_PATH"}},
   expected_action : RecommendedActions]

Answer(traversability, hazards, action, confidence) ==
  [traversability |-> traversability, hazards |-> hazards, recommended_action |-> action,
   confidence |-> confidence, view_quality |-> Full]

MCAnswers ==
  {Answer("CLEAR", {}, "PROCEED", Full), Answer("CLEAR", {}, "PROCEED", 0),
   Answer("CLEAR", {"DEBRIS"}, "SLOW_DOWN", Full), Answer("RESTRICTED", {"DEBRIS"}, "SLOW_DOWN", 0),
   Answer("RESTRICTED", {"HUMAN_IN_PATH"}, "PROCEED", Full), Answer("BLOCKED", {}, "REROUTE", Full),
   Answer("UNKNOWN", {}, "INSPECT_CLOSER", Full)}
=============================================================================
