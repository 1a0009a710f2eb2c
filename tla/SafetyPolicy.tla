----------------------------- MODULE SafetyPolicy -----------------------------
(***************************************************************************)
(* The deterministic policy that turns a model's reading of a scene into   *)
(* the action the robot may take, as the supervisor runs it (C++,          *)
(* safety_policy.cpp) and as the Python agent does (site_safety.py).       *)
(* Probabilities are integers from 0 to Full; any other integer stands for *)
(* a value that is none (NaN, negative, above one).  Unknown stands for an *)
(* enumeration value the message may carry and the policy does not know.   *)
(***************************************************************************)
EXTENDS Integers

CONSTANTS Full,                  \* the probability 1.0
          ConfidenceThreshold,   \* confidence_threshold
          QualityThreshold       \* view_quality_threshold

ASSUME ThresholdAssumption ==
  Full \in Nat /\ ConfidenceThreshold \in 0 .. Full /\ QualityThreshold \in 0 .. Full

Unknown == "?"
Traversabilities == {"CLEAR", "RESTRICTED", "BLOCKED", "UNKNOWN"}
CriticalHazards == {"HUMAN_IN_PATH", "OPEN_EDGE", "FIRE_OR_SMOKE", "UNSTABLE_LOAD"}
HazardTypes == CriticalHazards \cup {"DEBRIS", "LIQUID_SPILL"}
RecommendedActions == {"PROCEED", "SLOW_DOWN", "STOP", "REROUTE", "INSPECT_CLOSER"}

IsProbability(p) == p \in 0 .. Full

IsValidAssessment(a) ==
  /\ IsProbability(a.confidence) /\ IsProbability(a.view_quality)
  /\ a.traversability \in Traversabilities
  /\ a.recommended_action \in RecommendedActions
  /\ a.hazards \subseteq HazardTypes

-----------------------------------------------------------------------------
\* C++: resolve_policy.

BrokenEvidenceIsWeak(a) ==        \* NeverFreer, PoliciesAgree
  a.confidence < ConfidenceThreshold /\ a.view_quality < QualityThreshold
EvidenceIsWeak(a) ==
  \/ a.confidence < ConfidenceThreshold
  \/ a.view_quality < QualityThreshold
  \/ a.traversability = "UNKNOWN"

Reason(a) ==
  IF ~IsValidAssessment(a) THEN "INVALID_ASSESSMENT"
  ELSE IF a.hazards \cap CriticalHazards # {} THEN "CRITICAL_HAZARD"
  ELSE IF a.traversability = "BLOCKED" THEN "BLOCKED_PATH"
  ELSE IF EvidenceIsWeak(a) THEN "WEAK_EVIDENCE"
  ELSE IF a.traversability = "RESTRICTED" \/ a.hazards # {} THEN "RESTRICTED_PATH"
  ELSE "CLEAR_PATH"

ActionFor ==
  [INVALID_ASSESSMENT |-> "STOP", CRITICAL_HAZARD |-> "STOP",
   BLOCKED_PATH |-> "REROUTE", WEAK_EVIDENCE |-> "INSPECT_CLOSER",
   RESTRICTED_PATH |-> "SLOW_DOWN", CLEAR_PATH |-> "PROCEED"]

ResolvePolicy(a) ==
  LET action == ActionFor[Reason(a)]
  IN  [action |-> action, reason |-> Reason(a),
       overridden |-> a.recommended_action # action]

\* C++: find_consistency_violations.
Violations(a) ==
  IF ~IsValidAssessment(a) THEN {"invalid_scene_assessment"}
  ELSE {v \in {"clear_traversability_with_reported_hazards"} :
          a.traversability = "CLEAR" /\ a.hazards # {}}
       \cup {v \in {"model_action_disagrees_with_safety_policy"} :
               ResolvePolicy(a).overridden}

-----------------------------------------------------------------------------
\* Python: resolve_safe_action and find_consistency_violations, whose domain
\* SceneAssessment's constructor and the enumerations keep to valid values.

ResolveSafeAction(a) ==
  IF a.hazards \cap CriticalHazards # {} THEN "STOP"
  ELSE IF a.traversability = "BLOCKED" THEN "REROUTE"
  ELSE IF \/ a.confidence < ConfidenceThreshold
          \/ a.view_quality < QualityThreshold
          \/ a.traversability = "UNKNOWN" THEN "INSPECT_CLOSER"
  ELSE IF a.traversability = "RESTRICTED" \/ a.hazards # {} THEN "SLOW_DOWN"
  ELSE "PROCEED"

SafeViolations(a) ==
  {v \in {"clear_traversability_with_reported_hazards"} :
     a.traversability = "CLEAR" /\ a.hazards # {}}
  \cup {v \in {"model_action_disagrees_with_safety_policy"} :
          a.recommended_action # ResolveSafeAction(a)}

-----------------------------------------------------------------------------
\* The perception bridge: what the model says is parsed into an assessment
\* (_parse_output), or else the bridge sends one that only says it cannot see.

Parses(a) ==
  /\ a.traversability \in Traversabilities
  /\ a.hazards \subseteq HazardTypes
  /\ a.recommended_action \in RecommendedActions
  /\ {a.confidence, a.view_quality} \subseteq 0 .. Full

FailureAssessment ==
  [traversability |-> "UNKNOWN", hazards |-> {}, recommended_action |-> "INSPECT_CLOSER",
   confidence |-> 0, view_quality |-> 0]

Bridged(a) == IF Parses(a) THEN a ELSE FailureAssessment

=============================================================================
