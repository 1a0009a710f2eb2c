------------------------------ MODULE Evaluation ------------------------------
(***************************************************************************)
(* The evaluation of a model on labelled images (vlm_eval_cli.py) and of   *)
(* its steadiness over repeated runs (repeated_evaluation.py).  A sample   *)
(* is its label: ids and image names only tell samples apart, and here     *)
(* their places do.  The rates of a report have fixed denominators, so     *)
(* only what is counted is kept; latencies are left out.                   *)
(***************************************************************************)
EXTENDS SafetyPolicy, FiniteSets, Functions, Sequences

CONSTANTS Labels,         \* what a manifest may say of an image
          SampleCount,    \* samples of the manifest
          Answers,        \* assessments perception.analyze may return
          RunCount,       \* --runs
          NoPrediction            \* the prediction of a failed sample

Places == 1 .. SampleCount
RunIndices == 1 .. RunCount

\* An answer has been parsed, and so is valid.
ASSUME EvaluationAssumption ==
  /\ SampleCount \in Nat \ {0} /\ RunCount \in Nat \ {0}
  /\ Labels \subseteq [traversability : Traversabilities, hazards : SUBSET HazardTypes,
                       expected_action : RecommendedActions]
  /\ \A a \in Answers : IsValidAssessment(a)
  /\ NoPrediction \notin RecommendedActions /\ NoPrediction \notin Traversabilities

VARIABLES samples,        \* the manifest
          results,        \* of the run under way
          run_reports     \* the results of the runs completed

evars == <<samples, results, run_reports>>

-----------------------------------------------------------------------------
\* load_manifest: a label must be consistent and expect what the policy expects.

ExpectedAssessment(label) ==
  [traversability |-> label.traversability, hazards |-> label.hazards,
   recommended_action |-> label.expected_action,
   confidence |-> Full, view_quality |-> Full]

BrokenAccepted(label) ==                  \* MotionIsAMisreading
  label.traversability = "CLEAR" => label.hazards = {}
Accepted(label) ==
  /\ label.traversability = "CLEAR" => label.hazards = {}
  /\ label.expected_action = ResolveSafeAction(ExpectedAssessment(label))

EInit ==
  /\ samples \in [Places -> {label \in Labels : Accepted(label)}]
  /\ results = <<>>
  /\ run_reports = <<>>

-----------------------------------------------------------------------------
\* evaluate_samples: one sample after the other is analysed, or its analysis raises
\* and it scores as a failed one that predicts nothing.

Result(sample, a) ==
  [sample |-> sample, predicted_traversability |-> a.traversability,
   predicted_hazards |-> a.hazards, model_action |-> a.recommended_action,
   enforced_action |-> ResolveSafeAction(a),
   overridden |-> ResolveSafeAction(a) # a.recommended_action,
   violations |-> SafeViolations(a), failed |-> FALSE]

ErrorResult(sample) ==
  [sample |-> sample, predicted_traversability |-> NoPrediction, predicted_hazards |-> {},
   model_action |-> NoPrediction, enforced_action |-> NoPrediction, overridden |-> FALSE,
   violations |-> {}, failed |-> TRUE]

EvaluateSample ==
  /\ Len(results) < SampleCount /\ Len(run_reports) < RunCount
  /\ LET sample == samples[Len(results) + 1]
     IN  \/ \E a \in Answers : results' = Append(results, Result(sample, a))
         \/ results' = Append(results, ErrorResult(sample))
  /\ UNCHANGED <<samples, run_reports>>

CompleteRun ==
  /\ Len(results) = SampleCount
  /\ run_reports' = Append(run_reports, results) /\ results' = <<>>
  /\ UNCHANGED samples

ENext == EvaluateSample \/ CompleteRun

ESpec == EInit /\ [][ENext]_evars

-----------------------------------------------------------------------------
\* _build_report: what is counted over the results of a run.

Count(run, Holds(_)) == Cardinality({i \in DOMAIN run : Holds(run[i])})
Successful(r) == ~r.failed
TraversabilityCorrect(r) == r.predicted_traversability = r.sample.traversability
HazardsExact(r) == ~r.failed /\ r.predicted_hazards = r.sample.hazards
ModelActionCorrect(r) == r.model_action = r.sample.expected_action
EnforcedActionCorrect(r) == r.enforced_action = r.sample.expected_action
Overridden(r) == r.overridden

MustNotMove == {"STOP", "REROUTE", "INSPECT_CLOSER"}
PermitsMotion == {"PROCEED", "SLOW_DOWN"}
ModelUnsafe(r) == r.sample.expected_action \in MustNotMove /\ r.model_action \in PermitsMotion
EnforcedUnsafe(r) ==
  r.sample.expected_action \in MustNotMove /\ r.enforced_action \in PermitsMotion

\* Hazards found, made up and missed, those of the given kinds over a whole run.
Total(run, Set(_)) == SumFunction([i \in DOMAIN run |-> Cardinality(Set(run[i]))])
Detection(run, kinds) ==
  [true_positives |->
     Total(run, LAMBDA r : kinds \cap r.sample.hazards \cap r.predicted_hazards),
   false_positives |->
     Total(run, LAMBDA r : kinds \cap (r.predicted_hazards \ r.sample.hazards)),
   false_negatives |->
     Total(run, LAMBDA r : kinds \cap (r.sample.hazards \ r.predicted_hazards))]

HazardMetrics(run) ==
  IF Count(run, Successful) = 0
  THEN [true_positives |-> 0, false_positives |-> 0, false_negatives |-> 0]
  ELSE Detection(run, HazardTypes)
PerHazardMetrics(run) == [hazard \in HazardTypes |-> Detection(run, {hazard})]

TraversabilityConfusionMatrix(run) ==
  [pair \in Traversabilities \X (Traversabilities \cup {NoPrediction}) |->
     Count(run, LAMBDA r : <<r.sample.traversability, r.predicted_traversability>> = pair)]

BuildReport(run) ==
  [successful |-> Count(run, Successful),
   traversability |-> Count(run, TraversabilityCorrect),
   hazards_exact |-> Count(run, HazardsExact),
   model_action |-> Count(run, ModelActionCorrect),
   enforced_action |-> Count(run, EnforcedActionCorrect),
   overrides |-> Count(run, Overridden),
   model_unsafe |-> Count(run, ModelUnsafe),
   enforced_unsafe |-> Count(run, EnforcedUnsafe),
   hazard_metrics |-> HazardMetrics(run),
   hazard_per_class |-> PerHazardMetrics(run),
   confusion_matrix |-> TraversabilityConfusionMatrix(run)]

-----------------------------------------------------------------------------
\* build_repeated_report: the scenes on which all runs predict the same.

BrokenPredictionSignature(r) ==           \* StableRunsScoreAlike: as the model said it
  <<r.predicted_traversability, r.predicted_hazards, r.model_action, r.failed>>
PredictionSignature(r) ==
  <<r.predicted_traversability, r.predicted_hazards, r.model_action, r.enforced_action,
    r.failed>>

AllRunsAgree(place) ==
  Cardinality({PredictionSignature(run_reports[i][place]) : i \in DOMAIN run_reports}) = 1

\* The scenes for fully_stable_scene_count, once a repeated report is built.
FullyStable == {place \in Places : AllRunsAgree(place)}

-----------------------------------------------------------------------------
\* Whatever a model answers, the policy lets the robot move where it must not only
\* if the scene was misread: an unsafe motion is never scored on a sample whose
\* traversability and hazards are told exactly.  It rests on the manifest's labels.
MotionIsAMisreading ==
  \A i \in DOMAIN results :
    EnforcedUnsafe(results[i])
    => ~TraversabilityCorrect(results[i]) \/ ~HazardsExact(results[i])

\* When every scene is reported as fully stable, the runs score the same on every
\* metric but latency, however their confidences differed: what the signature
\* leaves out of a prediction makes no difference to any score.
StableRunsScoreAlike ==
  Len(run_reports) = RunCount /\ FullyStable = Places
  => \A i, j \in RunIndices : BuildReport(run_reports[i]) = BuildReport(run_reports[j])

=============================================================================
