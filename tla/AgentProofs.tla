----------------------------- MODULE AgentProofs -----------------------------
(***************************************************************************)
(* The Python package and the policy it shares with the supervisor: the    *)
(* two policies and the bridge's parser, for every grain of the            *)
(* probabilities, every threshold and every reading; the evaluation of a   *)
(* model, for every manifest, every answer and every number of runs; the   *)
(* simulated mission, for every route, limit and reading.                  *)
(***************************************************************************)
EXTENDS PolicyMonotone, Evaluation, SiteMission, FiniteSetTheorems, SequenceTheorems,
        WellFoundedInduction, TLAPS

\* What the supervisor's policy does, in the order of its tests.
LEMMA ActionFacts ==
  ASSUME NEW a
  PROVE  ResolvePolicy(a).action =
           IF ~IsValidAssessment(a) THEN "STOP"
           ELSE IF a.hazards \cap CriticalHazards # {} THEN "STOP"
           ELSE IF a.traversability = "BLOCKED" THEN "REROUTE"
           ELSE IF EvidenceIsWeak(a) THEN "INSPECT_CLOSER"
           ELSE IF a.traversability = "RESTRICTED" \/ a.hazards # {} THEN "SLOW_DOWN"
           ELSE "PROCEED"
<1>1. ResolvePolicy(a).action = ActionFor[Reason(a)]
  BY DEF ResolvePolicy
<1>2. /\ ActionFor["INVALID_ASSESSMENT"] = "STOP" /\ ActionFor["CRITICAL_HAZARD"] = "STOP"
      /\ ActionFor["BLOCKED_PATH"] = "REROUTE" /\ ActionFor["WEAK_EVIDENCE"] = "INSPECT_CLOSER"
      /\ ActionFor["RESTRICTED_PATH"] = "SLOW_DOWN" /\ ActionFor["CLEAR_PATH"] = "PROCEED"
  BY DEF ActionFor
<1> QED
  BY <1>1, <1>2 DEF Reason

\* On a valid assessment the agent's policy decides as the supervisor's does.
LEMMA SameAction ==
  ASSUME NEW a, IsValidAssessment(a)
  PROVE  ResolvePolicy(a).action = ResolveSafeAction(a)
BY ActionFacts DEF EvidenceIsWeak, ResolveSafeAction

\* The agent and the supervisor agree on every reading either can be given.
LEMMA Agreement ==
  ASSUME NEW a
  PROVE  IF IsValidAssessment(a)
         THEN /\ ResolvePolicy(a).action = ResolveSafeAction(a)
              /\ Violations(a) = SafeViolations(a)
         ELSE ResolvePolicy(a).action = "STOP"
<1>1. CASE IsValidAssessment(a)
  <2>1. ResolvePolicy(a).action = ResolveSafeAction(a)
    BY <1>1, SameAction
  <2>2. ResolvePolicy(a).overridden <=> a.recommended_action # ResolvePolicy(a).action
    BY DEF ResolvePolicy
  <2>3. Violations(a) = SafeViolations(a)
    BY <1>1, <2>1, <2>2 DEF Violations, SafeViolations
  <2> QED
    BY <1>1, <2>1, <2>3
<1>2. CASE ~IsValidAssessment(a)
  BY <1>2, ActionFacts
<1> QED
  BY <1>1, <1>2

\* The supervisor and the agent, written in two languages, decide alike on whatever
\* the thresholds are, and the supervisor stops for what Python cannot represent.
THEOREM PoliciesAgreeAlways == ReadingSpec => []PoliciesAgree
<1>1. PoliciesAgree
  BY Agreement DEF PoliciesAgree
<1> QED
  BY <1>1, PTL

\* What the bridge says when it could not parse the model's answer.
LEMMA FailureFacts ==
  /\ IsValidAssessment(FailureAssessment)
  /\ ResolveSafeAction(FailureAssessment) = "INSPECT_CLOSER"
BY ThresholdAssumption
   DEF FailureAssessment, IsValidAssessment, IsProbability, Traversabilities,
       RecommendedActions, HazardTypes, CriticalHazards, ResolveSafeAction

\* Whatever the model answers, an assessment that leaves the bridge is valid, and
\* one that stands for an unreadable answer asks for a closer view.
THEOREM ModelOutputAlwaysFailsClosed == ReadingSpec => []ModelOutputFailsClosed
<1>1. Parses(reading) => IsValidAssessment(reading)
  BY DEF Parses, IsValidAssessment, IsProbability
<1>2. ModelOutputFailsClosed
  BY <1>1, FailureFacts, SameAction DEF ModelOutputFailsClosed, Bridged
<1> QED
  BY <1>2, PTL

-----------------------------------------------------------------------------
\* Readings with probabilities of one at most.
Reading ==
  [traversability : Traversabilities \cup {Unknown},
   hazards : SUBSET (HazardTypes \cup {Unknown}),
   recommended_action : RecommendedActions \cup {Unknown},
   confidence : Int, view_quality : Int]
ReadingOK ==
  reading \in Reading /\ reading.confidence <= Full /\ reading.view_quality <= Full

\* How free a reading leaves the robot.
FreedomOf(a) ==
  IF \/ ~IsValidAssessment(a) \/ a.hazards \cap CriticalHazards # {}
     \/ a.traversability = "BLOCKED" \/ EvidenceIsWeak(a) THEN 0
  ELSE IF a.traversability = "RESTRICTED" \/ a.hazards # {} THEN 1 ELSE 2

\* That is what its action says.
LEMMA FreedomFacts ==
  ASSUME NEW a PROVE Freedom(ResolvePolicy(a).action) = FreedomOf(a)
BY ActionFacts DEF Freedom, FreedomOf

\* A reading that is worse in every respect leaves the robot no freer: it is not
\* valid where the other is not, has its hazards, and is no surer of a way no better.
LEMMA WorseIsNoFreer ==
  ASSUME NEW a, NEW b,
         IsValidAssessment(b) => IsValidAssessment(a), a.hazards \subseteq b.hazards,
         b.traversability = a.traversability
           \/ (a.traversability = "CLEAR" /\ b.traversability = "RESTRICTED")
           \/ b.traversability \in {"BLOCKED", "UNKNOWN", Unknown},
         IsValidAssessment(b) => /\ EvidenceIsWeak(a) => EvidenceIsWeak(b)
                                    \/ b.traversability = "BLOCKED"
  PROVE  FreedomOf(b) <= FreedomOf(a)
<1>1. FreedomOf(a) \in 0 .. 2 /\ FreedomOf(b) \in 0 .. 2
  BY DEF FreedomOf
<1>2. CASE FreedomOf(b) = 0
  BY <1>1, <1>2
<1>3. CASE FreedomOf(b) # 0
  <2>1. /\ IsValidAssessment(a) /\ IsValidAssessment(b) /\ ~EvidenceIsWeak(b)
        /\ b.hazards \cap CriticalHazards = {} /\ b.traversability # "BLOCKED"
    BY <1>3 DEF FreedomOf
  <2>2. b.traversability \notin {"UNKNOWN", Unknown}
    BY <2>1 DEF IsValidAssessment, EvidenceIsWeak, Traversabilities, Unknown
  <2>3. a.hazards \cap CriticalHazards = {} /\ ~EvidenceIsWeak(a) /\ a.traversability # "BLOCKED"
    BY <2>1, <2>2
  <2>4. FreedomOf(a) # 0
    BY <2>1, <2>3 DEF FreedomOf
  <2>5. FreedomOf(a) = 1 => FreedomOf(b) # 2
    BY <2>1, <2>2, <2>3 DEF FreedomOf
  <2> QED
    BY <1>1, <2>4, <2>5
<1> QED
  BY <1>2, <1>3

\* A step of the scene is a worsening, or advice.
LEMMA WorseningStep ==
  ASSUME ReadingOK, Worsens
  PROVE  /\ ReadingOK'
         /\ IsValidAssessment(reading) \/ ~OtherAdvice =>
              FreedomOf(reading') <= FreedomOf(reading)
<1> DEFINE a == reading
           b == reading'
<1>1. CASE MoreHazard
  <2>1. PICK h \in HazardTypes \cup {Unknown} : b = [a EXCEPT !.hazards = @ \cup {h}]
    BY <1>1 DEF MoreHazard
  <2>2. /\ b \in Reading /\ b.hazards = a.hazards \cup {h} /\ b.traversability = a.traversability
        /\ b.recommended_action = a.recommended_action
        /\ b.confidence = a.confidence /\ b.view_quality = a.view_quality
    BY <2>1 DEF ReadingOK, Reading
  <2>3. FreedomOf(b) <= FreedomOf(a)
    BY <2>2, WorseIsNoFreer DEF IsValidAssessment, EvidenceIsWeak
  <2> QED
    BY <2>2, <2>3 DEF ReadingOK
<1>2. CASE LessConfidence
  <2>1. /\ b \in Reading /\ b.hazards = a.hazards /\ b.traversability = a.traversability
        /\ b.recommended_action = a.recommended_action
        /\ b.confidence = a.confidence - 1 /\ b.view_quality = a.view_quality
    BY <1>2 DEF ReadingOK, Reading, LessConfidence
  <2>2. a.confidence \in Int /\ a.confidence <= Full /\ Full \in Nat /\ ConfidenceThreshold \in Nat
    BY ThresholdAssumption DEF ReadingOK, Reading
  <2>3. IsValidAssessment(b) => IsValidAssessment(a)
    BY <2>1, <2>2 DEF IsValidAssessment, IsProbability
  <2>4. EvidenceIsWeak(a) => EvidenceIsWeak(b)
    BY <2>1, <2>2 DEF EvidenceIsWeak
  <2>5. FreedomOf(b) <= FreedomOf(a)
    BY <2>1, <2>3, <2>4, WorseIsNoFreer
  <2> QED
    BY <2>1, <2>2, <2>5 DEF ReadingOK
<1>3. CASE LessQuality
  <2>1. /\ b \in Reading /\ b.hazards = a.hazards /\ b.traversability = a.traversability
        /\ b.recommended_action = a.recommended_action
        /\ b.confidence = a.confidence /\ b.view_quality = a.view_quality - 1
    BY <1>3 DEF ReadingOK, Reading, LessQuality
  <2>2. a.view_quality \in Int /\ a.view_quality <= Full /\ Full \in Nat /\ QualityThreshold \in Nat
    BY ThresholdAssumption DEF ReadingOK, Reading
  <2>3. IsValidAssessment(b) => IsValidAssessment(a)
    BY <2>1, <2>2 DEF IsValidAssessment, IsProbability
  <2>4. EvidenceIsWeak(a) => EvidenceIsWeak(b)
    BY <2>1, <2>2 DEF EvidenceIsWeak
  <2>5. FreedomOf(b) <= FreedomOf(a)
    BY <2>1, <2>3, <2>4, WorseIsNoFreer
  <2> QED
    BY <2>1, <2>2, <2>5 DEF ReadingOK
<1>4. CASE LessTraversable
  <2>1. PICK t \in Worse[a.traversability] : b = [a EXCEPT !.traversability = t]
    BY <1>4 DEF LessTraversable
  <2>2. a.traversability \in Traversabilities
    BY <1>4 DEF LessTraversable
  <2>3. \/ a.traversability = "CLEAR" /\ t = "RESTRICTED"
        \/ a.traversability = "RESTRICTED" /\ t \in {"BLOCKED", "UNKNOWN"}
        \/ a.traversability \in {"BLOCKED", "UNKNOWN"} /\ t = Unknown
    BY <2>1, <2>2 DEF Worse, Traversabilities
  <2>4. /\ b \in Reading /\ b.hazards = a.hazards /\ b.traversability = t
        /\ b.recommended_action = a.recommended_action
        /\ b.confidence = a.confidence /\ b.view_quality = a.view_quality
    BY <2>1, <2>3 DEF ReadingOK, Reading, Traversabilities
  <2>5. IsValidAssessment(b) => IsValidAssessment(a)
    BY <2>2, <2>4 DEF IsValidAssessment
  <2>6. IsValidAssessment(b) /\ EvidenceIsWeak(a) => EvidenceIsWeak(b)
    BY <2>3, <2>4 DEF IsValidAssessment, Traversabilities, Unknown, EvidenceIsWeak
  <2>7. FreedomOf(b) <= FreedomOf(a)
    BY <2>3, <2>4, <2>5, <2>6, WorseIsNoFreer
  <2> QED
    BY <2>4, <2>7 DEF ReadingOK
<1>5. CASE OtherAdvice
  <2>1. PICK r \in RecommendedActions \cup {Unknown} :
             b = [a EXCEPT !.recommended_action = r]
    BY <1>5 DEF OtherAdvice
  <2>2. /\ b \in Reading /\ b.hazards = a.hazards /\ b.traversability = a.traversability
        /\ b.confidence = a.confidence /\ b.view_quality = a.view_quality
    BY <2>1 DEF ReadingOK, Reading
  <2>3. EvidenceIsWeak(a) => EvidenceIsWeak(b)
    BY <2>2 DEF EvidenceIsWeak
  <2>4. IsValidAssessment(a) => FreedomOf(b) <= FreedomOf(a)
    BY <2>2, <2>3, WorseIsNoFreer
  <2>5. ReadingOK' /\ (~OtherAdvice => FALSE)
    BY <1>5, <2>2 DEF ReadingOK
  <2> QED
    BY <2>4, <2>5
<1> QED
  BY <1>1, <1>2, <1>3, <1>4, <1>5 DEF Worsens

\* However a scene gets worse, whatever the model recommends about it and wherever
\* the thresholds lie, its action never leaves the robot freer than before.
THEOREM NeverFreerAlways == ReadingSpec => NeverFreer
<1>1. ReadingInit => ReadingOK
  BY ThresholdAssumption DEF ReadingInit, ReadingOK, Reading, HazardTypes
<1>2. ReadingOK /\ [Worsens]_reading => ReadingOK'
  BY WorseningStep DEF ReadingOK
<1>3. ReadingOK /\ [Worsens]_reading =>
        [IsValidAssessment(reading) \/ ~OtherAdvice =>
           Freedom(ResolvePolicy(reading').action)
             <= Freedom(ResolvePolicy(reading).action)]_reading
  BY WorseningStep, FreedomFacts
<1> QED
  BY <1>1, <1>2, <1>3, PTL DEF ReadingSpec, NeverFreer

-----------------------------------------------------------------------------
\* How the evaluation of a sample may have gone.
Scored(r, sample) ==
  \/ r = ErrorResult(sample)
  \/ \E a \in Answers : r = Result(sample, a)
Scores ==
  {ErrorResult(sample) : sample \in Labels}
  \cup {Result(sample, a) : sample \in Labels, a \in Answers}

\* The results of a run so far are those of the first samples, in their order.
RunOf(run) == run \in Seq(Scores) /\ \A i \in 1 .. Len(run) : Scored(run[i], samples[i])

Evaluated ==
  /\ samples \in [Places -> Labels] /\ \A place \in Places : Accepted(samples[place])
  /\ RunOf(results) /\ Len(results) <= SampleCount
  /\ run_reports \in Seq(Seq(Scores))
  /\ \A k \in 1 .. Len(run_reports) :
       RunOf(run_reports[k]) /\ Len(run_reports[k]) = SampleCount

\* One more sample is scored as the sample it is, and joins the results.
LEMMA ScoringKeeps ==
  ASSUME Evaluated, EvaluateSample
  PROVE  Evaluated'
<1> USE EvaluationAssumption
<1> DEFINE n == Len(results) + 1
           sample == samples[n]
<1>1. results \in Seq(Scores) /\ Len(results) \in Nat /\ Len(results) < SampleCount
  BY LenProperties DEF Evaluated, RunOf, EvaluateSample
<1>2. n \in Places /\ sample \in Labels
  BY <1>1 DEF Evaluated, Places
<1>3. PICK r : /\ results' = Append(results, r) /\ Scored(r, sample)
  BY DEF EvaluateSample, Scored
<1>4. r \in Scores
  BY <1>2, <1>3 DEF Scores, Scored
<1>5. /\ results' \in Seq(Scores) /\ Len(results') = n
      /\ \A i \in 1 .. Len(results) : results'[i] = results[i]
      /\ results'[n] = r
  BY <1>1, <1>3, <1>4, AppendProperties
<1>6. samples' = samples /\ run_reports' = run_reports
  BY DEF EvaluateSample
<1>7. \A i \in 1 .. Len(results') : Scored(results'[i], samples[i])
  <2> SUFFICES ASSUME NEW i \in 1 .. n
               PROVE  Scored(results'[i], samples[i])
    BY <1>5
  <2>1. i = n \/ i \in 1 .. Len(results)
    BY <1>1
  <2> QED
    BY <1>3, <1>5, <2>1 DEF Evaluated, RunOf
<1>8. RunOf(results)' /\ Len(results') <= SampleCount
  BY <1>1, <1>5, <1>6, <1>7 DEF RunOf
<1> QED
  BY <1>6, <1>8 DEF Evaluated, RunOf

\* A run that is complete joins the reports.
LEMMA CompletingKeeps ==
  ASSUME Evaluated, CompleteRun
  PROVE  Evaluated'
<1> USE EvaluationAssumption
<1>1. /\ run_reports' = Append(run_reports, results) /\ results' = <<>>
      /\ samples' = samples /\ Len(results) = SampleCount
  BY DEF CompleteRun
<1>2. run_reports \in Seq(Seq(Scores)) /\ results \in Seq(Scores)
  BY DEF Evaluated, RunOf
<1>3. /\ run_reports' \in Seq(Seq(Scores)) /\ Len(run_reports') = Len(run_reports) + 1
      /\ \A k \in 1 .. Len(run_reports) : run_reports'[k] = run_reports[k]
      /\ run_reports'[Len(run_reports) + 1] = results
      /\ Len(run_reports) \in Nat
  BY <1>1, <1>2, AppendProperties, LenProperties
<1>4. \A k \in 1 .. Len(run_reports') :
        RunOf(run_reports'[k]) /\ Len(run_reports'[k]) = SampleCount
  <2> SUFFICES ASSUME NEW k \in 1 .. Len(run_reports) + 1
               PROVE  RunOf(run_reports'[k]) /\ Len(run_reports'[k]) = SampleCount
    BY <1>3
  <2>1. k = Len(run_reports) + 1 \/ k \in 1 .. Len(run_reports)
    BY <1>3
  <2> QED
    BY <1>1, <1>3, <2>1 DEF Evaluated
<1>5. <<>> \in Seq(Scores) /\ Len(<<>>) = 0
  BY EmptySeq
<1>6. RunOf(results)' /\ Len(results') <= SampleCount
  BY <1>1, <1>5 DEF RunOf
<1> QED
  BY <1>1, <1>3, <1>4, <1>6 DEF Evaluated, RunOf

\* Evaluated holds in every reachable state of the evaluation.
LEMMA EvaluatedAlways == ESpec => []Evaluated
<1>1. EInit => Evaluated
  <2> SUFFICES ASSUME EInit PROVE Evaluated
    OBVIOUS
  <2>1. /\ <<>> \in Seq(Scores) /\ <<>> \in Seq(Seq(Scores)) /\ Len(<<>>) = 0
    BY EmptySeq
  <2>2. samples \in [Places -> Labels] /\ \A place \in Places : Accepted(samples[place])
    BY DEF EInit
  <2> QED
    BY <2>1, <2>2, EvaluationAssumption DEF EInit, Evaluated, RunOf
<1>2. Evaluated /\ [ENext]_evars => Evaluated'
  <2> SUFFICES ASSUME Evaluated, [ENext]_evars
               PROVE  Evaluated'
    OBVIOUS
  <2>1. CASE UNCHANGED evars
    BY <2>1 DEF evars, Evaluated, RunOf
  <2> QED
    BY <2>1, ScoringKeeps, CompletingKeeps DEF ENext
<1> QED
  BY <1>1, <1>2, PTL DEF ESpec

\* A label that is read for what it is gets the action it expects, or a weaker one.
LEMMA ReadExactly ==
  ASSUME NEW label \in Labels, Accepted(label), NEW a \in Answers,
         a.traversability = label.traversability, a.hazards = label.hazards,
         ResolveSafeAction(a) \in PermitsMotion
  PROVE  label.expected_action \in PermitsMotion
<1> DEFINE e == ExpectedAssessment(label)
<1>1. label.expected_action = ResolveSafeAction(e)
  BY DEF Accepted
<1>2. /\ e.traversability = label.traversability /\ e.hazards = label.hazards
      /\ e.confidence = Full /\ e.view_quality = Full
  BY DEF ExpectedAssessment
<1> HIDE DEF e
<1>3. /\ a.hazards \cap CriticalHazards = {}
      /\ a.traversability \notin {"BLOCKED", "UNKNOWN"}
  BY DEF ResolveSafeAction, PermitsMotion
<1>4. ~(Full < ConfidenceThreshold) /\ ~(Full < QualityThreshold)
  BY ThresholdAssumption
<1>5. ResolveSafeAction(e) \in {"SLOW_DOWN", "PROCEED"}
  BY <1>2, <1>3, <1>4 DEF ResolveSafeAction
<1> QED
  BY <1>1, <1>5 DEF PermitsMotion

\* For every manifest load_manifest accepts, whatever the model answers and wherever
\* the thresholds lie: a motion that the enforced policy permits where the robot must
\* not move is scored only on a sample that was misread.
THEOREM MotionIsAMisreadingAlways == ESpec => []MotionIsAMisreading
<1>1. Evaluated => MotionIsAMisreading
  <2> SUFFICES ASSUME Evaluated, NEW i \in DOMAIN results, EnforcedUnsafe(results[i]),
                      TraversabilityCorrect(results[i]), HazardsExact(results[i])
               PROVE  FALSE
    BY DEF MotionIsAMisreading
  <2> DEFINE r == results[i]
             label == samples[i]
  <2>1. i \in 1 .. Len(results) /\ i \in Places
    <3>1. results \in Seq(Scores) /\ Len(results) <= SampleCount
      BY DEF Evaluated, RunOf
    <3>2. DOMAIN results = 1 .. Len(results) /\ Len(results) \in Nat
      BY <3>1, LenProperties
    <3> QED
      BY <3>1, <3>2, EvaluationAssumption DEF Places
  <2>2. label \in Labels /\ Accepted(label) /\ Scored(r, label)
    BY <2>1 DEF Evaluated, RunOf
  <2>3. ~r.failed
    BY DEF HazardsExact
  <2>4. PICK a \in Answers : r = Result(label, a)
    BY <2>2, <2>3 DEF Scored, ErrorResult
  <2>5. /\ r.sample = label /\ r.predicted_traversability = a.traversability
        /\ r.predicted_hazards = a.hazards /\ r.enforced_action = ResolveSafeAction(a)
    BY <2>4 DEF Result
  <2> HIDE DEF r, label
  <2>6. /\ a.traversability = label.traversability /\ a.hazards = label.hazards
        /\ label.expected_action \in MustNotMove /\ ResolveSafeAction(a) \in PermitsMotion
    BY <2>5 DEF TraversabilityCorrect, HazardsExact, EnforcedUnsafe, r
  <2>7. label.expected_action \in PermitsMotion
    BY <2>2, <2>6, ReadExactly
  <2> QED
    BY <2>6, <2>7 DEF MustNotMove, PermitsMotion
<1> QED
  BY <1>1, EvaluatedAlways, PTL

-----------------------------------------------------------------------------
\* Two results that every metric but latency counts alike.
Alike(q, r) ==
  /\ q.sample = r.sample
  /\ q.predicted_traversability = r.predicted_traversability
  /\ q.predicted_hazards = r.predicted_hazards
  /\ q.model_action = r.model_action /\ q.enforced_action = r.enforced_action
  /\ q.overridden = r.overridden /\ q.failed = r.failed

\* The signature tells whether the policy overrode the model.
LEMMA SignatureTellsAll ==
  ASSUME NEW sample, NEW q, NEW r, Scored(q, sample), Scored(r, sample),
         PredictionSignature(q) = PredictionSignature(r)
  PROVE  Alike(q, r)
<1>1. /\ q.predicted_traversability = r.predicted_traversability
      /\ q.predicted_hazards = r.predicted_hazards
      /\ q.model_action = r.model_action /\ q.enforced_action = r.enforced_action
      /\ q.failed = r.failed
  BY DEF PredictionSignature
<1> DEFINE Told(x) == /\ x.sample = sample /\ x.failed \in BOOLEAN
                      /\ x.overridden = IF x.failed THEN FALSE
                                        ELSE x.enforced_action # x.model_action
<1>2. ASSUME NEW x, Scored(x, sample)
      PROVE  Told(x)
  <2>1. CASE x = ErrorResult(sample)
    BY <2>1 DEF ErrorResult
  <2>2. ASSUME NEW a \in Answers, x = Result(sample, a)
        PROVE  Told(x)
    BY <2>2 DEF Result
  <2> QED
    BY <1>2, <2>1, <2>2 DEF Scored
<1>3. q.sample = r.sample
  BY <1>2
<1>4. q.overridden = r.overridden
  BY <1>1, <1>2
<1> QED
  BY <1>1, <1>3, <1>4 DEF Alike

\* What is counted of two runs that agree result by result.
LEMMA AlikeRunsCountAlike ==
  ASSUME NEW x, NEW y, DOMAIN x = DOMAIN y, \A i \in DOMAIN x : Alike(x[i], y[i])
  PROVE  BuildReport(x) = BuildReport(y)
<1>1. /\ Count(x, Successful) = Count(y, Successful)
      /\ Count(x, TraversabilityCorrect) = Count(y, TraversabilityCorrect)
      /\ Count(x, HazardsExact) = Count(y, HazardsExact)
      /\ Count(x, ModelActionCorrect) = Count(y, ModelActionCorrect)
      /\ Count(x, EnforcedActionCorrect) = Count(y, EnforcedActionCorrect)
      /\ Count(x, Overridden) = Count(y, Overridden)
      /\ Count(x, ModelUnsafe) = Count(y, ModelUnsafe)
      /\ Count(x, EnforcedUnsafe) = Count(y, EnforcedUnsafe)
  <2>1. \A i \in DOMAIN x :
          /\ Successful(x[i]) <=> Successful(y[i])
          /\ TraversabilityCorrect(x[i]) <=> TraversabilityCorrect(y[i])
          /\ HazardsExact(x[i]) <=> HazardsExact(y[i])
          /\ ModelActionCorrect(x[i]) <=> ModelActionCorrect(y[i])
          /\ EnforcedActionCorrect(x[i]) <=> EnforcedActionCorrect(y[i])
          /\ Overridden(x[i]) <=> Overridden(y[i])
          /\ ModelUnsafe(x[i]) <=> ModelUnsafe(y[i])
          /\ EnforcedUnsafe(x[i]) <=> EnforcedUnsafe(y[i])
    BY DEF Alike, Successful, TraversabilityCorrect, HazardsExact, ModelActionCorrect,
       EnforcedActionCorrect, Overridden, ModelUnsafe, EnforcedUnsafe
  <2>2. /\ {i \in DOMAIN x : Successful(x[i])} = {i \in DOMAIN y : Successful(y[i])}
        /\ {i \in DOMAIN x : TraversabilityCorrect(x[i])}
             = {i \in DOMAIN y : TraversabilityCorrect(y[i])}
        /\ {i \in DOMAIN x : HazardsExact(x[i])} = {i \in DOMAIN y : HazardsExact(y[i])}
        /\ {i \in DOMAIN x : ModelActionCorrect(x[i])}
             = {i \in DOMAIN y : ModelActionCorrect(y[i])}
    BY <2>1
  <2>3. /\ {i \in DOMAIN x : EnforcedActionCorrect(x[i])}
             = {i \in DOMAIN y : EnforcedActionCorrect(y[i])}
        /\ {i \in DOMAIN x : Overridden(x[i])} = {i \in DOMAIN y : Overridden(y[i])}
        /\ {i \in DOMAIN x : ModelUnsafe(x[i])} = {i \in DOMAIN y : ModelUnsafe(y[i])}
        /\ {i \in DOMAIN x : EnforcedUnsafe(x[i])} = {i \in DOMAIN y : EnforcedUnsafe(y[i])}
    BY <2>1
  <2> QED
    BY <2>2, <2>3 DEF Count
<1>2. ASSUME NEW kinds
      PROVE  Detection(x, kinds) = Detection(y, kinds)
  <2>1. /\ [i \in DOMAIN x |->
              Cardinality(kinds \cap x[i].sample.hazards \cap x[i].predicted_hazards)]
            = [i \in DOMAIN y |->
                 Cardinality(kinds \cap y[i].sample.hazards \cap y[i].predicted_hazards)]
        /\ [i \in DOMAIN x |->
              Cardinality(kinds \cap (x[i].predicted_hazards \ x[i].sample.hazards))]
            = [i \in DOMAIN y |->
                 Cardinality(kinds \cap (y[i].predicted_hazards \ y[i].sample.hazards))]
        /\ [i \in DOMAIN x |->
              Cardinality(kinds \cap (x[i].sample.hazards \ x[i].predicted_hazards))]
            = [i \in DOMAIN y |->
                 Cardinality(kinds \cap (y[i].sample.hazards \ y[i].predicted_hazards))]
    BY DEF Alike
  <2> QED
    BY <2>1 DEF Detection, Total
<1>3. HazardMetrics(x) = HazardMetrics(y)
  BY <1>1, <1>2 DEF HazardMetrics
<1>4. PerHazardMetrics(x) = PerHazardMetrics(y)
  BY <1>2 DEF PerHazardMetrics
<1>5. TraversabilityConfusionMatrix(x) = TraversabilityConfusionMatrix(y)
  <2>1. ASSUME NEW pair
        PROVE  {i \in DOMAIN x :
                  <<x[i].sample.traversability, x[i].predicted_traversability>> = pair}
               = {i \in DOMAIN y :
                    <<y[i].sample.traversability, y[i].predicted_traversability>> = pair}
    BY DEF Alike
  <2> QED
    BY <2>1 DEF TraversabilityConfusionMatrix, Count
<1> QED
  BY <1>1, <1>3, <1>4, <1>5 DEF BuildReport

\* Where one signature is all there is, any two runs bear it.
LEMMA AgreeingRunsSignAlike ==
  ASSUME Evaluated, NEW place \in Places, AllRunsAgree(place),
         NEW i \in DOMAIN run_reports, NEW j \in DOMAIN run_reports
  PROVE  PredictionSignature(run_reports[i][place]) = PredictionSignature(run_reports[j][place])
<1> DEFINE f == [k \in DOMAIN run_reports |-> PredictionSignature(run_reports[k][place])]
           S == {PredictionSignature(run_reports[k][place]) : k \in DOMAIN run_reports}
<1>1. DOMAIN run_reports = 1 .. Len(run_reports) /\ Len(run_reports) \in Nat
  BY LenProperties DEF Evaluated
<1>2. IsFiniteSet(DOMAIN run_reports)
  BY <1>1, FS_Interval
<1>3. f \in Surjection(DOMAIN run_reports, S)
  BY DEF Surjection
<1>4. IsFiniteSet(S)
  BY <1>2, <1>3, FS_Surjection
<1>5. Cardinality(S) = 1
  BY DEF AllRunsAgree
<1> HIDE DEF f
<1>6. PICK x : S = {x}
  BY <1>4, <1>5, FS_Singleton
<1>7. PredictionSignature(run_reports[i][place]) \in S
      /\ PredictionSignature(run_reports[j][place]) \in S
  OBVIOUS
<1> QED
  BY <1>6, <1>7

\* For every manifest, every answer and every number of runs: if all scenes count into
\* fully_stable_scene_count, no metric but latency distinguishes the runs.
THEOREM StableRunsScoreAlikeAlways == ESpec => []StableRunsScoreAlike
<1>1. Evaluated => StableRunsScoreAlike
  <2> SUFFICES ASSUME Evaluated, Len(run_reports) = RunCount, FullyStable = Places,
                      NEW i \in RunIndices, NEW j \in RunIndices
               PROVE  BuildReport(run_reports[i]) = BuildReport(run_reports[j])
    BY DEF StableRunsScoreAlike
  <2>1. i \in DOMAIN run_reports /\ j \in DOMAIN run_reports
    BY LenProperties DEF Evaluated, RunIndices
  <2>2. ASSUME NEW k \in RunIndices
        PROVE  /\ DOMAIN run_reports[k] = Places
               /\ \A place \in Places : Scored(run_reports[k][place], samples[place])
    <3>1. RunOf(run_reports[k]) /\ Len(run_reports[k]) = SampleCount
      BY DEF Evaluated, RunIndices
    <3>2. DOMAIN run_reports[k] = 1 .. Len(run_reports[k])
      BY <3>1, LenProperties DEF RunOf
    <3> QED
      BY <3>1, <3>2 DEF RunOf, Places
  <2>3. ASSUME NEW place \in Places
        PROVE  Alike(run_reports[i][place], run_reports[j][place])
    <3>1. AllRunsAgree(place)
      BY DEF FullyStable
    <3>2. PredictionSignature(run_reports[i][place])
            = PredictionSignature(run_reports[j][place])
      BY <2>1, <3>1, AgreeingRunsSignAlike
    <3> QED
      BY <2>2, <3>2, SignatureTellsAll
  <2> QED
    BY <2>2, <2>3, AlikeRunsCountAlike
<1> QED
  BY <1>1, EvaluatedAlways, PTL

-----------------------------------------------------------------------------
\* The simulated mission.

Running == pc \in {"reset", "analyze", "choose", "act"}
Passable == {"PROCEED", "SLOW_DOWN", "REROUTE"}

\* What the loop knows while it runs: the assessment in hand is of where the robot
\* stands, and every other place it has seen was passable when it left it.
LeavesPassable ==
  Running =>
    /\ status = "step_limit"
    /\ pc = "reset" => visited = {}
    /\ pc \in {"choose", "act"} => assessment \in Assessed /\ assessment.waypoint = position
    /\ \A w \in visited : w # position => judged[w] \in Passable

\* An action about to be carried out is the one the reading calls for.
ActsAsJudged ==
  pc = "act" =>
    /\ position \in visited
    /\ \/ action.kind = "inspect" /\ views[position] < MaxViews
       \/ /\ action.kind = "move"
          /\ judged[position] \in Passable /\ action.speed = Pace[judged[position]]
          /\ action.target \in Waypoints \ (visited \cup blocked)

\* Every step took one of the views a mission may take, and another one is left.
Taken == {view \in Waypoints \X (1 .. MaxViews) : view[2] <= views[view[1]]}
ViewsAreCounted ==
  /\ Cardinality(Taken) = steps
  /\ \A w \in Waypoints \ visited : views[w] = 0
  /\ pc \in {"reset", "analyze", "choose"} => views[position] < MaxViews

Conducted ==
  /\ TypeOK
  /\ LeavesPassable /\ ActsAsJudged /\ ViewsAreCounted
  /\ CompletedMeansCovered /\ StepLimitIsAShortage

\* The constants, as the proofs below need them.
LEMMA RouteFacts ==
  /\ Required \in Seq(Waypoints) /\ Required[1] \in Waypoints /\ None \notin Waypoints
  /\ DOMAIN Required = 1 .. Len(Required) /\ Len(Required) \in Nat
  /\ MaxViews \in Nat \ {0} /\ MaxSteps \in Nat \ {0}
<1>1. Required \in Seq(Waypoints) /\ Required # <<>> /\ None \notin Waypoints
  BY RouteAssumption DEF Waypoints
<1>2. DOMAIN Required = 1 .. Len(Required) /\ Len(Required) \in Nat
  BY <1>1, LenProperties
<1>3. Len(Required) \in Nat \ {0}
  BY <1>1, EmptySeq
<1>4. Required[1] \in Waypoints
  BY <1>1, <1>2, <1>3, ElementOfSeq
<1> QED
  BY <1>1, <1>2, <1>4, LimitAssumption

\* A nonempty set of natural numbers has a least one.
LEMMA MinFacts ==
  ASSUME NEW S, S \subseteq Nat, S # {}
  PROVE  Min(S) \in S
<1>1. \E x \in S : \A y \in S : ~(<<y, x>> \in OpToRel(<, Nat))
  BY NatLessThanWellFounded, WFMin, Zenon
<1>2. \E x \in S : \A y \in S : x <= y
  <2>1. PICK x \in S : \A y \in S : ~(<<y, x>> \in OpToRel(<, Nat))
    BY <1>1
  <2>2. \A y \in S : ~(y < x)
    BY <2>1 DEF OpToRel
  <2> QED
    BY <2>2
<1> QED
  BY <1>2 DEF Min

\* The next waypoint is one of the route that has not been seen.
LEMMA NextWaypointFacts ==
  ASSUME NEW seen
  PROVE  NextWaypoint(seen) = None \/ NextWaypoint(seen) \in Waypoints \ seen
<1> DEFINE left == Unvisited(seen)
<1>1. CASE left = {}
  BY <1>1 DEF NextWaypoint
<1>2. CASE left # {}
  <2>1. left \subseteq Nat
    BY RouteFacts DEF Unvisited
  <2> HIDE DEF left
  <2>2. Min(left) \in left
    BY <1>2, <2>1, MinFacts
  <2>3. Required[Min(left)] \in Waypoints \ seen
    BY <2>2, RouteFacts, ElementOfSeq DEF left, Unvisited
  <2> QED
    BY <1>2, <2>3 DEF NextWaypoint, left
<1> QED
  BY <1>1, <1>2

\* What the agent may choose, and on which reading.
LEMMA ChoiceFacts ==
  ASSUME NEW seen, NEW count \in Nat, NEW a \in Assessed
  PROVE  LET c == Choice(seen, count, a) IN
         /\ c \in Chosen
         /\ c.kind = "inspect" => count < MaxViews
         /\ c.kind = "move" => /\ a.action \in Passable /\ c.speed = Pace[a.action]
                               /\ c.target \in Waypoints \ seen
         /\ c.kind = "report" => a.action \in {"PROCEED", "SLOW_DOWN"}
<1> DEFINE c == Choice(seen, count, a)
           next == NextWaypoint(seen)
<1>1. a.waypoint \in Waypoints /\ a.action \in SafeActions
  BY DEF Assessed
<1>2. next = None \/ next \in Waypoints \ seen
  BY NextWaypointFacts
<1>3. /\ Halt \in Chosen /\ Halt.kind = "stop"
      /\ Report \in Chosen /\ Report.kind = "report"
      /\ Inspect(a.waypoint) \in Chosen /\ Inspect(a.waypoint).kind = "inspect"
  BY <1>1 DEF Chosen, Halt, Report, Inspect, Kinds
<1>4. ASSUME NEW speed \in Speeds, next # None
      PROVE  /\ Move(next, speed) \in Chosen /\ Move(next, speed).kind = "move"
             /\ Move(next, speed).speed = speed /\ Move(next, speed).target = next
  BY <1>2, <1>4 DEF Move, Chosen, Kinds
<1>5. CASE a.action = "STOP"
  BY <1>3, <1>5 DEF Choice
<1>6. CASE a.action = "INSPECT_CLOSER"
  BY <1>3, <1>6 DEF Choice, MayLookAgain
<1>7. CASE a.action \in Passable
  <2>1. c = Onward(a.action, next)
    BY <1>7 DEF Choice, Passable
  <2>2. CASE next = None
    <3> HIDE DEF next
    <3>2. CASE a.action = "REROUTE"
      <4>1. Onward(a.action, next) = Halt
        BY <2>2, <3>2 DEF Onward
      <4> QED
        BY <1>3, <2>1, <3>2, <4>1
    <3>3. CASE a.action # "REROUTE"
      <4>1. Onward(a.action, next) = Report
        BY <2>2, <3>3 DEF Onward
      <4> QED
        BY <1>3, <1>7, <2>1, <3>3, <4>1 DEF Passable
    <3> QED
      BY <3>2, <3>3
  <2>3. CASE next # None
    <3>1. Pace[a.action] \in Speeds
      BY <1>7 DEF Pace, Passable, Speeds
    <3>2. c = Move(next, Pace[a.action])
      BY <2>1, <2>3 DEF Onward
    <3> HIDE DEF c, next
    <3> QED
      BY <1>2, <1>4, <1>7, <2>3, <3>1, <3>2 DEF c, next
  <2> QED
    BY <2>2, <2>3
<1> QED
  BY <1>1, <1>5, <1>6, <1>7 DEF SafeActions, Passable

\* One more view of a waypoint is one more view taken.
LEMMA OneMoreView ==
  ASSUME TypeOK, NEW w \in Waypoints, views[w] < MaxViews, IsFiniteSet(Taken),
         views' = [views EXCEPT ![w] = views[w] + 1]
  PROVE  Cardinality(Taken') = Cardinality(Taken) + 1
<1> USE RouteFacts
<1> DEFINE view == <<w, views[w] + 1>>
<1>1. views \in [Waypoints -> 0 .. MaxViews]
  BY DEF TypeOK
<1>2. view \in Waypoints \X (1 .. MaxViews) /\ view \notin Taken
  BY <1>1 DEF Taken
<1>3. Taken' = Taken \cup {view}
  <2>1. ASSUME NEW v \in Waypoints, NEW k \in 1 .. MaxViews
        PROVE  <<v, k>> \in Taken' <=> <<v, k>> \in Taken \cup {view}
    <3>1. CASE v = w
      BY <1>1, <3>1 DEF Taken
    <3>2. CASE v # w
      BY <1>1, <3>2 DEF Taken
    <3> QED
      BY <3>1, <3>2
  <2> QED
    BY <1>2, <2>1 DEF Taken
<1> QED
  BY <1>2, <1>3, FS_AddElement

\* There are as many views to take as the route has places, MaxViews times.
LEMMA AllViews ==
  /\ IsFiniteSet(Waypoints \X (1 .. MaxViews))
  /\ Cardinality(Waypoints \X (1 .. MaxViews)) = Len(Required) * MaxViews
<1> USE RouteFacts
<1>1. IsFiniteSet(1 .. Len(Required)) /\ Cardinality(1 .. Len(Required)) = Len(Required)
  BY FS_Interval
<1>2. Required \in Bijection(1 .. Len(Required), Waypoints)
  <2>1. Required \in [1 .. Len(Required) -> Waypoints]
    BY LenProperties
  <2>2. IsInjective(Required)
    BY RouteAssumption
  <2>3. \A w \in Waypoints : \E i \in 1 .. Len(Required) : Required[i] = w
    BY DEF Waypoints, ToSet
  <2> QED
    BY <2>1, <2>2, <2>3 DEF Bijection, Injection, Surjection
<1>3. IsFiniteSet(Waypoints) /\ Cardinality(Waypoints) = Len(Required)
  <2>1. ExistsBijection(1 .. Len(Required), Waypoints)
    BY <1>2 DEF ExistsBijection
  <2> QED
    BY <1>1, <2>1, FS_Bijection
<1>4. IsFiniteSet(1 .. MaxViews) /\ Cardinality(1 .. MaxViews) = MaxViews
  BY FS_Interval
<1> QED
  BY <1>3, <1>4, FS_Product

\* The steps taken so far can be counted.
LEMMA TakenIsFinite == IsFiniteSet(Taken) /\ Cardinality(Taken) \in Nat
<1>1. Taken \subseteq Waypoints \X (1 .. MaxViews)
  BY DEF Taken
<1>2. IsFiniteSet(Taken)
  BY <1>1, AllViews, FS_Subset
<1> QED
  BY <1>2, FS_CardinalityType

\* While the place the robot stands at may be viewed again, not all views are taken.
LEMMA ViewsAreLeft ==
  ASSUME TypeOK, ViewsAreCounted, views[position] < MaxViews
  PROVE  steps < Len(Required) * MaxViews
<1> USE RouteFacts
<1> DEFINE all == Waypoints \X (1 .. MaxViews)
           view == <<position, views[position] + 1>>
<1>1. views \in [Waypoints -> 0 .. MaxViews] /\ position \in Waypoints
  BY DEF TypeOK
<1>2. view \in all /\ view \notin Taken
  BY <1>1 DEF Taken
<1>3. Taken \in SUBSET all /\ Taken # all
  BY <1>2 DEF Taken
<1>4. Cardinality(Taken) <= Cardinality(all) /\ Cardinality(Taken) # Cardinality(all)
  <2> HIDE DEF all
  <2>1. IsFiniteSet(all)
    BY AllViews DEF all
  <2> QED
    BY <1>3, <2>1, FS_Subset
<1>5. Cardinality(all) = Len(Required) * MaxViews /\ Cardinality(Taken) = steps
  BY AllViews DEF ViewsAreCounted
<1>6. \A m, n \in Nat : m <= n /\ m # n => m < n
  OBVIOUS
<1>7. Len(Required) * MaxViews \in Nat /\ steps \in Nat
  BY <1>5, TakenIsFinite
<1> HIDE DEF all
<1> QED
  BY <1>4, <1>5, <1>6, <1>7

-----------------------------------------------------------------------------
\* A call that raises ends the mission as failed.
LEMMA RaisingIsConducted ==
  ASSUME Conducted, Running, Raises,
         UNCHANGED <<max_steps, steps, assessment, action, agent, robot, judged>>
  PROVE  Conducted'
<1>1. TypeOK'
  BY DEF Conducted, TypeOK, Raises, Fail, agent, robot, Statuses
<1>2. ViewsAreCounted'
  BY DEF Conducted, ViewsAreCounted, Taken, Raises, Fail, agent, robot
<1> QED
  BY <1>1, <1>2 DEF Conducted, Raises, Fail, Running, LeavesPassable, ActsAsJudged,
     CompletedMeansCovered, StepLimitIsAShortage

\* A mission that is reset is conducted: nothing is covered yet.
LEMMA ResetIsConducted ==
  ASSUME Conducted, Reset
  PROVE  Conducted'
<1> USE RouteFacts
<1>1. CASE Raises /\ UNCHANGED robot
  BY <1>1, RaisingIsConducted DEF Reset, Running
<1>2. CASE /\ pc' = "analyze"
           /\ position' = Required[1] /\ stopped' = FALSE
           /\ UNCHANGED <<status, blocked>>
  <2>1. pc = "reset" /\ UNCHANGED <<max_steps, steps, assessment, action, agent, judged>>
    BY DEF Reset
  <2>2. visited = {} /\ status = "step_limit"
    BY <2>1 DEF Conducted, LeavesPassable, Running
  <2>3. TypeOK'
    BY <1>2, <2>1 DEF Conducted, TypeOK, agent
  <2>4. views[position'] = 0
    BY <1>2, <2>2 DEF Conducted, ViewsAreCounted
  <2>5. ViewsAreCounted'
    BY <1>2, <2>1, <2>4 DEF Conducted, ViewsAreCounted, Taken, agent
  <2> QED
    BY <1>2, <2>1, <2>2, <2>3, <2>5 DEF Conducted, LeavesPassable, ActsAsJudged, Running,
       CompletedMeansCovered, StepLimitIsAShortage, agent
<1> QED
  BY <1>1, <1>2 DEF Reset

\* So is one that has taken a step,
LEMMA AnalyzeIsConducted ==
  ASSUME Conducted, NEW waypoint \in Waypoints \cup {Elsewhere}, NEW safe \in SafeActions,
         Analyze(waypoint, safe)
  PROVE  Conducted'
<1>1. CASE Raises /\ UNCHANGED assessment
  BY <1>1, RaisingIsConducted DEF Analyze, Running
<1>2. CASE /\ Matches(waypoint)
           /\ assessment' = [waypoint |-> waypoint, action |-> safe]
           /\ pc' = "choose" /\ UNCHANGED status
  <2>1. pc = "analyze" /\ UNCHANGED <<max_steps, steps, action, agent, robot, judged>>
    BY DEF Analyze
  <2>2. position \in Waypoints /\ waypoint = position
    BY <1>2 DEF Conducted, TypeOK, Matches
  <2>3. assessment' \in Assessed /\ assessment'.waypoint = position
    BY <1>2, <2>2 DEF Assessed
  <2>4. TypeOK'
    BY <1>2, <2>1, <2>3 DEF Conducted, TypeOK, agent, robot
  <2>5. ViewsAreCounted'
    BY <1>2, <2>1 DEF Conducted, ViewsAreCounted, Taken, agent, robot
  <2> QED
    BY <1>2, <2>1, <2>3, <2>4, <2>5 DEF Conducted, LeavesPassable, ActsAsJudged, Running,
       CompletedMeansCovered, StepLimitIsAShortage, agent, robot
<1> QED
  BY <1>1, <1>2 DEF Analyze

\* An iteration of the loop counts a view, and chooses as the reading says.
LEMMA ChooseIsConducted ==
  ASSUME Conducted, Choose
  PROVE  Conducted'
<1> USE RouteFacts
<1> DEFINE a == assessment
           count == views[position] + 1
           seen == visited \cup {position}
<1>1. /\ TypeOK /\ pc = "choose" /\ status = "step_limit"
      /\ a \in Assessed /\ a.waypoint = position /\ position \in Waypoints
      /\ views[position] \in Nat /\ views[position] < MaxViews
      /\ views \in [Waypoints -> 0 .. MaxViews]
      /\ \A w \in visited : w # position => judged[w] \in Passable
  BY DEF Conducted, Choose, LeavesPassable, ViewsAreCounted, Running, TypeOK
<1>2. /\ steps < max_steps /\ steps' = steps + 1
      /\ visited' = seen
      /\ views' = [views EXCEPT ![position] = count]
      /\ judged' = [judged EXCEPT ![position] = a.action]
      /\ action' = Choice(seen, count, a)
      /\ UNCHANGED <<max_steps, assessment, robot>>
  BY <1>1 DEF Choose
<1>3. \/ /\ pc' = "finally" /\ status' = "validation_failure"
      \/ /\ pc' = "finally" /\ action'.kind = "stop" /\ status' = "safety_stop"
      \/ /\ pc' = "finally" /\ action'.kind = "report" /\ status' = "completed"
         /\ Allowed(action')
      \/ /\ pc' = "act" /\ status' = status
         /\ action'.kind \in {"move", "inspect"} /\ Allowed(action')
  BY DEF Choose, Fail, EndOf
<1>4. /\ action' \in Chosen
      /\ action'.kind = "inspect" => count < MaxViews
      /\ action'.kind = "move" => /\ a.action \in Passable
                                  /\ action'.speed = Pace[a.action]
                                  /\ action'.target \in Waypoints \ seen
      /\ action'.kind = "report" => a.action \in {"PROCEED", "SLOW_DOWN"}
  BY <1>1, <1>2, ChoiceFacts
<1>5. /\ views' \in [Waypoints -> 0 .. MaxViews] /\ views'[position] = count
      /\ \A w \in Waypoints : w # position => views'[w] = views[w]
  BY <1>1, <1>2
<1>6. /\ judged' \in [Waypoints -> SafeActions \cup {None}] /\ judged'[position] = a.action
      /\ \A w \in Waypoints : w # position => judged'[w] = judged[w]
  BY <1>1, <1>2 DEF TypeOK, Assessed
<1>7. visited \subseteq Waypoints /\ position' = position /\ blocked' = blocked
      /\ stopped' = stopped /\ max_steps' = max_steps /\ assessment' = assessment
  BY <1>1, <1>2 DEF TypeOK, robot
<1>8. TypeOK'
  <2>1. steps' \in 0 .. max_steps
    BY <1>1, <1>2 DEF TypeOK
  <2>2. pc' \in {"finally", "act"} /\ status' \in Statuses
    BY <1>1, <1>3 DEF Statuses
  <2> QED
    BY <1>1, <1>2, <1>4, <1>5, <1>6, <1>7, <2>1, <2>2 DEF TypeOK
<1>9. LeavesPassable'
  <2>1. \A w \in seen : w # position => judged'[w] \in Passable
    BY <1>1, <1>6, <1>7
  <2> QED
    BY <1>1, <1>2, <1>3, <1>7, <2>1 DEF LeavesPassable, Running
<1>10. ActsAsJudged'
  BY <1>2, <1>3, <1>4, <1>5, <1>6, <1>7 DEF ActsAsJudged, Allowed
<1>11. ViewsAreCounted'
  <2>1. Cardinality(Taken) = steps /\ \A w \in Waypoints \ visited : views[w] = 0
    BY DEF Conducted, ViewsAreCounted
  <2>2. Cardinality(Taken') = steps + 1
    BY <1>1, <1>2, <2>1, TakenIsFinite, OneMoreView
  <2>3. \A w \in Waypoints \ visited' : views'[w] = 0
    BY <1>2, <1>5, <2>1
  <2> QED
    BY <1>2, <1>3, <2>2, <2>3 DEF ViewsAreCounted
<1>12. CompletedMeansCovered'
  <2> SUFFICES ASSUME status' = "completed"
               PROVE  /\ \A w \in Waypoints : judged'[w] \in {"PROCEED", "SLOW_DOWN", "REROUTE"}
                      /\ judged'[position'] # "REROUTE"
    BY DEF CompletedMeansCovered
  <2>1. action'.kind = "report" /\ Allowed(action')
    BY <1>1, <1>3
  <2>2. Waypoints \subseteq seen
    BY <1>2, <2>1 DEF Allowed
  <2>3. a.action \in {"PROCEED", "SLOW_DOWN"}
    BY <1>4, <2>1
  <2> QED
    BY <1>1, <1>6, <1>7, <2>2, <2>3 DEF Passable
<1>13. StepLimitIsAShortage'
  BY <1>1, <1>3 DEF StepLimitIsAShortage
<1> QED
  BY <1>8, <1>9, <1>10, <1>11, <1>12, <1>13 DEF Conducted

\* The loop is exhausted only where it had less steps than there are views.
LEMMA ExhaustedIsConducted ==
  ASSUME Conducted, Exhausted
  PROVE  Conducted'
<1> USE RouteFacts
<1>1. /\ pc = "choose" /\ steps = max_steps /\ pc' = "finally"
      /\ UNCHANGED <<max_steps, steps, assessment, action, agent, robot, status, judged>>
  BY DEF Exhausted
<1>2. max_steps < Len(Required) * MaxViews
  BY <1>1, ViewsAreLeft DEF Conducted, ViewsAreCounted
<1>3. TypeOK'
  BY <1>1 DEF Conducted, TypeOK, agent, robot
<1>4. ViewsAreCounted'
  BY <1>1 DEF Conducted, ViewsAreCounted, Taken, agent, robot
<1> QED
  BY <1>1, <1>2, <1>3, <1>4 DEF Conducted, LeavesPassable, ActsAsJudged, Running,
     CompletedMeansCovered, StepLimitIsAShortage, agent, robot

\* The robot leaves a place only if it is passable, for one it has not viewed.
LEMMA ActIsConducted ==
  ASSUME Conducted, Act
  PROVE  Conducted'
<1> USE RouteFacts
<1>1. CASE Raises /\ UNCHANGED position
  BY <1>1, RaisingIsConducted DEF Act, Running, robot
<1>2. CASE /\ RobotMay
           /\ position' = IF action.kind = "move" THEN action.target ELSE position
           /\ pc' = "analyze" /\ UNCHANGED status
  <2>1. /\ pc = "act"
        /\ UNCHANGED <<max_steps, steps, assessment, action, agent, blocked, stopped, judged>>
    BY DEF Act
  <2>2. /\ position \in visited /\ position \in Waypoints /\ status = "step_limit"
        /\ \A w \in visited : w # position => judged[w] \in Passable
        /\ \A w \in Waypoints \ visited : views[w] = 0
    BY <2>1 DEF Conducted, ActsAsJudged, LeavesPassable, Running, TypeOK, ViewsAreCounted
  <2>3. \/ position' = position /\ views[position] < MaxViews
        \/ position' \in Waypoints \ visited /\ judged[position] \in Passable
    BY <1>2, <2>1 DEF Conducted, ActsAsJudged
  <2>4. TypeOK'
    BY <1>2, <2>1, <2>2, <2>3 DEF Conducted, TypeOK, agent
  <2>5. LeavesPassable'
    BY <1>2, <2>1, <2>2, <2>3 DEF LeavesPassable, agent
  <2>6. views[position'] < MaxViews
    BY <2>2, <2>3
  <2>7. ViewsAreCounted'
    BY <2>1, <2>6 DEF Conducted, ViewsAreCounted, Taken, agent
  <2> QED
    BY <1>2, <2>1, <2>2, <2>4, <2>5, <2>7 DEF Conducted, ActsAsJudged,
       CompletedMeansCovered, StepLimitIsAShortage
<1> QED
  BY <1>1, <1>2 DEF Act

\* and one that has come to its end.
LEMMA FinallyIsConducted ==
  ASSUME Conducted, Finally
  PROVE  Conducted'
<1>1. /\ pc = "finally" /\ pc' = "returned"
      /\ UNCHANGED <<max_steps, steps, assessment, action, agent, position, blocked, judged>>
      /\ status' = status \/ status' = "runtime_failure"
      /\ stopped' = TRUE \/ stopped' = stopped
  BY DEF Finally
<1>2. TypeOK'
  BY <1>1 DEF Conducted, TypeOK, agent, Statuses
<1>3. ViewsAreCounted'
  BY <1>1 DEF Conducted, ViewsAreCounted, Taken, agent
<1> QED
  BY <1>1, <1>2, <1>3 DEF Conducted, LeavesPassable, ActsAsJudged, Running,
     CompletedMeansCovered, StepLimitIsAShortage

\* No mission has begun.
LEMMA ConductedInitially == Init => Conducted
<1> SUFFICES ASSUME Init PROVE Conducted
  OBVIOUS
<1> USE RouteFacts
<1>1. TypeOK
  <2>1. 0 \in 0 .. max_steps /\ 0 \in 0 .. MaxViews
    BY DEF Init
  <2>2. NoAction \in Chosen
    BY DEF NoAction, Chosen, Kinds
  <2> QED
    BY <2>1, <2>2 DEF Init, TypeOK, Statuses
<1>2. Taken = {}
  BY DEF Init, Taken
<1>3. ViewsAreCounted
  <2>1. Cardinality(Taken) = 0
    BY <1>2, FS_EmptySet
  <2>2. views[position] = 0
    BY DEF Init
  <2> QED
    BY <2>1, <2>2 DEF Init, ViewsAreCounted
<1> QED
  BY <1>1, <1>3 DEF Init, Conducted, LeavesPassable, ActsAsJudged, CompletedMeansCovered,
     StepLimitIsAShortage

\* Conducted holds in every reachable state of the simulated mission.
LEMMA ConductedAlways == Spec => []Conducted
<1>1. Conducted /\ [Next]_vars => Conducted'
  <2> SUFFICES ASSUME Conducted, [Next]_vars
               PROVE  Conducted'
    OBVIOUS
  <2>1. CASE UNCHANGED vars
    BY <2>1 DEF vars, agent, robot, Conducted, TypeOK, LeavesPassable, ActsAsJudged,
       ViewsAreCounted, Taken, Running, CompletedMeansCovered, StepLimitIsAShortage
  <2> QED
    BY <2>1, ResetIsConducted, AnalyzeIsConducted, ChooseIsConducted,
       ExhaustedIsConducted, ActIsConducted, FinallyIsConducted DEF Next
<1> QED
  BY ConductedInitially, <1>1, PTL DEF Spec

\* Every state of the mission loop is of its type: no view is counted beyond the limit.
THEOREM SiteMissionTypeCorrect == Spec => []TypeOK
<1>1. Conducted => TypeOK
  BY DEF Conducted
<1> QED
  BY <1>1, ConductedAlways, PTL

\* For every route and every limit, whatever is read and whichever call raises: a mission
\* that run_site_safety_mission reports complete has read every waypoint as one to pass or,
\* before the last, to drive around.
THEOREM CompletedMeansCoveredAlways == Spec => []CompletedMeansCovered
<1>1. Conducted => CompletedMeansCovered
  BY DEF Conducted
<1> QED
  BY <1>1, ConductedAlways, PTL

\* For every route and every limit: the loop is never exhausted when it was given a
\* step for every view.
THEOREM StepLimitIsAShortageAlways == Spec => []StepLimitIsAShortage
<1>1. Conducted => StepLimitIsAShortage
  BY DEF Conducted
<1> QED
  BY <1>1, ConductedAlways, PTL

\* The robot of the simulated mission moves as the latest reading of its place says,
\* and never to where it has been or to what is blocked.
THEOREM MovesAsJudgedAlways == Spec => MovesAsJudged
<1>1. Conducted /\ [Next]_vars =>
        [position' # position /\ pc # "reset" =>
           /\ assessment.waypoint = position
           /\ action.speed = [PROCEED |-> "full", SLOW_DOWN |-> "slow",
                              REROUTE |-> "reroute"][judged[position]]
           /\ position' \notin blocked \cup visited]_vars
  <2> SUFFICES ASSUME Conducted, Next, position' # position, pc # "reset"
               PROVE  /\ assessment.waypoint = position
                      /\ action.speed = Pace[judged[position]]
                      /\ position' \notin blocked \cup visited
    BY DEF Pace
  <2>1. Act
    BY DEF Next, Reset, Analyze, Choose, Exhausted, Finally, robot
  <2>2. /\ pc = "act" /\ action.kind = "move" /\ position' = action.target
    BY <2>1 DEF Act
  <2> QED
    BY <2>2 DEF Conducted, LeavesPassable, Running, ActsAsJudged
<1> QED
  BY <1>1, ConductedAlways, PTL DEF Spec, MovesAsJudged

=============================================================================
