----------------------------- MODULE BridgeProofs -----------------------------
(***************************************************************************)
(* However the bridge's two threads interleave, the assessments of the     *)
(* analysed frames follow their evidence, in time while the worker lives   *)
(* and all but two when it has died: for every timeout of the model and    *)
(* any number of frames.                                                   *)
(***************************************************************************)
EXTENDS PerceptionBridge, FiniteSetTheorems, SequenceTheorems, TLAPS

\* The frames accepted for analysis, in the order of their evidence: those published
\* as evidence, and the one that _on_image is about to publish.
Accepted == Len(captures) + (IF publishing = NoFrame THEN 0 ELSE 1)
AcceptedAt(k) == IF k <= Len(captures) THEN captures[k] ELSE publishing

\* The frames whose analysis is over, and the place taken by the one under way, or
\* by the one the worker has died of.
Finished == Analysed + Len(results)
UnderWay == IF active # NoFrame \/ ~alive THEN 1 ELSE 0

\* The accepted frames are those answered, those with a result, the one under way
\* and the one queued, in this order; only a living worker has one under way.
PipelineInOrder ==
  /\ Accepted = Finished + UnderWay + Len(jobs)
  /\ \A i \in 1 .. Len(results) :
       results[i][2] # "rejected" /\ results[i][1] = AcceptedAt(Analysed + i)
  /\ active # NoFrame => active = AcceptedAt(Finished + 1)
  /\ jobs # <<>> => jobs[1] = AcceptedAt(Accepted)
  /\ ~alive => active = NoFrame

\* A frame that waits has waited no longer than the worker for the one before it, the
\* one under way that long and its own time, and a result at most until the timer.
PipelineInTime ==
  /\ \A f \in Frames : f > sequence => age[f] = 0
  /\ alive =>
       /\ \A i \in 1 .. Len(results) :
            age[results[i][1]] <= (2 * Inference) + (IF timer_due THEN 1 ELSE 0)
       /\ active # NoFrame => age[active] <= Inference + busy
       /\ jobs # <<>> => age[jobs[1]] <= (IF active # NoFrame THEN busy ELSE Inference)

Safe == TypeOK /\ AnswersFollowCaptures /\ PipelineInOrder /\ PipelineInTime

-----------------------------------------------------------------------------
\* Counting the assessments of analysed frames on the topic.

Assessments == Frames \X Outcomes
Kept(s, n) == {i \in 1 .. n : s[i][2] # "rejected"}

\* The captures the bridge keeps can be counted.
LEMMA KeptIsFinite ==
  ASSUME NEW s, NEW n \in Nat
  PROVE  /\ IsFiniteSet(Kept(s, n)) /\ Cardinality(Kept(s, n)) \in Nat
         /\ Kept(s, n) # {} => Cardinality(Kept(s, n)) >= 1
<1>1. IsFiniteSet(1 .. n)
  BY FS_Interval
<1>2. Kept(s, n) \in SUBSET (1 .. n)
  BY DEF Kept
<1>3. IsFiniteSet(Kept(s, n))
  BY <1>1, <1>2, FS_Subset
<1>4. Cardinality(Kept(s, n)) \in Nat
  BY <1>3, FS_CardinalityType
<1>5. Cardinality(Kept(s, n)) = 0 => Kept(s, n) = {}
  BY <1>3, FS_EmptySet
<1> QED
  BY <1>3, <1>4, <1>5

\* What comes later on the topic counts for nothing before it.
LEMMA KeptOfPrefix ==
  ASSUME NEW s \in Seq(Assessments), NEW t \in Seq(Assessments), NEW n \in 0 .. Len(s)
  PROVE  Kept(s \o t, n) = Kept(s, n)
BY DEF Kept

\* Each assessment of an analysed frame counts for one.
LEMMA KeptOfMore ==
  ASSUME NEW s \in Seq(Assessments), NEW t \in Seq(Assessments), NEW k \in 0 .. Len(t),
         \A i \in 1 .. Len(t) : t[i][2] # "rejected"
  PROVE  Cardinality(Kept(s \o t, Len(s) + k)) = Cardinality(Kept(s, Len(s))) + k
<1> DEFINE new == Len(s) + 1 .. Len(s) + k
<1>1. Kept(s \o t, Len(s) + k) = Kept(s, Len(s)) \cup new
  <2>1. \A i \in 1 .. Len(s) : (s \o t)[i] = s[i]
    OBVIOUS
  <2>2. \A i \in new : (s \o t)[i] = t[i - Len(s)] /\ i - Len(s) \in 1 .. Len(t)
    OBVIOUS
  <2>3. 1 .. Len(s) + k = (1 .. Len(s)) \cup new
    OBVIOUS
  <2> HIDE DEF new
  <2> QED
    BY <2>1, <2>2, <2>3 DEF Kept
<1>2. Kept(s, Len(s)) \cap new = {}
  BY DEF Kept
<1>3. IsFiniteSet(new) /\ Cardinality(new) = k
  BY FS_Interval
<1> HIDE DEF new
<1>4. IsFiniteSet(Kept(s, Len(s))) /\ Cardinality(Kept(s, Len(s))) \in Nat
  BY KeptIsFinite
<1>5. Cardinality(Kept(s, Len(s)) \cup new) = Cardinality(Kept(s, Len(s))) + k - Cardinality({})
  BY <1>2, <1>3, <1>4, FS_Union
<1>6. Cardinality({}) = 0
  BY FS_EmptySet
<1>7. k \in Nat
  OBVIOUS
<1>8. Cardinality(Kept(s, Len(s)) \cup new) = Cardinality(Kept(s, Len(s))) + k
  BY <1>4, <1>5, <1>6, <1>7
<1> QED
  BY <1>1, <1>8, Zenon

\* A rejection counts for nothing.
LEMMA KeptOfRejection ==
  ASSUME NEW s \in Seq(Assessments), NEW f \in Frames
  PROVE  Kept(Append(s, <<f, "rejected">>), Len(s) + 1) = Kept(s, Len(s))
<1> DEFINE a == Append(s, <<f, "rejected">>)
<1>1. \A i \in 1 .. Len(s) : a[i] = s[i]
  OBVIOUS
<1>2. a[Len(s) + 1] = <<f, "rejected">>
  OBVIOUS
<1>3. 1 .. Len(s) + 1 = (1 .. Len(s)) \cup {Len(s) + 1}
  OBVIOUS
<1> HIDE DEF a
<1> QED
  BY <1>1, <1>2, <1>3 DEF Kept, a

-----------------------------------------------------------------------------
\* The bounds of the model, as numbers.
LEMMA Bounds ==
  /\ Inference \in Nat /\ Inference > 0 /\ MaxFrames \in Nat
  /\ LongestWait \in Nat /\ LongestWait = (2 * Inference) + 1
  /\ Frames \subseteq Nat /\ NoFrame \notin Frames
BY BridgeAssumption DEF Frames, LongestWait

\* Every step keeps the bridge's fields well typed.
LEMMA TypeStep == TypeOK /\ [Next]_vars => TypeOK'
<1> SUFFICES ASSUME TypeOK, [Next]_vars
             PROVE  TypeOK'
  OBVIOUS
<1> USE Bounds DEF TypeOK, queues, topics
<1>1. CASE OnImage
  <2>1. sequence + 1 \in Frames
    BY <1>1 DEF OnImage, Frames
  <2>2. CASE RejectImage
    BY <1>1, <2>1, <2>2 DEF OnImage, RejectImage, Frames, Outcomes
  <2>3. CASE DropImage
    BY <1>1, <2>3 DEF OnImage, DropImage, Frames
  <2>4. CASE AcceptImage
    BY <1>1, <2>1, <2>4 DEF OnImage, AcceptImage, JobsFull, Frames
  <2> QED
    BY <1>1, <2>2, <2>3, <2>4 DEF OnImage
<1>2. CASE PublishEvidence
  BY <1>2 DEF PublishEvidence
<1>3. CASE PublishCompletedResults
  <2>1. answers' \in Seq(Frames \X Outcomes) /\ results' \in Seq(Frames \X Outcomes)
    BY <1>3 DEF PublishCompletedResults
  <2>2. timer_due' \in BOOLEAN
    BY <1>3 DEF PublishCompletedResults
  <2>3. UNCHANGED <<sequence, jobs, active, alive, busy, publishing, stopped, captures, age>>
    BY <1>3 DEF PublishCompletedResults
  <2> QED
    BY <2>1, <2>2, <2>3
<1>4. CASE DestroyNode
  BY <1>4 DEF DestroyNode
<1>5. CASE TakeJob
  BY <1>5 DEF TakeJob
<1>6. ASSUME NEW outcome \in {"model", "failure"}, FinishJob(outcome)
      PROVE  TypeOK'
  <2>1. results' = Append(results, <<active, outcome>>) /\ <<active, outcome>> \in Frames \X Outcomes
    BY <1>6 DEF FinishJob, ResultOf, Outcomes
  <2> QED
    BY <1>6, <2>1 DEF FinishJob
<1>7. CASE WorkerDies
  BY <1>7 DEF WorkerDies
<1>8. CASE Elapse
  <2>1. age' \in [Frames -> 0 .. LongestWait + 1]
    BY <1>8 DEF Elapse
  <2>2. busy' \in 0 .. Inference
    BY <1>8 DEF Elapse
  <2> QED
    BY <1>8, <2>1, <2>2 DEF Elapse
<1>9. CASE UNCHANGED vars
  BY <1>9 DEF vars
<1> QED
  BY <1>1, <1>2, <1>3, <1>4, <1>5, <1>6, <1>7, <1>8, <1>9 DEF Next

-----------------------------------------------------------------------------
\* The numbers the order of the pipeline is told in.
LEMMA Counts ==
  ASSUME TypeOK
  PROVE  /\ \A n : AnalysedAt(n) = Kept(answers, n)
         /\ \A n : AnalysedAt(n)' = Kept(answers', n)
         /\ Analysed \in Nat /\ Len(captures) \in Nat /\ Len(results) \in Nat
         /\ Len(jobs) \in 0 .. 1 /\ Len(answers) \in Nat
         /\ answers \in Seq(Assessments) /\ results \in Seq(Assessments)
<1>1. \A n : AnalysedAt(n) = Kept(answers, n)
  BY DEF AnalysedAt, Kept
<1>6. \A n : AnalysedAt(n)' = Kept(answers', n)
  BY DEF AnalysedAt, Kept
<1>2. Len(answers) \in Nat
  BY DEF TypeOK
<1>3. Analysed \in Nat
  BY <1>1, <1>2, KeptIsFinite DEF Analysed
<1>4. Len(captures) \in Nat /\ Len(results) \in Nat /\ Len(jobs) \in Nat /\ Len(jobs) <= 1
  <2>1. captures \in Seq(Frames) /\ results \in Seq(Frames \X Outcomes) /\ jobs \in Seq(Frames)
    BY DEF TypeOK
  <2> QED
    BY <2>1 DEF TypeOK
<1>5. answers \in Seq(Assessments) /\ results \in Seq(Assessments)
  BY DEF TypeOK, Assessments
<1>7. Len(jobs) \in 0 .. 1
  BY <1>4
<1> QED
  BY <1>1, <1>2, <1>3, <1>4, <1>5, <1>6, <1>7, Zenon

\* One job is queued or none.
LEMMA OneJob ==
  ASSUME TypeOK
  PROVE  \/ jobs = <<>> /\ Len(jobs) = 0
         \/ jobs # <<>> /\ Len(jobs) = 1
<1>1. jobs \in Seq(Frames) /\ Len(jobs) \in Nat /\ Len(jobs) <= 1
  BY Counts DEF TypeOK
<1>2. CASE jobs = <<>>
  BY <1>2, EmptySeq
<1>3. CASE jobs # <<>>
  <2>1. Len(jobs) # 0
    BY <1>1, <1>3, EmptySeq
  <2>2. \A n \in Nat : n <= 1 /\ n # 0 => n = 1
    OBVIOUS
  <2>3. Len(jobs) = 1
    BY <1>1, <2>1, <2>2, Zenon
  <2> QED
    BY <1>3, <2>3
<1> QED
  BY <1>2, <1>3

\* The order of the answers is kept where the topics only gain evidence.
LEMMA FollowsEvidence ==
  ASSUME TypeOK, AnswersFollowCaptures, answers' = answers,
         captures' = captures \/ \E f \in Frames : captures' = Append(captures, f)
  PROVE  AnswersFollowCaptures' /\ Analysed' = Analysed
<1>1. \A n : AnalysedAt(n)' = AnalysedAt(n)
  BY Counts
<1>2. Analysed' = Analysed
  BY <1>1 DEF Analysed
<1>3. ASSUME NEW i \in AnalysedAt(Len(answers))
      PROVE  LET place == Cardinality(AnalysedAt(i))
             IN  place <= Len(captures') /\ answers[i][1] = captures'[place]
  <2> DEFINE place == Cardinality(AnalysedAt(i))
  <2>1. i \in Nat /\ i \in AnalysedAt(i)
    BY Counts DEF AnalysedAt
  <2>2. place \in Nat /\ place >= 1
    BY <2>1, Counts, KeptIsFinite
  <2>3. place <= Len(captures) /\ answers[i][1] = captures[place]
    BY DEF AnswersFollowCaptures
  <2> HIDE DEF place
  <2>4. captures \in Seq(Frames) /\ place \in 1 .. Len(captures)
    BY <2>2, <2>3 DEF TypeOK
  <2>5. captures'[place] = captures[place] /\ place <= Len(captures')
    BY <2>4
  <2> QED
    BY <2>3, <2>5 DEF place
<1> QED
  BY <1>1, <1>2, <1>3 DEF AnswersFollowCaptures

\* The place in the pipeline of an accepted frame is not changed by its evidence
\* being published.
LEMMA EvidenceStep ==
  ASSUME TypeOK, AnswersFollowCaptures, PipelineInOrder, PublishEvidence
  PROVE  AnswersFollowCaptures' /\ PipelineInOrder'
<1>1. /\ captures \in Seq(Frames) /\ publishing \in Frames
      /\ captures' = Append(captures, publishing) /\ publishing' = NoFrame
      /\ UNCHANGED <<answers, results, active, alive, jobs>>
  BY DEF TypeOK, PublishEvidence, queues
<1>2. AnswersFollowCaptures' /\ Analysed' = Analysed
  BY <1>1, FollowsEvidence
<1>3. Finished' = Finished /\ UnderWay' = UnderWay
  BY <1>1, <1>2 DEF Finished, UnderWay
<1>4. publishing # NoFrame
  BY DEF PublishEvidence
<1>5. Accepted' = Accepted /\ Accepted = Len(captures) + 1
  BY <1>1, <1>4 DEF Accepted
<1>6. \A k \in 1 .. Accepted : AcceptedAt(k)' = AcceptedAt(k)
  <2> TAKE k \in 1 .. Accepted
  <2>1. Append(captures, publishing)[k] = IF k <= Len(captures) THEN captures[k] ELSE publishing
    BY <1>1, <1>5
  <2> QED
    BY <1>1, <1>5, <2>1 DEF AcceptedAt
<1>7. /\ \A i \in 1 .. Len(results) : Analysed + i \in 1 .. Accepted
      /\ active # NoFrame => Finished + 1 \in 1 .. Accepted
      /\ jobs # <<>> => Accepted \in 1 .. Accepted
  BY <1>5, Counts DEF PipelineInOrder, Finished, UnderWay
<1> QED
  BY <1>1, <1>2, <1>3, <1>5, <1>6, <1>7 DEF PipelineInOrder

\* A frame that arrives is refused at once, dropped, or the last in the pipeline.
LEMMA ImageStep ==
  ASSUME TypeOK, AnswersFollowCaptures, PipelineInOrder, OnImage
  PROVE  AnswersFollowCaptures' /\ PipelineInOrder'
<1>1. /\ captures' = captures /\ publishing = NoFrame
      /\ UNCHANGED <<results, active, alive>>
      /\ sequence + 1 \in Frames /\ captures \in Seq(Frames)
  BY BridgeAssumption DEF OnImage, ExecutorIsFree, TypeOK, Frames
<1>2. CASE RejectImage
  <2>1. /\ answers' = Append(answers, <<sequence + 1, "rejected">>)
        /\ UNCHANGED <<jobs, publishing>>
    BY <1>2 DEF RejectImage
  <2>2. /\ answers' \in Seq(Assessments) /\ Len(answers') = Len(answers) + 1
        /\ \A i \in 1 .. Len(answers) : answers'[i] = answers[i]
    BY <1>1, <2>1, Counts DEF Assessments, Outcomes
  <2>3. Kept(answers', Len(answers')) = Kept(answers, Len(answers))
    BY <1>1, <2>1, <2>2, Counts, KeptOfRejection
  <2>5. ASSUME NEW i \in Kept(answers, Len(answers))
        PROVE  Kept(answers', i) = Kept(answers, i) /\ answers'[i] = answers[i]
    <3>1. i \in 1 .. Len(answers)
      BY DEF Kept
    <3>2. \A j \in 1 .. i : answers'[j] = answers[j]
      BY <2>2, <3>1, Counts
    <3> QED
      BY <2>2, <3>1, <3>2 DEF Kept
  <2>6. AnswersFollowCaptures'
    BY <1>1, <2>3, <2>5, Counts DEF AnswersFollowCaptures
  <2>7. Analysed' = Analysed
    BY <2>3, Counts DEF Analysed
  <2> QED
    BY <1>1, <2>1, <2>6, <2>7
       DEF PipelineInOrder, Accepted, AcceptedAt, Finished, UnderWay
<1>3. CASE DropImage
  <2>1. UNCHANGED <<jobs, publishing, answers>>
    BY <1>3 DEF DropImage
  <2>2. AnswersFollowCaptures' /\ Analysed' = Analysed
    BY <1>1, <2>1, FollowsEvidence
  <2> QED
    BY <1>1, <2>1, <2>2 DEF PipelineInOrder, Accepted, AcceptedAt, Finished, UnderWay
<1>4. CASE AcceptImage
  <2>1. /\ jobs = <<>> /\ jobs' = <<sequence + 1>> /\ publishing' = sequence + 1
        /\ answers' = answers
    <3>1. jobs \in Seq(Frames) /\ Len(jobs) \in Nat /\ ~(Len(jobs) >= 1)
      BY <1>4, Counts DEF AcceptImage, JobsFull, TypeOK
    <3>2. jobs = <<>>
      BY <3>1
    <3> QED
      BY <1>1, <1>4, <3>2 DEF AcceptImage
  <2>2. AnswersFollowCaptures' /\ Analysed' = Analysed
    BY <1>1, <2>1, FollowsEvidence
  <2>3. Accepted = Len(captures) /\ Accepted' = Len(captures) + 1
    BY <1>1, <2>1, BridgeAssumption DEF Accepted, Frames
  <2>4. Finished' = Finished /\ UnderWay' = UnderWay /\ Len(jobs) = 0 /\ Len(jobs') = 1
    BY <1>1, <2>1, <2>2 DEF Finished, UnderWay
  <2>5. \A k \in 1 .. Len(captures) : AcceptedAt(k)' = AcceptedAt(k)
    BY <1>1 DEF AcceptedAt
  <2>6. /\ \A i \in 1 .. Len(results) : Analysed + i \in 1 .. Len(captures)
        /\ active # NoFrame => Finished + 1 \in 1 .. Len(captures)
    BY <2>3, <2>4, Counts DEF PipelineInOrder, Finished, UnderWay
  <2>7. AcceptedAt(Len(captures) + 1)' = sequence + 1
    BY <1>1, <2>1 DEF AcceptedAt
  <2>8. Accepted' = Finished' + UnderWay' + Len(jobs')
    BY <2>3, <2>4, Counts DEF PipelineInOrder, Finished, UnderWay
  <2> QED
    BY <1>1, <2>1, <2>2, <2>3, <2>4, <2>5, <2>6, <2>7, <2>8 DEF PipelineInOrder
<1> QED
  BY <1>2, <1>3, <1>4 DEF OnImage

\* The results become answers, each in its turn.
LEMMA ResultsStep ==
  ASSUME TypeOK, AnswersFollowCaptures, PipelineInOrder, PublishCompletedResults
  PROVE  AnswersFollowCaptures' /\ PipelineInOrder'
<1>1. /\ publishing = NoFrame /\ answers' = answers \o results /\ results' = <<>>
      /\ UNCHANGED <<jobs, active, alive, publishing, captures>>
      /\ answers \in Seq(Assessments) /\ results \in Seq(Assessments)
  BY Counts DEF PublishCompletedResults, ExecutorIsFree
<1>2. /\ Len(answers) \in Nat /\ Len(results) \in Nat /\ Analysed \in Nat
      /\ \A i \in 1 .. Len(results) : results[i][2] # "rejected"
  BY Counts DEF PipelineInOrder
<1>3. /\ Len(answers') = Len(answers) + Len(results)
      /\ \A i \in 1 .. Len(answers) : answers'[i] = answers[i]
      /\ \A i \in 1 .. Len(results) : answers'[Len(answers) + i] = results[i]
  BY <1>1
<1>4. \A k \in 0 .. Len(results) :
        Cardinality(Kept(answers', Len(answers) + k)) = Analysed + k
  BY <1>1, <1>2, KeptOfMore, Counts DEF Analysed
<1>5. Analysed' = Analysed + Len(results)
  BY <1>2, <1>3, <1>4, Counts DEF Analysed
<1>6. /\ Accepted' = Accepted /\ Accepted = Len(captures)
      /\ \A k \in 1 .. Len(captures) : AcceptedAt(k) = captures[k] /\ AcceptedAt(k)' = captures[k]
  BY <1>1 DEF Accepted, AcceptedAt
<1>7. Finished' = Finished /\ Finished = Analysed + Len(results) /\ UnderWay' = UnderWay
  BY <1>1, <1>2, <1>5 DEF Finished, UnderWay
<1>8. Finished <= Len(captures) /\ (active # NoFrame => Finished + 1 <= Len(captures))
  BY <1>6, <1>7, Counts DEF PipelineInOrder, UnderWay
<1>9. ASSUME NEW i \in Kept(answers', Len(answers'))
      PROVE  LET place == Cardinality(Kept(answers', i))
             IN  place <= Len(captures) /\ answers'[i][1] = captures[place]
  <2>1. i \in 1 .. Len(answers) + Len(results)
    BY <1>3 DEF Kept
  <2>2. CASE i <= Len(answers)
    <3>1. i \in 1 .. Len(answers) /\ i \in 0 .. Len(answers)
      BY <1>2, <2>1, <2>2
    <3>2. Kept(answers', i) = Kept(answers, i)
      BY <1>1, <3>1, KeptOfPrefix
    <3>3. i \in Kept(answers, Len(answers)) /\ answers'[i] = answers[i]
      BY <1>3, <3>1 DEF Kept
    <3> QED
      BY <3>2, <3>3, Counts DEF AnswersFollowCaptures
  <2>3. CASE i > Len(answers)
    <3> DEFINE k == i - Len(answers)
    <3>1. k \in 1 .. Len(results) /\ k \in 0 .. Len(results) /\ i = Len(answers) + k
      BY <1>2, <2>1, <2>3
    <3> HIDE DEF k
    <3>2. Cardinality(Kept(answers', i)) = Analysed + k
      BY <1>4, <3>1
    <3>3. answers'[i] = results[k] /\ results[k][1] = AcceptedAt(Analysed + k)
      BY <1>3, <3>1 DEF PipelineInOrder
    <3>4. Analysed + k \in 1 .. Len(captures)
      BY <1>2, <1>7, <1>8, <3>1, Counts
    <3> QED
      BY <1>6, <3>2, <3>3, <3>4
  <2> QED
    BY <1>2, <2>1, <2>2, <2>3
<1>10. AnswersFollowCaptures'
  BY <1>1, <1>9, Counts DEF AnswersFollowCaptures
<1>11. Accepted' = Finished' + UnderWay' + Len(jobs')
  BY <1>1, <1>6, <1>7 DEF PipelineInOrder
<1>12. \A i \in 1 .. Len(results') : FALSE
  BY <1>1
<1> QED
  BY <1>1, <1>6, <1>7, <1>10, <1>11, <1>12 DEF PipelineInOrder, AcceptedAt

\* A job that is taken keeps its place.
LEMMA TakeStep ==
  ASSUME TypeOK, AnswersFollowCaptures, PipelineInOrder, TakeJob
  PROVE  AnswersFollowCaptures' /\ PipelineInOrder'
<1>1. /\ alive /\ alive' = alive /\ active = NoFrame /\ jobs \in Seq(Frames) /\ jobs # <<>>
      /\ active' = jobs[1] /\ jobs' = Tail(jobs)
      /\ UNCHANGED <<results, publishing, captures, answers>>
  BY DEF TakeJob, TypeOK, topics
<1>2. AnswersFollowCaptures' /\ Analysed' = Analysed
  BY <1>1, FollowsEvidence
<1>3. Len(jobs) = 1 /\ jobs' = <<>> /\ Len(jobs') = 0 /\ active' # NoFrame
  BY <1>1, Counts, Bounds
<1>4. Finished' = Finished /\ Accepted' = Accepted /\ UnderWay = 0 /\ UnderWay' = 1
  BY <1>1, <1>2, <1>3 DEF Finished, Accepted, UnderWay
<1>5. Accepted = Finished + 1
  BY <1>3, <1>4, Counts DEF PipelineInOrder, Finished
<1>6. active' = AcceptedAt(Finished + 1)'
  BY <1>1, <1>4, <1>5 DEF PipelineInOrder, AcceptedAt
<1>7. Accepted' = Finished' + UnderWay' + Len(jobs')
  BY <1>3, <1>4, <1>5, Counts DEF Finished
<1>8. \A i \in 1 .. Len(results') :
        results'[i][2] # "rejected" /\ results'[i][1] = AcceptedAt(Analysed + i)'
  BY <1>1, <1>2 DEF PipelineInOrder, AcceptedAt
<1> QED
  BY <1>1, <1>2, <1>3, <1>6, <1>7, <1>8 DEF PipelineInOrder

\* A frame that is analysed gets the next result.
LEMMA FinishStep ==
  ASSUME TypeOK, AnswersFollowCaptures, PipelineInOrder,
         NEW outcome \in {"model", "failure"}, FinishJob(outcome)
  PROVE  AnswersFollowCaptures' /\ PipelineInOrder'
<1>1. /\ active \in Frames /\ active' = NoFrame /\ alive
      /\ results' = Append(results, <<active, outcome>>)
      /\ results \in Seq(Assessments) /\ <<active, outcome>> \in Assessments
      /\ UNCHANGED <<alive, jobs, publishing, captures, answers>>
  BY Counts DEF FinishJob, ResultOf, TypeOK, topics, PipelineInOrder, Assessments, Outcomes
<1>2. AnswersFollowCaptures' /\ Analysed' = Analysed
  BY <1>1, FollowsEvidence
<1>3. Len(results') = Len(results) + 1
  BY <1>1
<1>4. Finished' = Finished + 1 /\ Accepted' = Accepted /\ UnderWay = 1 /\ UnderWay' = 0
  <2>1. active # NoFrame
    BY <1>1, Bounds
  <2>2. Finished' = Finished + 1
    BY <1>2, <1>3, Counts DEF Finished
  <2> QED
    BY <1>1, <2>1, <2>2 DEF Accepted, UnderWay
<1>5. Accepted' = Finished' + UnderWay' + Len(jobs')
  BY <1>1, <1>4, Counts DEF PipelineInOrder, Finished
<1>6. ASSUME NEW i \in 1 .. Len(results')
      PROVE  results'[i][2] # "rejected" /\ results'[i][1] = AcceptedAt(Analysed + i)'
  <2>1. AcceptedAt(Analysed + i)' = AcceptedAt(Analysed + i)
    BY <1>1, <1>2 DEF AcceptedAt
  <2>2. CASE i <= Len(results)
    <3>1. i \in 1 .. Len(results) /\ results'[i] = results[i]
      BY <1>1, <1>3, <2>2, Counts
    <3> QED
      BY <2>1, <3>1 DEF PipelineInOrder
  <2>3. CASE i > Len(results)
    <3>1. i = Len(results) + 1 /\ results'[i] = <<active, outcome>>
      BY <1>1, <1>3, <2>3, Counts
    <3>2. active = AcceptedAt(Analysed + i)
      BY <1>1, <3>1, Counts, Bounds DEF PipelineInOrder, Finished
    <3> QED
      BY <2>1, <3>1, <3>2
  <2> QED
    BY <1>3, <2>2, <2>3, Counts
<1>7. (jobs' # <<>> => jobs'[1] = AcceptedAt(Accepted)')
  BY <1>1, <1>4 DEF PipelineInOrder, AcceptedAt
<1> QED
  BY <1>1, <1>2, <1>5, <1>6, <1>7 DEF PipelineInOrder

\* The order of the pipeline survives every step of either thread.
LEMMA OrderStep ==
  ASSUME TypeOK, AnswersFollowCaptures, PipelineInOrder, [Next]_vars
  PROVE  AnswersFollowCaptures' /\ PipelineInOrder'
<1>1. CASE WorkerDies
  <2>1. /\ active # NoFrame /\ active' = NoFrame /\ alive' = FALSE /\ alive
        /\ UNCHANGED <<jobs, results, publishing, captures, answers>>
    BY <1>1 DEF WorkerDies, topics, PipelineInOrder, TypeOK
  <2>2. AnswersFollowCaptures' /\ Analysed' = Analysed
    BY <2>1, FollowsEvidence
  <2> QED
    BY <2>1, <2>2 DEF PipelineInOrder, Accepted, AcceptedAt, Finished, UnderWay
<1>2. CASE DestroyNode \/ Elapse \/ UNCHANGED vars
  <2>1. UNCHANGED <<jobs, active, alive, results, publishing, captures, answers>>
    BY <1>2 DEF DestroyNode, Elapse, vars, queues, topics
  <2>2. AnswersFollowCaptures' /\ Analysed' = Analysed
    BY <2>1, FollowsEvidence
  <2> QED
    BY <2>1, <2>2 DEF PipelineInOrder, Accepted, AcceptedAt, Finished, UnderWay
<1> QED
  BY <1>1, <1>2, ImageStep, EvidenceStep, ResultsStep, TakeStep, FinishStep DEF Next

-----------------------------------------------------------------------------
\* No wait in the pipeline grows beyond its bound: what waits grows older only as
\* time passes, which neither a model nor the timer lets pass for long.
LEMMA TimeStep ==
  ASSUME TypeOK, PipelineInOrder, PipelineInTime, [Next]_vars
  PROVE  PipelineInTime'
<1>0. /\ Inference \in Nat /\ busy \in 0 .. Inference /\ timer_due \in BOOLEAN
      /\ age \in [Frames -> Nat] /\ sequence \in Nat
      /\ jobs \in Seq(Frames) /\ results \in Seq(Frames \X Outcomes)
      /\ \A i \in 1 .. Len(results) : results[i][1] \in Frames
  BY Bounds DEF TypeOK
<1>1. CASE OnImage
  <2>1. /\ sequence' = sequence + 1 /\ sequence + 1 \in Frames
        /\ UNCHANGED <<active, alive, results, age, busy, timer_due>>
    BY <1>1, BridgeAssumption DEF OnImage, TypeOK, Frames
  <2>2. jobs' = jobs \/ jobs' = <<sequence + 1>>
    <3>1. jobs' = jobs \/ (jobs' = Append(jobs, sequence + 1) /\ ~(Len(jobs) >= 1))
      BY <1>1 DEF OnImage, RejectImage, DropImage, AcceptImage, JobsFull
    <3>2. ~(Len(jobs) >= 1) => jobs = <<>>
      BY <1>0
    <3>3. Append(<<>>, sequence + 1) = <<sequence + 1>>
      OBVIOUS
    <3> QED
      BY <3>1, <3>2, <3>3
  <2>3. age[sequence + 1] = 0
    BY <1>0, <2>1 DEF PipelineInTime
  <2>4. \A f \in Frames : f > sequence' => age'[f] = 0
    BY <1>0, <2>1, Bounds DEF PipelineInTime
  <2>5. alive /\ jobs' # <<>> =>
          age[jobs'[1]] <= (IF active # NoFrame THEN busy ELSE Inference)
    BY <1>0, <2>2, <2>3 DEF PipelineInTime
  <2> QED
    BY <2>1, <2>4, <2>5 DEF PipelineInTime
<1>2. CASE PublishEvidence \/ DestroyNode \/ UNCHANGED vars
  <2>1. UNCHANGED <<sequence, jobs, active, alive, results, age, busy, timer_due>>
    BY <1>2 DEF PublishEvidence, DestroyNode, vars, queues, topics
  <2> QED
    BY <2>1 DEF PipelineInTime
<1>3. CASE PublishCompletedResults
  <2>1. results' = <<>> /\ UNCHANGED <<sequence, jobs, active, alive, age, busy>>
    BY <1>3 DEF PublishCompletedResults
  <2> QED
    BY <2>1 DEF PipelineInTime
<1>4. CASE TakeJob
  <2>1. /\ active = NoFrame /\ active' = jobs[1] /\ jobs # <<>> /\ jobs' = <<>> /\ busy' = 0
        /\ UNCHANGED <<sequence, alive, results, age, timer_due>>
    <3>1. jobs # <<>> /\ active' = jobs[1] /\ jobs' = Tail(jobs)
      BY <1>0, <1>4 DEF TakeJob
    <3>2. Len(jobs) = 1
      BY <1>0, <3>1, Counts
    <3>3. Len(Tail(jobs)) = 0 /\ Tail(jobs) \in Seq(Frames)
      BY <1>0, <3>1, <3>2
    <3>4. jobs' = <<>>
      BY <3>1, <3>3
    <3> QED
      BY <1>4, <3>1, <3>4 DEF TakeJob
  <2> QED
    BY <1>0, <2>1 DEF PipelineInTime
<1>5. ASSUME NEW outcome \in {"model", "failure"}, FinishJob(outcome)
      PROVE  PipelineInTime'
  <2>1. /\ active # NoFrame /\ active' = NoFrame /\ results' = Append(results, <<active, outcome>>)
        /\ UNCHANGED <<sequence, jobs, alive, age, busy, timer_due>>
    BY <1>5 DEF FinishJob, ResultOf
  <2>2. active \in Frames
    BY <2>1 DEF TypeOK
  <2>3. alive => age[active] <= 2 * Inference
    BY <1>0, <2>1, <2>2 DEF PipelineInTime
  <2>4. ASSUME alive, NEW i \in 1 .. Len(results')
        PROVE  age[results'[i][1]] <= (2 * Inference) + (IF timer_due THEN 1 ELSE 0)
    <3>1. CASE i <= Len(results)
      <4>1. i \in 1 .. Len(results) /\ results'[i] = results[i]
        BY <1>0, <2>1, <3>1
      <4> QED
        BY <2>4, <4>1 DEF PipelineInTime
    <3>2. CASE i > Len(results)
      <4>1. results'[i] = <<active, outcome>>
        BY <1>0, <2>1, <3>2
      <4> QED
        BY <1>0, <2>2, <2>3, <2>4, <4>1
    <3> QED
      BY <1>0, <2>1, <3>1, <3>2
  <2>5. alive /\ jobs # <<>> => age[jobs[1]] <= Inference
    BY <1>0, <2>1 DEF PipelineInTime
  <2> QED
    BY <2>1, <2>4, <2>5 DEF PipelineInTime
<1>6. CASE WorkerDies
  BY <1>6 DEF WorkerDies, PipelineInTime
<1>7. CASE Elapse
  <2>1. /\ ~timer_due /\ timer_due' = TRUE
        /\ (active # NoFrame => busy < Inference /\ busy' = busy + 1)
        /\ (active = NoFrame /\ alive => jobs = <<>>)
        /\ UNCHANGED <<sequence, jobs, active, alive, results>>
    BY <1>7 DEF Elapse
  <2>2. \A f \in Frames : /\ f > sequence => age'[f] = age[f]
                          /\ age'[f] <= age[f] + 1 /\ age'[f] \in Nat
    BY <1>0, <1>7 DEF Elapse
  <2>3. alive /\ active # NoFrame => age'[active] <= Inference + busy'
    <3>1. active # NoFrame => active \in Frames
      BY DEF TypeOK
    <3> QED
      BY <1>0, <2>1, <2>2, <3>1 DEF PipelineInTime
  <2>4. alive /\ jobs # <<>> => active # NoFrame /\ age'[jobs[1]] <= busy'
    <3>1. jobs # <<>> => jobs[1] \in Frames
      BY <1>0
    <3> QED
      BY <1>0, <2>1, <2>2, <3>1 DEF PipelineInTime
  <2>5. alive => \A i \in 1 .. Len(results) : age'[results[i][1]] <= (2 * Inference) + 1
    BY <1>0, <2>1, <2>2 DEF PipelineInTime
  <2>6. \A f \in Frames : f > sequence => age'[f] = 0
    BY <2>2 DEF PipelineInTime
  <2> QED
    BY <2>1, <2>3, <2>4, <2>5, <2>6 DEF PipelineInTime
<1> QED
  BY <1>1, <1>2, <1>3, <1>4, <1>5, <1>6, <1>7 DEF Next

-----------------------------------------------------------------------------
\* The bridge starts safe,
LEMMA SafeInit == Init => Safe
<1> SUFFICES ASSUME Init PROVE Safe
  OBVIOUS
<1>1. TypeOK
  <2>1. age \in [Frames -> 0 .. LongestWait + 1] /\ busy \in 0 .. Inference
    BY Bounds DEF Init
  <2>2. <<>> \in Seq(Frames) /\ Len(<<>>) <= 1 /\ <<>> \in Seq(Frames \X Outcomes)
    OBVIOUS
  <2>3. sequence \in 0 .. MaxFrames
    BY Bounds DEF Init
  <2> QED
    BY <2>1, <2>2, <2>3 DEF Init, TypeOK
<1>2. Kept(answers, 0) = {} /\ Len(answers) = 0 /\ AnalysedAt(Len(answers)) = {}
  BY Counts, <1>1 DEF Init, Kept
<1>3. Analysed = 0
  BY <1>2, FS_EmptySet DEF Analysed
<1>4. AnswersFollowCaptures
  BY <1>2 DEF AnswersFollowCaptures
<1>5. PipelineInOrder
  BY <1>3 DEF Init, PipelineInOrder, Accepted, AcceptedAt, Finished, UnderWay
<1>6. PipelineInTime
  BY DEF Init, PipelineInTime
<1> QED
  BY <1>1, <1>4, <1>5, <1>6 DEF Safe

\* and stays so.
LEMMA SafeAlways == Spec => []Safe
<1>1. Safe /\ [Next]_vars => Safe'
  BY TypeStep, OrderStep, TimeStep DEF Safe
<1> QED
  BY <1>1, SafeInit, PTL DEF Spec

\* The bridge's queues hold what they may, and one frame waits at most, for any
\* number of frames.
THEOREM BridgeTypeCorrect == Spec => []TypeOK
<1>1. Safe => TypeOK
  BY DEF Safe
<1> QED
  BY <1>1, SafeAlways, PTL

\* The assessments of analysed frames follow the evidence, one for one and in order.
THEOREM AnswersFollowCapturesAlways == Spec => []AnswersFollowCaptures
<1>1. Safe => AnswersFollowCaptures
  BY DEF Safe
<1> QED
  BY <1>1, SafeAlways, PTL

\* While the worker lives, a frame whose evidence is published is answered within
\* twice the model's timeout and the period of the timer.
THEOREM AnsweredInTimeAlways == Spec => []AnsweredInTime
<1>1. ASSUME Safe PROVE AnsweredInTime
  <2> SUFFICES ASSUME alive, NEW i \in Analysed + 1 .. Len(captures)
               PROVE  age[captures[i]] <= LongestWait
    BY DEF AnsweredInTime
  <2>1. TypeOK /\ PipelineInOrder /\ PipelineInTime
    BY <1>1 DEF Safe
  <2>2. /\ captures[i] = AcceptedAt(i) /\ captures[i] \in Frames
        /\ i <= Accepted /\ Accepted = Finished + UnderWay + Len(jobs)
    <3>1. Len(captures) \in Nat /\ Analysed \in Nat
      BY <2>1, Counts
    <3>2. i \in 1 .. Len(captures)
      BY <3>1
    <3>3. captures[i] \in Frames
      BY <2>1, <3>2 DEF TypeOK
    <3>4. i <= Accepted
      BY <3>1, <3>2 DEF Accepted
    <3> QED
      BY <2>1, <3>2, <3>3, <3>4 DEF PipelineInOrder, AcceptedAt
  <2>3. age[captures[i]] \in Nat /\ busy \in 0 .. Inference /\ Inference \in Nat
    <3>1. age \in [Frames -> 0 .. LongestWait + 1] /\ busy \in 0 .. Inference
      BY <2>1 DEF TypeOK
    <3>2. captures[i] \in Frames
      BY <2>2
    <3>3. age[captures[i]] \in 0 .. LongestWait + 1
      BY <3>1, <3>2
    <3> QED
      BY <3>1, <3>3, Bounds
  <2>4. CASE i <= Finished
    <3> DEFINE k == i - Analysed
    <3>1. k \in 1 .. Len(results) /\ i = Analysed + k
      BY <2>1, <2>4, Counts DEF Finished
    <3> HIDE DEF k
    <3>2. captures[i] = results[k][1]
      BY <2>1, <2>2, <3>1 DEF PipelineInOrder
    <3>3. age[results[k][1]] <= (2 * Inference) + (IF timer_due THEN 1 ELSE 0)
      BY <2>1, <3>1 DEF PipelineInTime
    <3> QED
      BY <2>3, <3>2, <3>3, Bounds
  <2>5. CASE i = Finished + 1 /\ active # NoFrame
    <3>1. captures[i] = active /\ age[active] <= Inference + busy
      BY <2>1, <2>2, <2>5 DEF PipelineInOrder, PipelineInTime
    <3> QED
      BY <2>3, <3>1, Bounds
  <2>6. CASE i = Accepted /\ jobs # <<>>
    <3>1. captures[i] = jobs[1] /\ (age[jobs[1]] <= busy \/ age[jobs[1]] <= Inference)
      BY <2>1, <2>2, <2>6 DEF PipelineInOrder, PipelineInTime
    <3> QED
      BY <2>3, <3>1, Bounds
  <2>7. \/ i <= Finished
        \/ i = Finished + 1 /\ active # NoFrame
        \/ i = Accepted /\ jobs # <<>>
    <3>1. Finished \in Nat
      BY <2>1, Counts DEF Finished
    <3>2. UnderWay = 0 \/ (UnderWay = 1 /\ active # NoFrame)
      BY DEF UnderWay
    <3>3. i \in Int /\ i <= Accepted /\ Accepted = Finished + UnderWay + Len(jobs)
      BY <2>1, <2>2, Counts
    <3>4. CASE jobs = <<>> /\ Len(jobs) = 0
      BY <3>1, <3>2, <3>3, <3>4
    <3>5. CASE jobs # <<>> /\ Len(jobs) = 1
      <4>1. i <= Finished + UnderWay \/ i = Accepted
        BY <3>1, <3>2, <3>3, <3>5
      <4> QED
        BY <3>1, <3>2, <3>3, <3>5, <4>1
    <3> QED
      BY <2>1, <3>4, <3>5, OneJob
  <2> QED
    BY <2>4, <2>5, <2>6, <2>7
<1> QED
  BY <1>1, SafeAlways, PTL

\* A worker that has died leaves two published frames unanswered at most.
THEOREM DeathOrphansTwoCapturesAlways == Spec => []DeathOrphansTwoCaptures
<1>1. ASSUME Safe PROVE DeathOrphansTwoCaptures
  <2>1. TypeOK /\ Accepted = Finished + UnderWay + Len(jobs)
    BY <1>1 DEF Safe, PipelineInOrder
  <2>2. Len(captures) \in Nat /\ Len(captures) <= Accepted /\ UnderWay \in {0, 1}
    BY <2>1, Counts DEF Accepted, UnderWay
  <2>3. Finished = Analysed + Len(results) /\ Analysed \in Nat /\ Len(results) \in Nat
    BY <2>1, Counts DEF Finished
  <2>4. Len(jobs) = 0 \/ Len(jobs) = 1
    BY <2>1, OneJob
  <2>5. ASSUME NEW c \in Nat, NEW r \in Nat, NEW a \in Nat, NEW u \in {0, 1}, NEW j \in {0, 1},
               c <= a + r + u + j
        PROVE  c - a - r <= 2
    BY <2>5
  <2>6. Len(captures) - Analysed - Len(results) <= 2
    BY <2>1, <2>2, <2>3, <2>4, <2>5
  <2> QED
    BY <2>6 DEF DeathOrphansTwoCaptures
<1> QED
  BY <1>1, SafeAlways, PTL

=============================================================================
