--------------------------- MODULE PerceptionBridge ---------------------------
(***************************************************************************)
(* The perception bridge node (inspectron_perception_bridge/node.py).  The *)
(* executor thread runs _on_image and _publish_completed_results; a worker *)
(* thread takes frames from the jobs queue, has the model analyse them and *)
(* puts results on the results queue.  Between the two lines of _on_image  *)
(* that enqueue a job and publish its evidence the worker may run on.      *)
(*                                                                         *)
(* A frame is named by its place in the sequence, which its evidence id    *)
(* carries.  The worker thread dies if its temporary image cannot be       *)
(* removed: the finally clause then raises before the result is put.       *)
(***************************************************************************)
EXTENDS Integers, Sequences, FiniteSets

CONSTANTS Inference,     \* timeout_seconds: the longest a model is waited for
          MaxFrames,     \* frames the camera sends: the bound of the model
          NoFrame

ASSUME BridgeAssumption ==
  Inference \in Nat \ {0} /\ MaxFrames \in Nat \ {0} /\ NoFrame \notin Nat

Frames == 1 .. MaxFrames
Outcomes == {"model", "failure", "rejected"}

VARIABLES
  sequence,      \* _sequence: frames received
  jobs,          \* _jobs
  publishing,    \* the frame whose evidence _on_image has yet to publish
  active,        \* the frame the worker is at
  alive,         \* the worker thread has not died
  results,       \* _results
  stopped,       \* _stop_event
  captures,      \* the frames on /inspectron/evidence_capture
  answers,       \* the <<frame, outcome>> pairs on /inspectron/scene_assessment
  age,           \* how long ago each frame arrived
  busy,          \* how long the worker has been at its frame
  timer_due      \* the results timer has yet to fire in this unit

queues == <<jobs, active, alive, results, busy>>
topics == <<captures, answers>>
vars == <<sequence, queues, publishing, stopped, topics, age, timer_due>>

LongestWait == 2 * Inference + 1

TypeOK ==
  /\ sequence \in 0 .. MaxFrames
  /\ jobs \in Seq(Frames) /\ Len(jobs) <= 1
  /\ {publishing, active} \subseteq Frames \cup {NoFrame}
  /\ results \in Seq(Frames \X Outcomes)
  /\ {alive, stopped, timer_due} \subseteq BOOLEAN
  /\ captures \in Seq(Frames)
  /\ answers \in Seq(Frames \X Outcomes)
  /\ age \in [Frames -> 0 .. LongestWait + 1]
  /\ busy \in 0 .. Inference

Init ==
  /\ sequence = 0
  /\ jobs = <<>> /\ publishing = NoFrame /\ active = NoFrame /\ results = <<>>
  /\ alive = TRUE /\ stopped = FALSE
  /\ captures = <<>> /\ answers = <<>>
  /\ age = [f \in Frames |-> 0]
  /\ busy = 0 /\ timer_due = TRUE

-----------------------------------------------------------------------------
\* The executor thread.

BrokenExecutorIsFree == ~stopped                   \* AnswersFollowCaptures
ExecutorIsFree == ~stopped /\ publishing = NoFrame

BrokenJobsFull == Len(jobs) > 1   \* DeathOrphansTwoCaptures
JobsFull == Len(jobs) >= 1

\* An image that fails validation is answered at once, ahead of all that wait.
RejectImage ==
  /\ answers' = Append(answers, <<sequence + 1, "rejected">>)
  /\ UNCHANGED <<jobs, publishing>>

DropImage == JobsFull /\ UNCHANGED <<jobs, publishing, answers>>

AcceptImage ==
  /\ ~JobsFull
  /\ jobs' = Append(jobs, sequence + 1)
  /\ publishing' = sequence + 1
  /\ UNCHANGED answers

OnImage ==
  /\ ExecutorIsFree /\ sequence < MaxFrames
  /\ sequence' = sequence + 1
  /\ RejectImage \/ DropImage \/ AcceptImage
  /\ UNCHANGED <<active, alive, results, stopped, captures, age, busy, timer_due>>

PublishEvidence ==
  /\ publishing # NoFrame
  /\ captures' = Append(captures, publishing)
  /\ publishing' = NoFrame
  /\ UNCHANGED <<sequence, queues, stopped, answers, age, timer_due>>

PublishCompletedResults ==
  /\ ExecutorIsFree
  /\ answers' = answers \o results
  /\ results' = <<>>
  /\ timer_due' = FALSE
  /\ UNCHANGED <<sequence, jobs, active, alive, busy, publishing, stopped, captures, age>>

\* Shutting down cuts nothing short: the worker finishes what it has taken.
DestroyNode ==
  /\ ExecutorIsFree
  /\ stopped' = TRUE
  /\ UNCHANGED <<sequence, queues, publishing, topics, age, timer_due>>

-----------------------------------------------------------------------------
\* The worker thread.

TakeJob ==
  /\ alive /\ ~stopped /\ active = NoFrame /\ jobs # <<>>
  /\ active' = Head(jobs) /\ jobs' = Tail(jobs)
  /\ busy' = 0
  /\ UNCHANGED <<sequence, alive, results, publishing, stopped, topics, age, timer_due>>

BrokenResultOf(outcome) ==                         \* AnsweredInTime: no result
  IF outcome = "failure" THEN <<>> ELSE <<<<active, outcome>>>>
ResultOf(outcome) == <<<<active, outcome>>>>

\* The model answers, or whatever it raises becomes a failure assessment.
FinishJob(outcome) ==
  /\ active # NoFrame
  /\ results' = results \o ResultOf(outcome)
  /\ active' = NoFrame
  /\ UNCHANGED <<sequence, jobs, alive, busy, publishing, stopped, topics, age,
                 timer_due>>

\* image_path.unlink raises inside the finally clause.
WorkerDies ==
  /\ active # NoFrame
  /\ active' = NoFrame /\ alive' = FALSE
  /\ UNCHANGED <<sequence, jobs, results, busy, publishing, stopped, topics, age,
                 timer_due>>

-----------------------------------------------------------------------------
\* A waiting job is taken, evidence published and the timer served within the unit
\* they fall due in, and no model is waited for longer than its timeout.
Elapse ==
  /\ ~timer_due /\ publishing = NoFrame /\ ~stopped
  /\ active # NoFrame => busy < Inference
  /\ active = NoFrame /\ alive => jobs = <<>>
  /\ busy' = IF active = NoFrame THEN 0 ELSE busy + 1
  /\ age' = [f \in Frames |->
               IF f > sequence \/ age[f] > LongestWait THEN age[f] ELSE age[f] + 1]
  /\ timer_due' = TRUE
  /\ UNCHANGED <<sequence, jobs, active, alive, results, publishing, stopped, topics>>

Next ==
  \/ OnImage \/ PublishEvidence \/ PublishCompletedResults \/ DestroyNode
  \/ TakeJob \/ (\E outcome \in {"model", "failure"} : FinishJob(outcome))
  \/ WorkerDies \/ Elapse

Spec == Init /\ [][Next]_vars

-----------------------------------------------------------------------------
\* The answers up to a place that are assessments of analysed frames.
AnalysedAt(n) == {i \in 1 .. n : answers[i][2] # "rejected"}
Analysed == Cardinality(AnalysedAt(Len(answers)))

\* The assessments of analysed frames follow their evidence captures one for one
\* and in the same order, however the two threads interleave: none comes before
\* its evidence, twice, for another frame, or for a frame that was dropped.
AnswersFollowCaptures ==
  \A i \in AnalysedAt(Len(answers)) :
    LET place == Cardinality(AnalysedAt(i))
    IN  place <= Len(captures) /\ answers[i][1] = captures[place]

\* A frame whose evidence is published is answered, if only with a failure, after
\* at most the analysis before it and its own: nothing older ever waits, as long
\* as the worker thread lives.
AnsweredInTime ==
  alive => \A i \in Analysed + 1 .. Len(captures) : age[captures[i]] <= LongestWait

\* When the worker has died the node goes on, but only two frames it has published
\* as evidence, the one under way and the one queued, stay without an assessment:
\* every later one is dropped before it is evidence of anything.
DeathOrphansTwoCaptures ==
  ~alive => Len(captures) - Analysed - Len(results) <= 2

=============================================================================
