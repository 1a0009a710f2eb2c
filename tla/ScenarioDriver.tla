---------------------------- MODULE ScenarioDriver ----------------------------
(***************************************************************************)
(* The driver of the end-to-end simulation (scenario_logic.py): camera,    *)
(* navigation stack and operator in one.  ScenarioDriverCore is a pure     *)
(* class: each on_... method updates its fields and returns commands.  So  *)
(* each method is here a function on the record of its fields, of which    *)
(* commands is what the method returns.  The statistics of the final       *)
(* summary and the log notes are left out.                                 *)
(*                                                                         *)
(* next_frame is the time left until _next_frame_time.  A fault plan maps  *)
(* each kind of fault to the position of the goal it strikes, or to        *)
(* Disabled; fired holds the kinds whose _engaged or _sent flag is up.     *)
(***************************************************************************)
EXTENDS Integers, Sequences, SequencesExt

CONSTANTS Waypoints,        \* the goals of the mission
          Goals,            \* every name a goal or a frame may bear: also detours
          SafeName,         \* sanitize_waypoint, a function of those names
          Intruder,         \* WRONG_GOAL_WAYPOINT
          MinSamples,       \* min_authorized_motion_samples
          FrameInterval,    \* frame_interval_seconds, in clock units
          PrimeRetry,       \* the greater of it and _PRIME_RETRY_SECONDS
          StallSamples      \* _DESIRED_STALL_ENGAGE_SAMPLES

FaultKinds == {"camera_stall", "malformed", "wrong_goal", "desired_stall", "forged"}
Disabled == 0
Plans == {plan \in [FaultKinds -> {Disabled} \cup DOMAIN Waypoints] :
            \A k, l \in FaultKinds :
              plan[k] = plan[l] => k = l \/ plan[k] = Disabled}

NoName == <<>>
NoFrame == [waypoint |-> NoName]
Phases == {"none", "streaming", "draining", "confirming", "reported", "halted"}
StreamingStates == {"WAITING_FOR_POLICY", "MOVING", "INSPECTING_CLOSER"}
TerminalStates == {"COMPLETED", "ABORTED", "EMERGENCY_STOPPED"}

\* The commands a method returns.
Desired == [do |-> "desired"]
Frame(waypoint, malformed) ==
  [do |-> "frame", waypoint |-> waypoint, malformed |-> malformed]
Reached(waypoint) == [do |-> "reached", waypoint |-> waypoint]
Call(service) == [do |-> "call", service |-> service]
Complete == [do |-> "complete"]

OfAllGoals(value) == [goal \in Goals |-> value]

\* options holds the parameters: plan, stall_ticks, always, auto_start, abort_on_stop.
NewDriver(options) ==
  [options |-> options, graph_ready |-> FALSE, outstanding |-> NoFrame,
   next_frame |-> 0, gate_open |-> FALSE, started |-> FALSE, aborted |-> FALSE,
   completed |-> FALSE, recording |-> FALSE, finalized |-> FALSE, ended |-> FALSE,
   mission |-> [state |-> "IDLE", goal |-> NoName, authorized |-> FALSE,
                evidence |-> NoName],
   phase |-> OfAllGoals("none"), last_evidence |-> OfAllGoals(NoName),
   samples |-> OfAllGoals(0), fired |-> {}, stall |-> 0, commands |-> {}]

-----------------------------------------------------------------------------
Emit(d, command) == [d EXCEPT !.commands = @ \cup {command}]

\* Only a waypoint of the list is struck by faults, a detour never is.
Strikes(d, kind, goal) ==
  /\ d.options.plan[kind] # Disabled
  /\ Waypoints[d.options.plan[kind]] = goal
  /\ kind \notin d.fired
Fire(d, kind) == [d EXCEPT !.fired = @ \cup {kind}]

Matches(evidence, waypoint) == IsStrictPrefix(SafeName[waypoint], evidence)
Moving(d) == d.mission.state = "MOVING" /\ d.mission.authorized
InPhase(d, phase) == d.mission.goal # NoName /\ d.phase[d.mission.goal] = phase

-----------------------------------------------------------------------------
\* The goal protocol: what has drained is confirmed, what is confirmed reported.

BrokenDrained(d) == TRUE                   \* RecoverableFaultsDoNotStop
Drained(d) == d.outstanding = NoFrame

AfterDraining(d) ==
  IF InPhase(d, "draining") /\ Drained(d)
  THEN [d EXCEPT !.phase[d.mission.goal] = "confirming"]
  ELSE d

Confirmed(d) ==
  /\ d.last_evidence[d.mission.goal] # NoName
  /\ d.mission.state = "MOVING"
  /\ d.mission.evidence = d.last_evidence[d.mission.goal]

AdvanceGoal(d) ==
  LET drained == AfterDraining(d) IN
  IF InPhase(drained, "confirming") /\ Confirmed(drained)
  THEN Emit([drained EXCEPT !.phase[d.mission.goal] = "reported"],
            Reached(d.mission.goal))
  ELSE drained

Completion(d) ==
  IF d.options.auto_start /\ ~d.completed /\ d.ended /\ d.finalized
  THEN Emit([d EXCEPT !.completed = TRUE], Complete)
  ELSE d

-----------------------------------------------------------------------------
\* The outstanding frame is settled by its assessment and, unless the frame was
\* malformed, its evidence: both are told by the waypoint in their ids.

Settled(frame) ==
  frame.assessment # NoName /\ (frame.expect_evidence => frame.evidence # NoName)

Settle(d) ==
  [d EXCEPT !.last_evidence[d.outstanding.waypoint] = d.outstanding.assessment,
            !.outstanding = NoFrame]

Resolve(d) == IF Settled(d.outstanding) THEN AdvanceGoal(Settle(d)) ELSE d

Answers(d, evidence) ==
  d.outstanding # NoFrame /\ Matches(evidence, d.outstanding.waypoint)

OnEvidenceCapture(d, evidence) ==
  IF Answers(d, evidence)
  THEN Resolve([d EXCEPT !.outstanding.evidence = evidence])
  ELSE d

OnAssessment(d, evidence) ==
  IF Answers(d, evidence)
  THEN Resolve([d EXCEPT !.outstanding.assessment = evidence])
  ELSE d

\* The decision on the priming frame shows that the pipeline is up.
OnPolicyDecision(d, evidence) ==
  LET opened == [d EXCEPT !.gate_open = TRUE] IN
  IF d.gate_open \/ ~Matches(evidence, Waypoints[1]) THEN d
  ELSE IF d.options.auto_start /\ ~d.started
       THEN Emit([opened EXCEPT !.started = TRUE], Call("start"))
       ELSE opened

-----------------------------------------------------------------------------
\* What a mission state changes, in the order of the code.

BackToIdle(d) ==
  IF d.mission.state = "IDLE" /\ d.phase # OfAllGoals("none")
  THEN [d EXCEPT !.phase = OfAllGoals("none"), !.last_evidence = OfAllGoals(NoName),
                 !.samples = OfAllGoals(0), !.outstanding = NoFrame, !.next_frame = 0,
                 !.gate_open = FALSE, !.recording = FALSE]
  ELSE d

EnterGoal(d) ==
  IF InPhase(d, "none")
  THEN [d EXCEPT !.phase[d.mission.goal] = "streaming", !.samples[d.mission.goal] = 0]
  ELSE d

NoteTheEnd(d) == IF d.mission.state \in TerminalStates THEN [d EXCEPT !.ended = TRUE] ELSE d

BrokenAbortOnStop(d) == d                  \* EndsInTime
AbortOnStop(d) ==
  IF d.mission.state = "SAFETY_STOPPED" /\ d.options.abort_on_stop /\ ~d.aborted
  THEN Emit([d EXCEPT !.aborted = TRUE], Call("abort"))
  ELSE d

BrokenHalt(d) == d                         \* FaultsStopTheMission
Halt(d) == [d EXCEPT !.phase[d.mission.goal] = "halted"]

StallCamera(d) ==
  IF Moving(d) /\ Strikes(d, "camera_stall", d.mission.goal)
  THEN Halt(Fire(d, "camera_stall"))
  ELSE d

ForgeReport(d) ==
  IF Moving(d) /\ Strikes(d, "forged", d.mission.goal)
  THEN Emit(Halt(Fire(d, "forged")), Reached(Intruder))
  ELSE d

OnMissionState(d, message) ==
  LET idle == BackToIdle([d EXCEPT !.mission = message])
      noted == AbortOnStop(NoteTheEnd(EnterGoal(idle)))
  IN  Completion(AdvanceGoal(ForgeReport(StallCamera(noted))))

OnReportStatus(d, status) ==
  Completion(CASE status = "RECORDING" -> [d EXCEPT !.recording = TRUE]
               [] status = "FINALIZED" -> [d EXCEPT !.finalized = TRUE]
               [] OTHER -> d)

OnPerceptionRequest(d) == [d EXCEPT !.next_frame = 0]

-----------------------------------------------------------------------------
\* Motion seen on /cmd_vel while the goal streams counts towards its samples.

Counted(d) == Moving(d) /\ InPhase(d, "streaming") /\ d.stall = 0

StallDesired(d) ==
  [Fire(d, "desired_stall") EXCEPT !.stall = d.options.stall_ticks]

BrokenNonzero(nonzero) == TRUE             \* ArrivalsAreEarned
Nonzero(nonzero) == nonzero

OnCmdVel(d, nonzero) ==
  LET goal == d.mission.goal
      counted == [d EXCEPT !.samples[goal] = @ + 1]
  IN  IF ~Nonzero(nonzero) \/ ~Counted(d) THEN d
      ELSE IF Strikes(d, "desired_stall", goal) /\ counted.samples[goal] >= StallSamples
      THEN StallDesired(counted)
      ELSE IF counted.samples[goal] >= MinSamples
      THEN AdvanceGoal([counted EXCEPT !.phase[goal] = "draining"])
      ELSE counted

-----------------------------------------------------------------------------
\* The tick: the navigation stack's command, then the camera's next frame.

PublishDesired(d) ==
  IF ~(d.options.always \/ Moving(d)) THEN d
  ELSE IF d.stall > 0 THEN [d EXCEPT !.stall = @ - 1]
  ELSE Emit(d, Desired)

BrokenMayPrime(d) == d.mission.state = "IDLE"   \* NoFrameStraddles
MayPrime(d) ==
  /\ d.mission.state = "IDLE"
  /\ d.outstanding = NoFrame \/ d.outstanding.evidence = NoName
MayStream(d) ==
  /\ d.outstanding = NoFrame
  /\ d.recording
  /\ d.mission.state \in StreamingStates
  /\ InPhase(d, "streaming")

MaySend(d) == d.graph_ready /\ IF d.gate_open THEN MayStream(d) ELSE MayPrime(d)

Outstanding(waypoint, expect_evidence) ==
  [waypoint |-> waypoint, evidence |-> NoName, assessment |-> NoName,
   expect_evidence |-> expect_evidence]

\* The priming frame is never faulted; of the two faults only one strikes a goal.
SendFrame(d) ==
  LET waypoint == IF d.gate_open THEN d.mission.goal ELSE Waypoints[1]
      in_mission == d.gate_open /\ d.mission.state # "IDLE"
      waiting == [d EXCEPT !.next_frame = IF d.gate_open THEN FrameInterval ELSE PrimeRetry]
      Sent(e, name, malformed) ==
        Emit([e EXCEPT !.outstanding = Outstanding(name, ~malformed)],
             Frame(name, malformed))
  IN  IF in_mission /\ Strikes(d, "malformed", waypoint)
      THEN Sent(Fire(waiting, "malformed"), waypoint, TRUE)
      ELSE IF in_mission /\ Strikes(d, "wrong_goal", waypoint)
      THEN Sent(Fire(waiting, "wrong_goal"), Intruder, FALSE)
      ELSE Sent(waiting, waypoint, FALSE)

\* Whether a frame is due is decided once the desired command is out.
OnTick(d) ==
  LET moved == PublishDesired(d) IN
  IF MaySend(moved) /\ moved.next_frame = 0 THEN SendFrame(moved) ELSE moved

OnGraphReady(d) == [d EXCEPT !.graph_ready = TRUE]

\* One clock unit goes by.
Wait(d) == [d EXCEPT !.next_frame = IF @ = 0 THEN 0 ELSE @ - 1]

=============================================================================
