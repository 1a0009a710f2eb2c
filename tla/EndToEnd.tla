------------------------------- MODULE EndToEnd -------------------------------
(***************************************************************************)
(* The whole pipeline, as the end-to-end simulation launches it            *)
(* (pipeline.py): the scenario driver's camera and navigation, the bridge, *)
(* the supervisor, the orchestrator, the motion controller, and as much of *)
(* the evidence reporter as the driver waits for.  Each node is its own    *)
(* module's; here are the topics between them.                             *)
(*                                                                         *)
(* A topic delivers in order, but what goes over different topics, or to   *)
(* different subscribers, may overtake.  The network and the executors     *)
(* keep up: the timers fire as a clock unit begins, and every message is   *)
(* handled before it ends, in any order; the model takes from one unit to  *)
(* the scenario's latency to analyse a frame.  Delays beyond that are the  *)
(* business of the nodes' own modules.                                     *)
(***************************************************************************)
EXTENDS MissionOrchestrator

CONSTANTS
  Intruder, MinSamples, FrameInterval, PrimeRetry, StallSamples,  \* the driver's
  AssessmentTimeout, SupervisorPeriod,                            \* the supervisor's
  CommandTimeout, MissionTimeout,                                 \* the controller's
  Segment,       \* how an evidence id spells an observation time
  Deadline,      \* by when a scenario is to be over
  Scenarios      \* [options, reading, latency, losses, crashes, missions, until]:
                 \* the driver's parameters, what the fixture model answers and in
                 \* how many units at most, how many frames the best-effort
                 \* camera topic and how many lives the orchestrator may lose,
                 \* how many missions an operator starts, when the clock stops

\* An evidence id is unique to one observation (docs/ros2-motion-controller.md).
ASSUME SegmentAssumption ==
  /\ DOMAIN Segment = 0 .. MaxTime
  /\ \A t, u \in 0 .. MaxTime : Segment[t] = Segment[u] => t = u
  /\ \A name \in Names, t \in 0 .. MaxTime : Append(SafeName[name], Segment[t]) \in Evidence

\* What the driver's constructor insists on.
ASSUME DriverAssumption ==
  /\ Intruder \in Names /\ \A i \in DOMAIN Waypoints : Waypoints[i] # Intruder
  /\ MinSamples \in Nat \ {0} /\ StallSamples \in Nat \ {0}
  /\ FrameInterval \in Nat \ {0} /\ PrimeRetry >= FrameInterval
  /\ \A i, j \in DOMAIN Waypoints :
       i # j => ~IsPrefix(SafeName[Waypoints[i]], SafeName[Waypoints[j]])

VARIABLES
  script,        \* the scenario
  driver, ticked,
  camera,        \* frames on their way to the bridge
  analysing,     \* frames the bridge has accepted and not answered
  supervisor_gate, lease, timeout_published, decision, supervisor_fault,
  supervisor_due,
  last_seen,     \* last_evidence_id_ of the supervisor
  to_orchestrator, to_controller, to_driver,   \* topics, by subscriber
  down,          \* the orchestrator's process is dead
  beaten,        \* the heartbeat timer has fired in this unit
  controller_gate, controller_policy, controller_mission, command, output,
  controlled, controller_fault,
  reporter,
  losses, crashes, missions,
  authorized_at, \* history: when the orchestrator last authorised motion
  moved          \* history: control periods of authorised motion to each goal

orchestrating == <<vars, gate, watchdog_due, down>>
supervising == <<supervisor_gate, lease, timeout_published, decision,
                 supervisor_fault, supervisor_due, last_seen>>
inputs == <<controller_gate, controller_policy, controller_mission, command>>
controlling == <<inputs, output, controlled, controller_fault>>
driving == <<driver, ticked>>
seeing == <<camera, analysing, losses>>
budget == <<crashes, missions>>
topics == <<to_orchestrator, to_controller, to_driver>>
history == <<authorized_at, moved>>
evars == <<script, nvars, down, beaten, supervising, controlling, driving, seeing, topics,
           reporter, budget, history>>

Driver == INSTANCE ScenarioDriver WITH Goals <- Names
Supervisor == INSTANCE SafetySupervisor WITH
  Timeout <- AssessmentTimeout, WatchdogPeriod <- SupervisorPeriod,
  gate <- supervisor_gate, fault <- supervisor_fault, watchdog_due <- supervisor_due
Controller == INSTANCE MotionController WITH
  Timeout <- PolicyTimeout, Decisions <- Supervisor!Actions \X BOOLEAN,
  gate <- controller_gate,
  policy <- controller_policy, mission <- controller_mission, fault <- controller_fault

\* The supervisor answers a reading with one of its actions; the orchestrator hears any.
ASSUME PipelineAssumption ==
  /\ Decisions = Actions \X Statuses
  /\ \A scenario \in Scenarios : scenario.reading \in Supervisor!Actions
  /\ AssessmentTimeout \in Nat \ {0} /\ SupervisorPeriod \in Nat \ {0}
  /\ CommandTimeout \in Nat \ {0} /\ MissionTimeout \in Nat \ {0} /\ MaxTime # 0

\* A plan is one the driver's constructor takes, and an operator starts missions only
\* where the driver starts none itself (as in the launch tests).
ASSUME ScenarioAssumption ==
  \A scenario \in Scenarios :
    /\ scenario.options.plan \in Driver!Plans
    /\ scenario.options.auto_start => scenario.missions = 0

EvidenceId(frame) == Append(SafeName[frame.waypoint], Segment[frame.stamp])
ObservedAt(evidence) == CHOOSE t \in DOMAIN Segment : Segment[t] = Last(evidence)

EInit ==
  /\ NInit
  /\ script \in Scenarios
  /\ driver = Driver!NewDriver(script.options) /\ ticked = FALSE
  /\ camera = <<>> /\ analysing = <<>>
  /\ Supervisor!Init /\ last_seen = NoName
  /\ Controller!Init
  /\ to_orchestrator = [decision |-> <<>>, reached |-> <<>>, call |-> <<>>]
  /\ to_controller = [decision |-> <<>>, state |-> <<>>]
  /\ to_driver = [evidence |-> <<>>, assessment |-> <<>>, decision |-> <<>>,
                  state |-> <<>>, cmd_vel |-> <<>>, report |-> <<>>,
                  request |-> <<>>]
  /\ down = FALSE /\ beaten = FALSE
  /\ reporter = "idle"
  /\ losses = 0 /\ crashes = 0 /\ missions = 0
  /\ authorized_at = 0 /\ moved = [goal \in Names |-> 0]

\* Timers that could disturb each other fire in any order: the orchestrator's two,
\* and after them the driver's tick and the control timer.
Watched == supervisor_due > 0 /\ watchdog_due > 0 /\ beaten
TimersServed == Watched /\ controlled /\ (ticked \/ driver.completed)

-----------------------------------------------------------------------------
\* The driver's callbacks: what they command goes to the camera, the motion
\* controller and the orchestrator.

Waypoint(commands) == {c.waypoint : c \in {x \in commands : x.do = "reached"}}
Service(commands) == {c.service : c \in {x \in commands : x.do = "call"}}
Frames(commands) == {[waypoint |-> c.waypoint, malformed |-> c.malformed, stamp |-> now] :
                       c \in {x \in commands : x.do = "frame"}}

Execute(d) ==
  /\ driver' = [d EXCEPT !.commands = {}]
  /\ camera' = camera \o SetToSeq(Frames(d.commands))
  /\ to_orchestrator' = [to_orchestrator EXCEPT
                           !.reached = @ \o SetToSeq(Waypoint(d.commands)),
                           !.call = @ \o SetToSeq(Service(d.commands))]
  /\ \/ Driver!Desired \in d.commands /\ Controller!OnDesiredCommand(TRUE, 0)
     \/ Driver!Desired \notin d.commands /\ UNCHANGED controlling
  /\ UNCHANGED <<script, orchestrating, beaten, supervising, analysing, losses,
                 to_controller, reporter, budget, history, now>>

\* The graph takes a unit to be discovered.
GraphSeen == IF now > 0 THEN Driver!OnGraphReady(driver) ELSE driver

OnTick ==
  /\ Watched /\ ~ticked /\ ~driver.completed
  /\ ticked' = TRUE
  /\ Execute(Driver!OnTick(GraphSeen))
  /\ UNCHANGED to_driver

\* What the driver makes of a message m of a topic.
Handled(topic, m) ==
  CASE topic = "evidence"   -> Driver!OnEvidenceCapture(driver, m)
    [] topic = "assessment" -> Driver!OnAssessment(driver, m)
    [] topic = "decision"   -> Driver!OnPolicyDecision(driver, m.evidence)
    [] topic = "state"      -> Driver!OnMissionState(driver, m)
    [] topic = "cmd_vel"    -> Driver!OnCmdVel(driver, m)
    [] topic = "report"     -> Driver!OnReportStatus(driver, m)
    [] topic = "request"    -> Driver!OnPerceptionRequest(driver)

DriverHears(topic) ==
  /\ TimersServed /\ ~driver.completed /\ to_driver[topic] # <<>>
  /\ to_driver' = [to_driver EXCEPT ![topic] = Tail(@)]
  /\ Execute(Handled(topic, Head(to_driver[topic])))
  /\ UNCHANGED ticked

-----------------------------------------------------------------------------
\* The bridge and the supervisor behind it, which answers every assessment.

Broadcast(answer, told) ==
  /\ to_orchestrator' = [to_orchestrator EXCEPT !.decision = Append(@, answer)]
  /\ to_controller' = [to_controller EXCEPT !.decision = Append(@, answer)]
  /\ to_driver' = [told EXCEPT !.decision = Append(@, answer)]

Says(evidence) == [action |-> decision'.action, status |-> decision'.status,
                   stamp |-> decision'.stamp, evidence |-> evidence]

Assess(frame, action) ==
  /\ Supervisor!HandleAssessment(frame.stamp, 0, action, "VALID")
  /\ last_seen' = IF supervisor_gate'.last = frame.stamp THEN EvidenceId(frame) ELSE last_seen
  /\ Broadcast(Says(EvidenceId(frame)),
               [to_driver EXCEPT !.assessment = Append(@, EvidenceId(frame))])

LoseImage ==
  /\ losses < script.losses /\ losses' = losses + 1
  /\ UNCHANGED <<analysing, supervising, topics>>

Taken(frame) ==
  [waypoint |-> frame.waypoint, stamp |-> frame.stamp, recorded |-> reporter = "recording"]

\* The driver has one frame under way at a time: none finds the queue full.
AcceptImage ==
  /\ ~Head(camera).malformed
  /\ analysing' = Append(analysing, Taken(Head(camera)))
  /\ to_driver' = [to_driver EXCEPT !.evidence = Append(@, EvidenceId(Head(camera)))]
  /\ UNCHANGED <<losses, supervising, to_orchestrator, to_controller>>

RejectImage ==
  /\ Head(camera).malformed
  /\ Assess(Head(camera), "INSPECT_CLOSER")
  /\ UNCHANGED <<losses, analysing>>

OnImage ==
  /\ TimersServed /\ camera # <<>>
  /\ camera' = Tail(camera)
  /\ LoseImage \/ AcceptImage \/ RejectImage
  /\ UNCHANGED <<script, orchestrating, beaten, controlling, driving, reporter, budget,
                 history, now>>

Analyse ==
  /\ TimersServed /\ analysing # <<>> /\ now > Head(analysing).stamp
  /\ analysing' = Tail(analysing)
  /\ Assess(Head(analysing), script.reading)
  /\ UNCHANGED <<script, orchestrating, beaten, controlling, driving, camera, losses,
                 reporter, budget, history, now>>

CheckWatchdog ==
  /\ Supervisor!CheckWatchdog
  /\ \/ timeout_published' = timeout_published /\ UNCHANGED topics
     \/ timeout_published' # timeout_published /\ Broadcast(Says(last_seen), to_driver)
  /\ UNCHANGED <<script, orchestrating, beaten, controlling, driving, seeing, last_seen,
                 reporter, budget, history>>

-----------------------------------------------------------------------------
\* The orchestrator: every transition is published, and the reporter hears it.

Recorded == States \ Deaf

Told == [state |-> state', goal |-> active_goal', authorized |-> motion_authorized',
         evidence |-> last_evidence_id']

\* The reporter opens a report with a mission and closes it with the mission's end.
NextReporter ==
  IF reporter \in {"idle", "finalized"} /\ state' \in Recorded THEN "recording"
  ELSE IF reporter = "recording" /\ state' \in Deaf THEN "closing"
  ELSE IF reporter = "finalized" /\ state' = "IDLE" THEN "idle"
  ELSE reporter

Requests == IF result'.effects \cap {"perception", "closer_view"} # {} THEN <<"now">> ELSE <<>>

PublishState(sent) ==
  /\ reporter' = NextReporter
  /\ to_controller' = [to_controller EXCEPT !.state = Append(@, Told)]
  /\ to_driver' = [to_driver EXCEPT
       !.state = Append(@, Told),
       !.request = IF sent THEN @ \o Requests ELSE @,
       !.report = IF reporter # "recording" /\ reporter' = "recording"
                  THEN Append(@, "RECORDING") ELSE @]

BrokenApplyTransition ==                   \* StopReachesTheRobot: refusals untold
  IF result'.accepted THEN PublishState(TRUE)
  ELSE UNCHANGED <<reporter, to_controller, to_driver>>
ApplyTransition == PublishState(TRUE)

Authorized == authorized_at' = IF motion_authorized' THEN now ELSE authorized_at

OrchestratorHears(topic, Act(_)) ==
  /\ TimersServed /\ ~down /\ to_orchestrator[topic] # <<>>
  /\ Act(Head(to_orchestrator[topic]))
  /\ ApplyTransition
  /\ Authorized
  /\ to_orchestrator' = [to_orchestrator EXCEPT ![topic] = Tail(@)]
  /\ UNCHANGED <<script, down, beaten, supervising, controlling, driving, seeing, budget,
                 moved, now>>

Decided(m) == OnPolicy(m.action, m.status, m.evidence, m.stamp)
Arrived(waypoint) == WaypointReached(waypoint) /\ UNCHANGED <<gate, watchdog_due>>
Called(service) ==
  /\ \/ service = "start" /\ Start
     \/ service = "abort" /\ Abort
  /\ UNCHANGED <<gate, watchdog_due>>

WatchdogTimer ==
  /\ supervisor_due > 0 /\ OnWatchdog
  /\ \/ Expired /\ ApplyTransition /\ UNCHANGED to_orchestrator
     \/ ~Expired /\ UNCHANGED <<reporter, topics>>
  /\ Authorized
  /\ UNCHANGED <<script, down, beaten, supervising, controlling, driving, seeing, budget,
                 moved>>

Beats == ~down /\ state = "MOVING" /\ motion_authorized

Heartbeat ==
  /\ supervisor_due > 0 /\ ~beaten
  /\ beaten' = TRUE
  /\ UNCHANGED vars
  /\ \/ Beats /\ PublishState(FALSE)
     \/ ~Beats /\ UNCHANGED <<reporter, to_controller, to_driver>>
  /\ UNCHANGED <<script, gate, watchdog_due, down, supervising, controlling, driving,
                 seeing, to_orchestrator, budget, history, now>>

\* What is sent to a dead process is lost; one that starts tells that it is idle.
Crash ==
  /\ TimersServed /\ ~down /\ crashes < script.crashes
  /\ crashes' = crashes + 1 /\ UNCHANGED missions
  /\ Restart
  /\ down' = TRUE
  /\ Authorized
  /\ UNCHANGED <<script, beaten, supervising, controlling, driving, seeing, topics,
                 reporter, moved>>

Unheard ==
  /\ TimersServed /\ down
  /\ \E topic \in DOMAIN to_orchestrator :
       /\ to_orchestrator[topic] # <<>>
       /\ to_orchestrator' = [to_orchestrator EXCEPT ![topic] = Tail(@)]
  /\ UNCHANGED <<script, orchestrating, beaten, supervising, controlling, driving, seeing,
                 to_controller, to_driver, reporter, budget, history, now>>

ComeUp ==
  /\ TimersServed /\ down /\ down' = FALSE
  /\ UNCHANGED vars
  /\ PublishState(FALSE)
  /\ UNCHANGED <<script, gate, watchdog_due, beaten, supervising, controlling, driving,
                 seeing, to_orchestrator, budget, history, now>>

-----------------------------------------------------------------------------
\* The operator of a mission sequence starts a mission once the driver has seen
\* the priming decision, and resets one once its report is finalized.
OperatorStart ==
  /\ driver.gate_open /\ state = "IDLE" /\ missions < script.missions
  /\ missions' = missions + 1
  /\ moved' = [goal \in Names |-> 0]
  /\ Start

OperatorReset ==
  /\ reporter = "finalized" /\ state # "IDLE" /\ missions < script.missions
  /\ Reset
  /\ UNCHANGED <<missions, moved>>

Operate ==
  /\ TimersServed /\ ~down /\ to_orchestrator.call = <<>>
  /\ OperatorStart \/ OperatorReset
  /\ ApplyTransition
  /\ Authorized
  /\ UNCHANGED <<script, gate, watchdog_due, down, beaten, supervising, controlling,
                 driving, seeing, to_orchestrator, crashes, now>>

-----------------------------------------------------------------------------
\* The motion controller, and the reporter's finalize timer.

ControllerHears(topic, Act(_)) ==
  /\ TimersServed /\ to_controller[topic] # <<>>
  /\ Act(Head(to_controller[topic]))
  /\ to_controller' = [to_controller EXCEPT ![topic] = Tail(@)]
  /\ UNCHANGED <<script, orchestrating, beaten, supervising, driving, seeing,
                 to_orchestrator, to_driver, reporter, budget, history>>

Obeyed(m) == Controller!OnPolicyDecision(m.stamp, 0, m.action, m.status = "VALID")
Allowed(m) ==
  \/ m.authorized /\ Controller!OnMissionState(TRUE, ObservedAt(m.evidence), 0)
  \/ ~m.authorized /\ Controller!OnMissionState(FALSE, Controller!NoEvidence, 0)

Nonzero == output'.scale # "Stop"

ControlTimer ==
  /\ Watched /\ Controller!PublishSafeCommand
  /\ to_driver' = [to_driver EXCEPT !.cmd_vel = Append(@, Nonzero)]
  /\ moved' = IF Nonzero /\ motion_authorized /\ moved[active_goal] < MinSamples
              THEN [moved EXCEPT ![active_goal] = @ + 1]
              ELSE moved
  /\ UNCHANGED <<script, orchestrating, beaten, supervising, driving, seeing,
                 to_orchestrator, to_controller, reporter, budget, authorized_at>>

Finalize ==
  /\ TimersServed /\ reporter = "closing" /\ reporter' = "finalized"
  /\ to_driver' = [to_driver EXCEPT !.report = Append(@, "FINALIZED")]
  /\ UNCHANGED <<script, orchestrating, beaten, supervising, controlling, driving, seeing,
                 to_orchestrator, to_controller, budget, history, now>>

-----------------------------------------------------------------------------
Empty(queues) == \A topic \in DOMAIN queues : queues[topic] = <<>>

\* Everything due in this unit is done; the clock may move on.
Served ==
  /\ TimersServed
  /\ camera = <<>>
  /\ Empty(to_orchestrator) /\ Empty(to_controller)
  /\ Empty(to_driver)
  /\ reporter # "closing"
  /\ analysing # <<>> => now - Head(analysing).stamp < script.latency

\* The driver's completion ends its process, and with it the simulation.
Pass ==
  /\ Served /\ ~driver.completed /\ now < script.until
  /\ Elapse /\ Supervisor!Elapse /\ Controller!Elapse
  /\ driver' = Driver!Wait(driver)
  /\ ticked' = FALSE /\ beaten' = FALSE
  /\ authorized_at' = IF motion_authorized THEN now' ELSE authorized_at
  /\ UNCHANGED <<script, down, last_seen, seeing, topics, reporter, budget, moved>>

ENext ==
  \/ OnTick \/ (\E topic \in DOMAIN to_driver : DriverHears(topic))
  \/ OnImage \/ Analyse \/ CheckWatchdog
  \/ OrchestratorHears("decision", Decided) \/ OrchestratorHears("reached", Arrived)
  \/ OrchestratorHears("call", Called) \/ WatchdogTimer \/ Heartbeat
  \/ Crash \/ Unheard \/ ComeUp \/ Operate
  \/ ControllerHears("decision", Obeyed) \/ ControllerHears("state", Allowed)
  \/ ControlTimer \/ Finalize
  \/ Pass

ESpec == EInit /\ [][ENext]_evars

-----------------------------------------------------------------------------
Struck(kind) == script.options.plan[kind]
Halting == {"camera_stall", "wrong_goal", "forged"}

\* A scenario that starts and aborts its mission itself is over in time, report
\* and all, whatever fault it injects and frame it loses: no handshake between
\* the driver and the pipeline waits for what never comes.
EndsInTime ==
  script.options.auto_start /\ crashes = 0 /\ now >= Deadline => driver.completed

\* A mission with recoverable faults only (a bad frame, a silent navigation stack)
\* is never stopped: the driver's draining lets no decision on one goal's frame
\* reach the orchestrator while it waits for the next goal's.
RecoverableFaultsDoNotStop ==
  /\ script.reading = "PROCEED" /\ losses = 0 /\ crashes = 0
  /\ \A kind \in Halting : Struck(kind) = Driver!Disabled
  => state \notin {"SAFETY_STOPPED", "ABORTED"}

\* A fault that cannot be recovered from ends the mission at the goal it strikes;
\* but a priming decision that the start overtakes moves the robot on to the first
\* goal, and a wrong goal's frame there may be judged when the second is up.
Overtaken(kind) == IF kind = "wrong_goal" /\ Struck(kind) = 1 THEN 1 ELSE 0
FaultsStopTheMission ==
  \A kind \in Halting :
    Struck(kind) # Driver!Disabled /\ missions <= 1
    => waypoint_index < Struck(kind) + Overtaken(kind)

\* The orchestrator moves on to the next goal only after as many control periods
\* of authorised motion to this one as the driver is to wait for.
ArrivalsAreEarned ==
  [][waypoint_index' > waypoint_index => moved[active_goal] >= MinSamples]_evars

\* The robot stands one control period after the orchestrator has withdrawn the
\* authority to move, for whatever reason, and a mission timeout after its death.
StopReachesTheRobot ==
  Controller!Moving =>
    now - authorized_at <= IF crashes = 0 THEN 1 ELSE MissionTimeout + 1

\* No frame straddles the opening of a report: what is assessed for the first
\* mission was captured for it.  (Later missions have no such promise: a decision of
\* the mission before may open the driver's gate ahead of the priming frame's.)
NoFrameStraddles ==
  [][Analyse /\ reporter = "recording" /\ missions <= 1
       => Head(analysing).recorded]_evars

=============================================================================
