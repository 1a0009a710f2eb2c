# Inspectron: specification and proofs

Inspectron lets a vision-language model look at a site while deterministic
components keep authority over the robot. The modules here specify those
deterministic components in TLA+, TLC checks them on small instances, and TLAPS
proves what matters most for every route, timeout and cache size. Paths below are
relative to the repository; a node's Python file is named without its package.

## 1. The system

```
 camera --> perception bridge --> safety supervisor --> orchestrator --> motion controller --> cmd_vel
              |  (VLM worker)       (policy, latched)    (mission,         (3 inputs,
              |                            \              authority)        control timer)
              |                             `----------------------------------^
              `--> evidence capture --> evidence reporter <-- assessments, decisions, mission states
```

Beside this ROS 2 pipeline there is an in-process simulated mission
(`src/inspectron`), which shares the safety policy in its Python form, and an
evaluation of a model on labelled images. In the end-to-end simulation a scenario
driver stands in for the camera, the navigation stack and the operator: it publishes
frames, desired velocities and arrivals, and listens to everything the pipeline says.

| Component | State it keeps | Operations | What makes it correct |
|---|---|---|---|
| Mission state machine, `state_machine.py` | phase, route index, goal, stored permission and its age, reroute wait, emergency stop | start, pause, resume, abort, reset, apply_policy, waypoint_reached, set_reroute_target, set_emergency_stop, watchdog | motion only on fresh evidence for the goal in force; an emergency stop latches; motion ends loudly; waits end |
| Temporal gate, in `node.py`, `safety_supervisor_node.cpp`, `motion_controller_node.cpp` | newest admitted observation time, recovery barrier, replay cache, quarantine | judge a stamp, remember a future one, prune, prolong | observations advance strictly; none foreseen ever speaks; a healed pipeline is believed again |
| Orchestrator node, `node.py` | gate and machine, watchdog timer | callbacks, services, timers | a permission is counted as old as its observation |
| Safety policy, `safety_policy.cpp` and `site_safety.py` | none | resolve, validate, find contradictions | both agree; worse readings never free the robot; invalid ones stop it |
| Safety supervisor | gate, watchdog reference, latched decision | assessment callback, watchdog timer | a latched decision permits motion only on a recent scene, and anew only on one later than the last fault |
| Motion controller | three inputs with lifetimes, gate | three callbacks, control timer | moves only on live inputs; stops by itself; starts again only on a scene later than the last fault |
| Perception bridge | job queue of one, results queue, worker thread | image callback, worker, results timer, shutdown | an accepted frame is answered once, after its evidence, in time |
| Simulated mission: `mission.py`, `agent.py`, `safety.py`, `simulation.py` | visited waypoints, views, robot position and stop | the mission loop | returns stopped or says it failed; complete means covered |
| Evidence reporter, `node.py` and `reporting.py` | open recorder, planned finalization, files | recording callbacks, finalize timer and service | final reports are whole, sealed and of one mission |
| Scenario driver, `scenario_logic.py`, `simulator_node.py` | the outstanding frame, a phase per goal, the start gate, what it last heard, injected faults | tick, and a callback per topic | the handshake neither hangs nor races the mission; its faults end as the documentation says |
| Evaluation, `vlm_eval_cli.py`, `repeated_evaluation.py` | the results of a run, the runs | load a manifest, evaluate, score, compare runs | unsafe motion is the model's misreading; stable means scored alike |
| Dataset scripts, interfaces, launch files | | | not modelled, see section 7 |

Behaviours that are hard to test: stamps that lie in the future or come twice,
late or out of order; clocks that step; the order of callbacks on different
topics; lost messages; the bridge's two threads; an exception at any call of the
mission loop; any write of the reporter failing; restarts; timers that race with
what they wait for. `PROJECT.json` lists each as a hazard at the line where it
bites.

## 2. Modules

| Module | Models | State and actions |
|---|---|---|
| `MissionStateMachine` | `state_machine.py` | the fields of the class; one action per public method; `Tick` is time. Monotonic times are kept as ages, saturated one unit past their timeout, as the code only compares ages with timeouts. |
| `MissionLifecycle` | the abstract promise | phase and leg of a mission, causes left open |
| `MissionRefinement` | the mapping | maps the machine's states to phases; `KeepsTheLifecycle` |
| `MissionHistory` | two statements of the documentation | a history variable for owed resumes |
| `TemporalGate` | what the three gates share | the gate as a record, operations as functions on it |
| `PolicyJudgement` | `_policy_source_reference` | the verdict is the early return taken; `Judged` is the gate left behind |
| `PolicyAdmission`, `PolicyRecovery` | the orchestrator's gate in two environments | any stamps and stepping clocks; a pipeline that heals |
| `MissionOrchestrator` | the orchestrator node | composes the machine and the gate with the watchdog timer and restarts |
| `ScenarioDriver` | `ScenarioDriverCore` | a record of its fields; each method a function on it that leaves the commands it returns |
| `EndToEnd` | the pipeline that `pipeline.py` launches | instances of driver, supervisor and controller around `MissionOrchestrator`, with a queue per topic and subscriber; bridge and reporter as far as the others notice them; heartbeat, crash and operator |
| `Evaluation` | the evaluation of a model | a manifest, one action per sample, what a report counts |
| `SafetyPolicy`, `PolicyMonotone` | both policies, and the parser of the model's output | operators; a scene that gets worse step by step |
| `SafetySupervisor` | the supervisor node | two callbacks over a gate of its own |
| `MotionController` | the controller node and `motion_policy.cpp` | four callbacks over a gate of its own |
| `PerceptionBridge` | the bridge node | executor and worker steps |
| `SiteMission` | the simulated mission | one action per call the loop makes |
| `EvidenceReporter` | the reporter node and its recorder | callbacks, timer, service, restart |
| `GateProofs` | | lemmas on the gate and on the orchestrator's judgement, used by those below |
| `MissionProofs`, `AdmissionProofs`, `SupervisorProofs`, `ControllerProofs`, `BridgeProofs`, `ReporterProofs`, `AgentProofs` | | theorems, section 5 |
| `MC...` | | constants for TLC |

A definition `BrokenX` just before `X` is `X` with a bug this code could have; the
comment names the property that notices it. They are used by no specification:
putting `BrokenX` in the place of `X` makes TLC find that property violated.

Conventions of the abstraction. A name is the sequence of its dash-separated
segments, because the code only tests equality and `startswith(safe + "-")`, where
`safe` is the goal with what an evidence id may not hold replaced (`SafeName`).
Probabilities are integers on a coarse scale, with values outside it for NaN and
out-of-range numbers. DDS source and receipt times appear as one age, the older
of the two. In the supervisor, controller and orchestrator one executor thread
runs all callbacks (`rclcpp::spin`, `rclpy.spin`), so a callback is one step and
the clocks it reads several times are read at one instant. In `PolicyAdmission`
the ROS clock and the steady clock are apart and the ROS clock may be set.

## 3. Runs

| Run | Module | Bounds | What it shows |
|---|---|---|---|
| `mission` | `MCMission` | route of two, one detour name, timeouts 2 | all safety, action and liveness properties of the machine, and the refinement |
| `viol_restart` | `MCMissionHistory` | three names, one a prefix of another | counterexample, section 6 |
| `viol_evidence` | `MCMissionHistory` | the same | counterexample, section 6 |
| `recovery` | `PolicyRecovery` | timeout 2, cache of 2, clocks to 14, ROS clock set at will up to 3 | the gate with clock steps, overflow and quarantine; recovery in bounded time |
| `end_to_end` | `MCEndToEnd` | two waypoints, 19 scenarios, clock to 24 (14 with a crash or an operator), policy timeout 5, assessment timeout 8 | the composed pipeline, below |
| `policy` | `PolicyMonotone` | probabilities 0..3 and beyond | agreement and monotonicity |
| `evaluation` | `MCEvaluation` | two samples, two runs, all labels over three sets of hazards, seven answers or an error | what the scores are worth |
| `supervisor` | `SafetySupervisor` | timeout 2, cache of 1, clock to 5 | old scenes, order of results, what permits motion after a fault |
| `controller` | `MCMotionController` | timeouts 1, cache of 1, clock to 4 | live inputs, restarts after a fault |
| `bridge` | `PerceptionBridge` | four frames, inference of 2 units | order and time of answers, death of the worker |
| `site_mission` | `MCSiteMission` | three waypoints, two views, up to six steps | the mission loop |
| `reporter` | `EvidenceReporter` | five messages, delay of 2 | reports |

Why the bounds are enough. A timeout of one unit already tells apart fresh, just
fresh and expired; two units give a time between, where the boundary matters. A
cache of one or two overflows at the second or third future stamp, as 256 does at
the 257th, since the code only compares its size with the capacity. Clocks end late enough for a fault, its recovery and a
second fault. Two waypoints give a first and a last arrival, three a middle. Four
frames fill the worker, the queue and one drop with a successor. Six steps are all
that three waypoints of two views can need. Five messages are a mission, its end,
a reset, the next mission and one more.

What the gate promises of a *foreseen* observation is limited twice, and
`NeverAdmitsForeseen` says so in the history variable `foreseen`. It is about stamps
at most two timeouts ahead, the length of a quarantine. And a quarantine counts
steady time: where the ROS clock is set back while one is in force the stamps it
swallowed may outlive it, so such a step empties `foreseen`. The documentation calls
the protection bounded, so both are limits of the design and not findings.

The `end_to_end` scenarios are: no fault with a slow model; a lost frame; an
orchestrator that dies and is started again; a model that says STOP; each of the
driver's five faults at either goal with a model of one unit, and the two faults that
change a frame also with one of two; and an operator who starts two missions with a
forged arrival in the first. In them the properties mean:

* `PermissionIsTheNewest`, `MovesWithinTheTimeout`: as in the node alone, which the
  pipeline is proved to run, here with the decisions the pipeline really sends.
* `StopReachesTheRobot`: one control period after the orchestrator has withdrawn the
  authority, whatever the cause and in whichever order the topics deliver, the robot
  stands; after the orchestrator's death the mission timeout is added.
* `EndsInTime`, `RecoverableFaultsDoNotStop`, `FaultsStopTheMission`: what
  `docs/ros2-fault-injection.md` expects of each kind of fault.
* `ArrivalsAreEarned`: an accepted arrival follows as many control periods of
  authorised motion as the driver is configured to wait for.
* `NoFrameStraddles`: what is assessed for the first mission was captured for it.

Deadlock is checked except in `recovery`, `end_to_end`, `evaluation`, `bridge` and
`site_mission`, which end: their clock stops or the scenario completes, the evaluation
is done, the node may be shut down, a mission run returns. In the other time-bounded runs a callback is always possible after the clock has stopped.

## 4. Fairness

* `MissionStateMachine`: weak fairness of `Tick` and `Watchdog`. Time passes, and
  the watchdog timer is periodic on an executor whose callbacks do not block.
  Nothing is assumed of operators, planner or decisions.
* `SiteMission`: weak fairness of the next step. The program is sequential and the
  model assumes that a port call returns or raises.
* `EvidenceReporter`: weak fairness of time and of the 50 ms finalize timer.

Elsewhere time is a safety matter: a timer's step guards the passing of the next
unit (`Elapse`), which says that the executor serves a due timer within the unit.
So the bounds "plus one watchdog period" or "plus one control period" are proved
of timers that keep their rate, not of an executor that is starved. `EndToEnd` takes
the whole pipeline to keep up: every message is handled within the unit it is sent in,
in any order between topics, timers fire as a unit begins, and only the model takes
longer. Delays beyond that are what the modules of the single nodes allow.

## 5. What is proved

Each safety proof has one shape: an inductive invariant that holds initially, one lemma
per action that keeps it, and the property it implies. The constants are any that the
named assumptions of the modules allow; TLC evaluates those on every run.

**`MissionProofs`** has three parts, each resting on the one before. The *machine*
(every route, name set, evidence set and timeout):

* `TypeCorrect`. Inductive only with the conjunct that a machine past its last
  waypoint is in a phase that ignores decisions: without it an arrival could index
  past the route.
* `EmergencyStopLatched`, `PermissionSound`. `Safe` is the conjunction of the type
  invariant and the two properties; every action preserves it. The
  argument is that `_safety_stop` and the emergency stop never raise a permission,
  every change of goal (`waypoint_reached`, `set_reroute_target`, `start`, `reset`)
  forgets it, and only `reset`, which the pressed stop refuses, and `abort` leave
  EMERGENCY_STOPPED.
* `MotionStartsFreshAlways`, `MotionEndsWithCancelAlways`,
  `StopsAreLiftedKnowinglyAlways`: action properties, by a lemma each on the actions that
  enter or leave the phase concerned.
* `Refinement`: initial states and steps of the machine are those of
  `MissionLifecycle` or stutter, under the mapping of `MissionRefinement`.

The *node* (every watchdog period and cache capacity too, with restarts):

* `PermissionIsTheNewestAlways`, `MovesWithinTheTimeoutAlways`. The second is not
  inductive: while the mission moves, the newest observation is at most the timeout plus
  *what has run of the watchdog period* old (`InTime`). The first is needed for it,
  because the watchdog measures the permission and not the observation.

The *pipeline* (every set of scenarios and every lease and period of its nodes):

* `PipelineRunsTheNode`, `PipelineRunsTheSupervisor`, `PipelineRunsTheController`: the
  composition implements the specification of each of its nodes. Every step of it is a
  step of the node or leaves the node alone, because what is under way on each topic is a
  message its receiver knows (`Wired`): goals are names, decisions are the supervisor's
  own, and what permits motion names a picture that was taken, which needs that the
  machine's own permissions do (`Pictured`).
* The nodes' properties follow for the pipeline: `PipelinePermissionIsTheNewest`,
  `PipelineMovesWithinTheTimeout`, `PipelineStopsWhenTheSceneIsOld`,
  `PipelineMovesOnLiveInputs`. The last is the purpose of the system in one sentence: the
  robot moves only on a recent picture, a recent authority and a recent command. (`SP` and `CP` are the instances that carry the proofs; the lemmas `Same...`
  say that they are the instances of `EndToEnd`.)
* `StopReachesTheRobotAlways`, from `Withdrawn`, which follows one withdrawal through the
  topics. A state on its way to the controller that grants authority was sent in the unit
  in which the authority was held (`Heralded`), so that a controller that believes in an
  authority has a state at least as old as the withdrawal (`Believed`), and states expire.
  While no process has died, the last state told is what the orchestrator thinks
  (`LastTold`, `Kept`). And the control timer stops a robot that may not move (`Halts`).
* `NoFrameStraddlesAlways`, from `Prepared`. Before the first mission nobody knows of one
  (`Ahead`) and at most one frame is under way, for which the driver waits; as soon as
  there is a decision on it none is, and none is sent before the driver has heard of it
  (`Priming`, `Primed`). The mission begins with the gate open, so that nothing is being
  analysed, and its first state opens the report. From then on whatever is analysed was
  captured with the report open, or the report is closed and the mission in a phase that
  nothing but a further mission leaves (`Under`). `Calm` says what is not under way before
  the tick of a clock unit; without it a decision could wait in the driver's topic while
  the tick sends the next priming frame.
* `HaltsStopTheMissionAlways`: `FaultsStopTheMission` for the faults `camera_stall` and
  `forged`, at any place of any route. The invariant is `Bounded`: while the mission is
  under way the orchestrator keeps to the route, what is told of idleness was told before
  the mission (`Ordered`), and the goal is `Barred`: until the fault strikes it is at most
  being filmed and the driver does not yet know of motion to it, afterwards the driver has
  halted there. So no arrival at it is ever reported (`Guarded`); and a mission that is
  over never comes back before the next is started.
* `SegmentAssumption` says that an evidence id is unique to one observation, as
  `docs/ros2-motion-controller.md` demands, `PipelineAssumption` that a scenario's model
  is read as one of the supervisor's actions, `DriverAssumption` what the driver's
  constructor checks, `ScenarioAssumption` that the driver's fault plan is one that
  constructor accepts and that the first mission is started by the driver or by the
  operator, not by both.

**`AdmissionProofs`** (every timeout, cache capacity and clock range, with clock
steps), on the lemmas of `GateProofs`:

* `GateTypeCorrect`.
* `SpeaksAfterTheFaultAlways`. The invariant `FaultKept` says that the last fault lies
  at or before the barrier or the newest admitted time: a fault raises the barrier, an
  admission lowers it but only after it has passed it.
* `NeverAdmitsForeseenAlways`. The invariant `ForeseenKept` says each foreseen time is
  *covered*: it is in the cache, or a quarantine in force ends after it, or the barrier
  or the newest admitted time is past it. `PruneCovers`, `AdmitCovers` and
  `RememberCovers` show that nothing uncovers a time before it has passed.
* `RecoversInTimeAlways`: a healed pipeline is believed again within the bound of
  `PolicyRecovery`, for every lag of at most the timeout (an observation older than that
  is never believed) and every time of healing. The invariant `Recovering` bounds, before
  the healing, how far ahead barrier, quarantine and cache may point, by the clock at
  which they were raised, and after it that nothing raises them any more. And
  `HealingRefinesAdmission`: the healing environment is one of those the gate is proved
  for.

**`SupervisorProofs`**, **`ControllerProofs`** (every timeout, period and capacity):

* `StopsWhenTheSceneIsOldAlways` from `PermitsInTime`: the lease is no younger than the
  scene until it has run out. `PermitsAfterTheFaultAlways` from the supervisor's
  `FaultKept`.
* `MovesOnLiveInputsAlways`, `RestartsAfterTheFaultAlways`. Each of the three inputs the
  robot moves on is no older than its lifetime plus the time since the control timer
  fired (`OutputKept`), since what is in force is no older than its age counts
  (`PolicyKept`, `MissionKept`, `CommandKept`).

**`BridgeProofs`** (any number of frames, every time of inference):

* `BridgeTypeCorrect`, `AnswersFollowCapturesAlways`, `DeathOrphansTwoCapturesAlways`.
  The invariant `PipelineInOrder` lays the accepted captures end to end: what has been
  answered, then the results, the frame under way, the queue, in the order of the
  captures; a dead worker holds none. The counts of the two sides need cardinalities of
  sets of positions, which the first section proves.
* `AnsweredInTimeAlways` from `PipelineInTime`: a frame in the queue has waited no longer
  than the worker has been busy with the one before it, the one under way an inference
  more, and a result until the timer.

**`ReporterProofs`** (every bound, delay and choice of failing writes):

* `ReporterTypeCorrect`, `FinalizedTellsTheWholeAlways`, `PlansAreForOpenReportsAlways`,
  `ReportsAreSealedAlways`. `Sound` adds that a mission is numbered by a message that
  was received (`MissionsAreCounted`) and that an ended mission whose report is open has a
  plan that is due when the delay has passed (`EndsArePlanned`).
* `MissionsAreKeptApartAlways`, where reports are finalized automatically. Without
  `auto_finalize` the next mission is appended to the open report: that is what the
  parameter is for.

**`AgentProofs`**. The *policies* (every pair of thresholds, every probability up to one):

* `PoliciesAgreeAlways`, `ModelOutputAlwaysFailsClosed`, and `NeverFreerAlways` from
  `ReadingOK`, one lemma per way a reading can get worse. That what the bridge makes
  of the model's output is always valid is a theorem and no property of a run.

The *evaluation* (every manifest, every answer, any number of runs), from `Evaluated`:

* `MotionIsAMisreadingAlways`: a sample is scored against its own label and by its own
  answer. `StableRunsScoreAlikeAlways`: the counts of a report are cardinalities
  of places, so equal scores at every place make equal reports.

The *simulated mission* (every route with repetitions, every limit, reading and
exception), from `Conducted`:

* `SiteMissionTypeCorrect`, `CompletedMeansCoveredAlways`, `MovesAsJudgedAlways`,
  `StepLimitIsAShortageAlways`. Every place it has left was judged
  one to pass or to drive around (`LeavesPassable`), a chosen action is the one the reading calls for
  (`ActsAsJudged`), and every step took one of the views a mission may take while another
  is left (`ViewsAreCounted`), so that running out of steps means having been given fewer
  than there are views.

Only model-checked:

* The liveness properties `RerouteWaitEnds`, `UnrenewedMotionStops`, `ReturnsStopped`,
  `EndsAreReported`: temporal reasoning under fairness is out of the prover's reach.
* `EndsInTime` and `RecoverableFaultsDoNotStop` of `EndToEnd`: their bounds are those of
  the scenarios (the deadline, a model quick enough for the leases and timeouts). With a
  slower model or shorter timeouts they are false of the same code, and no assumption that
  the code states says how much slower.
* `FaultsStopTheMission` for `wrong_goal`, which unlike the other two kinds does not halt the
  driver: the frame is caught because the intruder's name has no waypoint's name as a prefix
  and because its decision is heard before the next arrival.
* `ArrivalsAreEarned`: the driver may count a sample of motion that it sees before it hears
  that the orchestrator has withdrawn the authority. The property holds because no such
  goal is then reached, which depends on the driver's options, the model's readings and the
  timeouts together; an invariant that says so has not been found.

A `TypeOK` that no run lists says what a module's variables hold; what the proofs need of
it they prove for themselves (`Typed`, `Wired`). No induction over data is needed: the
models avoid recursive operators, and what counts, counts with `Cardinality`.

## 6. Where code and documentation disagree

* `RestartsOnlyOnResume` (`viol_restart`).
  `docs/ros2-mission-orchestrator.md:102-103`: "A safety-stopped mission never
  automatically restarts. It requires a fresh motion-authorizing policy and an
  explicit resume request." `apply_policy` obeys INSPECT_CLOSER and REROUTE in
  SAFETY_STOPPED and PAUSED (`state_machine.py:266-293`); the mission is then in
  INSPECTING_CLOSER or waiting for policy, and the next PROCEED moves it. What does hold is
  `StopsAreLiftedKnowingly`.
* `MovesOnEvidenceOfTheGoal` (`viol_evidence`).
  `docs/ros2-mission-orchestrator.md:92-95`: motion is cancelled when a policy is
  "associated with another waypoint". `startswith` (`state_machine.py:456`) takes
  evidence of `aisle-b` for evidence of `aisle`.

Not disagreements a run shows, but worth knowing:

* `docs/ros2-evidence-reporting.md:65-66` says that completed, aborted and
  emergency-stopped missions "are automatically finalized after the configured delay". If
  the record of the terminal state is taken in and only `report.partial.json` cannot be
  written, `_record_event` returns False (`node.py:315-322`) and `_on_mission_state` returns
  before it schedules anything: the report stays open with its end inside, until the
  orchestrator repeats its state, somebody resets it or asks for the finalization.
  `EndsAreReported` therefore promises in this case only that an error has been told.
* The supervisor's watchdog stop (`safety_supervisor_node.cpp:423`) leaves the gate as it
  was: an assessment of before that stop, if newer than the last admitted one and within
  its timeout, lifts it. `PermitsAfterTheFault` is about faults, and not about every stop.
* A report whose finalization fails after `report.json` is written can never be
  finalized, because each attempt has its own `finalized_at` and
  `_write_immutable_text` refuses different text; a reset or a further end within the
  finalize delay replaces the outcome that is reported.
* `docs/ros2-fault-injection.md:56-58` says that re-priming "guarantees no camera frame
  ever straddles a report's recording boundary". It holds of the first mission
  (`NoFrameStraddles`). Before a later one the driver's gate opens on any decision that
  bears evidence of the first waypoint: the supervisor's timeout STOP, which repeats
  the last evidence id, or a late decision of the mission before. The priming frame may
  then be answered after the start.
* The start call may overtake the priming decision on its way to the orchestrator, which
  then moves on it. So a wrong-goal frame at the first goal may be judged when the second is up
  (`Overtaken` in `EndToEnd`).
* A frame that is lost blocks the driver until a watchdog of the pipeline ends the
  mission; an operator's pause while a goal drains is not undone by the resume; after
  a crash of the orchestrator `_start_emitted` keeps the driver from starting a mission
  again; a model that only ever asks for a closer view is asked for ever.
* The bridge whose worker has died still accepts a frame as evidence until its queue is
  full (`DeathOrphansTwoCaptures`), then drops all silently; the supervisor's watchdog is
  what stops the robot.

## 7. Not modelled

* HTTP clients and prompting: I/O; the bridge model lets the model answer anything
  or fail within the timeout. (A socket timeout bounds each read and not the whole
  exchange; the model takes it to bound the whole.)
* Velocity clamping, report rendering, hashing, parameter validation, logging, the
  driver's closing statistics.
* The reporter's deduplication of a message received twice, and its rendering.
* The end-to-end test harness: it waits for messages and compares files.
* Statistics over repeated runs and latencies, command lines, data set scripts.
* Long delays between the nodes in the composition, and more than one frame under way
  (the driver sends one at a time): the single nodes' modules cover both.

## 8. Plan

Done: every component above is modelled; every safety property that a run checks of a
single component is proved, and of the composed pipeline those of its authority chain and of
what its first report records.

Next, in this order:

1. `ArrivalsAreEarned`, for which the condition on the driver's options and the model's
   readings is to be found under which a stop cannot be followed by motion to the same goal.
2. A composition with delays between the nodes, implementing an abstract "moves only
   on what it has recently seen", in which the picture the controller moves on can be
   compared with the one the orchestrator granted motion on.
3. The reporter's deduplication.
