------------------------------ MODULE SiteMission ------------------------------
(***************************************************************************)
(* The simulated mission: run_site_safety_mission (mission.py), which has  *)
(* the SiteSafetyAgent choose an action for each assessment, the           *)
(* SafetyGate validate it and the robot carry it out, and the mock robot   *)
(* it drives (simulation.py).  One action per call the loop makes, each of *)
(* which may raise; the finally clause runs whatever happened.             *)
(*                                                                         *)
(* An assessment is what the loop uses of it: the waypoint it speaks of    *)
(* and the action resolve_safe_action makes of it (SafetyPolicy).          *)
(***************************************************************************)
EXTENDS Integers, Sequences, FiniteSets, SequencesExt

CONSTANTS Required,      \* required_waypoints: the route, and the gate's allowed set
          MaxViews,      \* max_views_per_waypoint
          MaxSteps,      \* the largest max_steps a run is given
          Elsewhere,     \* a waypoint an assessment may name that is not the frame's
          None           \* Python's None

ASSUME RouteAssumption ==
  /\ Required \in Seq(ToSet(Required)) /\ Required # <<>> /\ IsInjective(Required)
  /\ Elsewhere \notin ToSet(Required) /\ None \notin ToSet(Required)
ASSUME LimitAssumption == MaxViews \in Nat \ {0} /\ MaxSteps \in Nat \ {0}

Waypoints == ToSet(Required)
SafeActions == {"PROCEED", "SLOW_DOWN", "STOP", "REROUTE", "INSPECT_CLOSER"}
Kinds == {"move", "inspect", "report", "stop"}
Statuses == {"completed", "safety_stop", "validation_failure", "runtime_failure",
             "step_limit"}
Speeds == {"full", "slow", "reroute"}
NoAction == [kind |-> "stop", target |-> None, speed |-> None]
Assessed == [waypoint : Waypoints, action : SafeActions]
Chosen == [kind : Kinds, target : Waypoints \cup {None}, speed : Speeds \cup {None}]

VARIABLES
  pc,            \* what the loop does next
  max_steps,     \* the parameter of the run
  steps,         \* iterations begun
  assessment,    \* the validated assessment in hand
  action,        \* the agent's last choice
  visited,       \* agent.visited_waypoints
  views,         \* agent.view_counts
  position,      \* robot.current_waypoint
  blocked,       \* robot.blocked_waypoints
  stopped,       \* robot.stopped
  status,
  judged         \* history: the safe action of the last assessment of each waypoint

robot == <<position, blocked, stopped>>
agent == <<visited, views>>
vars == <<pc, max_steps, steps, assessment, action, agent, robot, status, judged>>

TypeOK ==
  /\ pc \in {"reset", "analyze", "choose", "act", "finally", "returned"}
  /\ max_steps \in 1 .. MaxSteps /\ steps \in 0 .. max_steps
  /\ assessment \in Assessed \cup {None}
  /\ action \in Chosen
  /\ visited \subseteq Waypoints
  /\ views \in [Waypoints -> 0 .. MaxViews]
  /\ position \in Waypoints /\ blocked \subseteq Waypoints
  /\ stopped \in BOOLEAN
  /\ status \in Statuses
  /\ judged \in [Waypoints -> SafeActions \cup {None}]

\* The robot may come from an earlier mission: anywhere, and stopped.
Init ==
  /\ pc = "reset" /\ steps = 0 /\ max_steps \in 1 .. MaxSteps
  /\ assessment = None /\ action = NoAction
  /\ visited = {} /\ views = [w \in Waypoints |-> 0]
  /\ position \in Waypoints /\ stopped \in BOOLEAN
  /\ blocked \in SUBSET Waypoints
  /\ status = "step_limit"
  /\ judged = [w \in Waypoints |-> None]

-----------------------------------------------------------------------------
Fail(what) == pc' = "finally" /\ status' = what

\* Any call to a port may raise, before it does what it was asked to.
Raises == Fail("runtime_failure")

Reset ==
  /\ pc = "reset"
  /\ \/ Raises /\ UNCHANGED robot
     \/ /\ pc' = "analyze"
        /\ position' = Required[1] /\ stopped' = FALSE
        /\ UNCHANGED <<status, blocked>>
  /\ UNCHANGED <<max_steps, steps, assessment, action, agent, judged>>

\* An assessment that speaks of another frame is an error.
BrokenMatches(waypoint) == waypoint \in Waypoints   \* MovesAsJudged
Matches(waypoint) == waypoint = position

Analyze(waypoint, safe) ==
  /\ pc = "analyze"
  /\ \/ Raises /\ UNCHANGED assessment
     \/ ~Matches(waypoint) /\ Raises /\ UNCHANGED assessment
     \/ /\ Matches(waypoint)
        /\ assessment' = [waypoint |-> waypoint, action |-> safe]
        /\ pc' = "choose"
        /\ UNCHANGED status
  /\ UNCHANGED <<max_steps, steps, action, agent, robot, judged>>

-----------------------------------------------------------------------------
\* SiteSafetyAgent.choose_action.

Unvisited(seen) == {i \in DOMAIN Required : Required[i] \notin seen}
NextWaypoint(seen) == IF Unvisited(seen) = {} THEN None ELSE Required[Min(Unvisited(seen))]

Halt == [kind |-> "stop", target |-> None, speed |-> None]
Report == [kind |-> "report", target |-> None, speed |-> None]
Inspect(w) == [kind |-> "inspect", target |-> w, speed |-> None]
Move(w, speed) == [kind |-> "move", target |-> w, speed |-> speed]

BrokenMayLookAgain(count) == count <= MaxViews     \* StepLimitIsAShortage
MayLookAgain(count) == count < MaxViews

Pace == [PROCEED |-> "full", SLOW_DOWN |-> "slow", REROUTE |-> "reroute"]
BrokenOnward(safe, next) ==                        \* CompletedMeansCovered: a blocked
  IF next # None THEN Move(next, Pace[safe]) ELSE Report   \* end is reported
Onward(safe, next) ==
  IF next # None THEN Move(next, Pace[safe])
  ELSE IF safe = "REROUTE" THEN Halt ELSE Report

Choice(seen, count, a) ==
  CASE a.action = "STOP"           -> Halt
    [] a.action = "INSPECT_CLOSER" -> IF MayLookAgain(count) THEN Inspect(a.waypoint) ELSE Halt
    [] OTHER                       -> Onward(a.action, NextWaypoint(seen))

\* SafetyGate.validate.
Allowed(a) ==
  CASE a.kind = "move"    -> a.target \in Waypoints \ blocked
    [] a.kind = "inspect" -> a.target = position
    [] a.kind = "report"  -> Waypoints \subseteq visited'
    [] OTHER              -> TRUE

EndOf == [stop |-> "safety_stop", report |-> "completed"]

\* One iteration up to the robot's part in it: observe, choose, validate.
Choose ==
  LET a == assessment
      seen == visited \cup {a.waypoint}
      count == views[a.waypoint] + 1
  IN
  /\ pc = "choose" /\ steps < max_steps
  /\ steps' = steps + 1
  /\ visited' = seen
  /\ views' = [views EXCEPT ![a.waypoint] = count]
  /\ judged' = [judged EXCEPT ![a.waypoint] = a.action]
  /\ action' = Choice(seen, count, a)
  /\ \/ ~Allowed(action') /\ Fail("validation_failure")
     \/ Allowed(action') /\ action'.kind \in {"stop", "report"} /\ Fail(EndOf[action'.kind])
     \/ /\ Allowed(action') /\ action'.kind \in {"move", "inspect"}
        /\ pc' = "act" /\ UNCHANGED status
  /\ UNCHANGED <<max_steps, assessment, robot>>

\* The for loop is exhausted: the assessment in hand is not acted on.
Exhausted ==
  /\ pc = "choose" /\ steps = max_steps
  /\ pc' = "finally"
  /\ UNCHANGED <<max_steps, steps, assessment, action, agent, robot, status, judged>>

-----------------------------------------------------------------------------
\* The mock robot refuses to run once stopped, and to enter what is blocked.
RobotMay ==
  ~stopped /\ (action.kind = "move" => action.target \notin blocked)

Act ==
  /\ pc = "act"
  /\ \/ Raises /\ UNCHANGED position
     \/ /\ RobotMay
        /\ position' = IF action.kind = "move" THEN action.target ELSE position
        /\ pc' = "analyze" /\ UNCHANGED status
  /\ UNCHANGED <<max_steps, steps, assessment, action, agent, blocked, stopped, judged>>

\* A stop that raises leaves the robot as it is and the mission failed.
BrokenFinally ==                                   \* ReturnsStopped: a lost failure
  /\ pc = "finally" /\ pc' = "returned"
  /\ stopped' \in {TRUE, stopped} /\ UNCHANGED status
  /\ UNCHANGED <<max_steps, steps, assessment, action, agent, position, blocked, judged>>
Finally ==
  /\ pc = "finally" /\ pc' = "returned"
  /\ \/ stopped' = TRUE /\ UNCHANGED status
     \/ status' = "runtime_failure" /\ UNCHANGED stopped
  /\ UNCHANGED <<max_steps, steps, assessment, action, agent, position, blocked, judged>>

Next ==
  \/ Reset
  \/ \E waypoint \in Waypoints \cup {Elsewhere}, safe \in SafeActions : Analyze(waypoint, safe)
  \/ Choose \/ Exhausted \/ Act \/ Finally

\* A sequential program does not stop in the middle, and the ports return.
Spec == Init /\ [][Next]_vars /\ WF_vars(Next)

-----------------------------------------------------------------------------
\* Every run returns, whichever call raises, and by then has stopped the robot or
\* says that something failed.
ReturnsStopped ==
  <>(pc = "returned" /\ (stopped \/ status = "runtime_failure"))

\* A mission reported complete has assessed every required waypoint, none of them
\* in the end as a place to stop at or to look at again, and the last as passable.
CompletedMeansCovered ==
  status = "completed" =>
    /\ \A w \in Waypoints : judged[w] \in {"PROCEED", "SLOW_DOWN", "REROUTE"}
    /\ judged[position] # "REROUTE"

\* The robot moves only while the latest reading of where it stands allows it, at
\* the speed that reading calls for, to a waypoint it has not seen and that is
\* not blocked.
MovesAsJudged ==
  [][position' # position /\ pc # "reset" =>
       /\ assessment.waypoint = position
       /\ action.speed = [PROCEED |-> "full", SLOW_DOWN |-> "slow",
                          REROUTE |-> "reroute"][judged[position]]
       /\ position' \notin blocked \cup visited]_vars

\* A mission given a step for every view it may take never runs out of them.
StepLimitIsAShortage ==
  pc \in {"finally", "returned"} /\ status = "step_limit" =>
    max_steps < Len(Required) * MaxViews

=============================================================================
