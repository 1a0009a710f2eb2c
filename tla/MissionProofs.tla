---------------------------- MODULE MissionProofs ----------------------------
(***************************************************************************)
(* The safety properties of the mission state machine, for every route,    *)
(* every set of names and evidence and every timeout; then those of the    *)
(* orchestrator node that runs it: how old the observation may be on which *)
(* the robot moves, for every watchdog period and cache capacity as well;  *)
(* then those of the pipeline.  It sends each node only what the node      *)
(* knows (Wired, Pictured), so that it inherits the properties of the      *)
(* orchestrator, the supervisor and the motion controller; a withdrawn     *)
(* authority reaches the robot (Withdrawn); and the pipeline is primed     *)
(* before the first mission, so that no frame straddles the opening of its *)
(* report (Prepared).                                                      *)
(***************************************************************************)
EXTENDS EndToEnd, MissionRefinement, FiniteSetTheorems, SequenceTheorems, TLAPS

G == INSTANCE GateProofs WITH Timeout <- PolicyTimeout

\* The configured route: at least one waypoint, and each is a name.
LEMMA RouteFacts ==
  /\ Len(Waypoints) \in Nat /\ Len(Waypoints) >= 1 /\ 0 \in 0 .. Len(Waypoints)
  /\ Waypoints[1] \in Names
  /\ NoName \notin Names
BY WaypointsAssumption

\* The goal after any number of arrivals is a name, or none is left.
LEMMA NextGoalType ==
  ASSUME NEW i \in Nat PROVE NextGoal(i) \in Names \cup {NoName}
<1>1. CASE i < Len(Waypoints)
  BY <1>1, WaypointsAssumption DEF NextGoal
<1>2. CASE ~(i < Len(Waypoints))
  BY <1>2 DEF NextGoal
<1>3. QED
  BY <1>1, <1>2

\* Whatever an operation returns is a TransitionResult.
LEMMA ReturnType ==
  ASSUME NEW accepted \in BOOLEAN, NEW effects \in SUBSET Effects,
         Return(accepted, effects)
  PROVE  result' \in Results
BY DEF Return, Results

\* Every step leaves a TransitionResult as the last one returned.
LEMMA ResultStep == TypeOK /\ [Next]_vars => result' \in Results
<1> SUFFICES ASSUME TypeOK, [Next]_vars PROVE result' \in Results
  OBVIOUS
<1>1. result' = result \/ \E accepted \in BOOLEAN, effects \in SUBSET Effects :
                             Return(accepted, effects)
  <2> USE DEF Effects, Reject, SafetyStop
  <2>1. CASE Start \/ Pause \/ Abort \/ Reset
    BY <2>1 DEF Start, Pause, Abort, Reset
  <2>2. CASE Resume
    BY <2>2 DEF Resume
  <2>3. CASE SwitchEmergencyStop
    BY <2>3 DEF SwitchEmergencyStop, SetEmergencyStop
  <2>4. CASE Decide
    BY <2>4 DEF Decide, ApplyPolicy, ApplyMismatch, ApplyStop, ApplyInspectCloser,
                ApplyReroute, ApplyMotion
  <2>5. CASE Report \/ Retarget
    BY <2>5 DEF Report, WaypointReached, Arrive, Retarget, SetRerouteTarget
  <2>6. CASE Watchdog \/ Tick \/ UNCHANGED vars
    BY <2>6 DEF Watchdog, Tick, vars
  <2>7. QED
    BY <2>1, <2>2, <2>3, <2>4, <2>5, <2>6 DEF Next, NextButResume
<1>2. QED
  BY <1>1, ReturnType DEF TypeOK

\* Type correctness: the machine's fields keep their types, and only a mission
\* that is over (or stopped after its end) has run out of waypoints.
LEMMA TypeStep == TypeOK /\ [Next]_vars => TypeOK'
<1> SUFFICES ASSUME TypeOK, [Next]_vars PROVE TypeOK'
  OBVIOUS
<1> USE RouteFacts, TimeoutAssumption, NoneAssumption
<1> USE DEF States, Deaf, Halted, Ages, Transition, SafetyStop, Reject, ForgetPolicy,
            progress, policy
<1>0. result' \in Results
  BY ResultStep
<1>1. CASE Start
  <2>1. CASE Reject
    BY <1>0, <2>1 DEF TypeOK
  <2>2. CASE ~Reject
    <3>1. /\ state' = "WAITING_FOR_POLICY" /\ motion_authorized' = FALSE
          /\ waypoint_index' = 0 /\ active_goal' = Waypoints[1]
          /\ last_evidence_id' = NoName /\ policy_age' = None
          /\ policy_allows_motion' = FALSE /\ reroute_age' = None
          /\ emergency_stop_active' = emergency_stop_active
      BY <1>1, <2>2 DEF Start
    <3>2. (waypoint_index \in 0 .. Len(Waypoints))'
      BY <3>1
    <3>3. (waypoint_index < Len(Waypoints) \/ state \in Deaf)'
      BY <3>1
    <3>4. (active_goal \in Names \cup {NoName})'
      BY <3>1
    <3>5. QED
      BY <1>0, <3>1, <3>2, <3>3, <3>4 DEF TypeOK
  <2>3. QED
    BY <2>1, <2>2
<1>2. CASE Pause
  BY <1>0, <1>2 DEF TypeOK, Pause, Pausable
<1>3. CASE Resume
  BY <1>0, <1>3 DEF TypeOK, Resume
<1>4. CASE Abort
  BY <1>0, <1>4 DEF TypeOK, Abort
<1>5. CASE Reset
  BY <1>0, <1>5 DEF TypeOK, Reset
<1>6. CASE SwitchEmergencyStop
  BY <1>0, <1>6 DEF TypeOK, SwitchEmergencyStop, SetEmergencyStop, ClearEmergencyStop
<1>7. CASE Decide
  <2>1. PICK action \in Actions, status \in Statuses,
             evidence \in Evidence \cup {NoName}, age \in 0 .. PolicyTimeout :
               ApplyPolicy(action, status, evidence, age)
    BY <1>7 DEF Decide
  <2>2. CASE Reject
    BY <1>0, <2>2 DEF TypeOK
  <2>3. CASE ~Reject
    <3>1. UNCHANGED <<waypoint_index, active_goal, emergency_stop_active>>
          /\ state \notin Deaf
      BY <2>1, <2>3 DEF ApplyPolicy
    <3>2. CASE ApplyMismatch
      BY <1>0, <3>1, <3>2 DEF TypeOK, ApplyMismatch, ForbidMotion
    <3>3. CASE ~ApplyMismatch
      <4>1. last_evidence_id' = evidence /\ policy_age' = age
        BY <2>1, <2>3, <3>3 DEF ApplyPolicy
      <4>2. ApplyStop \/ ApplyInspectCloser \/ ApplyReroute \/ ApplyMotion
        BY <2>1, <2>3, <3>3 DEF ApplyPolicy
      <4>3. /\ state' \in States /\ motion_authorized' \in BOOLEAN
            /\ policy_allows_motion' \in BOOLEAN
            /\ reroute_age' \in {0, reroute_age}
        BY <4>2 DEF TypeOK, ApplyStop, ApplyInspectCloser, ApplyReroute, ApplyMotion,
                    ForbidMotion, HoldsPermission
      <4>4. QED
        BY <1>0, <3>1, <4>1, <4>3 DEF TypeOK
    <3>4. QED
      BY <3>2, <3>3
  <2>4. QED
    BY <2>2, <2>3
<1>8. CASE Report
  <2>1. CASE Arrive /\ state = "MOVING"
    <3>1. waypoint_index + 1 \in 0 .. Len(Waypoints)
      BY <2>1 DEF TypeOK
    <3>2. NextGoal(waypoint_index + 1) \in Names \cup {NoName}
      BY <3>1, NextGoalType
    <3>3. /\ (waypoint_index \in 0 .. Len(Waypoints))'
          /\ (active_goal \in Names \cup {NoName})'
      BY <2>1, <3>1, <3>2 DEF Arrive
    <3>4. (waypoint_index < Len(Waypoints) \/ state \in Deaf)'
      <4>1. CASE RouteIsDone(waypoint_index + 1)
        BY <2>1, <4>1 DEF Arrive
      <4>2. CASE ~RouteIsDone(waypoint_index + 1)
        BY <2>1, <3>1, <4>2 DEF Arrive, RouteIsDone
      <4>3. QED
        BY <4>1, <4>2
    <3>5. /\ state' \in States /\ motion_authorized' = FALSE
          /\ last_evidence_id' = NoName /\ policy_age' = None
          /\ policy_allows_motion' = FALSE
          /\ UNCHANGED <<reroute_age, emergency_stop_active>>
      BY <2>1 DEF Arrive
    <3>6. QED
      BY <1>0, <3>3, <3>4, <3>5 DEF TypeOK
  <2>2. CASE ~(Arrive /\ state = "MOVING")
    BY <1>0, <1>8, <2>2 DEF TypeOK, Report, WaypointReached
  <2>3. QED
    BY <2>1, <2>2
<1>9. CASE Retarget
  BY <1>0, <1>9 DEF TypeOK, Retarget, SetRerouteTarget, AdoptTarget
<1>10. CASE Watchdog
  BY <1>0, <1>10 DEF TypeOK, Watchdog, ForbidMotion, PolicyExpired, RerouteExpired
<1>11. CASE Tick
  BY <1>0, <1>11 DEF TypeOK, Tick, Older
<1>12. CASE UNCHANGED vars
  BY <1>12 DEF TypeOK, vars
<1>13. QED
  BY <1>1, <1>2, <1>3, <1>4, <1>5, <1>6, <1>7, <1>8, <1>9, <1>10, <1>11, <1>12
  DEF Next, NextButResume

\* A machine just built is well typed.
LEMMA InitType == Init => TypeOK
<1> SUFFICES ASSUME Init PROVE TypeOK
  OBVIOUS
<1>1. result \in Results
  BY DEF Init, Results
<1>2. QED
  BY <1>1, RouteFacts DEF Init, TypeOK, States, Deaf

\* The machine's type invariant holds in every behaviour.
THEOREM TypeCorrect == Spec => []TypeOK
BY InitType, TypeStep, PTL DEF Spec

-----------------------------------------------------------------------------
\* An operation authorises motion, which takes the machine to MOVING on a stored
\* permission, or withdraws it, which leaves MOVING, or touches neither.
LEMMA AuthorizationStep ==
  ASSUME TypeOK, [Next]_vars
  PROVE  \/ motion_authorized' = TRUE /\ state' = "MOVING" /\ policy_allows_motion' = TRUE
         \/ motion_authorized' = FALSE /\ state' # "MOVING"
         \/ UNCHANGED <<state, motion_authorized, policy_allows_motion>>
<1> USE DEF Transition, SafetyStop, Reject, ForgetPolicy, policy, Deaf
<1>1. CASE Start \/ Pause \/ Abort \/ Reset
  BY <1>1 DEF Start, Pause, Abort, Reset
<1>2. CASE Resume
  <2>1. CASE MayMoveAtOnce
    <3>1. policy_allows_motion = TRUE
      BY <2>1 DEF TypeOK, MayMoveAtOnce
    <3>2. QED
      BY <1>2, <3>1 DEF Resume
  <2>2. CASE ~MayMoveAtOnce
    BY <1>2, <2>2 DEF Resume
  <2>3. QED
    BY <2>1, <2>2
<1>3. CASE SwitchEmergencyStop
  BY <1>3 DEF SwitchEmergencyStop, SetEmergencyStop, ClearEmergencyStop
<1>4. CASE Decide
  BY <1>4, Zenon DEF Decide, ApplyPolicy, ApplyMismatch, ApplyStop,
     ApplyInspectCloser, ApplyReroute, ApplyMotion, ForbidMotion, HoldsPermission
<1>5. CASE Report \/ Retarget
  BY <1>5 DEF Report, WaypointReached, Arrive, Retarget, SetRerouteTarget, AdoptTarget
<1>6. CASE Watchdog \/ Tick \/ UNCHANGED vars
  BY <1>6 DEF Watchdog, Tick, vars
<1>7. QED
  BY <1>1, <1>2, <1>3, <1>4, <1>5, <1>6 DEF Next, NextButResume

Pressed == emergency_stop_active = TRUE
OutOfReach == state \in {"EMERGENCY_STOPPED", "ABORTED"}

\* A pressed emergency stop keeps the machine where nothing can authorise motion.
LEMMA PressedStep ==
  ASSUME TypeOK, Pressed => OutOfReach, [Next]_vars
  PROVE  (Pressed => OutOfReach)'
<1> USE DEF Pressed, OutOfReach, Transition, SafetyStop, Reject, Deaf, TypeOK
<1>1. CASE Start \/ Pause \/ Abort \/ Reset
  BY <1>1 DEF Start, Pause, Pausable, Abort, Reset, ResetRefused
<1>2. CASE Resume
  BY <1>2 DEF Resume, Halted
<1>3. CASE SwitchEmergencyStop
  BY <1>3 DEF SwitchEmergencyStop, SetEmergencyStop, ClearEmergencyStop
<1>4. CASE Decide
  <2>1. UNCHANGED <<state, emergency_stop_active>> \/ state \notin Deaf
    BY <1>4 DEF Decide, ApplyPolicy
  <2>2. UNCHANGED emergency_stop_active
    BY <1>4 DEF Decide, ApplyPolicy
  <2>3. QED
    BY <2>1, <2>2
<1>5. CASE Report \/ Retarget
  BY <1>5 DEF Report, WaypointReached, Arrive, Retarget, SetRerouteTarget
<1>6. CASE Watchdog \/ Tick \/ UNCHANGED vars
  BY <1>6 DEF Watchdog, PolicyExpired, RerouteExpired, Tick, vars
<1>7. QED
  BY <1>1, <1>2, <1>3, <1>4, <1>5, <1>6 DEF Next, NextButResume

\* No operation breaks the latch: a pressed emergency stop is only ever left by
\* aborting, and what authorises motion also records that it did.
LEMMA LatchStep ==
  TypeOK /\ EmergencyStopIsLatched /\ [Next]_vars => EmergencyStopIsLatched'
<1> SUFFICES ASSUME TypeOK, EmergencyStopIsLatched, [Next]_vars
             PROVE  EmergencyStopIsLatched'
  OBVIOUS
<1>1. TypeOK'
  BY TypeStep
<1>2. (motion_authorized <=> state = "MOVING")'
  BY <1>1, AuthorizationStep DEF TypeOK, EmergencyStopIsLatched
<1>3. (motion_authorized => policy_allows_motion)'
  BY <1>1, AuthorizationStep DEF TypeOK, EmergencyStopIsLatched
<1>4. (Pressed => OutOfReach)'
  BY PressedStep DEF EmergencyStopIsLatched, Pressed, OutOfReach
<1>5. QED
  BY <1>1, <1>2, <1>3, <1>4 DEF TypeOK, EmergencyStopIsLatched, Pressed, OutOfReach

\* No operation leaves a permission behind that was given for another goal.
LEMMA PermissionStep ==
  TypeOK /\ PermissionIsForTheGoal /\ [Next]_vars => PermissionIsForTheGoal'
<1> SUFFICES ASSUME TypeOK, PermissionIsForTheGoal, [Next]_vars
             PROVE  PermissionIsForTheGoal'
  OBVIOUS
<1> USE NoneAssumption DEF PermissionIsForTheGoal, EvidenceMatchesActiveGoal,
        Transition, SafetyStop, Reject, ForgetPolicy, progress, policy
<1>1. CASE Start \/ Pause \/ Abort \/ Reset
  BY <1>1 DEF Start, Pause, Abort, Reset
<1>2. CASE Resume
  BY <1>2 DEF Resume
<1>3. CASE SwitchEmergencyStop
  BY <1>3 DEF SwitchEmergencyStop, SetEmergencyStop, ClearEmergencyStop
<1>4. CASE Decide
  <2>1. PICK action \in Actions, status \in Statuses,
             evidence \in Evidence \cup {NoName}, age \in 0 .. PolicyTimeout :
               ApplyPolicy(action, status, evidence, age)
    BY <1>4 DEF Decide
  <2>2. CASE Reject
    BY <2>2
  <2>3. CASE ~Reject /\ ApplyMismatch
    BY <2>3 DEF ApplyMismatch, ForbidMotion
  <2>4. CASE ~Reject /\ ~ApplyMismatch
    <3>1. /\ active_goal # NoName /\ evidence # NoName /\ IsStrictPrefix(SafeName[active_goal], evidence)
          /\ last_evidence_id' = evidence /\ policy_age' = age /\ UNCHANGED active_goal
      BY <2>1, <2>4 DEF ApplyPolicy
    <3>2. QED
      BY <3>1
  <2>5. QED
    BY <2>2, <2>3, <2>4
<1>5. CASE Report \/ Retarget
  BY <1>5 DEF Report, WaypointReached, Arrive, Retarget, SetRerouteTarget, AdoptTarget
<1>6. CASE Watchdog
  BY <1>6 DEF Watchdog, ForbidMotion
<1>7. CASE Tick
  <2>1. policy_age' # None \/ UNCHANGED policy_age
    BY <1>7 DEF TypeOK, Tick, Older, Ages
  <2>2. QED
    BY <1>7, <2>1 DEF Tick
<1>8. CASE UNCHANGED vars
  BY <1>8 DEF vars
<1>9. QED
  BY <1>1, <1>2, <1>3, <1>4, <1>5, <1>6, <1>7, <1>8 DEF Next, NextButResume

\* What every reachable state of the machine satisfies.
Safe == TypeOK /\ EmergencyStopIsLatched /\ PermissionIsForTheGoal

\* Safe is inductive.
LEMMA SafeAlways == Spec => []Safe
<1>1. ASSUME Init PROVE Safe
  <2>1. TypeOK
    BY <1>1, InitType
  <2>2. EmergencyStopIsLatched /\ PermissionIsForTheGoal
    BY <1>1 DEF Init, EmergencyStopIsLatched, PermissionIsForTheGoal
  <2>3. QED
    BY <2>1, <2>2 DEF Safe
<1>2. Safe /\ [Next]_vars => Safe'
  BY TypeStep, LatchStep, PermissionStep DEF Safe
<1>3. QED
  BY <1>1, <1>2, PTL DEF Spec

\* While the emergency stop is pressed the mission stays stopped, and the
\* authorization flag is up exactly in MOVING.
THEOREM EmergencyStopLatched == Spec => []EmergencyStopIsLatched
BY SafeAlways, PTL DEF Safe

\* A stored permission always rests on evidence for the current goal.
THEOREM PermissionSound == Spec => []PermissionIsForTheGoal
BY SafeAlways, PTL DEF Safe

-----------------------------------------------------------------------------
\* MOVING is entered only by an operation that has just seen the policy fresh.
LEMMA FreshStart ==
  ASSUME TypeOK, [Next]_vars, state # "MOVING", state' = "MOVING"
  PROVE  PolicyIsFresh'
<1> USE NoneAssumption, TimeoutAssumption
<1> USE DEF Transition, SafetyStop, Reject, policy
<1>1. CASE Resume
  BY <1>1 DEF Resume, MayMoveAtOnce, PolicyIsFresh
<1>2. CASE Decide
  <2>1. PICK action \in Actions, status \in Statuses,
             evidence \in Evidence \cup {NoName}, age \in 0 .. PolicyTimeout :
               ApplyPolicy(action, status, evidence, age)
    BY <1>2 DEF Decide
  <2>2. policy_age' = age
    BY <2>1 DEF ApplyPolicy, ApplyMismatch
  <2>3. QED
    BY <2>2 DEF PolicyIsFresh
<1>3. CASE Start \/ Pause \/ Abort \/ Reset \/ SwitchEmergencyStop
  BY <1>3 DEF Start, Pause, Abort, Reset, SwitchEmergencyStop, SetEmergencyStop,
              ClearEmergencyStop
<1>4. CASE Report \/ Retarget
  BY <1>4 DEF Report, WaypointReached, Arrive, Retarget, SetRerouteTarget
<1>5. CASE Watchdog \/ Tick \/ UNCHANGED vars
  BY <1>5 DEF Watchdog, Tick, vars
<1>6. QED
  BY <1>1, <1>2, <1>3, <1>4, <1>5 DEF Next, NextButResume

\* Whatever makes the robot move does it on an observation within the timeout.
THEOREM MotionStartsFreshAlways == Spec => MotionStartsFresh
<1>1. TypeOK /\ [Next]_vars =>
        [state # "MOVING" /\ state' = "MOVING" => PolicyIsFresh']_vars
  BY FreshStart
<1>2. QED
  BY <1>1, TypeCorrect, PTL DEF Spec, MotionStartsFresh

\* The operations that take the machine out of MOVING.
LEMMA LoudEnd ==
  ASSUME TypeOK, [Next]_vars, state = "MOVING", state' # "MOVING"
  PROVE  "cancel" \in result'.effects \/ Arrive
<1> USE DEF Transition, SafetyStop, Reject, Return
<1>1. CASE Resume \/ Start
  BY <1>1 DEF Resume, Halted, Start
<1>2. CASE Pause \/ Abort \/ Reset
  BY <1>2 DEF Pause, Abort, Reset
<1>3. CASE SwitchEmergencyStop
  BY <1>3 DEF SwitchEmergencyStop, SetEmergencyStop, ClearEmergencyStop
<1>4. CASE Decide
  BY <1>4 DEF Decide, ApplyPolicy, ApplyMismatch, ApplyStop, ApplyInspectCloser,
              ApplyReroute, ApplyMotion
<1>5. CASE Report \/ Retarget
  BY <1>5 DEF Report, WaypointReached, Retarget, SetRerouteTarget
<1>6. CASE Watchdog \/ Tick \/ UNCHANGED vars
  BY <1>6 DEF Watchdog, Tick, vars
<1>7. QED
  BY <1>1, <1>2, <1>3, <1>4, <1>5, <1>6 DEF Next, NextButResume

\* Motion never ends without a cancellation, save by an accepted arrival.
THEOREM MotionEndsWithCancelAlways == Spec => MotionEndsWithCancel
<1>1. TypeOK /\ [Next]_vars =>
        [state = "MOVING" /\ state' # "MOVING" =>
           "cancel" \in result'.effects \/ Arrive]_vars
  BY LoudEnd
<1>2. QED
  BY <1>1, TypeCorrect, PTL DEF Spec, MotionEndsWithCancel

\* The operations that take the machine out of PAUSED or SAFETY_STOPPED.
LEMMA KnowingLift ==
  ASSUME TypeOK, [Next]_vars, state \in Halted, state' \notin Halted \cup Deaf
  PROVE  Resume \/ result'.effects \cap {"closer_view", "reroute"} # {}
<1> USE DEF Transition, SafetyStop, Reject, Return, Halted, Deaf
<1>1. CASE Start \/ Pause \/ Abort \/ Reset
  BY <1>1 DEF Start, Pause, Abort, Reset
<1>2. CASE SwitchEmergencyStop
  BY <1>2 DEF SwitchEmergencyStop, SetEmergencyStop, ClearEmergencyStop
<1>3. CASE Decide
  BY <1>3 DEF Decide, ApplyPolicy, ApplyMismatch, ApplyStop, ApplyInspectCloser,
              ApplyReroute, ApplyMotion, HoldsPermission
<1>4. CASE Report \/ Retarget
  BY <1>4 DEF Report, WaypointReached, Retarget, SetRerouteTarget
<1>5. CASE Watchdog \/ Tick \/ UNCHANGED vars
  BY <1>5 DEF Watchdog, Tick, vars
<1>6. QED
  BY <1>1, <1>2, <1>3, <1>4, <1>5 DEF Next, NextButResume

\* A halted mission revives on a resume, or on a decision that asks for a closer
\* view or a new route.
THEOREM StopsAreLiftedKnowinglyAlways == Spec => StopsAreLiftedKnowingly
<1>1. TypeOK /\ [Next]_vars =>
        [(state \in Halted /\ state' \notin Halted \cup Deaf) =>
           (Resume \/ result'.effects \cap {"closer_view", "reroute"} # {})]_vars
  BY KnowingLift
<1>2. QED
  BY <1>1, TypeCorrect, PTL DEF Spec, StopsAreLiftedKnowingly

-----------------------------------------------------------------------------
\* Every step of the machine is a step of the lifecycle, or none.
LEMMA LifecycleStep ==
  ASSUME TypeOK, [Next]_vars
  PROVE  [Lifecycle!Next]_<<Phase, waypoint_index>>
<1> USE DEF Transition, SafetyStop, Reject, progress, Phase
<1>1. CASE Start
  BY <1>1 DEF Start, Lifecycle!Next, Lifecycle!Begin
<1>2. CASE Pause
  BY <1>2 DEF Pause, Pausable, Lifecycle!Next, Lifecycle!Hold
<1>3. CASE Resume
  BY <1>3 DEF Resume, Halted, Lifecycle!Next, Lifecycle!Go
<1>4. CASE Abort
  BY <1>4 DEF TypeOK, States, Abort, Lifecycle!Next, Lifecycle!Abandon
<1>5. CASE Reset
  BY <1>5 DEF Reset, Lifecycle!Next, Lifecycle!Reset
<1>6. CASE SwitchEmergencyStop
  BY <1>6 DEF SwitchEmergencyStop, SetEmergencyStop, ClearEmergencyStop, Lifecycle!Next,
              Lifecycle!EmergencyStop
<1>7. CASE Decide
  <2>1. PICK action \in Actions, status \in Statuses,
             evidence \in Evidence \cup {NoName}, age \in 0 .. PolicyTimeout :
               ApplyPolicy(action, status, evidence, age)
    BY <1>7 DEF Decide
  <2>2. CASE Reject
    BY <2>2
  <2>3. CASE ~Reject
    <3>1. UNCHANGED waypoint_index /\ Phase \in {"held", "moving"}
      BY <2>1, <2>3 DEF ApplyPolicy, Deaf, TypeOK, States
    <3>2. Phase' \in {"held", "moving"}
      BY <2>1, <2>3 DEF ApplyPolicy, ApplyMismatch, ApplyStop, ApplyInspectCloser,
                        ApplyReroute, ApplyMotion, HoldsPermission
    <3>3. QED
      BY <3>1, <3>2 DEF Lifecycle!Next, Lifecycle!Go, Lifecycle!Hold
  <2>4. QED
    BY <2>2, <2>3
<1>8. CASE Report
  <2>1. CASE state = "MOVING" /\ Arrive
    <3>1. /\ waypoint_index \in 0 .. Len(Waypoints) - 1
          /\ waypoint_index' = waypoint_index + 1 /\ Phase = "moving"
      BY <2>1, RouteFacts DEF TypeOK, Deaf, Arrive
    <3>2. CASE RouteIsDone(waypoint_index + 1)
      <4>1. Phase' = "over"
        BY <2>1, <3>2 DEF Arrive
      <4>2. waypoint_index + 1 = Len(Waypoints)
        BY <3>1, <3>2, RouteFacts DEF RouteIsDone
      <4>3. QED
        BY <3>1, <4>1, <4>2 DEF Lifecycle!Next, Lifecycle!Gain
    <3>3. CASE ~RouteIsDone(waypoint_index + 1)
      <4>1. Phase' = "held"
        BY <2>1, <3>3 DEF Arrive
      <4>2. waypoint_index + 1 < Len(Waypoints)
        BY <3>1, <3>3, RouteFacts DEF RouteIsDone
      <4>3. QED
        BY <3>1, <4>1, <4>2 DEF Lifecycle!Next, Lifecycle!Gain
    <3>4. QED
      BY <3>2, <3>3
  <2>2. CASE ~(state = "MOVING" /\ Arrive)
    BY <1>8, <2>2 DEF Report, WaypointReached, Lifecycle!Next, Lifecycle!Hold
  <2>3. QED
    BY <2>1, <2>2
<1>9. CASE Retarget
  BY <1>9 DEF Retarget, SetRerouteTarget
<1>10. CASE Watchdog
  BY <1>10 DEF Watchdog, PolicyExpired, RerouteExpired, Lifecycle!Next, Lifecycle!Hold
<1>11. CASE Tick \/ UNCHANGED vars
  BY <1>11 DEF Tick, vars
<1>12. QED
  BY <1>1, <1>2, <1>3, <1>4, <1>5, <1>6, <1>7, <1>8, <1>9, <1>10, <1>11
  DEF Next, NextButResume

\* The mission state machine implements the lifecycle, whatever its route.
THEOREM Refinement == Spec => KeepsTheLifecycle
<1>1. Init => Lifecycle!Init
  BY DEF Init, Lifecycle!Init, Phase
<1>2. TypeOK /\ [Next]_vars => [Lifecycle!Next]_<<Phase, waypoint_index>>
  BY LifecycleStep
<1>3. QED
  BY <1>1, <1>2, TypeCorrect, PTL DEF Spec, KeepsTheLifecycle, Lifecycle!Spec

-----------------------------------------------------------------------------
\* The orchestrator's gate is the one the lemmas on judgements are about.
LEMMA SameGate ==
  ASSUME NEW g, NEW stamp, NEW n, NEW m
  PROVE  /\ Gate!Judge(g, stamp, n, m) = G!Judge(g, stamp, n, m)
         /\ Gate!Judged(g, stamp, n, m) = G!Judged(g, stamp, n, m)
         /\ Gate!Gates = G!Gates
<1>1. \A h : Gate!Raise(h, n) = G!Raise(h, n)
  BY DEF Gate!Raise, G!Raise, Gate!Later, G!Later
<1>2. \A h : Gate!Prune(h, n, m) = G!Prune(h, n, m)
  BY <1>1 DEF Gate!Prune, G!Prune, Gate!Retained, G!Retained, Gate!Released, G!Released
<1>3. \A h : Gate!Remember(h, stamp, n, m) = G!Remember(h, stamp, n, m)
  <2>1. \A S : Gate!Cardinality(S) = G!Cardinality(S)
    BY DEF Gate!Cardinality, G!Cardinality
  <2> TAKE h
  <2> DEFINE p == Gate!Prune(h, n, m)
  <2>2. G!Prune(h, n, m) = p
    BY <1>2
  <2>3. G!Remember(h, stamp, n, m) =
          IF p.until # 0 THEN p
          ELSE IF G!Cardinality(p.future \cup {stamp}) <= MaxRejected
               THEN [p EXCEPT !.future = p.future \cup {stamp}]
               ELSE [p EXCEPT !.future = {}, !.until = m + 2 * PolicyTimeout]
    BY <2>2, Zenon DEF G!Remember
  <2>4. Gate!Remember(h, stamp, n, m) =
          IF p.until # 0 THEN p
          ELSE IF Gate!Cardinality(p.future \cup {stamp}) <= MaxRejected
               THEN [p EXCEPT !.future = p.future \cup {stamp}]
               ELSE [p EXCEPT !.future = {}, !.until = m + 2 * PolicyTimeout]
    BY DEF Gate!Remember
  <2> HIDE DEF p
  <2> QED
    BY <2>1, <2>3, <2>4
<1>4. \A h : Gate!Prolong(h, stamp, n, m) = G!Prolong(h, stamp, n, m)
  BY DEF Gate!Prolong, G!Prolong, Gate!Later, G!Later
<1>5. \A h : Gate!Verdict(h, stamp, n) = G!Verdict(h, stamp, n)
  BY DEF Gate!Verdict, G!Verdict, Gate!Remembered, G!Remembered, Gate!Blocked, G!Blocked,
         Gate!Malformed, G!Malformed
<1>6. \A h, v : Gate!After(h, v, stamp, n, m) = G!After(h, v, stamp, n, m)
  BY <1>1, <1>3 DEF Gate!After, G!After, Gate!Admit, G!Admit, Gate!RefuseRemembered,
                    G!RefuseRemembered
<1>7. Gate!SeenBy(g, stamp, n, m) = G!SeenBy(g, stamp, n, m)
  BY <1>2, <1>4 DEF Gate!SeenBy, G!SeenBy, Gate!Malformed, G!Malformed
<1> QED
  BY <1>5, <1>6, <1>7 DEF Gate!Judge, G!Judge, Gate!Judged, G!Judged, Gate!Gates, G!Gates

\* A judgement admits a timely observation newer than the last, or leaves that be.
LEMMA DecisionFacts ==
  ASSUME NEW g \in Gate!Gates, NEW stamp \in {Gate!Malformed} \cup Nat, NEW n \in Nat
  PROVE  LET v == Gate!Judge(g, stamp, n, n)
             j == Gate!Judged(g, stamp, n, n)
         IN  /\ j \in Gate!Gates
             /\ v = "admitted" =>
                  j.last = stamp /\ stamp > g.last /\ stamp <= n /\ n - stamp <= PolicyTimeout
             /\ v # "admitted" => j.last = g.last
<1>1. g \in G!Gates /\ stamp \in G!Observed
  BY DEF G!Gates, G!Observed, Gate!Gates, Gate!Malformed, G!Malformed
<1>2. PolicyTimeout \in Nat \ {0} /\ MaxRejected \in Nat
  BY TimeoutAssumption, PeriodAssumption
<1> QED
  BY <1>1, <1>2, SameGate, G!JudgedFacts

-----------------------------------------------------------------------------
\* The node's own fields are well formed, and what it has admitted is past.
NodeOK ==
  /\ gate \in Gate!Gates /\ now \in Nat /\ watchdog_due \in 0 .. WatchdogPeriod
  /\ gate.last <= now

\* What was fresh when the watchdog last looked has grown older since then only by
\* as much as its timer has run.
InTime ==
  state = "MOVING" =>
    now - gate.last <= PolicyTimeout + (WatchdogPeriod - watchdog_due)

\* What every reachable state of the node satisfies.
NSafe ==
  TypeOK /\ EmergencyStopIsLatched /\ NodeOK /\ PermissionIsTheNewest /\ InTime

\* The arithmetic facts the constants and the node's fields bring to every step.
LEMMA Numbers ==
  ASSUME NodeOK
  PROVE  /\ now \in Nat /\ gate.last \in Nat /\ gate.last <= now /\ watchdog_due \in Nat
         /\ watchdog_due <= WatchdogPeriod
         /\ PolicyTimeout \in Nat /\ WatchdogPeriod \in Nat /\ MaxTime \in Nat
BY TimeoutAssumption, PeriodAssumption DEF NodeOK, Gate!Gates

\* What a decision leaves in the gate is well formed, and what it has admitted is past.
LEMMA JudgedNode ==
  ASSUME NodeOK, NEW stamp \in {Gate!Malformed} \cup 0 .. MaxTime
  PROVE  LET j == Gate!Judged(gate, stamp, now, now)
         IN  j \in Gate!Gates /\ j.last <= now
<1> DEFINE v == Gate!Judge(gate, stamp, now, now)
           j == Gate!Judged(gate, stamp, now, now)
<1>1. gate \in Gate!Gates /\ now \in Nat /\ gate.last <= now
  BY DEF NodeOK
<1>2. stamp \in {Gate!Malformed} \cup Nat
  BY PeriodAssumption
<1>3. /\ j \in Gate!Gates
      /\ v = "admitted" => j.last = stamp /\ stamp <= now
      /\ v # "admitted" => j.last = gate.last
  BY <1>1, <1>2, DecisionFacts
<1> QED
  BY <1>1, <1>3

\* Of a request that leaves a permission in force, the permission was so before, and
\* if it sets the robot moving then on a policy that is fresh.
LEMMA RequestKeeps ==
  ASSUME TypeOK, OnRequest, policy_allows_motion' = TRUE, state' \notin Deaf
  PROVE  /\ policy_allows_motion = TRUE /\ state \notin Deaf /\ policy_age' = policy_age
         /\ state' = "MOVING" => state = "MOVING" \/ PolicyIsFresh
<1> USE DEF Transition, SafetyStop, Reject, ForgetPolicy, policy, Deaf
<1>1. CASE Start \/ Pause \/ Abort \/ Reset
  BY <1>1 DEF Start, Pause, Abort, Reset
<1>2. CASE Resume
  BY <1>2 DEF Resume, Halted, MayMoveAtOnce
<1>3. CASE SwitchEmergencyStop
  BY <1>3 DEF SwitchEmergencyStop, SetEmergencyStop, ClearEmergencyStop
<1>4. CASE Report \/ Retarget
  BY <1>4 DEF Report, WaypointReached, Arrive, Retarget, SetRerouteTarget, AdoptTarget
<1> QED
  BY <1>1, <1>2, <1>3, <1>4 DEF OnRequest

\* A decision that leaves a permission in force has just given it, and is of the age
\* it was applied with: no other decision that reaches the machine leaves one.
LEMMA DecisionGives ==
  ASSUME TypeOK, NEW action, NEW status, NEW evidence, NEW age,
         ApplyPolicy(action, status, evidence, age),
         policy_allows_motion' = TRUE, state' \notin Deaf
  PROVE  policy_age' = age /\ status = "VALID"
<1>1. state \notin Deaf
  BY DEF ApplyPolicy, Reject
<1>2. ~ApplyMismatch
  BY DEF ApplyMismatch, ForbidMotion
<1> QED
  BY <1>1, <1>2 DEF ApplyPolicy, ApplyStop, ApplyInspectCloser, ApplyReroute, ForbidMotion

\* The machine's part of a step of the node.
LEMMA MachineStep ==
  ASSUME NSafe, [NNext]_nvars PROVE [Next]_vars \/ Restart
<1>1. ASSUME NEW d \in Decisions, NEW evidence \in Evidence \cup {NoName},
             NEW stamp \in {Gate!Malformed} \cup 0 .. MaxTime,
             OnPolicy(d[1], d[2], evidence, stamp)
      PROVE  Decide
  <2>1. d[1] \in Actions /\ d[2] \in Statuses
    BY DecisionsAssumption
  <2>2. "STALE" \in Statuses /\ 0 \in 0 .. PolicyTimeout
    BY TimeoutAssumption DEF Statuses
  <2>3. CASE Gate!Judge(gate, stamp, now, now) = "admitted"
    <3>1. stamp \in {Gate!Malformed} \cup Nat
      BY PeriodAssumption
    <3>2. stamp > gate.last /\ stamp <= now /\ now - stamp <= PolicyTimeout
      BY <2>3, <3>1, DecisionFacts DEF NSafe, NodeOK
    <3>3. SourceAge(stamp) \in 0 .. PolicyTimeout
      BY <3>1, <3>2, Numbers DEF NSafe, SourceAge, Gate!Malformed
    <3> QED
      BY <1>1, <2>1, <2>3, <3>3 DEF OnPolicy, Decide
  <2>4. CASE Gate!Judge(gate, stamp, now, now) # "admitted"
    BY <1>1, <2>1, <2>2, <2>4 DEF OnPolicy, Decide
  <2> QED
    BY <2>3, <2>4
<1>2. CASE OnRequest
  BY <1>2 DEF OnRequest, Next, NextButResume
<1>3. CASE OnWatchdog
  BY <1>3 DEF OnWatchdog, Next, NextButResume
<1>4. CASE Elapse
  BY <1>4 DEF Elapse, Next, NextButResume
<1>5. CASE UNCHANGED nvars
  BY <1>5 DEF nvars
<1> QED
  BY <1>1, <1>2, <1>3, <1>4, <1>5 DEF NNext, Next, NextButResume

\* A restarted machine is well typed, and stopped.
LEMMA RestartFacts ==
  ASSUME Restart
  PROVE  /\ TypeOK' /\ EmergencyStopIsLatched'
         /\ state' = "IDLE" /\ gate' = Gate!EmptyGate
<1>1. result' \in Results
  BY ReturnType DEF Restart, Effects
<1> QED
  BY <1>1, RouteFacts DEF Restart, ForgetPolicy, TypeOK, States, Deaf,
     EmergencyStopIsLatched

\* The machine's own invariants survive every step of the node.
LEMMA MachineSafe ==
  ASSUME NSafe, [NNext]_nvars PROVE TypeOK' /\ EmergencyStopIsLatched'
BY MachineStep, TypeStep, LatchStep, RestartFacts DEF NSafe

\* So do the node's fields: the clock only moves on, and what is admitted is past.
LEMMA NodeStep ==
  ASSUME NSafe, [NNext]_nvars PROVE NodeOK'
<1> USE Numbers DEF NSafe
<1>1. ASSUME NEW d \in Decisions, NEW evidence \in Evidence \cup {NoName},
             NEW stamp \in {Gate!Malformed} \cup 0 .. MaxTime,
             OnPolicy(d[1], d[2], evidence, stamp)
      PROVE  NodeOK'
  <2>2. /\ gate' = Gate!Judged(gate, stamp, now, now)
        /\ now' = now /\ watchdog_due' = watchdog_due
    BY <1>1 DEF OnPolicy
  <2>3. gate' \in Gate!Gates /\ gate'.last <= now
    BY <2>2, JudgedNode
  <2> QED
    BY <2>2, <2>3 DEF NodeOK
<1>2. CASE OnRequest
  BY <1>2 DEF OnRequest, NodeOK
<1>3. CASE OnWatchdog
  BY <1>3 DEF OnWatchdog, NodeOK
<1>4. CASE Elapse
  BY <1>4 DEF Elapse, NodeOK
<1>5. CASE Restart
  BY <1>5 DEF Restart, NodeOK, Gate!EmptyGate, Gate!Gates
<1>6. CASE UNCHANGED nvars
  BY <1>6 DEF nvars, NodeOK
<1> QED
  BY <1>1, <1>2, <1>3, <1>4, <1>5, <1>6 DEF NNext

\* The permission in force, if there is one, is of the newest admitted observation.
Held == policy_allows_motion = TRUE /\ state \notin Deaf
Aged(age) == IF age > PolicyTimeout THEN PolicyTimeout + 1 ELSE age
NewestHeld == Held => gate.last > 0 /\ policy_age = Aged(now - gate.last)

\* For what is a permission, PermissionIsTheNewest says the same of it.
LEMMA NewestForm == TypeOK => (PermissionIsTheNewest <=> NewestHeld)
BY DEF TypeOK, PermissionIsTheNewest, NewestHeld, Held, Aged

\* A step of the node leaves no permission in force that is not the newest, and no
\* motion that has outlived its timeout and the watchdog's next look.
LEMMA PermissionStepOfNode ==
  ASSUME NSafe, [NNext]_nvars PROVE NewestHeld' /\ InTime'
<1>1. TypeOK /\ EmergencyStopIsLatched /\ NodeOK /\ NewestHeld /\ InTime
  BY NewestForm DEF NSafe
<1>2. TypeOK' /\ EmergencyStopIsLatched' /\ NodeOK'
  BY MachineSafe, NodeStep
<1>3. state' = "MOVING" => Held'
  BY <1>2 DEF TypeOK, EmergencyStopIsLatched, Held, Deaf
<1>4. state = "MOVING" => Held
  BY <1>1 DEF TypeOK, EmergencyStopIsLatched, Held, Deaf
<1> USE Numbers
<1>5. ASSUME NEW d \in Decisions, NEW evidence \in Evidence \cup {NoName},
             NEW stamp \in {Gate!Malformed} \cup 0 .. MaxTime,
             OnPolicy(d[1], d[2], evidence, stamp)
      PROVE  NewestHeld' /\ InTime'
  <2>1. stamp \in {Gate!Malformed} \cup Nat
    BY PeriodAssumption
  <2>2. /\ gate' = Gate!Judged(gate, stamp, now, now)
        /\ now' = now /\ watchdog_due' = watchdog_due
    BY <1>5 DEF OnPolicy
  <2>3. CASE ~Held'
    BY <1>3, <2>3 DEF NewestHeld, InTime
  <2>4. CASE Held'
    <3>1. Gate!Judge(gate, stamp, now, now) = "admitted" /\ policy_age' = SourceAge(stamp)
      <4>1. CASE /\ Gate!Judge(gate, stamp, now, now) = "admitted"
                 /\ ApplyPolicy(d[1], d[2], evidence, SourceAge(stamp))
        BY <1>1, <2>4, <4>1, DecisionGives DEF Held
      <4>2. CASE ApplyPolicy(d[1], "STALE", evidence, 0)
        BY <1>1, <2>4, <4>2, DecisionGives DEF Held
      <4> QED
        BY <1>5, <4>1, <4>2 DEF OnPolicy
    <3>2. gate'.last = stamp /\ stamp > gate.last /\ stamp <= now /\ now - stamp <= PolicyTimeout
      BY <1>1, <2>1, <2>2, <3>1, DecisionFacts, Zenon DEF NodeOK
    <3>3. stamp \in Nat /\ stamp > 0
      BY <1>1, <2>1, <3>2 DEF Gate!Malformed
    <3> QED
      BY <1>1, <2>2, <3>1, <3>2, <3>3 DEF NewestHeld, Aged, SourceAge, InTime
  <2> QED
    BY <2>3, <2>4
<1>6. CASE OnRequest
  <2>1. gate' = gate /\ now' = now /\ watchdog_due' = watchdog_due
    BY <1>6 DEF OnRequest
  <2>2. CASE ~Held'
    BY <1>3, <2>2 DEF NewestHeld, InTime
  <2>3. CASE Held'
    <3>1. /\ Held /\ policy_age' = policy_age
          /\ state' = "MOVING" => state = "MOVING" \/ PolicyIsFresh
      BY <1>1, <1>6, <2>3, RequestKeeps DEF Held
    <3>2. NewestHeld'
      BY <1>1, <2>1, <3>1 DEF NewestHeld, Aged
    <3>3. PolicyIsFresh => now - gate.last <= PolicyTimeout
      BY <1>1, <3>1 DEF PolicyIsFresh, NewestHeld, Aged
    <3>4. InTime'
      BY <1>1, <2>1, <3>1, <3>3 DEF InTime
    <3> QED
      BY <3>2, <3>4
  <2> QED
    BY <2>2, <2>3
<1>7. CASE OnWatchdog
  <2>1. gate' = gate /\ now' = now /\ watchdog_due' = WatchdogPeriod
    BY <1>7 DEF OnWatchdog
  <2>2. CASE Watchdog
    <3>1. state' = "SAFETY_STOPPED" /\ UNCHANGED policy_age
      BY <2>2 DEF Watchdog, SafetyStop, Transition
    <3>2. Held' => Held
      BY <2>2 DEF Watchdog, SafetyStop, Transition, ForbidMotion, PolicyExpired,
                  RerouteExpired, Held, Deaf
    <3> QED
      BY <1>1, <2>1, <3>1, <3>2 DEF NewestHeld, Aged, InTime
  <2>3. CASE ~Expired /\ UNCHANGED vars
    <3>1. UNCHANGED <<state, policy_age, policy_allows_motion>>
      BY <2>3 DEF vars, policy
    <3>2. NewestHeld'
      BY <1>1, <2>1, <3>1 DEF NewestHeld, Held, Aged
    <3>3. state = "MOVING" => now - gate.last <= PolicyTimeout
      BY <1>1, <1>4, <2>3 DEF Expired, PolicyExpired, PolicyIsFresh, NewestHeld, Aged
    <3> QED
      BY <1>1, <2>1, <3>1, <3>2, <3>3 DEF InTime
  <2> QED
    BY <1>7, <2>2, <2>3 DEF OnWatchdog
<1>8. CASE Elapse
  <2>1. /\ gate' = gate /\ now' = now + 1 /\ watchdog_due' = watchdog_due - 1
        /\ UNCHANGED <<state, policy_allows_motion>>
        /\ policy_age' = Older(policy_age, PolicyTimeout)
    BY <1>8 DEF Elapse, Tick
  <2>2. NewestHeld'
    BY <1>1, <2>1, NoneAssumption DEF NewestHeld, Held, Aged, Older
  <2>3. InTime'
    BY <1>1, <2>1 DEF InTime
  <2> QED
    BY <2>2, <2>3
<1>9. CASE Restart
  BY <1>9, RestartFacts DEF NewestHeld, Held, Deaf, InTime
<1>10. CASE UNCHANGED nvars
  BY <1>1, <1>10 DEF nvars, vars, policy, NewestHeld, Held, Aged, InTime
<1> QED
  BY <1>5, <1>6, <1>7, <1>8, <1>9, <1>10 DEF NNext

\* The node starts safe,
LEMMA NSafeInit == ASSUME NInit PROVE NSafe
<1>1. TypeOK
  BY InitType DEF NInit
<1>2. EmergencyStopIsLatched /\ PermissionIsTheNewest /\ InTime
  BY DEF NInit, Init, EmergencyStopIsLatched, PermissionIsTheNewest, InTime
<1>3. NodeOK
  BY PeriodAssumption DEF NInit, NodeOK, Gate!EmptyGate, Gate!Gates
<1> QED
  BY <1>1, <1>2, <1>3 DEF NSafe

\* and every step keeps it so.
LEMMA NSafeStep == ASSUME NSafe, [NNext]_nvars PROVE NSafe'
<1>1. TypeOK' /\ EmergencyStopIsLatched' /\ NodeOK' /\ InTime'
  BY MachineSafe, NodeStep, PermissionStepOfNode
<1>2. (TypeOK => (PermissionIsTheNewest <=> NewestHeld))'
  BY NewestForm, PTL
<1>3. PermissionIsTheNewest'
  BY <1>1, <1>2, PermissionStepOfNode
<1> QED
  BY <1>1, <1>3 DEF NSafe

\* What the node satisfies in every reachable state.
LEMMA NSafeAlways == NSpec => []NSafe
BY NSafeInit, NSafeStep, PTL DEF NSpec

\* The permission a mission under way holds or moves on is of the newest observation
\* admitted and is counted as old as that observation is, for every timeout, route
\* and cache, and whatever the process is restarted in.
THEOREM PermissionIsTheNewestAlways == NSpec => []PermissionIsTheNewest
BY NSafeAlways, PTL DEF NSafe

\* Motion is never authorised for longer after the camera saw the scene than the
\* policy timeout and one watchdog period, whatever these are.
THEOREM MovesWithinTheTimeoutAlways == NSpec => []MovesWithinTheTimeout
<1>1. NSafe => MovesWithinTheTimeout
  BY Numbers DEF NSafe, TypeOK, EmergencyStopIsLatched, InTime, MovesWithinTheTimeout
<1> QED
  BY <1>1, NSafeAlways, PTL

-----------------------------------------------------------------------------
(***************************************************************************)
(* The pipeline.                                                           *)
(***************************************************************************)

\* What the nodes tell each other.  What permits motion names a picture that was taken.
Stamps == {Gate!Malformed} \cup 0 .. MaxTime
Said == Evidence \cup {NoName}
Pictures == {Append(SafeName[name], Segment[t]) : name \in Names, t \in 1 .. MaxTime}
Sayings == {m \in [action : Supervisor!Actions, status : Statuses, stamp : Stamps,
                   evidence : Said] : m.status = "VALID" => m.evidence \in Pictures}
Tellings == {m \in [state : States, goal : Names \cup {NoName}, authorized : BOOLEAN,
                    evidence : Said] : m.authorized => m.evidence \in Pictures}
Shots == [waypoint : Names, malformed : BOOLEAN, stamp : 0 .. MaxTime]
Takes == [waypoint : Names, stamp : 0 .. MaxTime, recorded : BOOLEAN]
Services == {"start", "abort"}
Reports == {"RECORDING", "FINALIZED"}
Commands ==
  {Driver!Desired, Driver!Complete} \cup {Driver!Reached(name) : name \in Names}
  \cup {Driver!Call(service) : service \in Services}
  \cup {Driver!Frame(name, broken) : name \in Names, broken \in BOOLEAN}

\* What the driver has heard of the mission, and what it commands.
DriverOK(d) ==
  /\ "mission" \in DOMAIN d /\ "commands" \in DOMAIN d
  /\ d.mission \in Tellings
  /\ d.commands \subseteq Commands /\ IsFiniteSet(d.commands)

GateFields == {"last", "barrier", "future", "until"}

\* The topics, by subscriber.
OrchestratorInbox == [decision : Seq(Sayings), reached : Seq(Names), call : Seq(Services)]
ControllerInbox == [decision : Seq(Sayings), state : Seq(Tellings)]
DriverInbox == [evidence : Seq(Evidence), assessment : Seq(Evidence),
                decision : Seq(Sayings), state : Seq(Tellings), cmd_vel : Seq(BOOLEAN),
                report : Seq(Reports), request : Seq({"now"})]

\* What of the supervisor's gate decides on what it says.
GateOK(g) == DOMAIN g = GateFields /\ g.last \in 0 .. MaxTime

\* Every message in the pipeline is one that its receiver knows.
Wired ==
  /\ script \in Scenarios /\ now \in 0 .. MaxTime
  /\ DriverOK(driver)
  /\ camera \in Seq(Shots) /\ analysing \in Seq(Takes)
  /\ GateOK(supervisor_gate) /\ last_seen \in Said
  /\ to_orchestrator \in OrchestratorInbox
  /\ to_controller \in ControllerInbox
  /\ to_driver \in DriverInbox

\* A permission rests on a picture.
Pictured == motion_authorized \/ policy_allows_motion => last_evidence_id \in Pictures

\* A finite set can be told in some order.
LEMMA SomeOrder == ASSUME NEW S, IsFiniteSet(S) PROVE SetToSeq(S) \in Seq(S)
<1> DEFINE n == Cardinality(S)
<1>1. n \in Nat /\ ExistsBijection(1 .. n, S)
  BY FS_CardinalityType
<1>2. PICK f : f \in Bijection(1 .. n, S)
  BY <1>1 DEF ExistsBijection
<1>3. f \in [1 .. n -> S] /\ IsInjective(f)
  BY <1>2 DEF Bijection, Injection
<1>4. SetToSeq(S) \in [1 .. n -> S]
  BY <1>3 DEF SetToSeq
<1> HIDE DEF n
<1> QED
  BY <1>1, <1>4

\* The image of a finite set is finite.
LEMMA ImageIsFinite ==
  ASSUME NEW S, IsFiniteSet(S)
  PROVE  /\ IsFiniteSet({x.waypoint : x \in S}) /\ IsFiniteSet({x.service : x \in S})
         /\ \A t : IsFiniteSet({[waypoint |-> x.waypoint, malformed |-> x.malformed,
                                stamp |-> t] : x \in S})
<1>1. ASSUME NEW T, NEW f, f \in [S -> T], \A y \in T : \E x \in S : f[x] = y
      PROVE  IsFiniteSet(T)
  <2>1. f \in Surjection(S, T)
    BY <1>1 DEF Surjection
  <2> QED
    BY <2>1, FS_Surjection
<1>2. IsFiniteSet({x.waypoint : x \in S})
  <2> DEFINE T == {x.waypoint : x \in S}
             f == [x \in S |-> x.waypoint]
  <2>1. f \in [S -> T] /\ \A y \in T : \E x \in S : f[x] = y
    OBVIOUS
  <2> HIDE DEF f
  <2> QED
    BY <1>1, <2>1
<1>3. IsFiniteSet({x.service : x \in S})
  <2> DEFINE T == {x.service : x \in S}
             f == [x \in S |-> x.service]
  <2>1. f \in [S -> T] /\ \A y \in T : \E x \in S : f[x] = y
    OBVIOUS
  <2> HIDE DEF f
  <2> QED
    BY <1>1, <2>1
<1>4. ASSUME NEW t
      PROVE  IsFiniteSet({[waypoint |-> x.waypoint, malformed |-> x.malformed,
                           stamp |-> t] : x \in S})
  <2> DEFINE T == {[waypoint |-> x.waypoint, malformed |-> x.malformed,
                    stamp |-> t] : x \in S}
             f == [x \in S |-> [waypoint |-> x.waypoint, malformed |-> x.malformed,
                                stamp |-> t]]
  <2>1. f \in [S -> T] /\ \A y \in T : \E x \in S : f[x] = y
    OBVIOUS
  <2> HIDE DEF f
  <2> QED
    BY <1>1, <2>1
<1> QED
  BY <1>2, <1>3, <1>4

\* The names of the pipeline.
LEMMA NameFacts == Intruder \in Names /\ Waypoints[1] \in Names /\ NoName \notin Names
BY DriverAssumption, RouteFacts

-----------------------------------------------------------------------------
\* What the driver's methods command is what the others know.

\* What a command may be.
LEMMA CommandFacts ==
  /\ Driver!Desired \in Commands /\ Driver!Complete \in Commands
  /\ \A name \in Names : Driver!Reached(name) \in Commands
  /\ \A service \in Services : Driver!Call(service) \in Commands
  /\ \A name \in Names, broken \in BOOLEAN : Driver!Frame(name, broken) \in Commands
BY DEF Commands

\* Another command is one more.
LEMMA EmitOK ==
  ASSUME NEW d, DriverOK(d), NEW c \in Commands PROVE DriverOK(Driver!Emit(d, c))
<1>1. IsFiniteSet(d.commands \cup {c})
  BY FS_AddElement DEF DriverOK
<1> QED
  BY <1>1 DEF DriverOK, Driver!Emit

\* Noting something else changes neither what was heard nor what is commanded.
LEMMA NoteOK ==
  ASSUME NEW d, DriverOK(d), NEW x, NEW y, NEW goal
  PROVE  /\ DriverOK([d EXCEPT !.fired = x]) /\ DriverOK([d EXCEPT !.stall = x])
         /\ DriverOK([d EXCEPT !.phase[goal] = x])
         /\ DriverOK([d EXCEPT !.phase[goal] = x, !.samples[goal] = y])
         /\ DriverOK([d EXCEPT !.samples[goal] = x])
         /\ DriverOK([d EXCEPT !.last_evidence[goal] = x, !.outstanding = y])
         /\ DriverOK([d EXCEPT !.outstanding = x])
         /\ DriverOK([d EXCEPT !.outstanding.evidence = x])
         /\ DriverOK([d EXCEPT !.outstanding.assessment = x])
         /\ DriverOK([d EXCEPT !.gate_open = x])
         /\ DriverOK([d EXCEPT !.started = x]) /\ DriverOK([d EXCEPT !.aborted = x])
         /\ DriverOK([d EXCEPT !.completed = x]) /\ DriverOK([d EXCEPT !.ended = x])
         /\ DriverOK([d EXCEPT !.recording = x]) /\ DriverOK([d EXCEPT !.finalized = x])
         /\ DriverOK([d EXCEPT !.next_frame = x])
         /\ DriverOK([d EXCEPT !.graph_ready = x])
BY DEF DriverOK

\* A driver in a phase has a goal.
LEMMA GoalOK == ASSUME NEW d, DriverOK(d), NEW phase, Driver!InPhase(d, phase)
                PROVE  d.mission.goal \in Names
BY DEF DriverOK, Driver!InPhase, Driver!NoName, NoName, Tellings

\* AdvanceGoal reports an arrival at the goal, which is a name.
LEMMA AdvanceOK == ASSUME NEW d, DriverOK(d) PROVE DriverOK(Driver!AdvanceGoal(d))
<1> DEFINE drained == Driver!AfterDraining(d)
           reported == [drained EXCEPT !.phase[d.mission.goal] = "reported"]
<1>1. DriverOK(drained) /\ drained.mission = d.mission
  <2>1. DriverOK([d EXCEPT !.phase[d.mission.goal] = "confirming"])
    BY NoteOK, Zenon
  <2> QED
    BY <2>1 DEF Driver!AfterDraining, DriverOK
<1> HIDE DEF drained
<1>2. CASE Driver!InPhase(drained, "confirming")
  <2>1. d.mission.goal \in Names
    BY <1>1, <1>2, GoalOK
  <2>2. DriverOK(reported)
    BY <1>1, NoteOK, Zenon
  <2>3. Driver!Reached(d.mission.goal) \in Commands
    BY <2>1, CommandFacts
  <2>4. DriverOK(Driver!Emit(reported, Driver!Reached(d.mission.goal)))
    BY <2>2, <2>3, EmitOK
  <2> QED
    BY <1>1, <2>4 DEF Driver!AdvanceGoal, drained
<1>3. CASE ~Driver!InPhase(drained, "confirming")
  BY <1>1, <1>3 DEF Driver!AdvanceGoal, drained
<1> QED
  BY <1>2, <1>3

\* Completion asks for the end.
LEMMA CompletionOK == ASSUME NEW d, DriverOK(d) PROVE DriverOK(Driver!Completion(d))
BY NoteOK, EmitOK, CommandFacts, Zenon DEF Driver!Completion

\* A frame that is resolved may have been the last to drain.
LEMMA ResolveOK == ASSUME NEW d, DriverOK(d) PROVE DriverOK(Driver!Resolve(d))
BY NoteOK, AdvanceOK, Zenon DEF Driver!Resolve, Driver!Settle

\* What the bridge and the supervisor send only settles the frame under way, but the
\* first decision may start the mission.
LEMMA AnswerOK ==
  ASSUME NEW d, DriverOK(d), NEW evidence
  PROVE  /\ DriverOK(Driver!OnEvidenceCapture(d, evidence))
         /\ DriverOK(Driver!OnAssessment(d, evidence))
         /\ DriverOK(Driver!OnPolicyDecision(d, evidence))
<1>1. DriverOK(Driver!OnEvidenceCapture(d, evidence))
  BY NoteOK, ResolveOK, Zenon DEF Driver!OnEvidenceCapture
<1>2. DriverOK(Driver!OnAssessment(d, evidence))
  BY NoteOK, ResolveOK, Zenon DEF Driver!OnAssessment
<1>3. DriverOK(Driver!OnPolicyDecision(d, evidence))
  <2> DEFINE opened == [d EXCEPT !.gate_open = TRUE]
  <2>1. DriverOK(opened)
    BY NoteOK, Zenon
  <2> HIDE DEF opened
  <2>2. DriverOK([opened EXCEPT !.started = TRUE])
    BY <2>1, NoteOK, Zenon
  <2>3. DriverOK(Driver!Emit([opened EXCEPT !.started = TRUE], Driver!Call("start")))
    BY <2>2, EmitOK, CommandFacts DEF Services
  <2> QED
    BY <2>1, <2>3 DEF Driver!OnPolicyDecision, opened
<1> QED
  BY <1>1, <1>2, <1>3

\* A mission state may start and end the plan's faults, abort, and report arrivals.
LEMMA HeardOK ==
  ASSUME NEW d, DriverOK(d), NEW message \in Tellings
  PROVE  DriverOK(Driver!OnMissionState(d, message))
<1> USE DEF Services
<1>1. \A e : DriverOK(e) => DriverOK(Driver!BackToIdle(e))
  BY DEF DriverOK, Driver!BackToIdle
<1>2. \A e : DriverOK(e) => DriverOK(Driver!EnterGoal(e))
  BY NoteOK, Zenon DEF Driver!EnterGoal
<1>3. \A e : DriverOK(e) => DriverOK(Driver!NoteTheEnd(e))
  BY NoteOK, Zenon DEF Driver!NoteTheEnd
<1>4. \A e : DriverOK(e) => DriverOK(Driver!AbortOnStop(e))
  <2> TAKE e
  <2> HAVE DriverOK(e)
  <2>1. DriverOK([e EXCEPT !.aborted = TRUE])
    BY NoteOK, Zenon
  <2>2. DriverOK(Driver!Emit([e EXCEPT !.aborted = TRUE], Driver!Call("abort")))
    BY <2>1, EmitOK, CommandFacts
  <2> QED
    BY <2>2 DEF Driver!AbortOnStop
<1>5. \A e, kind : DriverOK(e) => DriverOK(Driver!Halt(Driver!Fire(e, kind)))
  <2> TAKE e, kind
  <2> HAVE DriverOK(e)
  <2>1. DriverOK(Driver!Fire(e, kind))
    BY NoteOK, Zenon DEF Driver!Fire
  <2> QED
    BY <2>1, NoteOK, Zenon DEF Driver!Halt
<1>6. \A e : DriverOK(e) => DriverOK(Driver!StallCamera(e))
  BY <1>5 DEF Driver!StallCamera
<1>7. \A e : DriverOK(e) => DriverOK(Driver!ForgeReport(e))
  <2> TAKE e
  <2> HAVE DriverOK(e)
  <2> DEFINE halted == Driver!Halt(Driver!Fire(e, "forged"))
  <2>1. DriverOK(halted)
    BY <1>5
  <2> HIDE DEF halted
  <2>2. DriverOK(Driver!Emit(halted, Driver!Reached(Intruder)))
    BY <2>1, EmitOK, CommandFacts, NameFacts
  <2> QED
    BY <2>2 DEF Driver!ForgeReport, halted
<1> DEFINE e0 == [d EXCEPT !.mission = message]
           e1 == Driver!AbortOnStop(Driver!NoteTheEnd(Driver!EnterGoal(Driver!BackToIdle(e0))))
           e2 == Driver!ForgeReport(Driver!StallCamera(e1))
<1>8. DriverOK(e0)
  BY DEF DriverOK
<1> HIDE DEF e0
<1>9. DriverOK(e1)
  BY <1>1, <1>2, <1>3, <1>4, <1>8
<1> HIDE DEF e1
<1>10. DriverOK(e2)
  BY <1>6, <1>7, <1>9
<1> HIDE DEF e2
<1>11. DriverOK(Driver!Completion(Driver!AdvanceGoal(e2)))
  BY <1>10, AdvanceOK, CompletionOK
<1> QED
  BY <1>11 DEF Driver!OnMissionState, e0, e1, e2

\* The report's status may complete the scenario.
LEMMA ReportedOK ==
  ASSUME NEW d, DriverOK(d), NEW status PROVE DriverOK(Driver!OnReportStatus(d, status))
<1> DEFINE e == CASE status = "RECORDING" -> [d EXCEPT !.recording = TRUE]
                  [] status = "FINALIZED" -> [d EXCEPT !.finalized = TRUE]
                  [] OTHER -> d
<1>1. DriverOK(e)
  BY NoteOK, Zenon
<1> HIDE DEF e
<1>2. DriverOK(Driver!Completion(e))
  BY <1>1, CompletionOK
<1> QED
  BY <1>2 DEF Driver!OnReportStatus, e

\* The robot's motion is counted, and may do for an arrival.
LEMMA SeenMovingOK ==
  ASSUME NEW d, DriverOK(d), NEW nonzero PROVE DriverOK(Driver!OnCmdVel(d, nonzero))
<1> DEFINE goal == d.mission.goal
           counted == [d EXCEPT !.samples[goal] = @ + 1]
<1>1. DriverOK(counted) /\ DriverOK([d EXCEPT !.samples[goal] = d.samples[goal] + 1])
  BY NoteOK, Zenon
<1> HIDE DEF counted
<1>2. DriverOK(Driver!StallDesired(counted))
  <2>1. DriverOK(Driver!Fire(counted, "desired_stall"))
    BY <1>1, NoteOK, Zenon DEF Driver!Fire
  <2> QED
    BY <2>1, NoteOK, Zenon DEF Driver!StallDesired
<1>3. DriverOK(Driver!AdvanceGoal([counted EXCEPT !.phase[goal] = "draining"]))
  BY <1>1, NoteOK, AdvanceOK, Zenon
<1> QED
  BY <1>1, <1>2, <1>3 DEF Driver!OnCmdVel, counted

\* The frame that is sent shows a name: the goal, the first one, or the intruder.
LEMMA SentOK ==
  ASSUME NEW d, DriverOK(d), Driver!MaySend(d) PROVE DriverOK(Driver!SendFrame(d))
<1> DEFINE waypoint == IF d.gate_open THEN d.mission.goal ELSE Waypoints[1]
           wait == IF d.gate_open THEN FrameInterval ELSE PrimeRetry
           waiting == [d EXCEPT !.next_frame = wait]
           Sent(e, name, malformed) ==
             Driver!Emit([e EXCEPT !.outstanding = Driver!Outstanding(name, ~malformed)],
                         Driver!Frame(name, malformed))
<1>1. waypoint \in Names
  BY NameFacts, GoalOK DEF Driver!MaySend, Driver!MayStream
<1>2. DriverOK(waiting)
  BY NoteOK, Zenon
<1> HIDE DEF waiting, waypoint
<1>3. \A kind : DriverOK(Driver!Fire(waiting, kind))
  BY <1>2, NoteOK, Zenon DEF Driver!Fire
<1>4. ASSUME NEW e, DriverOK(e), NEW name \in Names, NEW malformed \in BOOLEAN
      PROVE  DriverOK(Sent(e, name, malformed))
  BY <1>4, NoteOK, EmitOK, CommandFacts, Zenon
<1> HIDE DEF Sent
<1>5. /\ DriverOK(Sent(Driver!Fire(waiting, "malformed"), waypoint, TRUE))
      /\ DriverOK(Sent(Driver!Fire(waiting, "wrong_goal"), Intruder, FALSE))
      /\ DriverOK(Sent(waiting, waypoint, FALSE))
  BY <1>1, <1>2, <1>3, <1>4, NameFacts
<1> QED
  BY <1>5 DEF Driver!SendFrame, waiting, waypoint, Sent

\* A tick sends the desired velocity, a frame or both.
LEMMA TickOK == ASSUME NEW d, DriverOK(d) PROVE DriverOK(Driver!OnTick(d))
<1> DEFINE moved_on == Driver!PublishDesired(d)
<1>1. DriverOK([d EXCEPT !.stall = @ - 1])
  BY NoteOK, Zenon
<1>2. DriverOK(Driver!Emit(d, Driver!Desired))
  BY EmitOK, CommandFacts
<1>3. DriverOK(moved_on)
  BY <1>1, <1>2 DEF Driver!PublishDesired
<1> HIDE DEF moved_on
<1>4. Driver!MaySend(moved_on) => DriverOK(Driver!SendFrame(moved_on))
  BY <1>3, SentOK
<1> QED
  BY <1>3, <1>4 DEF Driver!OnTick, moved_on

\* The graph, a request and time only change what is waited for.
LEMMA WaitOK ==
  ASSUME NEW d, DriverOK(d)
  PROVE  DriverOK(Driver!OnGraphReady(d)) /\ DriverOK(Driver!OnPerceptionRequest(d))
         /\ DriverOK(Driver!Wait(d))
<1>1. DriverOK([d EXCEPT !.next_frame = IF d.next_frame = 0 THEN 0 ELSE d.next_frame - 1])
  BY NoteOK, Zenon
<1> QED
  BY <1>1, NoteOK, Zenon DEF Driver!OnGraphReady, Driver!OnPerceptionRequest, Driver!Wait

-----------------------------------------------------------------------------
\* The pipeline runs the node: what the orchestrator does in it the node may do.

\* The steps of the others.
Others ==
  \/ OnTick \/ (\E topic \in DOMAIN to_driver : DriverHears(topic))
  \/ OnImage \/ Analyse \/ CheckWatchdog \/ Heartbeat \/ Unheard \/ ComeUp
  \/ ControllerHears("decision", Obeyed) \/ ControllerHears("state", Allowed)
  \/ ControlTimer \/ Finalize

\* They leave the orchestrator as it is.
LEMMA OthersLeaveTheNode == ASSUME Others PROVE UNCHANGED nvars
<1> USE DEF orchestrating, nvars
<1>1. CASE OnTick
  BY <1>1 DEF OnTick, Execute
<1>2. CASE \E topic \in DOMAIN to_driver : DriverHears(topic)
  BY <1>2 DEF DriverHears, Execute
<1>3. CASE OnImage \/ Analyse
  BY <1>3 DEF OnImage, Analyse
<1>4. CASE CheckWatchdog
  BY <1>4 DEF CheckWatchdog, Supervisor!CheckWatchdog
<1>5. CASE Heartbeat \/ Unheard \/ ComeUp
  BY <1>5 DEF Heartbeat, Unheard, ComeUp
<1>6. CASE ControllerHears("decision", Obeyed)
  BY <1>6 DEF ControllerHears, Obeyed, Controller!OnPolicyDecision
<1>7. CASE ControllerHears("state", Allowed)
  BY <1>7 DEF ControllerHears, Allowed, Controller!OnMissionState
<1>8. CASE ControlTimer
  BY <1>8 DEF ControlTimer, Controller!PublishSafeCommand
<1>9. CASE Finalize
  BY <1>9 DEF Finalize
<1> QED
  BY <1>1, <1>2, <1>3, <1>4, <1>5, <1>6, <1>7, <1>8, <1>9 DEF Others

\* All the other steps are the node's own, on what it knows.
LEMMA NodeRuns == ASSUME Wired, [ENext]_evars PROVE [NNext]_nvars
<1>1. CASE Others
  BY <1>1, OthersLeaveTheNode
<1>2. CASE OrchestratorHears("decision", Decided)
  <2> DEFINE m == Head(to_orchestrator.decision)
  <2>1. Decided(m)
    BY <1>2 DEF OrchestratorHears
  <2>2. m \in Sayings
    BY <1>2 DEF Wired, OrchestratorInbox, OrchestratorHears
  <2> HIDE DEF m
  <2>3. /\ <<m.action, m.status>> \in Decisions /\ m.evidence \in Evidence \cup {NoName}
        /\ m.stamp \in {Gate!Malformed} \cup 0 .. MaxTime
    BY <2>2, PipelineAssumption
       DEF Sayings, Said, Stamps, Supervisor!Actions, Actions
  <2>4. OnPolicy(m.action, m.status, m.evidence, m.stamp)
    BY <2>1 DEF Decided
  <2>5. OnPolicy(<<m.action, m.status>>[1], <<m.action, m.status>>[2], m.evidence, m.stamp)
    BY <2>4
  <2>6. NNext
    BY <2>3, <2>5 DEF NNext
  <2> QED
    BY <2>6
<1>3. CASE OrchestratorHears("reached", Arrived)
  <2> DEFINE m == Head(to_orchestrator.reached)
  <2>1. Arrived(m) /\ now' = now
    BY <1>3 DEF OrchestratorHears
  <2>2. m \in Names
    BY <1>3 DEF Wired, OrchestratorInbox, OrchestratorHears
  <2> HIDE DEF m
  <2>3. OnRequest
    BY <2>1, <2>2 DEF Arrived, OnRequest, Report
  <2> QED
    BY <2>3 DEF NNext
<1>4. CASE OrchestratorHears("call", Called)
  <2>1. OnRequest
    BY <1>4 DEF OrchestratorHears, Called, OnRequest
  <2> QED
    BY <2>1 DEF NNext
<1>5. CASE WatchdogTimer
  BY <1>5 DEF WatchdogTimer, NNext
<1>6. CASE Crash
  BY <1>6 DEF Crash, NNext
<1>7. CASE Operate
  <2>1. OnRequest
    BY <1>7 DEF Operate, OperatorStart, OperatorReset, OnRequest
  <2> QED
    BY <2>1 DEF NNext
<1>8. CASE Pass
  BY <1>8 DEF Pass, NNext
<1>9. CASE UNCHANGED evars
  BY <1>9 DEF evars
<1> QED
  BY <1>1, <1>2, <1>3, <1>4, <1>5, <1>6, <1>7, <1>8, <1>9 DEF ENext, Others

-----------------------------------------------------------------------------
\* What is sent is what the receivers know.

\* Whatever is done to the supervisor's gate, its newest admitted time is one.
LEMMA SupervisorGateOK ==
  ASSUME NEW g, GateOK(g), NEW t, NEW n, NEW m
  PROVE  /\ GateOK(Supervisor!Raise(g, n)) /\ GateOK(Supervisor!Prune(g, n, m))
         /\ GateOK(Supervisor!Prolong(g, t, n, m)) /\ GateOK(Supervisor!Remember(g, t, n, m))
         /\ t \in 0 .. MaxTime => GateOK(Supervisor!Admit(g, t))
<1>1. \A h : GateOK(h) => GateOK(Supervisor!Raise(h, n))
  BY DEF GateOK, GateFields, Supervisor!Raise
<1>2. \A h, x, y : GateOK(h) => GateOK([h EXCEPT !.future = x, !.until = y])
  BY DEF GateOK, GateFields
<1>3. GateOK(Supervisor!Prune(g, n, m))
  <2> DEFINE pruned == [g EXCEPT !.future = Supervisor!Retained(g, n),
                                 !.until = IF Supervisor!Released(g, m) THEN 0 ELSE g.until]
  <2>1. GateOK(pruned)
    BY <1>2
  <2> HIDE DEF pruned
  <2> QED
    BY <1>1, <2>1 DEF Supervisor!Prune, pruned
<1>4. GateOK(Supervisor!Remember(g, t, n, m))
  <2> DEFINE pruned == Supervisor!Prune(g, n, m)
  <2>1. \A h, x : GateOK(h) => GateOK([h EXCEPT !.future = x])
    BY DEF GateOK, GateFields
  <2> QED
    BY <1>2, <1>3, <2>1 DEF Supervisor!Remember
<1>5. GateOK(Supervisor!Prolong(g, t, n, m))
  BY DEF GateOK, GateFields, Supervisor!Prolong
<1>6. t \in 0 .. MaxTime => GateOK(Supervisor!Admit(g, t))
  BY DEF GateOK, GateFields, Supervisor!Admit
<1> QED
  BY <1>1, <1>3, <1>4, <1>5, <1>6

\* A frame has an evidence id.
LEMMA EvidenceIdOK ==
  ASSUME NEW frame, frame.waypoint \in Names, frame.stamp \in 0 .. MaxTime
  PROVE  EvidenceId(frame) \in Evidence
BY SegmentAssumption DEF EvidenceId

\* The supervisor answers an assessment with a decision on the same frame.
LEMMA SupervisorAnswers ==
  ASSUME Wired, NEW stamp \in 0 .. MaxTime, NEW action \in Supervisor!Actions,
         Supervisor!HandleAssessment(stamp, 0, action, "VALID")
  PROVE  /\ GateOK(supervisor_gate')
         /\ decision'.action \in Supervisor!Actions /\ decision'.status \in Statuses
         /\ decision'.stamp \in Stamps
         /\ decision'.status = "VALID" => stamp \in 1 .. MaxTime
<1> DEFINE g == Supervisor!Looked(stamp)
<1>1. GateOK(g)
  BY SupervisorGateOK DEF Supervisor!Looked, Wired
<1> HIDE DEF g
<1>2. /\ GateOK(Supervisor!Faulted(g, stamp))
      /\ GateOK(Supervisor!Admit(g, stamp))
  BY <1>1, SupervisorGateOK DEF Supervisor!Faulted
<1>3. /\ "STOP" \in Supervisor!Actions /\ "STALE" \in Statuses /\ "VALID" \in Statuses
      /\ stamp \in Stamps
  BY DEF Supervisor!Actions, Statuses, Stamps
<1>4. ASSUME NEW advance, Supervisor!StaleStop(g, stamp, advance)
      PROVE  /\ GateOK(supervisor_gate')
             /\ decision' = [action |-> "STOP", status |-> "STALE", stamp |-> stamp]
  BY <1>1, <1>2, <1>4 DEF Supervisor!StaleStop, Supervisor!Publish
<1>5. ASSUME supervisor_gate' = Supervisor!Admit(g, stamp),
             Supervisor!Publish(action, "VALID", stamp)
      PROVE  /\ GateOK(supervisor_gate')
             /\ decision' = [action |-> action, status |-> "VALID", stamp |-> stamp]
  BY <1>2, <1>5 DEF Supervisor!Publish
<1>6. \/ \E advance \in BOOLEAN : Supervisor!StaleStop(g, stamp, advance)
      \/ /\ supervisor_gate' = Supervisor!Admit(g, stamp)
         /\ Supervisor!Publish(action, "VALID", stamp)
         /\ stamp \in 1 .. now
  BY DEF Supervisor!HandleAssessment, Supervisor!Timely, g
<1>7. 1 .. now \subseteq 1 .. MaxTime
  BY PeriodAssumption DEF Wired
<1> QED
  BY <1>3, <1>4, <1>5, <1>6, <1>7

\* A decision goes to three subscribers.
LEMMA BroadcastOK ==
  ASSUME Wired, NEW answer \in Sayings, NEW told \in DriverInbox, Broadcast(answer, told)
  PROVE  to_orchestrator' \in OrchestratorInbox /\ to_controller' \in ControllerInbox
         /\ to_driver' \in DriverInbox
<1>1. /\ Append(to_orchestrator.decision, answer) \in Seq(Sayings)
      /\ Append(to_controller.decision, answer) \in Seq(Sayings)
      /\ Append(told.decision, answer) \in Seq(Sayings)
  <2>1. /\ to_orchestrator.decision \in Seq(Sayings)
        /\ to_controller.decision \in Seq(Sayings) /\ told.decision \in Seq(Sayings)
    BY DEF Wired, OrchestratorInbox, ControllerInbox, DriverInbox
  <2> QED
    BY <2>1, AppendProperties
<1>2. to_orchestrator' \in OrchestratorInbox
  BY <1>1 DEF Broadcast, Wired, OrchestratorInbox
<1>3. to_controller' \in ControllerInbox
  BY <1>1 DEF Broadcast, Wired, ControllerInbox
<1>4. to_driver' \in DriverInbox
  BY <1>1 DEF Broadcast, DriverInbox
<1> QED
  BY <1>2, <1>3, <1>4

\* An assessment is told to the driver, and answered.
LEMMA AssessOK ==
  ASSUME Wired, NEW frame, frame.waypoint \in Names, frame.stamp \in 0 .. MaxTime,
         NEW action \in Supervisor!Actions, Assess(frame, action)
  PROVE  /\ GateOK(supervisor_gate') /\ last_seen' \in Said
         /\ to_orchestrator' \in OrchestratorInbox /\ to_controller' \in ControllerInbox
         /\ to_driver' \in DriverInbox
<1> DEFINE id == EvidenceId(frame)
           told == [to_driver EXCEPT !.assessment = Append(@, id)]
<1>1. id \in Evidence /\ (frame.stamp \in 1 .. MaxTime => id \in Pictures)
  BY EvidenceIdOK DEF EvidenceId, Pictures
<1> HIDE DEF id
<1>2. told \in DriverInbox
  <2>1. Append(to_driver.assessment, id) \in Seq(Evidence)
    BY <1>1, AppendProperties DEF Wired, DriverInbox
  <2> QED
    BY <2>1 DEF Wired, DriverInbox
<1>3. /\ GateOK(supervisor_gate')
      /\ decision'.action \in Supervisor!Actions /\ decision'.status \in Statuses
      /\ decision'.stamp \in Stamps
      /\ decision'.status = "VALID" => frame.stamp \in 1 .. MaxTime
  BY SupervisorAnswers DEF Assess
<1>4. Says(id) \in Sayings
  BY <1>1, <1>3 DEF Says, Sayings, Said
<1>5. last_seen' \in Said
  BY <1>1 DEF Assess, id, Said, Wired
<1>6. Broadcast(Says(id), told)
  BY DEF Assess, id
<1> HIDE DEF told
<1> QED
  BY <1>2, <1>3, <1>4, <1>5, <1>6, BroadcastOK

\* A well-typed machine tells a mission state.
LEMMA ToldOK == ASSUME TypeOK', Pictured' PROVE Told \in Tellings
BY DEF Told, TypeOK, Tellings, Said, Pictured

\* A mission state goes to two subscribers, a request and a report's opening to the driver.
LEMMA PublishOK ==
  ASSUME Wired, TypeOK', Pictured', NEW sent \in BOOLEAN, PublishState(sent)
  PROVE  to_controller' \in ControllerInbox /\ to_driver' \in DriverInbox
<1>1. Requests \in Seq({"now"})
  <2>1. <<>> \in Seq({"now"})
    BY EmptySeq
  <2>2. <<"now">> = Append(<<>>, "now")
    OBVIOUS
  <2>3. <<"now">> \in Seq({"now"})
    BY <2>1, <2>2, AppendProperties
  <2> QED
    BY <2>1, <2>3 DEF Requests
<1>2. Told \in Tellings
  BY ToldOK
<1>3. to_controller' \in ControllerInbox
  <2>1. Append(to_controller.state, Told) \in Seq(Tellings)
    BY <1>2, AppendProperties DEF Wired, ControllerInbox
  <2> QED
    BY <2>1 DEF PublishState, Wired, ControllerInbox
<1>4. to_driver' \in DriverInbox
  <2> DEFINE request == IF sent THEN to_driver.request \o Requests ELSE to_driver.request
             report == IF reporter # "recording" /\ reporter' = "recording"
                       THEN Append(to_driver.report, "RECORDING") ELSE to_driver.report
  <2>1. request \in Seq({"now"})
    <3>1. to_driver.request \in Seq({"now"})
      BY DEF Wired, DriverInbox
    <3> QED
      BY <1>1, <3>1, ConcatProperties
  <2>2. report \in Seq(Reports)
    <3>1. to_driver.report \in Seq(Reports) /\ "RECORDING" \in Reports
      BY DEF Wired, DriverInbox, Reports
    <3> QED
      BY <3>1, AppendProperties
  <2>3. Append(to_driver.state, Told) \in Seq(Tellings)
    BY <1>2, AppendProperties DEF Wired, DriverInbox
  <2>4. to_driver' = [to_driver EXCEPT !.state = Append(to_driver.state, Told),
                                       !.request = request, !.report = report]
    BY DEF PublishState
  <2> HIDE DEF request, report
  <2> QED
    BY <2>1, <2>2, <2>3, <2>4 DEF Wired, DriverInbox
<1> QED
  BY <1>3, <1>4

\* What the driver commands is sent, in some order.
LEMMA ExecuteOK ==
  ASSUME Wired, NEW d, DriverOK(d), Execute(d)
  PROVE  DriverOK(driver') /\ camera' \in Seq(Shots) /\ to_orchestrator' \in OrchestratorInbox
<1>1. DriverOK(driver')
  BY FS_EmptySet DEF Execute, DriverOK
<1>2. /\ Waypoint(d.commands) \in SUBSET Names
      /\ Service(d.commands) \in SUBSET Services
      /\ Frames(d.commands) \in SUBSET Shots
  BY DEF DriverOK, Commands, Waypoint, Service, Frames, Shots, Wired, Driver!Desired,
         Driver!Complete, Driver!Reached, Driver!Call, Driver!Frame
<1>3. /\ IsFiniteSet(Waypoint(d.commands)) /\ IsFiniteSet(Service(d.commands))
      /\ IsFiniteSet(Frames(d.commands))
  <2>1. \A S : S \in SUBSET d.commands => IsFiniteSet(S)
    BY FS_Subset DEF DriverOK
  <2>2. /\ IsFiniteSet({x \in d.commands : x.do = "reached"})
        /\ IsFiniteSet({x \in d.commands : x.do = "call"})
        /\ IsFiniteSet({x \in d.commands : x.do = "frame"})
    BY <2>1
  <2>3. IsFiniteSet(Waypoint(d.commands))
    BY <2>2, ImageIsFinite DEF Waypoint
  <2>4. IsFiniteSet(Service(d.commands))
    BY <2>2, ImageIsFinite DEF Service
  <2>5. IsFiniteSet(Frames(d.commands))
    <3> DEFINE S == {x \in d.commands : x.do = "frame"}
    <3>1. IsFiniteSet(S)
      BY <2>2
    <3> HIDE DEF S
    <3>2. IsFiniteSet({[waypoint |-> x.waypoint, malformed |-> x.malformed,
                        stamp |-> now] : x \in S})
      BY <3>1, ImageIsFinite
    <3> QED
      BY <3>2 DEF Frames, S
  <2> QED
    BY <2>3, <2>4, <2>5
<1>4. /\ SetToSeq(Waypoint(d.commands)) \in Seq(Names)
      /\ SetToSeq(Service(d.commands)) \in Seq(Services)
      /\ SetToSeq(Frames(d.commands)) \in Seq(Shots)
  BY <1>2, <1>3, SomeOrder, SeqMonotonic
<1>5. /\ camera \o SetToSeq(Frames(d.commands)) \in Seq(Shots)
      /\ to_orchestrator.reached \o SetToSeq(Waypoint(d.commands)) \in Seq(Names)
      /\ to_orchestrator.call \o SetToSeq(Service(d.commands)) \in Seq(Services)
  <2>1. /\ camera \in Seq(Shots) /\ to_orchestrator.reached \in Seq(Names)
        /\ to_orchestrator.call \in Seq(Services)
    BY DEF Wired, OrchestratorInbox
  <2> QED
    BY <1>4, <2>1, ConcatProperties
<1>6. to_orchestrator' \in OrchestratorInbox
  BY <1>5 DEF Execute, Wired, OrchestratorInbox
<1> QED
  BY <1>1, <1>5, <1>6 DEF Execute

\* What is taken off a topic leaves messages of the same kind.
LEMMA TakenOff ==
  ASSUME NEW S, NEW q \in Seq(S), q # <<>> PROVE Head(q) \in S /\ Tail(q) \in Seq(S)
BY HeadTailProperties

\* The driver's callbacks send what is known,
LEMMA DriverStep ==
  ASSUME Wired, OnTick \/ \E topic \in DOMAIN to_driver : DriverHears(topic)
  PROVE  Wired'
<1> USE DEF Wired
<1>1. ASSUME NEW d, DriverOK(d), Execute(d), to_driver' \in DriverInbox
      PROVE  Wired'
  <2>1. /\ DriverOK(driver') /\ camera' \in Seq(Shots)
        /\ to_orchestrator' \in OrchestratorInbox
    BY <1>1, ExecuteOK
  <2> QED
    BY <1>1, <2>1 DEF Execute, supervising
<1>2. CASE OnTick
  <2>1. DriverOK(GraphSeen)
    BY WaitOK DEF GraphSeen
  <2>2. DriverOK(Driver!OnTick(GraphSeen))
    BY <2>1, TickOK
  <2> QED
    BY <1>1, <1>2, <2>2 DEF OnTick
<1>3. ASSUME NEW topic \in DOMAIN to_driver, DriverHears(topic) PROVE Wired'
  <2> DEFINE m == Head(to_driver[topic])
  <2>1. DOMAIN to_driver = {"evidence", "assessment", "decision", "state", "cmd_vel",
                            "report", "request"}
    BY DEF DriverInbox
  <2>2. to_driver[topic] # <<>> /\ Execute(Handled(topic, m))
        /\ to_driver' = [to_driver EXCEPT ![topic] = Tail(to_driver[topic])]
    BY <1>3 DEF DriverHears
  <2>3. to_driver' \in DriverInbox
    <3>1. /\ topic = "evidence" => Tail(to_driver.evidence) \in Seq(Evidence)
          /\ topic = "assessment" => Tail(to_driver.assessment) \in Seq(Evidence)
          /\ topic = "decision" => Tail(to_driver.decision) \in Seq(Sayings)
          /\ topic = "state" => Tail(to_driver.state) \in Seq(Tellings)
          /\ topic = "cmd_vel" => Tail(to_driver.cmd_vel) \in Seq(BOOLEAN)
          /\ topic = "report" => Tail(to_driver.report) \in Seq(Reports)
          /\ topic = "request" => Tail(to_driver.request) \in Seq({"now"})
      BY <2>2, TakenOff DEF DriverInbox
    <3> QED
      BY <2>1, <2>2, <3>1 DEF DriverInbox
  <2>4. topic = "state" => m \in Tellings
    BY <2>2, TakenOff DEF DriverInbox
  <2> HIDE DEF m
  <2>5. DriverOK(Handled(topic, m))
    BY <2>1, <2>4, AnswerOK, HeardOK, SeenMovingOK, ReportedOK, WaitOK DEF Handled
  <2> QED
    BY <1>1, <2>2, <2>3, <2>5
<1> QED
  BY <1>2, <1>3

\* so do the bridge and the supervisor behind it,
LEMMA BridgeStep == ASSUME Wired, OnImage \/ Analyse PROVE Wired'
<1> USE DEF Wired, orchestrating, driving
<1>1. ASSUME OnImage PROVE Wired'
  <2> DEFINE frame == Head(camera)
  <2>1. frame \in Shots /\ camera' \in Seq(Shots)
    BY <1>1, TakenOff DEF OnImage
  <2>2. /\ frame.waypoint \in Names /\ frame.stamp \in 0 .. MaxTime
        /\ DOMAIN frame = {"waypoint", "malformed", "stamp"}
        /\ frame.malformed \in BOOLEAN
    BY <2>1 DEF Shots
  <2>3. UNCHANGED <<script, driver, now>>
    BY <1>1 DEF OnImage
  <2>4. CASE LoseImage
    BY <2>1, <2>3, <2>4 DEF LoseImage, supervising, topics
  <2>5. CASE AcceptImage
    <3> DEFINE take == Taken(frame)
               id == EvidenceId(frame)
    <3>1. take \in Takes
      BY <2>2 DEF Taken, Takes
    <3>2. id \in Evidence
      BY <2>2, EvidenceIdOK
    <3>3. analysing' = Append(analysing, take)
          /\ to_driver' = [to_driver EXCEPT !.evidence = Append(to_driver.evidence, id)]
          /\ UNCHANGED <<supervising, to_orchestrator, to_controller>>
      BY <2>5 DEF AcceptImage
    <3> HIDE DEF take, id
    <3>4. analysing' \in Seq(Takes) /\ Append(to_driver.evidence, id) \in Seq(Evidence)
      BY <3>1, <3>2, <3>3, AppendProperties DEF DriverInbox
    <3>5. to_driver' \in DriverInbox
      BY <3>3, <3>4 DEF DriverInbox
    <3> QED
      BY <2>1, <2>3, <3>3, <3>4, <3>5 DEF supervising
  <2>6. CASE RejectImage
    <3>1. Assess(frame, "INSPECT_CLOSER") /\ analysing' = analysing
      BY <2>6 DEF RejectImage
    <3> HIDE DEF frame
    <3>2. /\ GateOK(supervisor_gate') /\ last_seen' \in Said
          /\ to_orchestrator' \in OrchestratorInbox /\ to_controller' \in ControllerInbox
          /\ to_driver' \in DriverInbox
      BY <2>2, <3>1, AssessOK DEF Supervisor!Actions
    <3> QED
      BY <2>1, <2>3, <3>1, <3>2
  <2> QED
    BY <1>1, <2>4, <2>5, <2>6 DEF OnImage
<1>2. ASSUME Analyse PROVE Wired'
  <2> DEFINE frame == Head(analysing)
  <2>1. frame \in Takes /\ analysing' \in Seq(Takes)
    BY <1>2, TakenOff DEF Analyse
  <2>2. frame.waypoint \in Names /\ frame.stamp \in 0 .. MaxTime
    BY <2>1 DEF Takes
  <2>3. Assess(frame, script.reading) /\ UNCHANGED <<script, driver, camera, now>>
    BY <1>2 DEF Analyse
  <2>4. script.reading \in Supervisor!Actions
    BY PipelineAssumption
  <2> HIDE DEF frame
  <2>5. /\ GateOK(supervisor_gate') /\ last_seen' \in Said
        /\ to_orchestrator' \in OrchestratorInbox /\ to_controller' \in ControllerInbox
        /\ to_driver' \in DriverInbox
    BY <2>2, <2>3, <2>4, AssessOK
  <2> QED
    BY <2>1, <2>3, <2>5
<1> QED
  BY <1>1, <1>2

\* and the supervisor's watchdog.
LEMMA SupervisorWatchdogStep == ASSUME Wired, CheckWatchdog PROVE Wired'
<1> USE DEF Wired, orchestrating, driving, seeing
<1>1. /\ UNCHANGED <<script, driver, camera, analysing, last_seen, now>>
      /\ supervisor_gate' = supervisor_gate
  BY DEF CheckWatchdog, Supervisor!CheckWatchdog
<1>2. CASE UNCHANGED topics
  BY <1>1, <1>2 DEF topics
<1>3. CASE timeout_published' # timeout_published /\ Broadcast(Says(last_seen), to_driver)
  <2>1. decision' = [action |-> "STOP", status |-> "STALE", stamp |-> supervisor_gate.last]
    BY <1>3 DEF CheckWatchdog, Supervisor!CheckWatchdog, Supervisor!Publish
  <2>2. Says(last_seen) \in Sayings
    BY <2>1 DEF Says, Sayings, Supervisor!Actions, Statuses, Stamps, GateOK
  <2>3. /\ to_orchestrator' \in OrchestratorInbox /\ to_controller' \in ControllerInbox
        /\ to_driver' \in DriverInbox
    BY <1>3, <2>2, BroadcastOK
  <2> QED
    BY <1>1, <2>3
<1> QED
  BY <1>2, <1>3 DEF CheckWatchdog


\* What a step of the orchestrator, whichever it is, leaves of the rest.
Elsewhere == <<script, driver, camera, analysing, supervisor_gate, last_seen, now>>

\* A message heard and answered by a mission state keeps the topics wired,
LEMMA HearingStep ==
  ASSUME Wired, TypeOK', Pictured', NEW topic \in {"decision", "reached", "call"},
         to_orchestrator[topic] # <<>>, PublishState(TRUE), UNCHANGED Elsewhere,
         to_orchestrator' = [to_orchestrator EXCEPT ![topic] = Tail(to_orchestrator[topic])]
  PROVE  Wired'
<1> USE DEF Wired
<1>1. to_controller' \in ControllerInbox /\ to_driver' \in DriverInbox
  BY PublishOK
<1>2. to_orchestrator' \in OrchestratorInbox
  <2>1. /\ topic = "decision" => Tail(to_orchestrator.decision) \in Seq(Sayings)
        /\ topic = "reached" => Tail(to_orchestrator.reached) \in Seq(Names)
        /\ topic = "call" => Tail(to_orchestrator.call) \in Seq(Services)
    BY TakenOff DEF OrchestratorInbox
  <2> QED
    BY <2>1 DEF OrchestratorInbox
<1> QED
  BY <1>1, <1>2 DEF Elsewhere

\* as does a mission state told for another reason.
LEMMA TellingStep ==
  ASSUME Wired, TypeOK', Pictured', NEW sent \in BOOLEAN, PublishState(sent),
         UNCHANGED <<Elsewhere, to_orchestrator>>
  PROVE  Wired'
BY PublishOK DEF Wired, Elsewhere

\* Each of the orchestrator's steps is one or the other, or silent.
LEMMA OrchestratorStep ==
  ASSUME Wired, TypeOK', Pictured',
         \/ OrchestratorHears("decision", Decided) \/ OrchestratorHears("reached", Arrived)
         \/ OrchestratorHears("call", Called) \/ WatchdogTimer \/ Heartbeat
         \/ Crash \/ Unheard \/ ComeUp \/ Operate
  PROVE  Wired'
<1> USE DEF supervising, driving, seeing, orchestrating, topics, Elsewhere, ApplyTransition
<1>1. CASE OrchestratorHears("decision", Decided)
  BY <1>1, HearingStep DEF OrchestratorHears
<1>2. CASE OrchestratorHears("reached", Arrived)
  BY <1>2, HearingStep DEF OrchestratorHears
<1>3. CASE OrchestratorHears("call", Called)
  BY <1>3, HearingStep DEF OrchestratorHears
<1>4. CASE WatchdogTimer
  <2>1. UNCHANGED <<Elsewhere, to_orchestrator>>
    BY <1>4 DEF WatchdogTimer, OnWatchdog
  <2>2. PublishState(TRUE) \/ UNCHANGED <<to_controller, to_driver>>
    BY <1>4 DEF WatchdogTimer
  <2>3. CASE UNCHANGED <<to_controller, to_driver>>
    BY <2>1, <2>3 DEF Wired
  <2> QED
    BY <2>1, <2>2, <2>3, TellingStep
<1>5. CASE Heartbeat
  <2>1. UNCHANGED <<Elsewhere, to_orchestrator>>
    BY <1>5 DEF Heartbeat
  <2>2. PublishState(FALSE) \/ UNCHANGED <<to_controller, to_driver>>
    BY <1>5 DEF Heartbeat
  <2>3. CASE UNCHANGED <<to_controller, to_driver>>
    BY <2>1, <2>3 DEF Wired
  <2> QED
    BY <2>1, <2>2, <2>3, TellingStep
<1>6. CASE Crash
  BY <1>6 DEF Crash, Restart, Wired
<1>7. CASE Unheard
  <2>1. PICK topic \in DOMAIN to_orchestrator :
          /\ to_orchestrator[topic] # <<>>
          /\ to_orchestrator' = [to_orchestrator EXCEPT ![topic] = Tail(to_orchestrator[topic])]
    BY <1>7 DEF Unheard
  <2>2. /\ topic = "decision" => Tail(to_orchestrator.decision) \in Seq(Sayings)
        /\ topic = "reached" => Tail(to_orchestrator.reached) \in Seq(Names)
        /\ topic = "call" => Tail(to_orchestrator.call) \in Seq(Services)
    BY <2>1, TakenOff DEF Wired, OrchestratorInbox
  <2>3. to_orchestrator' \in OrchestratorInbox
    BY <2>1, <2>2 DEF Wired, OrchestratorInbox
  <2> QED
    BY <1>7, <2>3 DEF Unheard, Wired
<1>8. CASE ComeUp
  BY <1>8, TellingStep DEF ComeUp
<1>9. CASE Operate
  BY <1>9, TellingStep DEF Operate
<1> QED
  BY <1>1, <1>2, <1>3, <1>4, <1>5, <1>6, <1>7, <1>8, <1>9

\* The controller only takes off its topics, and adds its velocity.
LEMMA ControllerStep ==
  ASSUME Wired,
         \/ ControllerHears("decision", Obeyed) \/ ControllerHears("state", Allowed)
         \/ ControlTimer \/ Finalize
  PROVE  Wired'
<1> USE DEF Wired, supervising, driving, seeing, orchestrating, Elsewhere
<1>1. CASE ControllerHears("decision", Obeyed)
  <2>1. Tail(to_controller.decision) \in Seq(Sayings)
    BY <1>1, TakenOff DEF ControllerHears, ControllerInbox
  <2>2. to_controller' \in ControllerInbox
    BY <1>1, <2>1 DEF ControllerHears, ControllerInbox
  <2> QED
    BY <1>1, <2>2 DEF ControllerHears, Obeyed, Controller!OnPolicyDecision
<1>2. CASE ControllerHears("state", Allowed)
  <2>1. Tail(to_controller.state) \in Seq(Tellings)
    BY <1>2, TakenOff DEF ControllerHears, ControllerInbox
  <2>2. to_controller' \in ControllerInbox
    BY <1>2, <2>1 DEF ControllerHears, ControllerInbox
  <2> QED
    BY <1>2, <2>2 DEF ControllerHears, Allowed, Controller!OnMissionState
<1>3. CASE ControlTimer
  <2>1. Append(to_driver.cmd_vel, Nonzero) \in Seq(BOOLEAN)
    BY AppendProperties DEF Nonzero, DriverInbox
  <2>2. to_driver' \in DriverInbox
    BY <1>3, <2>1 DEF ControlTimer, DriverInbox
  <2> QED
    BY <1>3, <2>2 DEF ControlTimer, Controller!PublishSafeCommand
<1>4. CASE Finalize
  <2>1. Append(to_driver.report, "FINALIZED") \in Seq(Reports)
    BY AppendProperties DEF Reports, DriverInbox
  <2>2. to_driver' \in DriverInbox
    BY <1>4, <2>1 DEF Finalize, DriverInbox
  <2> QED
    BY <1>4, <2>2 DEF Finalize
<1> QED
  BY <1>1, <1>2, <1>3, <1>4

\* Every step of the pipeline sends only what its receiver knows.
LEMMA WiredStep == ASSUME Wired, TypeOK', Pictured', [ENext]_evars PROVE Wired'
<1>1. CASE Pass
  <2>1. DriverOK(driver')
    BY <1>1, WaitOK DEF Pass, Wired
  <2>2. now' \in 0 .. MaxTime
    BY <1>1, PeriodAssumption DEF Pass, Elapse, Wired
  <2>3. supervisor_gate' = supervisor_gate
    BY <1>1 DEF Pass, Supervisor!Elapse
  <2> QED
    BY <1>1, <2>1, <2>2, <2>3 DEF Pass, Wired, seeing, topics
<1>2. CASE UNCHANGED evars
  BY <1>2 DEF evars, Wired, nvars, vars, supervising, driving, seeing, topics
<1> QED
  BY <1>1, <1>2, DriverStep, BridgeStep, SupervisorWatchdogStep, OrchestratorStep,
     ControllerStep DEF ENext

\* No message is under way at the start.
LEMMA WiredInit == EInit => Wired
<1> SUFFICES ASSUME EInit PROVE Wired
  OBVIOUS
<1>1. now = 0 /\ 0 \in 0 .. MaxTime
  BY PeriodAssumption DEF EInit, NInit
<1>2. DriverOK(driver)
  BY FS_EmptySet DEF EInit, DriverOK, Driver!NewDriver, Tellings, Said, States,
     Driver!NoName, NoName
<1>3. /\ to_orchestrator \in OrchestratorInbox /\ to_controller \in ControllerInbox
      /\ to_driver \in DriverInbox /\ camera \in Seq(Shots) /\ analysing \in Seq(Takes)
  BY EmptySeq DEF EInit, OrchestratorInbox, ControllerInbox, DriverInbox
<1>4. GateOK(supervisor_gate)
  BY <1>1 DEF EInit, Supervisor!Init, Supervisor!EmptyGate, GateOK, GateFields
<1> QED
  BY <1>1, <1>2, <1>3, <1>4 DEF EInit, Wired, Said

\* Whatever permits the machine to move is a decision on a picture.
LEMMA PicturedStep == ASSUME Wired, Pictured, [ENext]_evars PROVE Pictured'
<1> USE DEF Pictured
<1>1. CASE UNCHANGED vars
  BY <1>1 DEF vars, policy
<1>2. CASE OrchestratorHears("decision", Decided)
  <2> DEFINE m == Head(to_orchestrator.decision)
  <2>1. Decided(m)
    BY <1>2 DEF OrchestratorHears
  <2>2. m \in Sayings
    BY <1>2, TakenOff DEF Wired, OrchestratorInbox, OrchestratorHears
  <2> HIDE DEF m
  <2>3. PICK status, age :
          /\ status = "VALID" => m.evidence \in Pictures
          /\ ApplyPolicy(m.action, status, m.evidence, age)
    BY <2>1, <2>2 DEF Decided, OnPolicy, Sayings
  <2> QED
    BY <2>3 DEF ApplyPolicy, Reject, policy, ApplyMismatch, ForbidMotion, SafetyStop, Transition,
       ApplyStop, ApplyInspectCloser, ApplyReroute, ApplyMotion
<1>3. CASE OnRequest
  <2> USE DEF Reject, policy, Transition, ForgetPolicy
  <2>1. CASE Start \/ Pause \/ Resume \/ Abort \/ Reset
    BY <2>1 DEF Start, Pause, Resume, MayMoveAtOnce, Abort, Reset
  <2>2. CASE Report
    BY <2>2 DEF Report, WaypointReached, Arrive, SafetyStop
  <2>3. CASE Retarget
    BY <2>3 DEF Retarget, SetRerouteTarget, AdoptTarget, SafetyStop
  <2>4. CASE SwitchEmergencyStop
    BY <2>4 DEF SwitchEmergencyStop, SetEmergencyStop, ClearEmergencyStop
  <2> QED
    BY <1>3, <2>1, <2>2, <2>3, <2>4 DEF OnRequest
<1>4. CASE OnWatchdog
  BY <1>1, <1>4 DEF OnWatchdog, Watchdog, SafetyStop, Transition, ForbidMotion
<1>5. CASE Restart
  BY <1>5 DEF Restart, ForgetPolicy
<1>6. CASE Pass
  BY <1>6 DEF Pass, Elapse, Tick
<1>7. CASE Others \/ UNCHANGED evars
  BY <1>1, <1>7, OthersLeaveTheNode DEF evars, nvars
<1>8. CASE \/ OrchestratorHears("reached", Arrived) \/ OrchestratorHears("call", Called)
           \/ Operate
  <2>1. OnRequest
    <3>2. CASE OrchestratorHears("reached", Arrived)
      <4>1. Head(to_orchestrator.reached) \in Names
        BY <3>2, TakenOff DEF Wired, OrchestratorInbox, OrchestratorHears
      <4> QED
        BY <3>2, <4>1 DEF OrchestratorHears, Arrived, OnRequest, Report
    <3>3. CASE OrchestratorHears("call", Called)
      BY <3>3 DEF OrchestratorHears, Called, OnRequest
    <3>4. CASE Operate
      BY <3>4 DEF Operate, OperatorStart, OperatorReset, OnRequest
    <3> QED
      BY <1>8, <3>2, <3>3, <3>4
  <2> QED
    BY <1>3, <2>1
<1> QED
  BY <1>2, <1>4, <1>5, <1>6, <1>7, <1>8 DEF ENext, Others, WatchdogTimer, Crash

\* What every reachable state of the pipeline satisfies.
LEMMA WiredAlways == ESpec => [](Wired /\ NSafe /\ Pictured)
<1>1. EInit => Wired /\ NSafe /\ Pictured
  BY WiredInit, NSafeInit DEF EInit, NInit, Init, Pictured
<1>2. Wired /\ NSafe /\ Pictured /\ [ENext]_evars => (Wired /\ NSafe /\ Pictured)'
  <2> SUFFICES ASSUME Wired, NSafe, Pictured, [ENext]_evars
               PROVE  Wired' /\ NSafe' /\ Pictured'
    OBVIOUS
  <2>1. [NNext]_nvars
    BY NodeRuns
  <2>2. NSafe' /\ TypeOK'
    BY <2>1, NSafeStep, MachineSafe
  <2>3. Pictured'
    BY PicturedStep
  <2> QED
    BY <2>2, <2>3, WiredStep
<1> QED
  BY <1>1, <1>2, PTL DEF ESpec

-----------------------------------------------------------------------------
\* How long ago the robot may have lost its authority to move.

\* What the controller holds of the mission.
Obedient ==
  /\ DOMAIN controller_mission = {"authorized", "evidence", "age", "sent"}
  /\ controller_mission.authorized \in BOOLEAN
  /\ controller_mission.age \in 0 .. MissionTimeout + 1

\* It believes in an authority for as long as it may, and in the clock unit in which it
\* was told of it the orchestrator still had it.
Believed ==
  controller_mission.authorized /\ controller_mission.age <= MissionTimeout
  => now - authorized_at <= controller_mission.age

Heralded ==
  \A i \in DOMAIN to_controller.state :
    to_controller.state[i].authorized => authorized_at = now

\* What the controller will believe when it has heard all there is to hear: while no
\* process has died, the orchestrator itself.
LastTold ==
  IF to_controller.state = <<>> THEN controller_mission.authorized
  ELSE to_controller.state[Len(to_controller.state)].authorized

Kept ==
  crashes = 0 =>
    /\ ~down /\ (LastTold => motion_authorized)
    /\ ~controlled /\ controller_mission.authorized => authorized_at = now

Halts ==
  Controller!Moving =>
    now - authorized_at <= (IF controlled THEN 0 ELSE 1)
                           + (IF crashes = 0 THEN 0 ELSE MissionTimeout)

Withdrawn ==
  /\ authorized_at \in 0 .. now /\ crashes \in Nat
  /\ motion_authorized => authorized_at = now
  /\ Obedient /\ Believed /\ Heralded /\ Kept /\ Halts

\* What the argument looks at.
Observed == <<motion_authorized, authorized_at, now, crashes, down, controller_mission,
              to_controller.state, controlled, output>>

\* A step that changes none of it keeps the argument.
LEMMA QuietStep == ASSUME Withdrawn, UNCHANGED Observed PROVE Withdrawn'
BY DEF Withdrawn, Observed, Obedient, Believed, Heralded, LastTold, Kept, Halts,
       Controller!Moving

\* The orchestrator tells every change of mind in the clock unit in which it occurs.
LEMMA NewsStep ==
  ASSUME Withdrawn, Wired, TypeOK', Pictured', NEW sent \in BOOLEAN, PublishState(sent), Authorized,
         UNCHANGED <<now, crashes, controller_mission, controlled, output>>,
         crashes = 0 => ~down'
  PROVE  Withdrawn'
<1> DEFINE q == to_controller.state
<1>1. /\ now \in Nat /\ MissionTimeout \in Nat
      /\ motion_authorized' \in BOOLEAN /\ q \in Seq(Tellings)
  BY PipelineAssumption, PeriodAssumption DEF Wired, TypeOK, ControllerInbox
<1>2. /\ authorized_at' \in 0 .. now /\ now - authorized_at' <= now - authorized_at
      /\ motion_authorized' => authorized_at' = now
      /\ authorized_at = now => authorized_at' = now
  BY <1>1 DEF Authorized, Withdrawn
<1>3. to_controller'.state = Append(q, Told) /\ Told.authorized = motion_authorized'
  BY DEF PublishState, Told, Wired, ControllerInbox
<1>4. Told \in Tellings
  BY ToldOK
<1> DEFINE r == Append(q, Told)
<1>5. /\ r # <<>> /\ Len(r) = Len(q) + 1 /\ DOMAIN r = 1 .. Len(q) + 1
      /\ DOMAIN q = 1 .. Len(q) /\ Len(q) \in Nat
      /\ \A i \in 1 .. Len(q) : r[i] = q[i]
      /\ r[Len(q) + 1] = Told
  BY <1>1, <1>4, AppendProperties, LenProperties
<1> HIDE DEF q, r
<1>6. Heralded'
  <2> SUFFICES ASSUME NEW i \in DOMAIN r, r[i].authorized PROVE authorized_at' = now
    BY <1>3 DEF Heralded, r
  <2>1. CASE i \in 1 .. Len(q)
    BY <1>2, <1>5, <2>1 DEF Withdrawn, Heralded, q
  <2>2. CASE i = Len(q) + 1
    BY <1>2, <1>3, <1>5, <2>2
  <2> QED
    BY <1>5, <2>1, <2>2
<1>7. LastTold' = motion_authorized'
  BY <1>3, <1>5 DEF LastTold, r
<1>8. Kept'
  BY <1>2, <1>7 DEF Withdrawn, Kept
<1>9. /\ now \in Nat /\ authorized_at \in Nat /\ authorized_at' \in Nat
      /\ now' = now /\ authorized_at <= authorized_at'
  BY PeriodAssumption DEF Wired, Withdrawn, Authorized
<1>10. Obedient' /\ Believed'
  <2>1. Obedient /\ Believed /\ now' = now /\ controller_mission' = controller_mission
    BY DEF Withdrawn
  <2>2. Obedient'
    BY <2>1 DEF Obedient
  <2>3. controller_mission.age \in Nat
    BY <1>1, <2>1 DEF Obedient
  <2> QED
    BY <1>9, <2>1, <2>2, <2>3 DEF Believed
<1>11. Halts'
  <2>1. /\ Halts /\ now' = now /\ UNCHANGED <<controlled, crashes, output>>
    BY DEF Withdrawn
  <2> DEFINE bound == (IF controlled THEN 0 ELSE 1)
                      + (IF crashes = 0 THEN 0 ELSE MissionTimeout)
  <2>2. bound \in Nat
    BY <1>1
  <2>3. Controller!Moving' = Controller!Moving
    BY <2>1 DEF Controller!Moving
  <2>4. Controller!Moving => now - authorized_at <= bound
    BY <2>1 DEF Halts
  <2> HIDE DEF bound
  <2>5. \A n, a, b, c \in Nat : a <= b /\ n - a <= c => n - b <= c
    OBVIOUS
  <2>6. now - authorized_at <= bound => now - authorized_at' <= bound
    BY <1>9, <2>2, <2>5
  <2>7. Controller!Moving' => now' - authorized_at' <= bound
    BY <2>1, <2>3, <2>4, <2>6
  <2> QED
    BY <2>1, <2>7 DEF Halts, bound
<1> QED
  BY <1>2, <1>6, <1>8, <1>10, <1>11 DEF Withdrawn

\* The orchestrator's steps keep it: they tell it, or the process dies.
LEMMA OrchestratorKeeps ==
  ASSUME Withdrawn, Wired, TypeOK', Pictured',
         \/ OrchestratorHears("decision", Decided) \/ OrchestratorHears("reached", Arrived)
         \/ OrchestratorHears("call", Called) \/ WatchdogTimer \/ Heartbeat
         \/ Crash \/ ComeUp \/ Operate
  PROVE  Withdrawn'
<1> USE DEF budget, inputs, controlling, orchestrating, topics, history, ApplyTransition
<1>1. crashes = 0 => ~down
  BY DEF Withdrawn, Kept
<1>2. CASE OrchestratorHears("decision", Decided)
  BY <1>1, <1>2, NewsStep DEF OrchestratorHears
<1>3. CASE OrchestratorHears("reached", Arrived)
  BY <1>1, <1>3, NewsStep DEF OrchestratorHears
<1>4. CASE OrchestratorHears("call", Called)
  BY <1>1, <1>4, NewsStep DEF OrchestratorHears
<1>5. CASE WatchdogTimer
  <2>1. /\ UNCHANGED <<now, crashes, controller_mission, controlled, output, down>>
        /\ Authorized
    BY <1>5 DEF WatchdogTimer, OnWatchdog
  <2>2. CASE Expired
    <3>1. PublishState(TRUE)
      BY <1>5, <2>2 DEF WatchdogTimer
    <3> QED
      BY <1>1, <2>1, <3>1, NewsStep
  <2>3. CASE ~Expired
    <3>1. motion_authorized' = motion_authorized /\ to_controller' = to_controller
      BY <1>5, <2>3 DEF WatchdogTimer, OnWatchdog, Watchdog, Expired, vars
    <3>2. UNCHANGED Observed
      BY <2>1, <3>1 DEF Authorized, Withdrawn, Observed
    <3> QED
      BY <3>2, QuietStep
  <2> QED
    BY <2>2, <2>3
<1>6. CASE Heartbeat
  <2>1. UNCHANGED <<now, crashes, controller_mission, controlled, output, down,
                    motion_authorized, authorized_at>>
    BY <1>6 DEF Heartbeat, vars
  <2>2. Authorized
    BY <2>1 DEF Authorized, Withdrawn
  <2>3. CASE to_controller' = to_controller
    BY <2>1, <2>3, QuietStep DEF Observed
  <2>4. CASE PublishState(FALSE)
    BY <1>1, <2>1, <2>2, <2>4, NewsStep
  <2> QED
    BY <1>6, <2>3, <2>4 DEF Heartbeat
<1>7. CASE Crash
  <2>1. /\ crashes' = crashes + 1 /\ motion_authorized' = FALSE /\ now' = now
        /\ UNCHANGED <<authorized_at, controller_mission, controlled, output, to_controller>>
    BY <1>7 DEF Crash, Restart, Authorized
  <2>2. crashes' \in Nat /\ crashes' # 0 /\ MissionTimeout \in Nat
    BY <2>1, PipelineAssumption DEF Withdrawn
  <2>3. Halts'
    <3>1. now \in Nat /\ authorized_at \in Nat
      BY PeriodAssumption DEF Wired, Withdrawn
    <3> QED
      BY <2>1, <2>2, <3>1 DEF Withdrawn, Halts, Controller!Moving
  <2> QED
    BY <2>1, <2>2, <2>3 DEF Withdrawn, Obedient, Believed, Heralded, Kept
<1>8. CASE ComeUp
  <2>1. UNCHANGED <<now, crashes, controller_mission, controlled, output,
                    motion_authorized, authorized_at>> /\ down' = FALSE
    BY <1>8 DEF ComeUp, vars
  <2>2. Authorized
    BY <2>1 DEF Authorized, Withdrawn
  <2> QED
    BY <1>8, <2>1, <2>2, NewsStep DEF ComeUp
<1>9. CASE Operate
  BY <1>1, <1>9, NewsStep DEF Operate
<1> QED
  BY <1>2, <1>3, <1>4, <1>5, <1>6, <1>7, <1>8, <1>9

\* So does the controller that hears of an authority: it is one of this clock unit.
LEMMA HeardKeeps ==
  ASSUME Withdrawn, Wired, ControllerHears("state", Allowed) PROVE Withdrawn'
<1> DEFINE q == to_controller.state
           m == Head(q)
<1>1. q # <<>> /\ q \in Seq(Tellings) /\ Len(q) \in Nat \ {0} /\ DOMAIN q = 1 .. Len(q)
  BY EmptySeq, LenProperties DEF ControllerHears, Wired, ControllerInbox
<1>2. m = q[1] /\ m.authorized \in BOOLEAN
  <2>1. q[1] \in Tellings
    BY <1>1
  <2> QED
    BY <1>1, <2>1 DEF Tellings
<1>3. /\ to_controller'.state = Tail(q)
      /\ Len(Tail(q)) = Len(q) - 1 /\ DOMAIN Tail(q) = 1 .. Len(q) - 1
      /\ \A i \in 1 .. Len(q) - 1 : Tail(q)[i] = q[i + 1]
      /\ Tail(q) = <<>> <=> Len(q) = 1
  <2>1. to_controller'.state = Tail(q)
    BY DEF ControllerHears, Wired, ControllerInbox
  <2>2. /\ Tail(q) \in Seq(Tellings) /\ Len(Tail(q)) = Len(q) - 1
        /\ \A i \in 1 .. Len(Tail(q)) : Tail(q)[i] = q[i + 1]
    BY <1>1, HeadTailProperties
  <2>3. DOMAIN Tail(q) = 1 .. Len(Tail(q))
    BY <2>2, LenProperties
  <2>4. Tail(q) = <<>> <=> Len(Tail(q)) = 0
    BY <2>2, EmptySeq
  <2> HIDE DEF q
  <2> QED
    BY <1>1, <2>1, <2>2, <2>3, <2>4
<1>4. /\ UNCHANGED <<motion_authorized, authorized_at, now, crashes, down, controlled, output>>
      /\ DOMAIN controller_mission' = {"authorized", "evidence", "age", "sent"}
      /\ controller_mission'.authorized = m.authorized /\ controller_mission'.age = 0
  <2>1. /\ UNCHANGED <<motion_authorized, authorized_at, now, crashes, down>>
        /\ Allowed(m)
    BY DEF ControllerHears, orchestrating, vars, budget, history, Allowed,
           Controller!OnMissionState
  <2>2. 0 <= MissionTimeout /\ ~(0 > MissionTimeout) /\ Controller!Reference(0, 0) = 0
    BY PipelineAssumption DEF Controller!Reference, Controller!Later
  <2> HIDE DEF m
  <2>3. PICK evidence : Controller!OnMissionState(m.authorized, evidence, 0)
    BY <1>2, <2>1 DEF Allowed
  <2>4. controller_mission' = [authorized |-> m.authorized, evidence |-> evidence,
                               age |-> 0, sent |-> now - 0]
    BY <2>2, <2>3 DEF Controller!OnMissionState
  <2> QED
    BY <2>1, <2>3, <2>4 DEF Controller!OnMissionState
<1>5. m.authorized => authorized_at = now
  BY <1>1, <1>2 DEF Withdrawn, Heralded
<1>6. MissionTimeout \in Nat /\ now \in Nat /\ authorized_at \in Nat
  BY PipelineAssumption, PeriodAssumption DEF Wired, Withdrawn
<1> HIDE DEF m
<1>7. Obedient' /\ Believed'
  BY <1>2, <1>4, <1>5, <1>6 DEF Obedient, Believed
<1>8. Heralded'
  BY <1>1, <1>3, <1>4 DEF Withdrawn, Heralded
<1>9. LastTold' => LastTold
  BY <1>1, <1>2, <1>3, <1>4 DEF LastTold
<1>10. Kept'
  BY <1>4, <1>5, <1>9 DEF Withdrawn, Kept
<1>11. Halts'
  BY <1>4 DEF Withdrawn, Halts, Controller!Moving
<1> QED
  BY <1>4, <1>7, <1>8, <1>10, <1>11 DEF Withdrawn

\* The control timer moves the robot on an authority the controller believes in only.
LEMMA ControlKeeps == ASSUME Withdrawn, Wired, ControlTimer PROVE Withdrawn'
<1>1. /\ UNCHANGED <<motion_authorized, authorized_at, now, crashes, down,
                     controller_mission, to_controller>>
      /\ ~controlled /\ controlled' = TRUE
      /\ Controller!Permitted \/ output' = Controller!Zero
  BY DEF ControlTimer, Controller!PublishSafeCommand, orchestrating, vars, budget,
         Controller!inputs
<1>2. MissionTimeout \in Nat /\ now \in Nat /\ authorized_at \in Nat
  BY PipelineAssumption, PeriodAssumption DEF Wired, Withdrawn
<1>3. Halts'
  <2>1. CASE output' = Controller!Zero
    BY <2>1 DEF Halts, Controller!Moving, Controller!Zero
  <2>2. CASE Controller!Permitted
    <3>1. controller_mission.authorized /\ controller_mission.age <= MissionTimeout
      BY <2>2 DEF Controller!Permitted, Controller!MissionAuthorizes
    <3>2. now - authorized_at <= MissionTimeout
      BY <1>2, <3>1 DEF Withdrawn, Believed, Obedient
    <3>3. crashes = 0 => now - authorized_at = 0
      BY <1>1, <1>2, <3>1 DEF Withdrawn, Kept
    <3> QED
      BY <1>1, <1>2, <3>2, <3>3 DEF Halts
  <2> QED
    BY <1>1, <2>1, <2>2
<1> QED
  BY <1>1, <1>3 DEF Withdrawn, Obedient, Believed, Heralded, LastTold, Kept

\* As time passes the controller has heard all, and what it believes in ages.
LEMMA PassKeeps == ASSUME Withdrawn, Wired, TypeOK, Pass PROVE Withdrawn'
<1>1. /\ now' = now + 1 /\ controlled /\ controlled' = FALSE
      /\ UNCHANGED <<motion_authorized, crashes, down, to_controller, output>>
      /\ to_controller.state = <<>>
      /\ authorized_at' = IF motion_authorized THEN now + 1 ELSE authorized_at
  BY DEF Pass, Elapse, Tick, Controller!Elapse, Served, Empty, budget, topics, vars, Wired,
         ControllerInbox
<1>2. /\ MissionTimeout \in Nat /\ now \in Nat /\ authorized_at \in Nat
      /\ authorized_at <= now
  BY PipelineAssumption, PeriodAssumption DEF Wired, Withdrawn
<1>3. controller_mission'
        = Controller!Aged(controller_mission, MissionTimeout, Controller!NoMission)
  BY DEF Pass, Controller!Elapse
<1>4. /\ authorized_at' \in 0 .. now' /\ now' - authorized_at' <= now + 1 - authorized_at
      /\ motion_authorized => authorized_at' = now'
  <2>1. CASE motion_authorized
    BY <1>1, <1>2, <2>1
  <2>2. CASE ~motion_authorized
    BY <1>1, <1>2, <2>2
  <2> QED
    BY <2>1, <2>2
<1>5. /\ Obedient' /\ Believed'
      /\ controller_mission'.authorized => controller_mission.authorized
  <2>1. CASE controller_mission.age >= MissionTimeout
    <3>1. controller_mission' = Controller!NoMission
      BY <1>3, <2>1 DEF Controller!Aged
    <3> QED
      BY <1>2, <3>1 DEF Obedient, Believed, Controller!NoMission, Controller!NoEvidence
  <2>2. CASE controller_mission.age < MissionTimeout
    <3>1. controller_mission' = [controller_mission EXCEPT !.age = controller_mission.age + 1]
      BY <1>2, <1>3, <2>2 DEF Withdrawn, Obedient, Controller!Aged
    <3>2. /\ controller_mission'.authorized = controller_mission.authorized
          /\ controller_mission'.age = controller_mission.age + 1
          /\ DOMAIN controller_mission' = DOMAIN controller_mission
      BY <3>1 DEF Withdrawn, Obedient
    <3>3. Obedient'
      BY <1>2, <2>2, <3>2 DEF Withdrawn, Obedient
    <3>4. Believed'
      BY <1>1, <1>2, <1>4, <2>2, <3>2 DEF Withdrawn, Obedient, Believed
    <3> QED
      BY <3>2, <3>3, <3>4
  <2> QED
    BY <1>2, <2>1, <2>2 DEF Withdrawn, Obedient
<1>6. Heralded'
  BY <1>1 DEF Heralded
<1>7. Kept'
  BY <1>1, <1>4, <1>5 DEF Withdrawn, Kept, LastTold, Obedient
<1>8. Halts'
  BY <1>1, <1>2, <1>4 DEF Withdrawn, Halts, Controller!Moving
<1> QED
  BY <1>1, <1>4, <1>5, <1>6, <1>7, <1>8 DEF Withdrawn

\* A decision tells nothing of the mission's state.
LEMMA BroadcastSpares ==
  ASSUME Wired, NEW answer, NEW told, Broadcast(answer, told)
  PROVE  to_controller'.state = to_controller.state
BY DEF Broadcast, Wired, ControllerInbox

\* The others leave it to them.
LEMMA BystanderKeeps ==
  ASSUME Withdrawn, Wired,
         \/ OnTick \/ (\E topic \in DOMAIN to_driver : DriverHears(topic))
         \/ OnImage \/ Analyse \/ CheckWatchdog \/ Unheard
         \/ ControllerHears("decision", Obeyed) \/ Finalize \/ UNCHANGED evars
  PROVE  Withdrawn'
<1> USE DEF orchestrating, vars, inputs, controlling, topics, budget, history, Observed
<1>1. CASE OnTick
  BY <1>1, QuietStep DEF OnTick, Execute, Controller!OnDesiredCommand
<1>2. CASE \E topic \in DOMAIN to_driver : DriverHears(topic)
  BY <1>2, QuietStep, Zenon DEF DriverHears, Execute, Controller!OnDesiredCommand
<1>3. CASE OnImage
  <2>1. to_controller'.state = to_controller.state
    <3>1. CASE LoseImage \/ AcceptImage
      BY <3>1 DEF LoseImage, AcceptImage
    <3>2. CASE RejectImage
      BY <3>2, BroadcastSpares DEF RejectImage, Assess
    <3> QED
      BY <1>3, <3>1, <3>2 DEF OnImage
  <2> QED
    BY <1>3, <2>1, QuietStep DEF OnImage
<1>4. CASE Analyse
  <2>1. to_controller'.state = to_controller.state
    BY <1>4, BroadcastSpares DEF Analyse, Assess
  <2> QED
    BY <1>4, <2>1, QuietStep DEF Analyse
<1>5. CASE CheckWatchdog
  <2>1. to_controller'.state = to_controller.state
    BY <1>5, BroadcastSpares DEF CheckWatchdog
  <2> QED
    BY <1>5, <2>1, QuietStep DEF CheckWatchdog, Supervisor!CheckWatchdog
<1>6. CASE Unheard
  BY <1>6, QuietStep DEF Unheard
<1>7. CASE ControllerHears("decision", Obeyed)
  <2>1. to_controller'.state = to_controller.state
    BY <1>7 DEF ControllerHears, Wired, ControllerInbox
  <2> QED
    BY <1>7, <2>1, QuietStep DEF ControllerHears, Obeyed, Controller!OnPolicyDecision
<1>8. CASE Finalize
  BY <1>8, QuietStep DEF Finalize
<1>9. CASE UNCHANGED evars
  BY <1>9, QuietStep DEF evars, nvars
<1> QED
  BY <1>1, <1>2, <1>3, <1>4, <1>5, <1>6, <1>7, <1>8, <1>9

\* Withdrawn holds in every reachable state of the pipeline.
LEMMA WithdrawnAlways == ESpec => []Withdrawn
<1>1. ASSUME EInit PROVE Withdrawn
  <2>1. /\ now = 0 /\ authorized_at = 0 /\ crashes = 0 /\ down = FALSE
        /\ controller_mission = Controller!NoMission /\ to_controller.state = <<>>
        /\ motion_authorized = FALSE /\ output = Controller!Zero
    BY <1>1 DEF EInit, NInit, Init, Controller!Init
  <2>2. MissionTimeout \in Nat
    BY PipelineAssumption
  <2> QED
    BY <2>1, <2>2 DEF Withdrawn, Obedient, Believed, Heralded, LastTold, Kept, Halts,
       Controller!NoMission, Controller!Zero, Controller!Moving, Controller!NoEvidence
<1>2. Withdrawn /\ Wired /\ NSafe /\ (NSafe /\ Pictured)' /\ [ENext]_evars => Withdrawn'
  <2> SUFFICES ASSUME Withdrawn, Wired, TypeOK, TypeOK', Pictured', [ENext]_evars
               PROVE  Withdrawn'
    BY DEF NSafe
  <2> QED
    BY BystanderKeeps, OrchestratorKeeps, HeardKeeps, ControlKeeps, PassKeeps DEF ENext
<1> QED
  BY <1>1, <1>2, WiredAlways, PTL DEF ESpec

\* In the pipeline the orchestrator is the node its own module is about: whatever the
\* driver, the bridge and the supervisor send it, and whenever it dies.
THEOREM PipelineRunsTheNode == ESpec => NSpec
<1>1. EInit => NInit
  BY DEF EInit
<1>2. Wired /\ [ENext]_evars => [NNext]_nvars
  BY NodeRuns
<1> QED
  BY <1>1, <1>2, WiredAlways, PTL DEF ESpec, NSpec

\* So what moves the robot in the pipeline is the newest permission.
THEOREM PipelinePermissionIsTheNewest == ESpec => []PermissionIsTheNewest
BY PipelineRunsTheNode, PermissionIsTheNewestAlways, PTL

\* Nor does it move on an observation that has outlived the policy timeout and one
\* watchdog period.
THEOREM PipelineMovesWithinTheTimeout == ESpec => []MovesWithinTheTimeout
BY PipelineRunsTheNode, MovesWithinTheTimeoutAlways, PTL

\* The robot stands one control period after the orchestrator has withdrawn the
\* authority to move, and a mission timeout later still after its death, whatever the
\* scenario and the timeouts.
THEOREM StopReachesTheRobotAlways == ESpec => []StopReachesTheRobot
<1>1. Withdrawn /\ Wired => StopReachesTheRobot
  <2> SUFFICES ASSUME Withdrawn, Wired, Controller!Moving
               PROVE  now - authorized_at <= IF crashes = 0 THEN 1 ELSE MissionTimeout + 1
    BY DEF StopReachesTheRobot
  <2>1. now \in Nat /\ authorized_at \in Nat /\ MissionTimeout \in Nat
    BY PipelineAssumption, PeriodAssumption DEF Wired, Withdrawn
  <2> QED
    BY <2>1 DEF Withdrawn, Halts
<1> QED
  BY <1>1, WithdrawnAlways, WiredAlways, PTL

-----------------------------------------------------------------------------
\* The pipeline runs the supervisor, with what is proved of it.
SP == INSTANCE SupervisorProofs WITH
  Timeout <- AssessmentTimeout, WatchdogPeriod <- SupervisorPeriod,
  gate <- supervisor_gate, fault <- supervisor_fault, watchdog_due <- supervisor_due

\* The supervisor's state is what no other step touches.
LEMMA SupervisorSleeps ==
  ASSUME UNCHANGED <<supervising, now>> PROVE UNCHANGED Supervisor!vars
BY DEF supervising, Supervisor!vars

\* An assessment in the pipeline is one the supervisor may hear.
LEMMA SupervisorHears ==
  ASSUME NEW frame, frame.stamp \in 0 .. MaxTime,
         NEW action \in Supervisor!Actions, Assess(frame, action)
  PROVE  Supervisor!Next
<1>1. [action |-> action, status |-> "VALID"] \in Supervisor!Answers
  BY DEF Supervisor!Answers
<1>2. frame.stamp \in Supervisor!Stamps
  BY DEF Supervisor!Stamps
<1>3. 0 \in Supervisor!DdsAges
  BY PipelineAssumption DEF Supervisor!DdsAges, Supervisor!Unavailable
<1>4. Supervisor!HandleAssessment(frame.stamp, 0,
        [action |-> action, status |-> "VALID"].action,
        [action |-> action, status |-> "VALID"].status)
  BY DEF Assess
<1> QED
  BY <1>1, <1>2, <1>3, <1>4 DEF Supervisor!Next

\* Every step of the pipeline is a step of the supervisor or leaves it alone.
LEMMA SupervisorRuns == ASSUME Wired, [ENext]_evars PROVE [Supervisor!Next]_Supervisor!vars
<1>1. CASE OnImage
  <2> DEFINE frame == Head(camera)
  <2>1. frame \in Shots
    BY <1>1, TakenOff DEF OnImage, Wired
  <2>2. frame.stamp \in 0 .. MaxTime
    BY <2>1 DEF Shots
  <2>3. CASE LoseImage \/ AcceptImage
    BY <1>1, <2>3, SupervisorSleeps DEF OnImage, LoseImage, AcceptImage
  <2>4. CASE RejectImage
    <3>1. Assess(frame, "INSPECT_CLOSER") /\ "INSPECT_CLOSER" \in Supervisor!Actions
      BY <2>4 DEF RejectImage, Supervisor!Actions
    <3> HIDE DEF frame
    <3> QED
      BY <2>2, <3>1, SupervisorHears
  <2> QED
    BY <1>1, <2>3, <2>4 DEF OnImage
<1>2. CASE Analyse
  <2> DEFINE frame == Head(analysing)
  <2>1. frame \in Takes
    BY <1>2, TakenOff DEF Analyse, Wired
  <2>2. frame.stamp \in 0 .. MaxTime
    BY <2>1 DEF Takes
  <2>3. Assess(frame, script.reading) /\ script.reading \in Supervisor!Actions
    BY <1>2, PipelineAssumption DEF Analyse, Wired
  <2> HIDE DEF frame
  <2> QED
    BY <2>2, <2>3, SupervisorHears
<1>3. CASE CheckWatchdog
  BY <1>3 DEF CheckWatchdog, Supervisor!Next
<1>4. CASE Pass
  BY <1>4 DEF Pass, Supervisor!Next
<1>5. CASE OnTick \/ \E topic \in DOMAIN to_driver : DriverHears(topic)
  BY <1>5, SupervisorSleeps, Zenon DEF OnTick, DriverHears, Execute
<1>6. CASE \/ OrchestratorHears("decision", Decided) \/ OrchestratorHears("reached", Arrived)
           \/ OrchestratorHears("call", Called)
  BY <1>6, SupervisorSleeps DEF OrchestratorHears
<1>7. CASE WatchdogTimer \/ Heartbeat \/ Crash \/ Unheard \/ ComeUp \/ Operate
  BY <1>7, SupervisorSleeps DEF WatchdogTimer, OnWatchdog, Heartbeat, Crash, Restart, Unheard,
     ComeUp, Operate
<1>8. CASE \/ ControllerHears("decision", Obeyed) \/ ControllerHears("state", Allowed)
           \/ ControlTimer \/ Finalize
  BY <1>8, SupervisorSleeps DEF ControllerHears, Obeyed, Allowed, ControlTimer, Finalize,
     Controller!OnPolicyDecision, Controller!OnMissionState, Controller!PublishSafeCommand
<1>9. CASE UNCHANGED evars
  BY <1>9, SupervisorSleeps DEF evars, nvars
<1> QED
  BY <1>1, <1>2, <1>3, <1>4, <1>5, <1>6, <1>7, <1>8, <1>9 DEF ENext

\* In the pipeline the supervisor is the one its own module is about, whatever the bridge
\* sends it.
THEOREM PipelineRunsTheSupervisor == ESpec => Supervisor!Spec
<1>1. EInit => Supervisor!Init
  BY DEF EInit
<1>2. Wired /\ [ENext]_evars => [Supervisor!Next]_Supervisor!vars
  BY SupervisorRuns
<1> QED
  BY <1>1, <1>2, WiredAlways, PTL DEF ESpec, Supervisor!Spec

\* The supervisor in the pipeline is the one SupervisorProofs is about: first its gate,
LEMMA SameSupervisorGate ==
  ASSUME NEW g, NEW t, NEW n, NEW m
  PROVE  /\ Supervisor!Raise(g, n) = SP!Raise(g, n)
         /\ Supervisor!Prune(g, n, m) = SP!Prune(g, n, m)
         /\ Supervisor!Remember(g, t, n, m) = SP!Remember(g, t, n, m)
         /\ Supervisor!Prolong(g, t, n, m) = SP!Prolong(g, t, n, m)
<1>1. \A h : Supervisor!Raise(h, n) = SP!Raise(h, n)
  BY DEF Supervisor!Raise, SP!Raise, Supervisor!Later, SP!Later
<1>2. Supervisor!Prune(g, n, m) = SP!Prune(g, n, m)
  BY <1>1 DEF Supervisor!Prune, SP!Prune, Supervisor!Retained, SP!Retained,
             Supervisor!Released, SP!Released
<1>3. Supervisor!Remember(g, t, n, m) = SP!Remember(g, t, n, m)
  <2> DEFINE p == Supervisor!Prune(g, n, m)
  <2>1. SP!Prune(g, n, m) = p
    BY <1>2
  <2>2. \A S : Supervisor!Cardinality(S) = SP!Cardinality(S)
    BY DEF Supervisor!Cardinality, SP!Cardinality
  <2> HIDE DEF p
  <2> QED
    BY <2>1, <2>2 DEF Supervisor!Remember, SP!Remember, p
<1>4. Supervisor!Prolong(g, t, n, m) = SP!Prolong(g, t, n, m)
  BY DEF Supervisor!Prolong, SP!Prolong, Supervisor!Later, SP!Later
<1> QED
  BY <1>1, <1>2, <1>3, <1>4

\* then what it does, and what is said of it.
LEMMA SameSupervisor ==
  /\ Supervisor!Init <=> SP!Init
  /\ Supervisor!Next <=> SP!Next
  /\ Supervisor!vars = SP!vars
  /\ Supervisor!StopsWhenTheSceneIsOld <=> SP!StopsWhenTheSceneIsOld
<1>1. \A s : Supervisor!Looked(s) = SP!Looked(s)
  BY SameSupervisorGate DEF Supervisor!Looked, SP!Looked, Supervisor!Malformed, SP!Malformed
<1>2. \A g, s, a : Supervisor!StaleStop(g, s, a) <=> SP!StaleStop(g, s, a)
  BY SameSupervisorGate DEF Supervisor!StaleStop, SP!StaleStop, Supervisor!Faulted, SP!Faulted,
     Supervisor!Publish, SP!Publish
<1>3. \A s, d, a, t : Supervisor!HandleAssessment(s, d, a, t) <=> SP!HandleAssessment(s, d, a, t)
  <2> SUFFICES ASSUME NEW s, NEW d, NEW a, NEW t
               PROVE Supervisor!HandleAssessment(s, d, a, t) <=> SP!HandleAssessment(s, d, a, t)
    OBVIOUS
  <2> DEFINE g == Supervisor!Looked(s)
  <2>1. SP!Looked(s) = g
    BY <1>1
  <2>2. /\ Supervisor!Recalled(g, s) <=> SP!Recalled(g, s)
        /\ Supervisor!Queued(g, s) <=> SP!Queued(g, s)
        /\ Supervisor!Timely(s, d) <=> SP!Timely(s, d)
        /\ Supervisor!Admit(g, s) = SP!Admit(g, s)
        /\ Supervisor!Reference(s, d) = SP!Reference(s, d)
        /\ Supervisor!Publish(a, t, s) <=> SP!Publish(a, t, s)
    BY DEF Supervisor!Recalled, SP!Recalled, Supervisor!Queued, SP!Queued, Supervisor!Timely,
       SP!Timely, Supervisor!Admit, SP!Admit, Supervisor!Reference, SP!Reference,
       Supervisor!Publish, SP!Publish, Supervisor!Malformed, SP!Malformed,
       Supervisor!Remembered, SP!Remembered, Supervisor!Blocked, SP!Blocked,
       Supervisor!Later, SP!Later
  <2> HIDE DEF g
  <2> QED
    BY <1>2, <2>1, <2>2 DEF Supervisor!HandleAssessment, SP!HandleAssessment, g
<1>4. Supervisor!CheckWatchdog <=> SP!CheckWatchdog
  BY DEF Supervisor!CheckWatchdog, SP!CheckWatchdog, Supervisor!Silenced, SP!Silenced,
     Supervisor!Publish, SP!Publish
<1>5. Supervisor!Elapse <=> SP!Elapse
  BY DEF Supervisor!Elapse, SP!Elapse
<1>6. /\ Supervisor!Stamps = SP!Stamps /\ Supervisor!DdsAges = SP!DdsAges
      /\ Supervisor!Answers = SP!Answers
  BY DEF Supervisor!Stamps, SP!Stamps, Supervisor!DdsAges, SP!DdsAges, Supervisor!Answers,
     SP!Answers, Supervisor!Malformed, SP!Malformed, Supervisor!Unavailable, SP!Unavailable,
     Supervisor!Actions, SP!Actions
<1>7. Supervisor!Next <=> SP!Next
  BY <1>3, <1>4, <1>5, <1>6, Zenon DEF Supervisor!Next, SP!Next
<1>8. Supervisor!Init <=> SP!Init
  BY DEF Supervisor!Init, SP!Init, Supervisor!EmptyGate, SP!EmptyGate, Supervisor!NoDecision,
     SP!NoDecision, Supervisor!Malformed, SP!Malformed
<1>9. Supervisor!StopsWhenTheSceneIsOld <=> SP!StopsWhenTheSceneIsOld
  BY DEF Supervisor!StopsWhenTheSceneIsOld, SP!StopsWhenTheSceneIsOld, Supervisor!Permits,
     SP!Permits, Supervisor!Permissive, SP!Permissive
<1> QED
  BY <1>7, <1>8, <1>9 DEF Supervisor!vars, SP!vars

\* So what its topic holds in the pipeline permits motion only on a recent scene, and
\* permits it anew only on one later than the last admitted one and than the last fault.
THEOREM PipelineStopsWhenTheSceneIsOld ==
  ESpec => []Supervisor!StopsWhenTheSceneIsOld /\ Supervisor!PermitsAfterTheFault
<1>1. Supervisor!Init => SP!Init
  BY SameSupervisor
<1>2. [Supervisor!Next]_Supervisor!vars => [SP!Next]_SP!vars
  BY SameSupervisor DEF Supervisor!vars, SP!vars
<1>3. SP!StopsWhenTheSceneIsOld => Supervisor!StopsWhenTheSceneIsOld
  BY SameSupervisor
<1>4. [SP!Permits' /\ decision' # decision =>
         decision'.stamp > supervisor_fault /\ decision'.stamp > supervisor_gate.last]_SP!vars
      => [Supervisor!Permits' /\ decision' # decision =>
            decision'.stamp > supervisor_fault /\ decision'.stamp > supervisor_gate.last
         ]_Supervisor!vars
  BY DEF Supervisor!Permits, SP!Permits, Supervisor!Permissive, SP!Permissive,
     Supervisor!vars, SP!vars
<1>5. SP!PermitsAfterTheFault => Supervisor!PermitsAfterTheFault
  BY <1>4, PTL DEF SP!PermitsAfterTheFault, Supervisor!PermitsAfterTheFault
<1>6. Supervisor!Spec => SP!Spec
  BY <1>1, <1>2, PTL DEF Supervisor!Spec, SP!Spec
<1>7. (SP!Spec => []SP!StopsWhenTheSceneIsOld) /\ (SP!Spec => SP!PermitsAfterTheFault)
  <2>1. AssessmentTimeout \in Nat \ {0} /\ MaxRejected \in Nat
    BY PipelineAssumption, PeriodAssumption
  <2>2. SupervisorPeriod \in Nat \ {0} /\ MaxTime \in Nat \ {0}
    BY PipelineAssumption, PeriodAssumption
  <2> QED
    BY <2>1, <2>2, SP!StopsWhenTheSceneIsOldAlways, SP!PermitsAfterTheFaultAlways
<1> QED
  BY <1>3, <1>6, <1>7, <1>5, PipelineRunsTheSupervisor, PTL

-----------------------------------------------------------------------------
\* The pipeline runs the controller, with what is proved of it.
CP == INSTANCE ControllerProofs WITH
  Timeout <- PolicyTimeout, Decisions <- Supervisor!Actions \X BOOLEAN,
  gate <- controller_gate,
  policy <- controller_policy, mission <- controller_mission, fault <- controller_fault

\* The controller's state is what no other step touches.
LEMMA ControllerSleeps ==
  ASSUME UNCHANGED <<controlling, now>> PROVE UNCHANGED Controller!vars
BY DEF controlling, inputs, Controller!vars, Controller!inputs

\* The id of a picture tells when it was taken.
LEMMA PictureTime ==
  ASSUME NEW evidence \in Pictures PROVE ObservedAt(evidence) \in 1 .. MaxTime
<1>1. PICK name \in Names, t \in 1 .. MaxTime : evidence = Append(SafeName[name], Segment[t])
  BY DEF Pictures
<1>2. SafeName[name] \in Seq(STRING)
  BY EvidenceAssumption
<1>3. Last(evidence) = Segment[t]
  BY <1>1, <1>2 DEF Last
<1>4. t \in DOMAIN Segment /\ \A u \in DOMAIN Segment : Segment[u] = Segment[t] => u = t
  BY SegmentAssumption, PeriodAssumption
<1>5. ObservedAt(evidence) = t
  BY <1>3, <1>4 DEF ObservedAt
<1> QED
  BY <1>5

\* What the controller hears is what it may hear.
LEMMA ControllerObeys ==
  ASSUME Wired, ControllerHears("decision", Obeyed) PROVE Controller!Next
<1> DEFINE m == Head(to_controller.decision)
<1>1. Obeyed(m) /\ m \in Sayings
  BY TakenOff DEF ControllerHears, Wired, ControllerInbox
<1> HIDE DEF m
<1>2. /\ m.stamp \in Controller!Stamps
      /\ <<m.action, m.status = "VALID">> \in Supervisor!Actions \X BOOLEAN
  BY <1>1 DEF Sayings, Stamps, Controller!Stamps, Controller!Times, Controller!Malformed,
     Gate!Malformed
<1>3. 0 \in 0 .. PolicyTimeout + 1
  BY TimeoutAssumption
<1>4. Controller!OnPolicyDecision(m.stamp, 0, <<m.action, m.status = "VALID">>[1],
                                  <<m.action, m.status = "VALID">>[2])
  BY <1>1 DEF Obeyed
<1> QED
  BY <1>2, <1>3, <1>4 DEF Controller!Next

\* A mission state that grants authority names a picture, which bears a time.
LEMMA ControllerAllows ==
  ASSUME Wired, ControllerHears("state", Allowed) PROVE Controller!Next
<1> DEFINE m == Head(to_controller.state)
<1>1. Allowed(m) /\ m \in Tellings
  BY TakenOff DEF ControllerHears, Wired, ControllerInbox
<1> HIDE DEF m
<1>2. CASE m.authorized
  <2>1. ObservedAt(m.evidence) \in Controller!EvidenceTimes
    BY <1>1, <1>2, PictureTime DEF Tellings, Controller!EvidenceTimes
  <2>2. 0 \in 0 .. MissionTimeout + 1
    BY PipelineAssumption
  <2> QED
    BY <1>1, <1>2, <2>1, <2>2 DEF Allowed, Controller!Next
<1>3. CASE ~m.authorized
  BY <1>1, <1>3 DEF Allowed, Controller!Next
<1> QED
  BY <1>2, <1>3

\* A velocity the driver desires is one the controller may hear.
LEMMA ControllerIsDesired ==
  ASSUME Wired, NEW d, Execute(d) PROVE [Controller!Next]_Controller!vars
<1>1. CASE Controller!OnDesiredCommand(TRUE, 0)
  <2>1. 0 \in 0 .. CommandTimeout + 1
    BY PipelineAssumption
  <2> QED
    BY <1>1, <2>1 DEF Controller!Next
<1>2. CASE UNCHANGED controlling
  BY <1>2, ControllerSleeps DEF Execute
<1> QED
  BY <1>1, <1>2 DEF Execute

\* Every step of the pipeline is a step of the controller or leaves it alone.
LEMMA ControllerRuns == ASSUME Wired, [ENext]_evars PROVE [Controller!Next]_Controller!vars
<1>1. CASE OnTick \/ \E topic \in DOMAIN to_driver : DriverHears(topic)
  BY <1>1, ControllerIsDesired DEF OnTick, DriverHears
<1>2. CASE ControllerHears("decision", Obeyed)
  BY <1>2, ControllerObeys
<1>3. CASE ControllerHears("state", Allowed)
  BY <1>3, ControllerAllows
<1>4. CASE ControlTimer
  BY <1>4 DEF ControlTimer, Controller!Next
<1>5. CASE Pass
  BY <1>5 DEF Pass, Controller!Next
<1>6. CASE OnImage \/ Analyse
  BY <1>6, ControllerSleeps DEF OnImage, Analyse
<1>7. CASE CheckWatchdog
  BY <1>7, ControllerSleeps DEF CheckWatchdog, Supervisor!CheckWatchdog
<1>8. CASE \/ OrchestratorHears("decision", Decided) \/ OrchestratorHears("reached", Arrived)
           \/ OrchestratorHears("call", Called)
  BY <1>8, ControllerSleeps DEF OrchestratorHears
<1>9. CASE WatchdogTimer \/ Heartbeat \/ Crash \/ Unheard \/ ComeUp \/ Operate \/ Finalize
  BY <1>9, ControllerSleeps DEF WatchdogTimer, OnWatchdog, Heartbeat, Crash, Restart, Unheard,
     ComeUp, Operate, Finalize
<1>10. CASE UNCHANGED evars
  BY <1>10, ControllerSleeps DEF evars, nvars
<1> QED
  BY <1>1, <1>2, <1>3, <1>4, <1>5, <1>6, <1>7, <1>8, <1>9, <1>10 DEF ENext

\* In the pipeline the controller is the one its own module is about, whatever the driver,
\* the supervisor and the orchestrator send it.
THEOREM PipelineRunsTheController == ESpec => Controller!Spec
<1>1. EInit => Controller!Init
  BY DEF EInit
<1>2. Wired /\ [ENext]_evars => [Controller!Next]_Controller!vars
  BY ControllerRuns
<1> QED
  BY <1>1, <1>2, WiredAlways, PTL DEF ESpec, Controller!Spec

\* The controller in the pipeline is the one ControllerProofs is about: first its gate,
LEMMA SameControllerGate ==
  ASSUME NEW g, NEW t, NEW n, NEW m
  PROVE  /\ Controller!Raise(g, n) = CP!Raise(g, n)
         /\ Controller!Prune(g, n, m) = CP!Prune(g, n, m)
         /\ Controller!Remember(g, t, n, m) = CP!Remember(g, t, n, m)
         /\ Controller!Prolong(g, t, n, m) = CP!Prolong(g, t, n, m)
<1>1. \A h : Controller!Raise(h, n) = CP!Raise(h, n)
  BY DEF Controller!Raise, CP!Raise, Controller!Later, CP!Later
<1>2. Controller!Prune(g, n, m) = CP!Prune(g, n, m)
  BY <1>1 DEF Controller!Prune, CP!Prune, Controller!Retained, CP!Retained,
             Controller!Released, CP!Released
<1>3. Controller!Remember(g, t, n, m) = CP!Remember(g, t, n, m)
  <2> DEFINE p == Controller!Prune(g, n, m)
  <2>1. CP!Prune(g, n, m) = p
    BY <1>2
  <2>2. \A S : Controller!Cardinality(S) = CP!Cardinality(S)
    BY DEF Controller!Cardinality, CP!Cardinality
  <2> HIDE DEF p
  <2> QED
    BY <2>1, <2>2 DEF Controller!Remember, CP!Remember, p
<1>4. Controller!Prolong(g, t, n, m) = CP!Prolong(g, t, n, m)
  BY DEF Controller!Prolong, CP!Prolong, Controller!Later, CP!Later
<1> QED
  BY <1>1, <1>2, <1>3, <1>4

\* then what it does, and what is said of it.
LEMMA SameController ==
  /\ Controller!Init <=> CP!Init
  /\ Controller!Next <=> CP!Next
  /\ Controller!vars = CP!vars
  /\ Controller!MovesOnLiveInputs <=> CP!MovesOnLiveInputs
<1> USE DEF Controller!NoPolicy, CP!NoPolicy, Controller!NoMission, CP!NoMission,
            Controller!NoCommand, CP!NoCommand, Controller!NoEvidence, CP!NoEvidence,
            Controller!Malformed, CP!Malformed
<1>1. \A s : Controller!Looked(s) = CP!Looked(s)
  BY SameControllerGate DEF Controller!Looked, CP!Looked
<1>2. \A s, d, a, v : Controller!OnPolicyDecision(s, d, a, v) <=> CP!OnPolicyDecision(s, d, a, v)
  <2> SUFFICES ASSUME NEW s, NEW d, NEW a, NEW v
               PROVE  Controller!OnPolicyDecision(s, d, a, v) <=> CP!OnPolicyDecision(s, d, a, v)
    OBVIOUS
  <2> DEFINE g == Controller!Looked(s)
  <2>1. CP!Looked(s) = g
    BY <1>1
  <2>2. /\ Controller!Recalled(g, s) <=> CP!Recalled(g, s)
        /\ Controller!Queued(g, s) <=> CP!Queued(g, s)
        /\ Controller!Timely(s, d) <=> CP!Timely(s, d)
        /\ Controller!Admit(g, s) = CP!Admit(g, s)
        /\ Controller!Reference(now - s, d) = CP!Reference(now - s, d)
        /\ Controller!Mode(a) = CP!Mode(a)
        /\ Controller!RevokePolicy <=> CP!RevokePolicy
    BY DEF Controller!Recalled, CP!Recalled, Controller!Queued, CP!Queued, Controller!Timely,
       CP!Timely, Controller!Admit, CP!Admit, Controller!Reference, CP!Reference,
       Controller!Blocked, CP!Blocked, Controller!Later, CP!Later, Controller!Mode, CP!Mode,
       Controller!RevokePolicy, CP!RevokePolicy
  <2>3. /\ Controller!RefuseRemembered(g, now) = CP!RefuseRemembered(g, now)
        /\ Controller!Raise(Controller!Remember(g, s, now, now), now)
           = CP!Raise(CP!Remember(g, s, now, now), now)
        /\ Controller!Raise(g, now) = CP!Raise(g, now)
    BY SameControllerGate DEF Controller!RefuseRemembered, CP!RefuseRemembered
  <2> HIDE DEF g
  <2> QED
    BY <2>1, <2>2, <2>3 DEF Controller!OnPolicyDecision, CP!OnPolicyDecision, g
<1>3. /\ \A a, e, d : Controller!OnMissionState(a, e, d) <=> CP!OnMissionState(a, e, d)
      /\ \A f, d : Controller!OnDesiredCommand(f, d) <=> CP!OnDesiredCommand(f, d)
  BY DEF Controller!OnMissionState, CP!OnMissionState, Controller!OnDesiredCommand,
     CP!OnDesiredCommand, Controller!Reference, CP!Reference, Controller!Later, CP!Later
<1>4. Controller!PublishSafeCommand <=> CP!PublishSafeCommand
  <2>1. Controller!Permitted <=> CP!Permitted
    BY DEF Controller!Permitted, CP!Permitted, Controller!MissionAuthorizes,
       CP!MissionAuthorizes, Controller!Correlated, CP!Correlated
  <2> QED
    BY <2>1 DEF Controller!PublishSafeCommand, CP!PublishSafeCommand, Controller!Zero, CP!Zero,
       Controller!inputs, CP!inputs
<1>5. Controller!Elapse <=> CP!Elapse
  BY DEF Controller!Elapse, CP!Elapse, Controller!Aged, CP!Aged
<1>6. /\ Controller!Stamps = CP!Stamps /\ Controller!EvidenceTimes = CP!EvidenceTimes
  BY DEF Controller!Stamps, CP!Stamps, Controller!Times, CP!Times, Controller!EvidenceTimes,
     CP!EvidenceTimes
<1>7. Controller!Next <=> CP!Next
  BY <1>2, <1>3, <1>4, <1>5, <1>6, Zenon DEF Controller!Next, CP!Next
<1>8. Controller!Init <=> CP!Init
  BY DEF Controller!Init, CP!Init, Controller!EmptyGate, CP!EmptyGate, Controller!Zero, CP!Zero
<1>9. Controller!MovesOnLiveInputs <=> CP!MovesOnLiveInputs
  BY DEF Controller!MovesOnLiveInputs, CP!MovesOnLiveInputs, Controller!Moving, CP!Moving
<1> QED
  BY <1>7, <1>8, <1>9 DEF Controller!vars, CP!vars, Controller!inputs, CP!inputs

\* So the robot in the pipeline moves only on a recent picture, a recent authority and a
\* recent command, and starts again only on a picture made after the fault.
THEOREM PipelineMovesOnLiveInputs ==
  ESpec => []Controller!MovesOnLiveInputs /\ Controller!RestartsAfterTheFault
<1>1. Controller!Init => CP!Init
  BY SameController
<1>2. [Controller!Next]_Controller!vars => [CP!Next]_CP!vars
  BY SameController DEF Controller!vars, CP!vars, Controller!inputs, CP!inputs
<1>3. CP!MovesOnLiveInputs => Controller!MovesOnLiveInputs
  BY SameController
<1>4. Controller!Spec => CP!Spec
  BY <1>1, <1>2, PTL DEF Controller!Spec, CP!Spec
<1>5. [output.scale = "Stop" /\ output'.scale # "Stop" =>
         output'.evidence = controller_gate.last /\ output'.evidence > controller_fault]_CP!vars
      => [output.scale = "Stop" /\ output'.scale # "Stop" =>
            output'.evidence = controller_gate.last /\ output'.evidence > controller_fault
         ]_Controller!vars
  BY DEF Controller!vars, CP!vars, Controller!inputs, CP!inputs
<1>6. CP!RestartsAfterTheFault => Controller!RestartsAfterTheFault
  BY <1>5, PTL DEF CP!RestartsAfterTheFault, Controller!RestartsAfterTheFault
<1>7. /\ CP!Spec => []CP!MovesOnLiveInputs
      /\ CP!Spec => CP!RestartsAfterTheFault
  <2>1. PolicyTimeout \in Nat \ {0} /\ MaxRejected \in Nat
    BY TimeoutAssumption, PeriodAssumption
  <2>2. /\ CommandTimeout \in Nat \ {0} /\ MissionTimeout \in Nat \ {0}
        /\ MaxTime \in Nat \ {0}
    BY PipelineAssumption, PeriodAssumption
  <2>3. Supervisor!Actions \X BOOLEAN \subseteq CP!Actions \X BOOLEAN
    BY DEF Supervisor!Actions, CP!Actions
  <2> QED
    BY <2>1, <2>2, <2>3, CP!MovesOnLiveInputsAlways, CP!RestartsAfterTheFaultAlways
<1> QED
  BY <1>3, <1>4, <1>6, <1>7, PipelineRunsTheController, PTL

-----------------------------------------------------------------------------
(***************************************************************************)
(* The scenario driver, method by method: which fields each one changes    *)
(* (Besides), and what it commands.                                        *)
(***************************************************************************)

\* The fields of the driver, and of the frame it waits for.
DriverFields ==
  {"options", "graph_ready", "outstanding", "next_frame", "gate_open", "started", "aborted",
   "completed", "recording", "finalized", "ended", "mission", "phase", "last_evidence",
   "samples", "fired", "stall", "commands"}
FrameFields == {"waypoint", "evidence", "assessment", "expect_evidence"}

\* The fields the driver has.
Shaped(d) ==
  /\ DOMAIN d = DriverFields
  /\ d.mission \in Tellings /\ d.options.plan \in Driver!Plans
  /\ d.phase \in [Names -> Driver!Phases] /\ d.samples \in [Names -> Nat]
  /\ d.outstanding = Driver!NoFrame \/ DOMAIN d.outstanding = FrameFields

\* A method changes no field but these.
Besides(fields, d, e) == \A field \in DriverFields \ fields : e[field] = d[field]

\* What it writes to a field is there, and nothing else is changed.
LEMMA Written ==
  ASSUME NEW d, DOMAIN d = DriverFields, NEW field \in DriverFields, NEW v
  PROVE  /\ DOMAIN [d EXCEPT ![field] = v] = DriverFields
         /\ [d EXCEPT ![field] = v][field] = v
         /\ Besides({field}, d, [d EXCEPT ![field] = v])
BY DEF Besides

\* An arrival may be reported of the goal.
Leaving(d) == Driver!InPhase(d, "draining") \/ Driver!InPhase(d, "confirming")

\* How far the goal protocol has come: only what leaves the goal moves on, and what is still
\* draining waits for the frame under way.
Progress(d, e) ==
  /\ ~Leaving(d) => e.phase = d.phase /\ e.commands = d.commands
  /\ Leaving(d) =>
       /\ \A goal \in Names : goal # d.mission.goal => e.phase[goal] = d.phase[goal]
       /\ e.phase[d.mission.goal] \in {"draining", "confirming", "reported"}
       /\ \/ e.commands = d.commands /\ e.phase[d.mission.goal] # "reported"
          \/ /\ e.commands = d.commands \cup {Driver!Reached(d.mission.goal)}
             /\ e.phase[d.mission.goal] = "reported"
  /\ Driver!InPhase(d, "draining") /\ e.outstanding # Driver!NoFrame
     => e.phase = d.phase /\ e.commands = d.commands

\* AdvanceGoal leaves the other goals and the other fields alone, and reports what has drained.
LEMMA AdvanceEffect ==
  ASSUME NEW d, Shaped(d), NEW e, e = Driver!AdvanceGoal(d)
  PROVE  Shaped(e) /\ Besides({"phase", "commands"}, d, e) /\ Progress(d, e)
<1> USE DEF Shaped, DriverFields
<1> DEFINE goal == d.mission.goal
           drained == Driver!AfterDraining(d)
<1>1. goal \in Names \/ goal = NoName
  BY DEF Tellings
<1>2. goal = NoName => e = d /\ ~Leaving(d)
  BY DEF Driver!AdvanceGoal, Driver!AfterDraining, Driver!InPhase, Driver!NoName, NoName, Leaving
<1>3. ASSUME goal \in Names
      PROVE  \/ drained = d
             \/ /\ drained = [d EXCEPT !.phase[goal] = "confirming"]
                /\ Driver!InPhase(d, "draining") /\ d.outstanding = Driver!NoFrame
  BY DEF Driver!AfterDraining, Driver!Drained
<1>4. ASSUME goal \in Names
      PROVE  \/ drained = d /\ e = d
             \/ drained = d /\ Driver!InPhase(d, "confirming")
                /\ e = [d EXCEPT !.phase[goal] = "reported", !.commands = @ \cup {Driver!Reached(goal)}]
             \/ /\ Driver!InPhase(d, "draining") /\ d.outstanding = Driver!NoFrame
                /\ \/ e = [d EXCEPT !.phase[goal] = "confirming"]
                   \/ e = [d EXCEPT !.phase[goal] = "reported", !.commands = @ \cup {Driver!Reached(goal)}]
  <2>1. CASE drained = d
    BY <2>1 DEF Driver!AdvanceGoal, Driver!Emit
  <2>2. CASE drained = [d EXCEPT !.phase[goal] = "confirming"]
    BY <1>3, <1>4, <2>2 DEF Driver!AdvanceGoal, Driver!Emit
  <2> QED
    BY <1>3, <1>4, <2>1, <2>2
<1>5. e = d => Shaped(e) /\ Besides({"phase", "commands"}, d, e)
  BY DEF Besides
<1>6. ASSUME goal \in Names, e = [d EXCEPT !.phase[goal] = "confirming"]
      PROVE  /\ Shaped(e) /\ Besides({"phase", "commands"}, d, e) /\ e.commands = d.commands
             /\ e.phase = [d.phase EXCEPT ![goal] = "confirming"]
  BY <1>6 DEF Besides, Driver!Phases
<1>7. ASSUME goal \in Names,
             e = [d EXCEPT !.phase[goal] = "reported", !.commands = @ \cup {Driver!Reached(goal)}]
      PROVE  /\ Shaped(e) /\ Besides({"phase", "commands"}, d, e)
             /\ e.commands = d.commands \cup {Driver!Reached(goal)}
             /\ e.phase = [d.phase EXCEPT ![goal] = "reported"]
  <2> DEFINE passed == [d EXCEPT !.phase[goal] = "reported"]
  <2>1. /\ Shaped(passed) /\ Besides({"phase"}, d, passed)
        /\ passed.phase = [d.phase EXCEPT ![goal] = "reported"]
    BY <1>7 DEF Besides, Driver!Phases
  <2>2. e = [passed EXCEPT !.commands = passed.commands \cup {Driver!Reached(goal)}]
    BY <1>7
  <2> HIDE DEF passed
  <2> QED
    BY <2>1, <2>2 DEF Besides
<1> QED
  <2> USE DEF Leaving, Driver!InPhase, Progress
  <2>1. CASE e = d
    <3>1. Shaped(e) /\ Besides({"phase", "commands"}, d, e)
      BY <1>5, <2>1
    <3>2. Leaving(d) => d.phase[goal] \in {"draining", "confirming"}
      OBVIOUS
    <3> QED
      BY <2>1, <3>1, <3>2
  <2>2. CASE goal \in Names /\ e = [d EXCEPT !.phase[goal] = "confirming"] /\ e # d
    <3>1. Leaving(d) /\ (Driver!InPhase(d, "draining") => d.outstanding = Driver!NoFrame)
      BY <1>2, <1>4, <2>2
    <3>2. e.outstanding = d.outstanding
      BY <1>6, <2>2 DEF Besides
    <3> QED
      BY <1>6, <2>2, <3>1, <3>2
  <2>3. CASE /\ goal \in Names /\ e # d
             /\ e = [d EXCEPT !.phase[goal] = "reported", !.commands = @ \cup {Driver!Reached(goal)}]
    <3>1. Leaving(d) /\ (Driver!InPhase(d, "draining") => d.outstanding = Driver!NoFrame)
      BY <1>2, <1>4, <2>3
    <3>2. e.outstanding = d.outstanding
      BY <1>7, <2>3 DEF Besides
    <3> QED
      BY <1>7, <2>3, <3>1, <3>2
  <2> QED
    BY <1>1, <1>2, <1>4, <2>1, <2>2, <2>3

\* What the driver knows of the frame under way is settled by its assessment and evidence.
Left(frame) == IF Driver!Settled(frame) THEN Driver!NoFrame ELSE frame

\* Settling the frame under way clears it, and may only take a goal's report further.
LEMMA ResolveEffect ==
  ASSUME NEW d, Shaped(d), DOMAIN d.outstanding = FrameFields,
         NEW e, e = Driver!Resolve(d)
  PROVE  /\ Shaped(e) /\ Besides({"phase", "commands", "last_evidence", "outstanding"}, d, e)
         /\ Progress(d, e) /\ e.outstanding = Left(d.outstanding)
<1> USE DEF Shaped
<1>1. CASE ~Driver!Settled(d.outstanding)
  BY <1>1 DEF Driver!Resolve, Left, Besides, Progress, Leaving, Driver!InPhase, Tellings,
     Driver!NoName, NoName
<1>2. CASE Driver!Settled(d.outstanding)
  <2> DEFINE noted == [d EXCEPT !.last_evidence[d.outstanding.waypoint] = d.outstanding.assessment]
             settled == Driver!Settle(d)
  <2>1. DOMAIN noted = DriverFields /\ Besides({"last_evidence"}, d, noted)
    BY DEF Besides, DriverFields
  <2>2. settled = [noted EXCEPT !.outstanding = Driver!NoFrame]
    BY DEF Driver!Settle
  <2> HIDE DEF noted, settled
  <2>3. /\ Shaped(settled) /\ Besides({"last_evidence", "outstanding"}, d, settled)
        /\ settled.outstanding = Driver!NoFrame
    BY <2>1, <2>2 DEF Besides, DriverFields
  <2>4. e = Driver!AdvanceGoal(settled)
    BY <1>2 DEF Driver!Resolve, settled
  <2>5. Shaped(e) /\ Besides({"phase", "commands"}, settled, e) /\ Progress(settled, e)
    BY <2>3, <2>4, AdvanceEffect
  <2>6. /\ settled.mission = d.mission /\ settled.phase = d.phase /\ settled.commands = d.commands
        /\ e.outstanding = Driver!NoFrame
    BY <2>3, <2>5 DEF Besides, DriverFields
  <2>7. Besides({"phase", "commands", "last_evidence", "outstanding"}, d, e)
    BY <2>3, <2>5 DEF Besides, DriverFields
  <2> QED
    BY <1>2, <2>5, <2>6, <2>7 DEF Left, Progress, Leaving, Driver!InPhase
<1> QED
  BY <1>1, <1>2

\* An answer that is not about the frame under way is ignored.
LEMMA AnswerEffect ==
  ASSUME NEW d, Shaped(d), NEW id, NEW e,
         NEW part \in {"evidence", "assessment"},
         \/ part = "evidence" /\ e = Driver!OnEvidenceCapture(d, id)
         \/ part = "assessment" /\ e = Driver!OnAssessment(d, id)
  PROVE  /\ Shaped(e) /\ Besides({"phase", "commands", "last_evidence", "outstanding"}, d, e)
         /\ Progress(d, e)
         /\ e.outstanding = IF Driver!Answers(d, id)
                            THEN Left([d.outstanding EXCEPT ![part] = id])
                            ELSE d.outstanding
<1> USE DEF Shaped
<1>1. CASE ~Driver!Answers(d, id)
  <2>1. e = d
    BY <1>1 DEF Driver!OnEvidenceCapture, Driver!OnAssessment
  <2> QED
    BY <1>1, <2>1 DEF Besides, Progress, Leaving, Driver!InPhase, Tellings, Driver!NoName, NoName
<1>2. CASE Driver!Answers(d, id)
  <2> DEFINE frame == [d.outstanding EXCEPT ![part] = id]
             told == [d EXCEPT !.outstanding = frame]
  <2>1. DOMAIN d.outstanding = FrameFields
    BY <1>2 DEF Driver!Answers
  <2>2. DOMAIN frame = FrameFields
    BY <2>1
  <2> HIDE DEF frame
  <2>3. Shaped(told) /\ Besides({"outstanding"}, d, told) /\ told.outstanding = frame
    BY <2>2 DEF Besides, DriverFields
  <2>4. e = Driver!Resolve(told)
    BY <1>2 DEF Driver!OnEvidenceCapture, Driver!OnAssessment, frame
  <2> HIDE DEF told
  <2>5. /\ Shaped(e) /\ Besides({"phase", "commands", "last_evidence", "outstanding"}, told, e)
        /\ Progress(told, e) /\ e.outstanding = Left(frame)
    BY <2>2, <2>3, <2>4, ResolveEffect
  <2>6. told.mission = d.mission /\ told.phase = d.phase /\ told.commands = d.commands
    BY <2>3 DEF Besides, DriverFields
  <2>7. Besides({"phase", "commands", "last_evidence", "outstanding"}, d, e)
    BY <2>3, <2>5 DEF Besides, DriverFields
  <2> QED
    BY <1>2, <2>5, <2>6, <2>7 DEF Progress, Leaving, Driver!InPhase, frame
<1> QED
  BY <1>1, <1>2

\* The first decision about the first goal opens the gate, and may start the mission.
LEMMA DecisionEffect ==
  ASSUME NEW d, Shaped(d), NEW id, NEW e, e = Driver!OnPolicyDecision(d, id)
  PROVE  /\ Shaped(e) /\ Besides({"gate_open", "started", "commands"}, d, e)
         /\ \/ /\ d.gate_open \/ ~Driver!Matches(id, Waypoints[1])
               /\ e.gate_open = d.gate_open /\ e.started = d.started /\ e.commands = d.commands
            \/ /\ ~d.gate_open /\ Driver!Matches(id, Waypoints[1]) /\ e.gate_open
               /\ \/ /\ d.options.auto_start /\ ~d.started
                     /\ e.started /\ e.commands = d.commands \cup {Driver!Call("start")}
                  \/ /\ d.options.auto_start => d.started
                     /\ e.started = d.started /\ e.commands = d.commands
BY DEF Shaped, Besides, DriverFields, Driver!OnPolicyDecision, Driver!Emit

\* Completion is commanded beside all else.
LEMMA CompletionEffect ==
  ASSUME NEW d, Shaped(d), NEW e, e = Driver!Completion(d)
  PROVE  /\ Shaped(e) /\ Besides({"completed", "commands"}, d, e)
         /\ \/ e.commands = d.commands
            \/ e.commands = d.commands \cup {Driver!Complete}
BY DEF Shaped, Besides, DriverFields, Driver!Completion, Driver!Emit

\* So is it with the report's status.
LEMMA ReportEffect ==
  ASSUME NEW d, Shaped(d), NEW status, NEW e, e = Driver!OnReportStatus(d, status)
  PROVE  /\ Shaped(e) /\ Besides({"recording", "finalized", "completed", "commands"}, d, e)
         /\ \/ e.commands = d.commands
            \/ e.commands = d.commands \cup {Driver!Complete}
         /\ d.recording \/ status = "RECORDING" => e.recording
<1> DEFINE noted == CASE status = "RECORDING" -> [d EXCEPT !.recording = TRUE]
                      [] status = "FINALIZED" -> [d EXCEPT !.finalized = TRUE]
                      [] OTHER -> d
<1>1. /\ Shaped(noted) /\ Besides({"recording", "finalized"}, d, noted)
      /\ d.recording \/ status = "RECORDING" => noted.recording
  BY DEF Shaped, Besides, DriverFields
<1>2. e = Driver!Completion(noted)
  BY DEF Driver!OnReportStatus
<1> HIDE DEF noted
<1>3. /\ Shaped(e) /\ Besides({"completed", "commands"}, noted, e)
      /\ \/ e.commands = noted.commands
         \/ e.commands = noted.commands \cup {Driver!Complete}
  BY <1>1, <1>2, CompletionEffect
<1> QED
  BY <1>1, <1>3 DEF Besides, DriverFields

\* A request, the graph and time change what is waited for.
LEMMA WaitEffect ==
  ASSUME NEW d, Shaped(d)
  PROVE  /\ Shaped(Driver!OnGraphReady(d)) /\ Besides({"graph_ready"}, d, Driver!OnGraphReady(d))
         /\ Shaped(Driver!OnPerceptionRequest(d))
         /\ Besides({"next_frame"}, d, Driver!OnPerceptionRequest(d))
         /\ Driver!OnPerceptionRequest(d).next_frame = 0
         /\ Shaped(Driver!Wait(d)) /\ Besides({"next_frame"}, d, Driver!Wait(d))
         /\ d.next_frame = 0 => Driver!Wait(d).next_frame = 0
BY DEF Shaped, Besides, DriverFields, Driver!OnGraphReady, Driver!OnPerceptionRequest,
       Driver!Wait

\* Motion counts for the goal that streams, and may do for draining it.
LEMMA MotionEffect ==
  ASSUME NEW d, Shaped(d), NEW nonzero, NEW e, e = Driver!OnCmdVel(d, nonzero),
         NEW goal, goal = d.mission.goal
  PROVE  /\ Shaped(e) /\ Besides({"samples", "phase", "fired", "stall", "commands"}, d, e)
         /\ ~(nonzero /\ Driver!Counted(d)) => e = d
         /\ nonzero /\ Driver!Counted(d) =>
              /\ goal \in Names /\ d.phase[goal] = "streaming"
              /\ \A other \in Names : other # goal =>
                   e.phase[other] = d.phase[other] /\ e.samples[other] = d.samples[other]
              /\ e.samples[goal] = d.samples[goal] + 1
              /\ e.fired = d.fired \/ e.fired = d.fired \cup {"desired_stall"}
              /\ \/ e.phase[goal] = "streaming" /\ e.commands = d.commands
                 \/ /\ e.samples[goal] >= MinSamples
                    /\ e.phase[goal] = "draining" /\ e.commands = d.commands
                 \/ /\ e.samples[goal] >= MinSamples /\ d.outstanding = Driver!NoFrame
                    /\ \/ e.phase[goal] = "confirming" /\ e.commands = d.commands
                       \/ /\ e.phase[goal] = "reported"
                          /\ e.commands = d.commands \cup {Driver!Reached(goal)}
<1> USE DEF Driver!Nonzero
<1>1. CASE ~(nonzero /\ Driver!Counted(d))
  <2>1. e = d
    BY <1>1 DEF Driver!OnCmdVel
  <2> QED
    BY <1>1, <2>1 DEF Besides
<1>2. CASE nonzero /\ Driver!Counted(d)
  <2> DEFINE counted == [d EXCEPT !.samples[goal] = @ + 1]
  <2>1. goal \in Names /\ d.phase[goal] = "streaming"
    BY <1>2 DEF Driver!Counted, Driver!InPhase, Shaped, Tellings, Driver!NoName, NoName
  <2>2. /\ Shaped(counted) /\ Besides({"samples"}, d, counted)
        /\ counted.samples = [d.samples EXCEPT ![goal] = d.samples[goal] + 1]
    BY <2>1 DEF Shaped, Besides, DriverFields
  <2>3. \/ e = Driver!StallDesired(counted)
        \/ /\ counted.samples[goal] >= MinSamples
           /\ e = Driver!AdvanceGoal([counted EXCEPT !.phase[goal] = "draining"])
        \/ e = counted
    BY <1>2 DEF Driver!OnCmdVel
  <2> HIDE DEF counted
  <2>4. /\ counted.phase = d.phase /\ counted.commands = d.commands /\ counted.fired = d.fired
        /\ counted.mission = d.mission /\ counted.outstanding = d.outstanding
        /\ counted.samples[goal] = d.samples[goal] + 1
        /\ \A other \in Names : other # goal => counted.samples[other] = d.samples[other]
    BY <2>1, <2>2 DEF Besides, DriverFields, Shaped
  <2>5. CASE e = counted
    BY <2>1, <2>2, <2>4, <2>5, <1>2 DEF Besides
  <2>6. CASE e = Driver!StallDesired(counted)
    <3> DEFINE fire == Driver!Fire(counted, "desired_stall")
    <3>1. /\ Shaped(fire) /\ Besides({"fired"}, counted, fire)
          /\ fire.fired = counted.fired \cup {"desired_stall"}
      BY <2>2 DEF Driver!Fire, Shaped, Besides, DriverFields
    <3>2. e = [fire EXCEPT !.stall = counted.options.stall_ticks]
      BY <2>6 DEF Driver!StallDesired
    <3> HIDE DEF fire
    <3>3. Shaped(e) /\ Besides({"stall"}, fire, e)
      BY <3>1, <3>2 DEF Shaped, Besides, DriverFields
    <3>4. Besides({"fired", "stall"}, counted, e) /\ e.fired = counted.fired \cup {"desired_stall"}
      BY <3>1, <3>3 DEF Besides, DriverFields
    <3>5. Besides({"samples", "phase", "fired", "stall", "commands"}, d, e)
      BY <2>2, <3>4 DEF Besides, DriverFields
    <3>6. e.phase = counted.phase /\ e.samples = counted.samples /\ e.commands = counted.commands
      BY <3>4 DEF Besides, DriverFields
    <3> QED
      BY <1>2, <2>1, <2>4, <3>3, <3>4, <3>5, <3>6
  <2>7. CASE /\ counted.samples[goal] >= MinSamples
             /\ e = Driver!AdvanceGoal([counted EXCEPT !.phase[goal] = "draining"])
    <3> DEFINE drains == [counted EXCEPT !.phase[goal] = "draining"]
    <3>1. /\ Shaped(drains) /\ Besides({"phase"}, counted, drains)
          /\ drains.phase = [counted.phase EXCEPT ![goal] = "draining"]
      BY <2>1, <2>2 DEF Shaped, Besides, DriverFields, Driver!Phases
    <3> HIDE DEF drains
    <3>2. Shaped(e) /\ Besides({"phase", "commands"}, drains, e) /\ Progress(drains, e)
      BY <2>7, <3>1, AdvanceEffect DEF drains
    <3>3. /\ drains.mission = d.mission /\ drains.commands = d.commands
          /\ drains.samples = counted.samples
          /\ \A other \in Names : other # goal => drains.phase[other] = d.phase[other]
          /\ drains.phase[goal] = "draining" /\ drains.outstanding = d.outstanding
      BY <2>1, <2>2, <2>4, <3>1 DEF Besides, DriverFields, Shaped
    <3>4. /\ Besides({"samples", "phase", "fired", "stall", "commands"}, d, e)
          /\ e.samples = counted.samples /\ e.fired = d.fired
          /\ e.outstanding = d.outstanding
      BY <2>2, <2>4, <3>1, <3>2, <3>3 DEF Besides, DriverFields
    <3>5. Driver!InPhase(drains, "draining") /\ goal = drains.mission.goal
      BY <2>1, <3>3, NameFacts DEF Driver!InPhase, Driver!NoName, NoName
    <3>6. CASE d.outstanding # Driver!NoFrame
      BY <1>2, <2>1, <2>4, <2>7, <3>2, <3>3, <3>4, <3>5, <3>6 DEF Progress
    <3>7. CASE d.outstanding = Driver!NoFrame
      BY <1>2, <2>1, <2>4, <2>7, <3>2, <3>3, <3>4, <3>5, <3>7 DEF Progress, Leaving
    <3> QED
      BY <3>6, <3>7
  <2> QED
    BY <2>3, <2>5, <2>6, <2>7
<1> QED
  BY <1>1, <1>2

\* What a tick sends beside the desired velocity: a priming frame while the gate is closed,
\* and a frame for the goal, or the fault's, in the mission.
Sends(d, e, name, malformed) ==
  /\ Driver!MaySend(d) /\ d.next_frame = 0
  /\ e.outstanding = Driver!Outstanding(name, ~malformed)
  /\ \E desired \in SUBSET {Driver!Desired} :
       e.commands = d.commands \cup desired \cup {Driver!Frame(name, malformed)}
  /\ \/ ~d.gate_open /\ name = Waypoints[1] /\ ~malformed /\ e.fired = d.fired
     \/ /\ d.gate_open /\ name = d.mission.goal /\ malformed
        /\ Driver!Strikes(d, "malformed", name)
        /\ e.fired = d.fired \cup {"malformed"}
     \/ /\ d.gate_open /\ name = Intruder /\ ~malformed
        /\ Driver!Strikes(d, "wrong_goal", d.mission.goal)
        /\ e.fired = d.fired \cup {"wrong_goal"}
     \/ /\ d.gate_open /\ name = d.mission.goal /\ ~malformed
        /\ ~Driver!Strikes(d, "wrong_goal", name) /\ e.fired = d.fired

\* A tick of the driver publishes what it wants of the scene, or sends one frame, named and
\* faulty as the plan says.
LEMMA TickEffect ==
  ASSUME NEW d, Shaped(d), NEW e, e = Driver!OnTick(d)
  PROVE  /\ Shaped(e)
         /\ Besides({"stall", "commands", "fired", "outstanding", "next_frame"}, d, e)
         /\ \/ /\ ~(Driver!MaySend(d) /\ d.next_frame = 0)
               /\ e.commands \in {d.commands, d.commands \cup {Driver!Desired}}
               /\ e.outstanding = d.outstanding /\ e.fired = d.fired
            \/ \E name, malformed : malformed \in BOOLEAN /\ Sends(d, e, name, malformed)
<1> DEFINE other == Driver!PublishDesired(d)
<1>1. /\ Shaped(other) /\ Besides({"stall", "commands"}, d, other)
      /\ other.commands \in {d.commands, d.commands \cup {Driver!Desired}}
  BY DEF Shaped, Besides, DriverFields, Driver!PublishDesired, Driver!Emit
<1>2. e = IF Driver!MaySend(other) /\ other.next_frame = 0 THEN Driver!SendFrame(other) ELSE other
  BY DEF Driver!OnTick
<1> HIDE DEF other
<1>3. /\ other.mission = d.mission /\ other.phase = d.phase /\ other.outstanding = d.outstanding
      /\ other.next_frame = d.next_frame /\ other.gate_open = d.gate_open
      /\ other.graph_ready = d.graph_ready /\ other.recording = d.recording
      /\ other.options = d.options /\ other.fired = d.fired
  BY <1>1 DEF Besides, DriverFields
<1>4. Driver!MaySend(other) = Driver!MaySend(d)
  BY <1>3 DEF Driver!MaySend, Driver!MayPrime, Driver!MayStream, Driver!InPhase
<1>5. CASE ~(Driver!MaySend(d) /\ d.next_frame = 0)
  <2>1. e = other
    BY <1>2, <1>3, <1>4, <1>5
  <2> QED
    BY <1>1, <1>3, <1>5, <2>1 DEF Besides, DriverFields
<1>6. CASE Driver!MaySend(d) /\ d.next_frame = 0
  <2> DEFINE waypoint == IF other.gate_open THEN other.mission.goal ELSE Waypoints[1]
             in_mission == other.gate_open /\ other.mission.state # "IDLE"
             wait == IF other.gate_open THEN FrameInterval ELSE PrimeRetry
             waiting == [other EXCEPT !.next_frame = wait]
             Sent(x, name, malformed) ==
               Driver!Emit([x EXCEPT !.outstanding = Driver!Outstanding(name, ~malformed)],
                           Driver!Frame(name, malformed))
  <2>1. e = IF in_mission /\ Driver!Strikes(other, "malformed", waypoint)
            THEN Sent(Driver!Fire(waiting, "malformed"), waypoint, TRUE)
            ELSE IF in_mission /\ Driver!Strikes(other, "wrong_goal", waypoint)
            THEN Sent(Driver!Fire(waiting, "wrong_goal"), Intruder, FALSE)
            ELSE Sent(waiting, waypoint, FALSE)
    BY <1>2, <1>3, <1>4, <1>6 DEF Driver!SendFrame
  <2>2. Shaped(waiting) /\ Besides({"next_frame"}, other, waiting)
    BY <1>1 DEF Shaped, Besides, DriverFields
  <2>3. in_mission <=> d.gate_open
    BY <1>3, <1>6 DEF Driver!MaySend, Driver!MayStream, Driver!StreamingStates
  <2>4. waypoint = IF d.gate_open THEN d.mission.goal ELSE Waypoints[1]
    BY <1>3
  <2>5. \A kind, goal : Driver!Strikes(other, kind, goal) = Driver!Strikes(d, kind, goal)
    BY <1>3 DEF Driver!Strikes
  <2> HIDE DEF waiting, in_mission, waypoint
  <2>6. \A kind : /\ Shaped(Driver!Fire(waiting, kind))
                  /\ Besides({"fired"}, waiting, Driver!Fire(waiting, kind))
                  /\ Driver!Fire(waiting, kind).fired = d.fired \cup {kind}
    <3>1. waiting.fired = d.fired
      BY <1>3, <2>2 DEF Besides, DriverFields
    <3> QED
      BY <2>2, <3>1 DEF Shaped, Besides, DriverFields, Driver!Fire
  <2>7. ASSUME NEW x, Shaped(x), NEW name, NEW malformed \in BOOLEAN,
               Besides({"next_frame", "fired"}, other, x), e = Sent(x, name, malformed)
        PROVE  /\ Shaped(e)
               /\ Besides({"stall", "commands", "fired", "outstanding", "next_frame"}, d, e)
               /\ e.fired = x.fired
               /\ e.outstanding = Driver!Outstanding(name, ~malformed)
               /\ \E desired \in SUBSET {Driver!Desired} :
                    e.commands = d.commands \cup desired \cup {Driver!Frame(name, malformed)}
    <3> DEFINE out == [x EXCEPT !.outstanding = Driver!Outstanding(name, ~malformed)]
    <3>1. Shaped(out) /\ Besides({"outstanding"}, x, out)
          /\ out.outstanding = Driver!Outstanding(name, ~malformed)
      BY <2>7 DEF Shaped, Besides, DriverFields, Driver!Outstanding, FrameFields
    <3> HIDE DEF out
    <3>2. /\ Shaped(Driver!Emit(out, Driver!Frame(name, malformed)))
          /\ Besides({"commands"}, out, Driver!Emit(out, Driver!Frame(name, malformed)))
          /\ Driver!Emit(out, Driver!Frame(name, malformed)).commands
             = out.commands \cup {Driver!Frame(name, malformed)}
      BY <3>1 DEF Shaped, Besides, DriverFields, Driver!Emit
    <3> DEFINE y == Driver!Emit(out, Driver!Frame(name, malformed))
    <3>3. Sent(x, name, malformed) = y
      BY DEF out
    <3>4. Shaped(y) /\ y.fired = x.fired /\ y.outstanding = Driver!Outstanding(name, ~malformed)
          /\ y.commands = other.commands \cup {Driver!Frame(name, malformed)}
          /\ Besides({"stall", "commands", "fired", "outstanding", "next_frame"}, d, y)
      BY <1>1, <2>7, <3>1, <3>2 DEF Besides, DriverFields
    <3>5. \E desired \in SUBSET {Driver!Desired} : other.commands = d.commands \cup desired
      <4>1. CASE other.commands = d.commands
        <5>1. other.commands = d.commands \cup {}
          BY <4>1
        <5>2. {} \in SUBSET {Driver!Desired}
          OBVIOUS
        <5> QED
          BY <5>1, <5>2
      <4>2. CASE other.commands = d.commands \cup {Driver!Desired}
        <5>1. {Driver!Desired} \in SUBSET {Driver!Desired}
          OBVIOUS
        <5> QED
          BY <4>2, <5>1
      <4> QED
        BY <1>1, <4>1, <4>2
    <3>6. e = y
      BY <2>7, <3>3
    <3> HIDE DEF y, Sent
    <3> QED
      BY <3>4, <3>5, <3>6
  <2>8. \A kind : Besides({"next_frame", "fired"}, other, Driver!Fire(waiting, kind))
    BY <2>2, <2>6 DEF Besides, DriverFields
  <2>9. Besides({"next_frame", "fired"}, other, waiting) /\ waiting.fired = d.fired
    BY <1>3, <2>2 DEF Besides, DriverFields
  <2> HIDE DEF Sent
  <2>10. CASE in_mission /\ Driver!Strikes(other, "malformed", waypoint)
    <3>1. e = Sent(Driver!Fire(waiting, "malformed"), waypoint, TRUE)
      BY <2>1, <2>10
    <3>2. /\ Shaped(e) /\ e.fired = Driver!Fire(waiting, "malformed").fired
          /\ Besides({"stall", "commands", "fired", "outstanding", "next_frame"}, d, e)
          /\ e.outstanding = Driver!Outstanding(waypoint, ~TRUE)
          /\ \E desired \in SUBSET {Driver!Desired} :
               e.commands = d.commands \cup desired \cup {Driver!Frame(waypoint, TRUE)}
      BY <2>6, <2>7, <2>8, <3>1
    <3>3. Sends(d, e, waypoint, TRUE)
      BY <1>6, <2>3, <2>4, <2>5, <2>6, <2>10, <3>2 DEF Sends
    <3> QED
      BY <3>2, <3>3
  <2>11. CASE /\ ~(in_mission /\ Driver!Strikes(other, "malformed", waypoint))
              /\ in_mission /\ Driver!Strikes(other, "wrong_goal", waypoint)
    <3>1. e = Sent(Driver!Fire(waiting, "wrong_goal"), Intruder, FALSE)
      BY <2>1, <2>11
    <3>2. /\ Shaped(e) /\ e.fired = Driver!Fire(waiting, "wrong_goal").fired
          /\ Besides({"stall", "commands", "fired", "outstanding", "next_frame"}, d, e)
          /\ e.outstanding = Driver!Outstanding(Intruder, ~FALSE)
          /\ \E desired \in SUBSET {Driver!Desired} :
               e.commands = d.commands \cup desired \cup {Driver!Frame(Intruder, FALSE)}
      BY <2>6, <2>7, <2>8, <3>1
    <3>3. Sends(d, e, Intruder, FALSE)
      BY <1>6, <2>3, <2>4, <2>5, <2>6, <2>11, <3>2 DEF Sends
    <3> QED
      BY <3>2, <3>3
  <2>12. CASE /\ ~(in_mission /\ Driver!Strikes(other, "malformed", waypoint))
              /\ ~(in_mission /\ Driver!Strikes(other, "wrong_goal", waypoint))
    <3>1. e = Sent(waiting, waypoint, FALSE)
      BY <2>1, <2>12
    <3>2. /\ Shaped(e) /\ e.fired = waiting.fired
          /\ Besides({"stall", "commands", "fired", "outstanding", "next_frame"}, d, e)
          /\ e.outstanding = Driver!Outstanding(waypoint, ~FALSE)
          /\ \E desired \in SUBSET {Driver!Desired} :
               e.commands = d.commands \cup desired \cup {Driver!Frame(waypoint, FALSE)}
      BY <2>2, <2>7, <2>9, <3>1
    <3>3. d.gate_open => waypoint = d.mission.goal /\ ~Driver!Strikes(d, "wrong_goal", waypoint)
      BY <2>3, <2>4, <2>5, <2>12
    <3>4. ~d.gate_open => waypoint = Waypoints[1]
      BY <2>4
    <3>5. Sends(d, e, waypoint, FALSE)
      BY <1>6, <2>9, <3>2, <3>3, <3>4 DEF Sends
    <3> QED
      BY <3>2, <3>5
  <2> QED
    BY <2>10, <2>11, <2>12
<1> QED
  BY <1>5, <1>6

\* What a mission state sets in motion, method by method.
LEMMA StateEffects ==
  ASSUME NEW x, Shaped(x), NEW goal, goal = x.mission.goal
  PROVE  /\ LET y == Driver!BackToIdle(x) IN
            /\ Shaped(y)
            /\ Besides({"phase", "last_evidence", "samples", "outstanding", "next_frame",
                        "gate_open", "recording"}, x, y)
            /\ x.mission.state # "IDLE" \/ x.phase = Driver!OfAllGoals("none") => y = x
         /\ LET y == Driver!EnterGoal(x) IN
            /\ Shaped(y) /\ Besides({"phase", "samples"}, x, y)
            /\ ~Driver!InPhase(x, "none") => y = x
            /\ Driver!InPhase(x, "none") =>
                 /\ y.phase = [x.phase EXCEPT ![goal] = "streaming"]
                 /\ y.samples = [x.samples EXCEPT ![goal] = 0]
         /\ LET y == Driver!NoteTheEnd(x) IN Shaped(y) /\ Besides({"ended"}, x, y)
         /\ LET y == Driver!AbortOnStop(x) IN
            /\ Shaped(y) /\ Besides({"aborted", "commands"}, x, y)
            /\ y.commands \in {x.commands, x.commands \cup {Driver!Call("abort")}}
            /\ x.mission.state # "SAFETY_STOPPED" => y = x
<1>0. goal \in Names \cup {NoName}
  BY DEF Shaped, Tellings
<1>1. /\ Shaped(Driver!BackToIdle(x))
      /\ Besides({"phase", "last_evidence", "samples", "outstanding", "next_frame",
                  "gate_open", "recording"}, x, Driver!BackToIdle(x))
      /\ x.mission.state # "IDLE" \/ x.phase = Driver!OfAllGoals("none")
         => Driver!BackToIdle(x) = x
  BY DEF Shaped, Besides, DriverFields, Driver!BackToIdle, Driver!OfAllGoals, Driver!Phases
<1>2. /\ Shaped(Driver!EnterGoal(x)) /\ Besides({"phase", "samples"}, x, Driver!EnterGoal(x))
      /\ ~Driver!InPhase(x, "none") => Driver!EnterGoal(x) = x
      /\ Driver!InPhase(x, "none") =>
           /\ Driver!EnterGoal(x).phase = [x.phase EXCEPT ![goal] = "streaming"]
           /\ Driver!EnterGoal(x).samples = [x.samples EXCEPT ![goal] = 0]
  BY <1>0 DEF Shaped, Besides, DriverFields, Driver!EnterGoal, Driver!Phases, Driver!InPhase,
     Driver!NoName, NoName
<1>3. Shaped(Driver!NoteTheEnd(x)) /\ Besides({"ended"}, x, Driver!NoteTheEnd(x))
  BY DEF Shaped, Besides, DriverFields, Driver!NoteTheEnd
<1>4. /\ Shaped(Driver!AbortOnStop(x)) /\ Besides({"aborted", "commands"}, x, Driver!AbortOnStop(x))
      /\ Driver!AbortOnStop(x).commands \in {x.commands, x.commands \cup {Driver!Call("abort")}}
      /\ x.mission.state # "SAFETY_STOPPED" => Driver!AbortOnStop(x) = x
  BY DEF Shaped, Besides, DriverFields, Driver!AbortOnStop, Driver!Emit
<1> QED
  BY <1>1, <1>2, <1>3, <1>4

\* The faults that halt a goal do so when the robot is seen to be sent there.
LEMMA PlansStrikeGoals ==
  ASSUME NEW x, x.options.plan \in Driver!Plans, NEW kind \in Driver!FaultKinds, NEW goal,
         Driver!Strikes(x, kind, goal)
  PROVE  goal \in Names /\ x.options.plan[kind] \in 1 .. Len(Waypoints)
BY WaypointsAssumption DEF Driver!Strikes, Driver!Plans, Driver!Disabled

\* A stalled camera or a forged report halts the goal it strikes, and otherwise does nothing.
LEMMA FaultEffects ==
  ASSUME NEW x, Shaped(x), NEW goal, goal = x.mission.goal, NEW y, NEW kind,
         \/ kind = "camera_stall" /\ y = Driver!StallCamera(x)
         \/ kind = "forged" /\ y = Driver!ForgeReport(x)
  PROVE  /\ Shaped(y) /\ Besides({"phase", "fired", "commands"}, x, y)
         /\ IF Driver!Moving(x) /\ Driver!Strikes(x, kind, goal)
            THEN /\ goal \in Names /\ y.phase = [x.phase EXCEPT ![goal] = "halted"]
                 /\ y.fired = x.fired \cup {kind}
                 /\ y.commands \in {x.commands, x.commands \cup {Driver!Reached(Intruder)}}
            ELSE y.phase = x.phase /\ y.fired = x.fired /\ y.commands = x.commands
<1> DEFINE struck == Driver!Moving(x) /\ Driver!Strikes(x, kind, goal)
           fire == Driver!Fire(x, kind)
           halted == Driver!Halt(fire)
<1>0. goal \in Names \cup {NoName}
  BY DEF Shaped, Tellings
<1>1. /\ Shaped(fire) /\ Besides({"fired"}, x, fire) /\ fire.fired = x.fired \cup {kind}
  BY DEF Shaped, Besides, DriverFields, Driver!Fire
<1>2. fire.mission = x.mission /\ fire.phase = x.phase /\ fire.commands = x.commands
  BY <1>1 DEF Besides, DriverFields
<1> HIDE DEF fire
<1>3. /\ Shaped(halted) /\ Besides({"phase"}, fire, halted)
      /\ halted.phase = [x.phase EXCEPT ![goal] = "halted"]
  <2>1. halted = [fire EXCEPT !.phase = [x.phase EXCEPT ![goal] = "halted"]]
    BY <1>2 DEF Driver!Halt
  <2>2. [x.phase EXCEPT ![goal] = "halted"] \in [Names -> Driver!Phases]
    BY DEF Shaped, Driver!Phases
  <2> HIDE DEF halted
  <2> QED
    BY <1>1, <1>2, <2>1, <2>2 DEF Shaped, Besides, DriverFields
<1>4. /\ halted.commands = x.commands /\ halted.fired = x.fired \cup {kind}
      /\ Besides({"phase", "fired", "commands"}, x, halted)
  BY <1>1, <1>2, <1>3 DEF Besides, DriverFields
<1>5. struck => y \in {halted, Driver!Emit(halted, Driver!Reached(Intruder))}
  BY DEF Driver!StallCamera, Driver!ForgeReport, fire
<1>6. ~struck => y = x
  BY DEF Driver!StallCamera, Driver!ForgeReport
<1> HIDE DEF halted
<1>7. ASSUME struck
      PROVE  /\ Shaped(y) /\ Besides({"phase", "fired", "commands"}, x, y)
             /\ y.phase = halted.phase /\ y.fired = x.fired \cup {kind}
             /\ y.commands \in {x.commands, x.commands \cup {Driver!Reached(Intruder)}}
  <2>1. CASE y = halted
    BY <1>3, <1>4, <2>1
  <2>2. CASE y = Driver!Emit(halted, Driver!Reached(Intruder))
    <3>1. /\ Shaped(y) /\ Besides({"commands"}, halted, y)
          /\ y.commands = halted.commands \cup {Driver!Reached(Intruder)}
      BY <1>3, <2>2 DEF Shaped, Besides, DriverFields, Driver!Emit
    <3> QED
      BY <1>4, <3>1 DEF Besides, DriverFields
  <2> QED
    BY <1>5, <1>7, <2>1, <2>2
<1>8. struck => goal \in Names
  BY PlansStrikeGoals DEF Shaped, Driver!FaultKinds
<1> QED
  BY <1>3, <1>6, <1>7, <1>8 DEF Besides

\* What a mission state may make the driver command.
Answering(goal) ==
  {Driver!Call("abort"), Driver!Complete, Driver!Reached(goal), Driver!Reached(Intruder)}

\* A mission state changes little else than how far its own goal has come.  At a goal a fault
\* strikes the driver halts; at any other it enters, and leaves as the protocol says.
StruckNow(d, kind, m) == m.state = "MOVING" /\ m.authorized /\ Driver!Strikes(d, kind, m.goal)
FaultNow(d, m) == StruckNow(d, "camera_stall", m) \/ StruckNow(d, "forged", m)

\* What the driver makes of a mission state.
LEMMA TellingEffect ==
  ASSUME NEW d, Shaped(d), NEW m \in Tellings, NEW goal, goal = m.goal,
         NEW e, e = Driver!OnMissionState(d, m)
  PROVE  /\ Shaped(e) /\ e.mission = m /\ e.options = d.options /\ e.started = d.started
         /\ e.commands \subseteq d.commands \cup Answering(goal)
         /\ m.state = "IDLE" /\ goal = NoName /\ d.phase = Driver!OfAllGoals("none") =>
              /\ Besides({"mission", "completed", "commands"}, d, e)
              /\ e.commands \subseteq d.commands \cup {Driver!Complete}
         /\ m.state # "IDLE" =>
              /\ Besides({"mission", "phase", "samples", "ended", "aborted", "fired",
                          "commands", "completed"}, d, e)
              /\ \A other \in Names : other # goal => e.phase[other] = d.phase[other]
              /\ \A kind \in {"camera_stall", "forged"} :
                   kind \in e.fired <=> kind \in d.fired \/ StruckNow(d, kind, m)
              /\ \A kind : kind \notin {"camera_stall", "forged"} =>
                   (kind \in e.fired <=> kind \in d.fired)
              /\ ~FaultNow(d, m) => Driver!Reached(Intruder) \notin e.commands \ d.commands
                                    \/ goal = Intruder
              /\ FaultNow(d, m) => /\ goal \in Names /\ e.phase[goal] = "halted"
                                   /\ e.commands \subseteq d.commands \cup
                                        {Driver!Call("abort"), Driver!Complete,
                                         Driver!Reached(Intruder)}
              /\ ~FaultNow(d, m) /\ goal \in Names =>
                   /\ d.phase[goal] = "none" => e.phase[goal] = "streaming"
                   /\ d.phase[goal] \in {"streaming", "reported", "halted"} =>
                        e.phase[goal] = d.phase[goal]
                   /\ d.phase[goal] \in {"draining", "confirming"} =>
                        e.phase[goal] \in {"draining", "confirming", "reported"}
                   /\ d.phase[goal] = "draining" /\ d.outstanding # Driver!NoFrame =>
                        e.phase[goal] = "draining"
                   /\ e.phase[goal] # "reported" \/ d.phase[goal] = "reported" =>
                        e.commands \subseteq d.commands \cup
                          {Driver!Call("abort"), Driver!Complete}
<1> DEFINE e0 == [d EXCEPT !.mission = m]
           e1 == Driver!BackToIdle(e0)
           e2 == Driver!EnterGoal(e1)
           e3 == Driver!NoteTheEnd(e2)
           e4 == Driver!AbortOnStop(e3)
           e5 == Driver!StallCamera(e4)
           e6 == Driver!ForgeReport(e5)
           e7 == Driver!AdvanceGoal(e6)
<1>0. goal \in Names \cup {NoName}
  BY DEF Tellings
<1>1. e = Driver!Completion(e7)
  BY DEF Driver!OnMissionState
<1>2. Shaped(e0) /\ Besides({"mission"}, d, e0) /\ e0.mission = m
  BY DEF Shaped, Besides, DriverFields
<1> HIDE DEF e0
<1>3. /\ Shaped(e1)
      /\ Besides({"phase", "last_evidence", "samples", "outstanding", "next_frame",
                  "gate_open", "recording"}, e0, e1)
      /\ e0.mission.state # "IDLE" \/ e0.phase = Driver!OfAllGoals("none") => e1 = e0
  BY <1>2, StateEffects
<1> HIDE DEF e1
<1>4. e1.mission = m /\ e1.options = d.options /\ e1.started = d.started
      /\ e1.commands = d.commands /\ e1.fired = d.fired
  BY <1>2, <1>3 DEF Besides, DriverFields
<1>5. /\ Shaped(e2) /\ Besides({"phase", "samples"}, e1, e2)
      /\ ~Driver!InPhase(e1, "none") => e2 = e1
      /\ Driver!InPhase(e1, "none") => e2.phase = [e1.phase EXCEPT ![goal] = "streaming"]
  BY <1>3, <1>4, StateEffects
<1> HIDE DEF e2
<1>6. Shaped(e3) /\ Besides({"ended"}, e2, e3)
  BY <1>5, StateEffects
<1>7. m.state = "IDLE" => e3 = e2
  BY <1>4, <1>5 DEF Driver!NoteTheEnd, Driver!TerminalStates, Besides, DriverFields
<1> HIDE DEF e3
<1>8. e3.mission = m /\ e3.options = d.options /\ e3.started = d.started
      /\ e3.commands = d.commands /\ e3.fired = d.fired /\ e3.phase = e2.phase
  BY <1>4, <1>5, <1>6 DEF Besides, DriverFields
<1>9. /\ Shaped(e4) /\ Besides({"aborted", "commands"}, e3, e4)
      /\ e4.commands \in {e3.commands, e3.commands \cup {Driver!Call("abort")}}
      /\ m.state # "SAFETY_STOPPED" => e4 = e3
  BY <1>6, <1>8, StateEffects
<1> HIDE DEF e4
<1>10. e4.mission = m /\ e4.options = d.options /\ e4.started = d.started
       /\ e4.fired = d.fired /\ e4.phase = e2.phase
       /\ e4.commands \in {d.commands, d.commands \cup {Driver!Call("abort")}}
  BY <1>8, <1>9 DEF Besides, DriverFields
<1>11. /\ Shaped(e5) /\ Besides({"phase", "fired", "commands"}, e4, e5)
       /\ IF Driver!Moving(e4) /\ Driver!Strikes(e4, "camera_stall", goal)
          THEN /\ goal \in Names /\ e5.phase = [e4.phase EXCEPT ![goal] = "halted"]
               /\ e5.fired = e4.fired \cup {"camera_stall"}
               /\ e5.commands \in {e4.commands, e4.commands \cup {Driver!Reached(Intruder)}}
          ELSE e5.phase = e4.phase /\ e5.fired = e4.fired /\ e5.commands = e4.commands
  BY <1>9, <1>10, FaultEffects
<1> HIDE DEF e5
<1>12. e5.mission = m /\ e5.options = d.options /\ e5.started = d.started
  BY <1>10, <1>11 DEF Besides, DriverFields
<1>13. /\ Shaped(e6) /\ Besides({"phase", "fired", "commands"}, e5, e6)
       /\ IF Driver!Moving(e5) /\ Driver!Strikes(e5, "forged", goal)
          THEN /\ goal \in Names /\ e6.phase = [e5.phase EXCEPT ![goal] = "halted"]
               /\ e6.fired = e5.fired \cup {"forged"}
               /\ e6.commands \in {e5.commands, e5.commands \cup {Driver!Reached(Intruder)}}
          ELSE e6.phase = e5.phase /\ e6.fired = e5.fired /\ e6.commands = e5.commands
  BY <1>11, <1>12, FaultEffects
<1> HIDE DEF e6
<1>14. e6.mission = m /\ e6.options = d.options /\ e6.started = d.started
  BY <1>12, <1>13 DEF Besides, DriverFields
<1>15. Shaped(e7) /\ Besides({"phase", "commands"}, e6, e7) /\ Progress(e6, e7)
  BY <1>13, AdvanceEffect
<1> HIDE DEF e7
<1>16. /\ Shaped(e) /\ Besides({"completed", "commands"}, e7, e)
       /\ \/ e.commands = e7.commands
          \/ e.commands = e7.commands \cup {Driver!Complete}
  BY <1>1, <1>15, CompletionEffect
<1>17. /\ Driver!Moving(e4) /\ Driver!Strikes(e4, "camera_stall", goal)
            <=> StruckNow(d, "camera_stall", m)
       /\ Driver!Moving(e5) /\ Driver!Strikes(e5, "forged", goal) <=> StruckNow(d, "forged", m)
  BY <1>10, <1>11, <1>12 DEF Driver!Moving, Driver!Strikes, StruckNow
<1>18. /\ \A kind \in {"camera_stall", "forged"} :
            kind \in e6.fired <=> kind \in d.fired \/ StruckNow(d, kind, m)
       /\ \A kind : kind \notin {"camera_stall", "forged"} =>
            (kind \in e6.fired <=> kind \in d.fired)
  BY <1>10, <1>11, <1>13, <1>17
<1>19. /\ e6.commands \subseteq d.commands \cup {Driver!Call("abort"), Driver!Reached(Intruder)}
       /\ ~FaultNow(d, m) => e6.commands \subseteq d.commands \cup {Driver!Call("abort")}
  BY <1>10, <1>11, <1>13, <1>17 DEF FaultNow
<1>20. IF FaultNow(d, m) THEN goal \in Names /\ e6.phase = [e2.phase EXCEPT ![goal] = "halted"]
       ELSE e6.phase = e2.phase
  <2>1. goal \in Names => [[e2.phase EXCEPT ![goal] = "halted"] EXCEPT ![goal] = "halted"]
                          = [e2.phase EXCEPT ![goal] = "halted"]
    BY <1>5 DEF Shaped
  <2> QED
    BY <1>10, <1>11, <1>13, <1>17, <2>1 DEF FaultNow
<1>21. /\ e.mission = m /\ e.options = d.options /\ e.started = d.started
       /\ e.fired = e6.fired /\ e.phase = e7.phase
  BY <1>14, <1>15, <1>16 DEF Besides, DriverFields
<1>22. Leaving(e6) <=> goal \in Names /\ e6.phase[goal] \in {"draining", "confirming"}
  BY <1>0, <1>14, NameFacts DEF Leaving, Driver!InPhase, Driver!NoName, NoName
<1>23. e.commands \subseteq d.commands \cup Answering(goal)
  BY <1>14, <1>15, <1>16, <1>19 DEF Progress, Answering
<1>24. ASSUME m.state = "IDLE", goal = NoName, d.phase = Driver!OfAllGoals("none")
       PROVE  /\ Besides({"mission", "completed", "commands"}, d, e)
              /\ e.commands \subseteq d.commands \cup {Driver!Complete}
  <2>1. e1 = e0
    BY <1>2, <1>3, <1>24 DEF Besides, DriverFields
  <2>2. e4 = e1
    BY <1>4, <1>5, <1>7, <1>9, <1>24 DEF Driver!InPhase, Driver!NoName, NoName
  <2>3. ~FaultNow(d, m) /\ ~StruckNow(d, "camera_stall", m) /\ ~StruckNow(d, "forged", m)
    BY <1>24 DEF FaultNow, StruckNow
  <2>4. Besides({}, e4, e6)
    BY <1>11, <1>13, <1>17, <2>3 DEF Besides, DriverFields
  <2>5. ~Leaving(e6)
    BY <1>22, <1>24, NameFacts
  <2>6. Besides({}, e6, e7)
    BY <1>15, <2>5 DEF Progress, Besides, DriverFields
  <2> QED
    BY <1>2, <1>16, <2>1, <2>2, <2>4, <2>6 DEF Besides, DriverFields
<1>25. ASSUME m.state # "IDLE"
       PROVE  /\ e1 = e0 /\ e1.phase = d.phase /\ e1.outstanding = d.outstanding
              /\ Besides({"mission", "phase", "samples", "ended", "aborted", "fired",
                          "commands", "completed"}, d, e)
  <2>1. e1 = e0
    BY <1>2, <1>3, <1>25
  <2> QED
    BY <1>2, <1>5, <1>6, <1>9, <1>11, <1>13, <1>15, <1>16, <2>1 DEF Besides, DriverFields
<1>26. ASSUME m.state # "IDLE", FaultNow(d, m)
       PROVE  /\ \A other \in Names : other # goal => e.phase[other] = d.phase[other]
              /\ goal \in Names /\ e.phase[goal] = "halted"
              /\ e.commands \subseteq d.commands \cup {Driver!Call("abort"), Driver!Complete,
                                                      Driver!Reached(Intruder)}
  <2>1. goal \in Names /\ e6.phase = [e2.phase EXCEPT ![goal] = "halted"]
    BY <1>20, <1>26
  <2>2. \A other \in Names : other # goal => e2.phase[other] = d.phase[other]
    BY <1>3, <1>5, <1>25, <1>26 DEF Shaped
  <2>3. /\ e6.phase[goal] = "halted"
        /\ \A other \in Names : other # goal => e6.phase[other] = d.phase[other]
    BY <1>5, <2>1, <2>2 DEF Shaped
  <2>4. ~Leaving(e6)
    BY <1>22, <2>3
  <2>5. e7.phase = e6.phase /\ e7.commands = e6.commands
    BY <1>15, <2>4 DEF Progress
  <2> QED
    BY <1>16, <1>19, <1>21, <2>1, <2>3, <2>5
<1>27. ASSUME m.state # "IDLE", ~FaultNow(d, m)
       PROVE  /\ \A other \in Names : other # goal => e.phase[other] = d.phase[other]
              /\ Driver!Reached(Intruder) \notin e.commands \ d.commands \/ goal = Intruder
              /\ goal \in Names =>
                   /\ d.phase[goal] = "none" => e.phase[goal] = "streaming"
                   /\ d.phase[goal] \in {"streaming", "reported", "halted"} =>
                        e.phase[goal] = d.phase[goal]
                   /\ d.phase[goal] \in {"draining", "confirming"} =>
                        e.phase[goal] \in {"draining", "confirming", "reported"}
                   /\ d.phase[goal] = "draining" /\ d.outstanding # Driver!NoFrame =>
                        e.phase[goal] = "draining"
                   /\ e.phase[goal] # "reported" \/ d.phase[goal] = "reported" =>
                        e.commands \subseteq d.commands \cup
                          {Driver!Call("abort"), Driver!Complete}
  <2>1. e6.phase = e2.phase
    BY <1>20, <1>27
  <2>2. \A other \in Names : other # goal => e6.phase[other] = d.phase[other]
    BY <1>3, <1>5, <1>25, <1>27, <2>1 DEF Shaped
  <2>3. goal \in Names =>
          e6.phase[goal] = IF d.phase[goal] = "none" THEN "streaming" ELSE d.phase[goal]
    BY <1>3, <1>4, <1>5, <1>25, <1>27, <2>1, NameFacts
       DEF Shaped, Driver!InPhase, Driver!NoName, NoName
  <2>4. e6.outstanding = d.outstanding /\ e7.outstanding = d.outstanding
    BY <1>5, <1>6, <1>9, <1>11, <1>13, <1>15, <1>25, <1>27 DEF Besides, DriverFields
  <2>5. CASE ~Leaving(e6)
    <3>1. e7.phase = e6.phase /\ e7.commands = e6.commands
      BY <1>15, <2>5 DEF Progress
    <3>2. e.commands \subseteq d.commands \cup {Driver!Call("abort"), Driver!Complete}
      BY <1>16, <1>19, <1>27, <3>1
    <3>3. goal \in Names => d.phase[goal] \notin {"draining", "confirming"}
      BY <1>22, <2>3, <2>5
    <3>4. Driver!Reached(Intruder) \notin e.commands \ d.commands
      BY <3>2 DEF Driver!Reached, Driver!Call, Driver!Complete
    <3> QED
      BY <1>21, <2>2, <2>3, <3>1, <3>2, <3>3, <3>4
  <2>6. CASE Leaving(e6)
    <3>1. goal \in Names /\ d.phase[goal] \in {"draining", "confirming"}
          /\ e6.phase[goal] = d.phase[goal]
      BY <1>22, <2>3, <2>6
    <3>2. /\ \A other \in Names : other # goal => e.phase[other] = d.phase[other]
          /\ e.phase[goal] \in {"draining", "confirming", "reported"}
          /\ \/ e7.commands = e6.commands /\ e.phase[goal] # "reported"
             \/ /\ e7.commands = e6.commands \cup {Driver!Reached(goal)}
                /\ e.phase[goal] = "reported"
      BY <1>14, <1>15, <1>21, <2>2, <2>6 DEF Progress
    <3>3. d.phase[goal] = "draining" /\ d.outstanding # Driver!NoFrame => e.phase[goal] = "draining"
      BY <1>14, <1>15, <1>21, <2>4, <3>1, NameFacts
         DEF Progress, Driver!InPhase, Driver!NoName, NoName
    <3>4. e.phase[goal] # "reported" =>
            e.commands \subseteq d.commands \cup {Driver!Call("abort"), Driver!Complete}
      BY <1>16, <1>19, <1>27, <3>2
    <3>5. Driver!Reached(Intruder) \notin e.commands \ d.commands \/ goal = Intruder
      BY <1>16, <1>19, <1>27, <3>2 DEF Driver!Reached, Driver!Call, Driver!Complete
    <3> QED
      BY <3>1, <3>2, <3>3, <3>4, <3>5
  <2> QED
    BY <2>5, <2>6
<1> QED
  BY <1>16, <1>18, <1>21, <1>23, <1>24, <1>25, <1>26, <1>27

-----------------------------------------------------------------------------
(***************************************************************************)
(* The pipeline step by step: what each one leaves of the driver, of the   *)
(* frames under way and of what is told.                                   *)
(***************************************************************************)

\* What is in a queue, after each of the things that are done to queues.
LEMMA QueueFacts ==
  ASSUME NEW S, NEW q \in Seq(S), NEW x
  PROVE  /\ ~Contains(<<>>, x)
         /\ Contains(q, x) => x \in S /\ q # <<>>
         /\ q # <<>> => /\ Contains(q, Head(q)) /\ Head(q) \in S /\ Tail(q) \in Seq(S)
                        /\ Len(Tail(q)) = Len(q) - 1
                        /\ Contains(Tail(q), x) => Contains(q, x)
                        /\ Contains(q, x) => x = Head(q) \/ Contains(Tail(q), x)
         /\ \A y \in S : /\ Append(q, y) \in Seq(S) /\ Len(Append(q, y)) = Len(q) + 1
                         /\ Contains(Append(q, y), x) <=> Contains(q, x) \/ x = y
         /\ \A r \in Seq(S) : Contains(q \o r, x) <=> Contains(q, x) \/ Contains(r, x)
<1>1. Len(<<>>) = 0 /\ Len(q) \in Nat /\ \A i \in 1 .. Len(q) : q[i] \in S
  BY EmptySeq, LenProperties, ElementOfSeq
<1>2. ~Contains(<<>>, x) /\ (Contains(q, x) => x \in S /\ q # <<>>)
  BY <1>1 DEF Contains
<1>3. ASSUME q # <<>>
      PROVE  /\ Contains(q, Head(q)) /\ Head(q) \in S /\ Tail(q) \in Seq(S)
             /\ Len(Tail(q)) = Len(q) - 1
             /\ Contains(Tail(q), x) => Contains(q, x)
             /\ Contains(q, x) => x = Head(q) \/ Contains(Tail(q), x)
  <2>1. Head(q) = q[1] /\ Len(q) >= 1
    BY <1>1, <1>3, EmptySeq
  <2>2. /\ Head(q) \in S /\ Tail(q) \in Seq(S) /\ Len(Tail(q)) = Len(q) - 1
        /\ \A i \in 1 .. Len(Tail(q)) : Tail(q)[i] = q[i + 1]
    BY <1>3, HeadTailProperties
  <2>3. Contains(q, Head(q))
    BY <1>1, <2>1 DEF Contains
  <2>4. Contains(Tail(q), x) => Contains(q, x)
    <3>1. ASSUME NEW i \in 1 .. Len(Tail(q)) PROVE i + 1 \in 1 .. Len(q) /\ Tail(q)[i] = q[i + 1]
      BY <1>1, <2>1, <2>2
    <3> QED
      BY <3>1 DEF Contains
  <2>5. Contains(q, x) => x = Head(q) \/ Contains(Tail(q), x)
    <3>1. ASSUME NEW i \in 1 .. Len(q), q[i] = x, i # 1
          PROVE  i - 1 \in 1 .. Len(Tail(q)) /\ Tail(q)[i - 1] = x
      BY <1>1, <2>1, <2>2, <3>1
    <3> QED
      BY <2>1, <3>1 DEF Contains
  <2> QED
    BY <2>2, <2>3, <2>4, <2>5
<1>4. ASSUME NEW y \in S
      PROVE  /\ Append(q, y) \in Seq(S) /\ Len(Append(q, y)) = Len(q) + 1
             /\ Contains(Append(q, y), x) <=> Contains(q, x) \/ x = y
  <2>1. /\ Append(q, y) \in Seq(S) /\ Len(Append(q, y)) = Len(q) + 1
        /\ \A i \in 1.. Len(q) : Append(q, y)[i] = q[i]
        /\ Append(q, y)[Len(q) + 1] = y
    BY AppendProperties
  <2>2. 1 .. Len(q) + 1 = (1 .. Len(q)) \cup {Len(q) + 1}
    BY <1>1
  <2> QED
    BY <2>1, <2>2 DEF Contains
<1>5. ASSUME NEW r \in Seq(S)
      PROVE  Contains(q \o r, x) <=> Contains(q, x) \/ Contains(r, x)
  <2>1. /\ Len(q \o r) = Len(q) + Len(r) /\ Len(r) \in Nat
        /\ \A i \in 1 .. Len(q) + Len(r) : (q \o r)[i] =
                     IF i <= Len(q) THEN q[i] ELSE r[i - Len(q)]
    BY ConcatProperties, LenProperties
  <2>2. \A i \in 1 .. Len(q) : i \in 1 .. Len(q) + Len(r) /\ (q \o r)[i] = q[i]
    BY <1>1, <2>1
  <2>3. \A i \in 1 .. Len(r) : i + Len(q) \in 1 .. Len(q) + Len(r) /\ (q \o r)[i + Len(q)] = r[i]
    BY <1>1, <2>1
  <2>4. \A i \in 1 .. Len(q) + Len(r) : i \in 1 .. Len(q) \/ i - Len(q) \in 1 .. Len(r)
    BY <1>1, <2>1
  <2> QED
    BY <1>1, <2>1, <2>2, <2>3, <2>4 DEF Contains
<1> QED
  BY <1>2, <1>3, <1>4, <1>5

\* Few things are told in one order only.
LEMMA FewInOrder ==
  /\ SetToSeq({}) = <<>>
  /\ \A x : SetToSeq({x}) = <<x>>
  /\ \A S, x : IsFiniteSet(S) /\ Contains(SetToSeq(S), x) => x \in S
<1>1. SetToSeq({}) = <<>>
  <2>1. Cardinality({}) = 0
    BY FS_EmptySet
  <2>2. PICK f : f \in Bijection(1 .. 0, {})
    BY <2>1, FS_EmptySet, FS_CardinalityType DEF ExistsBijection
  <2>3. f \in [1 .. 0 -> {}] /\ IsInjective(f)
    BY <2>2 DEF Bijection, Injection
  <2>4. SetToSeq({}) \in [1 .. 0 -> {}]
    BY <2>1, <2>3 DEF SetToSeq
  <2> QED
    BY <2>4
<1>2. ASSUME NEW x PROVE SetToSeq({x}) = <<x>>
  <2>1. Cardinality({x}) = 1 /\ IsFiniteSet({x})
    BY FS_Singleton
  <2>2. PICK f : f \in Bijection(1 .. 1, {x})
    BY <2>1, FS_CardinalityType DEF ExistsBijection
  <2>3. f \in [1 .. 1 -> {x}] /\ IsInjective(f)
    BY <2>2 DEF Bijection, Injection
  <2>4. SetToSeq({x}) \in [1 .. 1 -> {x}]
    BY <2>1, <2>3 DEF SetToSeq
  <2>5. SetToSeq({x}) \in Seq({x})
    BY <2>1, SomeOrder
  <2>6. <<x>> \in Seq({x}) /\ Len(<<x>>) = 1 /\ <<x>>[1] = x
    OBVIOUS
  <2>7. Len(SetToSeq({x})) = 1 /\ SetToSeq({x})[1] = x
    BY <2>4, <2>5, LenProperties
  <2> QED
    BY <2>5, <2>6, <2>7, SeqEqual
<1>3. ASSUME NEW S, NEW x, IsFiniteSet(S), Contains(SetToSeq(S), x) PROVE x \in S
  <2>1. SetToSeq(S) \in Seq(S)
    BY <1>3, SomeOrder
  <2> QED
    BY <1>3, <2>1, ElementOfSeq DEF Contains
<1> QED
  BY <1>1, <1>2, <1>3

\* What a command is.
LEMMA CommandKinds ==
  /\ Driver!Desired.do = "desired" /\ Driver!Complete.do = "complete"
  /\ \A x : Driver!Reached(x).do = "reached" /\ Driver!Reached(x).waypoint = x
  /\ \A x : Driver!Call(x).do = "call" /\ Driver!Call(x).service = x
  /\ \A x, y : /\ Driver!Frame(x, y).do = "frame" /\ Driver!Frame(x, y).waypoint = x
               /\ Driver!Frame(x, y).malformed = y
BY DEF Driver!Desired, Driver!Complete, Driver!Reached, Driver!Call, Driver!Frame

\* What the driver's commands come to: the camera's frame, the calls and the arrivals that
\* are among them.
LEMMA Executed ==
  ASSUME Wired, NEW d, DriverOK(d), Shaped(d), Execute(d)
  PROVE  /\ Shaped(driver') /\ Besides({"commands"}, d, driver') /\ driver'.commands = {}
         /\ Frames(d.commands) = {} => camera' = camera
         /\ \A frame : Frames(d.commands) = {frame} /\ camera = <<>> => camera' = <<frame>>
         /\ \A frame : Contains(camera', frame) =>
                         Contains(camera, frame) \/ frame \in Frames(d.commands)
         /\ Service(d.commands) = {} => to_orchestrator'.call = to_orchestrator.call
         /\ \A service : Service(d.commands) = {service} /\ to_orchestrator.call = <<>> =>
                           to_orchestrator'.call = <<service>>
         /\ \A service : Contains(to_orchestrator'.call, service) =>
              Contains(to_orchestrator.call, service) \/ Driver!Call(service) \in d.commands
         /\ \A service : Contains(to_orchestrator.call, service) =>
                           Contains(to_orchestrator'.call, service)
         /\ \A goal : Contains(to_orchestrator'.reached, goal) =>
              Contains(to_orchestrator.reached, goal) \/ Driver!Reached(goal) \in d.commands
         /\ to_orchestrator'.decision = to_orchestrator.decision
<1> DEFINE F == Frames(d.commands)
           C == Service(d.commands)
           W == Waypoint(d.commands)
<1>1. driver' = [d EXCEPT !.commands = {}]
  BY DEF Execute
<1>2. Shaped(driver') /\ Besides({"commands"}, d, driver') /\ driver'.commands = {}
  BY <1>1 DEF Shaped, Besides, DriverFields
<1>3. /\ camera \in Seq(Shots) /\ to_orchestrator.reached \in Seq(Names)
      /\ to_orchestrator.call \in Seq(Services)
      /\ DOMAIN to_orchestrator = {"decision", "reached", "call"}
  BY DEF Wired, OrchestratorInbox
<1>4. /\ camera' = camera \o SetToSeq(F)
      /\ to_orchestrator'.reached = to_orchestrator.reached \o SetToSeq(W)
      /\ to_orchestrator'.call = to_orchestrator.call \o SetToSeq(C)
      /\ to_orchestrator'.decision = to_orchestrator.decision
  BY <1>3 DEF Execute
<1>5. /\ F \subseteq Shots /\ C \subseteq Services /\ W \subseteq Names
      /\ IsFiniteSet(F) /\ IsFiniteSet(C) /\ IsFiniteSet(W)
  <2>1. /\ W \in SUBSET Names /\ C \in SUBSET Services /\ F \in SUBSET Shots
    BY DEF DriverOK, Commands, Waypoint, Service, Frames, Shots, Wired, Driver!Desired,
           Driver!Complete, Driver!Reached, Driver!Call, Driver!Frame
  <2>2. /\ IsFiniteSet({x \in d.commands : x.do = "reached"})
        /\ IsFiniteSet({x \in d.commands : x.do = "call"})
        /\ IsFiniteSet({x \in d.commands : x.do = "frame"})
    <3>1. \A S : S \in SUBSET d.commands => IsFiniteSet(S)
      BY FS_Subset DEF DriverOK
    <3> QED
      BY <3>1
  <2>3. IsFiniteSet(W) /\ IsFiniteSet(C)
    BY <2>2, ImageIsFinite DEF Waypoint, Service
  <2>4. IsFiniteSet(F)
    <3> DEFINE S == {x \in d.commands : x.do = "frame"}
    <3>1. IsFiniteSet(S)
      BY <2>2
    <3> HIDE DEF S
    <3>2. IsFiniteSet({[waypoint |-> x.waypoint, malformed |-> x.malformed,
                        stamp |-> now] : x \in S})
      BY <3>1, ImageIsFinite
    <3> QED
      BY <3>2 DEF Frames, S
  <2> QED
    BY <2>1, <2>3, <2>4
<1>6. /\ SetToSeq(W) \in Seq(Names) /\ SetToSeq(C) \in Seq(Services) /\ SetToSeq(F) \in Seq(Shots)
  BY <1>5, SomeOrder, SeqMonotonic
<1>7. \A service : service \in C => Driver!Call(service) \in d.commands
  BY DEF DriverOK, Commands, Service, Driver!Desired,
         Driver!Complete, Driver!Reached, Driver!Call, Driver!Frame
<1>8. \A goal : goal \in W => Driver!Reached(goal) \in d.commands
  BY DEF DriverOK, Commands, Waypoint, Driver!Desired,
         Driver!Complete, Driver!Reached, Driver!Call, Driver!Frame
<1> HIDE DEF F, C, W
<1>9. /\ \A frame : Contains(camera', frame) => Contains(camera, frame) \/ frame \in F
      /\ \A service : Contains(to_orchestrator'.call, service) =>
           Contains(to_orchestrator.call, service) \/ service \in C
      /\ \A service : Contains(to_orchestrator.call, service) =>
           Contains(to_orchestrator'.call, service)
      /\ \A goal : Contains(to_orchestrator'.reached, goal) =>
           Contains(to_orchestrator.reached, goal) \/ goal \in W
  BY <1>3, <1>4, <1>5, <1>6, QueueFacts, FewInOrder
<1>10. /\ F = {} => camera' = camera
       /\ C = {} => to_orchestrator'.call = to_orchestrator.call
  BY <1>3, <1>4, FewInOrder, ConcatEmptySeq
<1>11. /\ \A frame : F = {frame} /\ camera = <<>> => camera' = <<frame>>
       /\ \A service : C = {service} /\ to_orchestrator.call = <<>> =>
                         to_orchestrator'.call = <<service>>
  BY <1>4, <1>6, FewInOrder, ConcatEmptySeq
<1> QED
  BY <1>2, <1>4, <1>7, <1>8, <1>9, <1>10, <1>11 DEF F, C, W

\* The driver's callbacks on messages send no frames, and start the mission on a decision only.
LEMMA HandledEffect ==
  ASSUME Wired, Shaped(driver), driver.commands = {}, NEW topic \in DOMAIN to_driver,
         to_driver[topic] # <<>>, NEW m, m = Head(to_driver[topic]),
         NEW e, e = Handled(topic, m)
  PROVE  /\ Shaped(e) /\ DriverOK(e) /\ e.options = driver.options
         /\ e.mission = IF topic = "state" THEN m ELSE driver.mission
         /\ topic # "decision" => e.started = driver.started
         /\ topic \notin {"decision", "state"} => e.gate_open = driver.gate_open
         /\ driver.started => e.started
         /\ e.started => driver.started
                         \/ (driver.options.auto_start /\ Driver!Call("start") \in e.commands)
         /\ Driver!Call("start") \in e.commands =>
              /\ topic = "decision" /\ e.commands = {Driver!Call("start")}
              /\ e.started /\ ~driver.started /\ driver.options.auto_start
         /\ topic \notin {"decision", "state"} => Service(e.commands) = {}
         /\ Frames(e.commands) = {}
<1>0. DOMAIN to_driver = {"evidence", "assessment", "decision", "state", "cmd_vel",
                          "report", "request"}
  BY DEF Wired, DriverInbox
<1>1. DriverOK(e) /\ (topic = "state" => m \in Tellings)
  <2>1. topic = "state" => m \in Tellings
    BY <1>0, TakenOff DEF Wired, DriverInbox
  <2> QED
    BY <1>0, <2>1, AnswerOK, HeardOK, SeenMovingOK, ReportedOK, WaitOK DEF Handled, Wired
<1> DEFINE Few == {Driver!Complete} \cup {Driver!Reached(x) : x \in Names}
<1>2. ASSUME NEW fields, Besides(fields, driver, e), Shaped(e), e.commands \subseteq Few,
             fields \cap {"options", "mission", "started", "gate_open"} = {},
             topic \notin {"state", "decision"}
      PROVE  /\ e.options = driver.options /\ e.mission = driver.mission
             /\ e.started = driver.started /\ e.gate_open = driver.gate_open
             /\ Driver!Call("start") \notin e.commands
             /\ Service(e.commands) = {} /\ Frames(e.commands) = {}
  BY <1>2, CommandKinds DEF Besides, DriverFields, Service, Frames
<1>3. \A d : Progress(driver, d) => d.commands \subseteq Few
  BY NameFacts DEF Progress, Leaving, Driver!InPhase, Driver!NoName, NoName, Shaped, Tellings
<1>4. CASE topic \in {"evidence", "assessment"}
  <2>1. /\ Shaped(e) /\ Besides({"phase", "commands", "last_evidence", "outstanding"}, driver, e)
        /\ Progress(driver, e)
    BY <1>4, AnswerEffect DEF Handled
  <2> QED
    BY <1>1, <1>2, <1>3, <1>4, <2>1
<1>5. CASE topic = "decision"
  <2>1. e = Driver!OnPolicyDecision(driver, m.evidence)
    BY <1>5 DEF Handled
  <2>2. /\ Shaped(e) /\ Besides({"gate_open", "started", "commands"}, driver, e)
        /\ \/ e.started = driver.started /\ e.commands = driver.commands
           \/ /\ driver.options.auto_start /\ ~driver.started /\ e.started
              /\ e.commands = driver.commands \cup {Driver!Call("start")}
    BY <2>1, DecisionEffect
  <2>3. e.options = driver.options /\ e.mission = driver.mission
    BY <2>2 DEF Besides, DriverFields
  <2>4. Frames(e.commands) = {}
    BY <2>2, CommandKinds DEF Frames
  <2> QED
    BY <1>1, <1>5, <2>2, <2>3, <2>4
<1>6. CASE topic = "state"
  <2>1. e = Driver!OnMissionState(driver, m)
    BY <1>6 DEF Handled
  <2>2. /\ Shaped(e) /\ e.mission = m /\ e.options = driver.options
        /\ e.started = driver.started
        /\ e.commands \subseteq driver.commands \cup Answering(m.goal)
    BY <1>1, <1>6, <2>1, TellingEffect
  <2>3. Driver!Call("start") \notin e.commands /\ Frames(e.commands) = {}
    BY <2>2, CommandKinds DEF Frames, Answering
  <2> QED
    BY <1>1, <1>6, <2>2, <2>3
<1>7. CASE topic = "cmd_vel"
  <2>1. e = Driver!OnCmdVel(driver, m)
    BY <1>7 DEF Handled
  <2>2. /\ Shaped(e) /\ Besides({"samples", "phase", "fired", "stall", "commands"}, driver, e)
        /\ e.commands \subseteq Few
    BY <2>1, MotionEffect DEF Besides, DriverFields
  <2> QED
    BY <1>1, <1>2, <1>7, <2>2
<1>8. CASE topic = "report"
  <2>1. /\ Shaped(e) /\ Besides({"recording", "finalized", "completed", "commands"}, driver, e)
        /\ e.commands \subseteq Few
    BY <1>8, ReportEffect DEF Handled
  <2> QED
    BY <1>1, <1>2, <1>8, <2>1
<1>9. CASE topic = "request"
  <2>1. /\ Shaped(e) /\ Besides({"next_frame"}, driver, e)
    BY <1>9, WaitEffect DEF Handled
  <2>2. e.commands \subseteq Few
    BY <2>1 DEF Besides, DriverFields
  <2> QED
    BY <1>1, <1>2, <1>9, <2>1, <2>2
<1> QED
  BY <1>0, <1>4, <1>5, <1>6, <1>7, <1>8, <1>9

\* The frame that a tick sends: one primes the pipeline while the gate is closed, one is for
\* the goal once it is open, unless a fault has it replaced.
Shoots(d, e, name, malformed) ==
  /\ e.outstanding = Driver!Outstanding(name, ~malformed)
  /\ Frames(e.commands) = {[waypoint |-> name, malformed |-> malformed, stamp |-> now]}
  /\ \/ /\ ~d.gate_open /\ Driver!MayPrime(d) /\ name = Waypoints[1] /\ ~malformed
        /\ e.fired = d.fired
     \/ /\ d.gate_open /\ Driver!MayStream(d) /\ d.next_frame = 0
        /\ \/ /\ name = d.mission.goal /\ malformed /\ Driver!Strikes(d, "malformed", name)
              /\ e.fired = d.fired \cup {"malformed"}
           \/ /\ name = Intruder /\ ~malformed
              /\ Driver!Strikes(d, "wrong_goal", d.mission.goal)
              /\ e.fired = d.fired \cup {"wrong_goal"}
           \/ /\ name = d.mission.goal /\ ~malformed
              /\ ~Driver!Strikes(d, "wrong_goal", name) /\ e.fired = d.fired

\* A tick asks for no service and reports no arrival: it sends a frame of the goal or none.
LEMMA TickStep ==
  ASSUME Wired, Shaped(driver), driver.commands = {}, NEW e, e = Driver!OnTick(GraphSeen)
  PROVE  /\ Shaped(e) /\ DriverOK(e)
         /\ Besides({"graph_ready", "stall", "commands", "fired", "outstanding", "next_frame"},
                    driver, e)
         /\ Service(e.commands) = {} /\ \A x : Driver!Reached(x) \notin e.commands
         /\ \A x : Driver!Call(x) \notin e.commands
         /\ \/ /\ Frames(e.commands) = {} /\ e.outstanding = driver.outstanding
               /\ e.fired = driver.fired
               /\ ~(driver.gate_open /\ now > 0 /\ Driver!MayStream(driver)
                    /\ driver.next_frame = 0)
            \/ \E name, malformed : malformed \in BOOLEAN /\ Shoots(driver, e, name, malformed)
<1> DEFINE d == GraphSeen
<1>1. DriverOK(d) /\ DriverOK(e)
  <2>1. DriverOK(d)
    BY WaitOK DEF GraphSeen, Wired
  <2> QED
    BY <2>1, TickOK
<1>2. /\ Shaped(d) /\ Besides({"graph_ready"}, driver, d) /\ (now > 0 => d.graph_ready)
  <2>1. now > 0 => d = Driver!OnGraphReady(driver) /\ d.graph_ready
    BY DEF GraphSeen, Driver!OnGraphReady, Shaped, DriverFields
  <2>2. ~(now > 0) => d = driver
    BY DEF GraphSeen
  <2>3. Besides({"graph_ready"}, driver, driver)
    BY DEF Besides
  <2> QED
    BY <2>1, <2>2, <2>3, WaitEffect
<1> HIDE DEF d
<1>3. /\ d.mission = driver.mission /\ d.phase = driver.phase /\ d.outstanding = driver.outstanding
      /\ d.next_frame = driver.next_frame /\ d.gate_open = driver.gate_open
      /\ d.recording = driver.recording /\ d.commands = {}
      /\ d.options = driver.options /\ d.fired = driver.fired
  BY <1>2 DEF Besides, DriverFields
<1>4. /\ Shaped(e)
      /\ Besides({"stall", "commands", "fired", "outstanding", "next_frame"}, d, e)
      /\ \/ /\ ~(Driver!MaySend(d) /\ d.next_frame = 0)
            /\ e.commands \in {d.commands, d.commands \cup {Driver!Desired}}
            /\ e.outstanding = d.outstanding /\ e.fired = d.fired
         \/ \E name, malformed : malformed \in BOOLEAN /\ Sends(d, e, name, malformed)
  BY <1>2, TickEffect DEF d
<1>5. Besides({"graph_ready", "stall", "commands", "fired", "outstanding", "next_frame"},
              driver, e)
  BY <1>2, <1>4 DEF Besides, DriverFields
<1>6. /\ Driver!MayPrime(d) <=> Driver!MayPrime(driver)
      /\ Driver!MayStream(d) <=> Driver!MayStream(driver)
      /\ \A kind, goal : Driver!Strikes(d, kind, goal) <=> Driver!Strikes(driver, kind, goal)
  BY <1>3 DEF Driver!MayPrime, Driver!MayStream, Driver!InPhase, Driver!Strikes
<1>7. /\ Driver!MaySend(d) /\ ~driver.gate_open => Driver!MayPrime(driver)
      /\ Driver!MaySend(d) /\ driver.gate_open => Driver!MayStream(driver)
      /\ driver.gate_open /\ now > 0 /\ Driver!MayStream(driver) => Driver!MaySend(d)
  BY <1>2, <1>3, <1>6 DEF Driver!MaySend
<1>8. CASE /\ ~(Driver!MaySend(d) /\ d.next_frame = 0)
           /\ e.commands \in {d.commands, d.commands \cup {Driver!Desired}}
           /\ e.outstanding = d.outstanding /\ e.fired = d.fired
  <2>1. \A c \in e.commands : c.do = "desired"
    BY <1>3, <1>8, CommandKinds
  <2>2. /\ Service(e.commands) = {} /\ Frames(e.commands) = {}
        /\ \A x : Driver!Reached(x) \notin e.commands /\ Driver!Call(x) \notin e.commands
    BY <2>1, CommandKinds DEF Service, Frames
  <2> QED
    BY <1>1, <1>3, <1>4, <1>5, <1>7, <1>8, <2>2
<1>9. ASSUME NEW name, NEW malformed \in BOOLEAN, Sends(d, e, name, malformed)
      PROVE  /\ Service(e.commands) = {}
             /\ \A x : Driver!Reached(x) \notin e.commands /\ Driver!Call(x) \notin e.commands
             /\ Shoots(driver, e, name, malformed)
  <2>1. PICK desired \in SUBSET {Driver!Desired} :
          e.commands = desired \cup {Driver!Frame(name, malformed)}
    BY <1>3, <1>9 DEF Sends
  <2>2. /\ Service(e.commands) = {}
        /\ \A x : Driver!Reached(x) \notin e.commands /\ Driver!Call(x) \notin e.commands
    <3>1. \A c \in e.commands : c.do \in {"desired", "frame"}
      BY <2>1, CommandKinds
    <3> QED
      BY <3>1, CommandKinds DEF Service
  <2>3. Frames(e.commands) = {[waypoint |-> name, malformed |-> malformed, stamp |-> now]}
    <3>1. {x \in e.commands : x.do = "frame"} = {Driver!Frame(name, malformed)}
      BY <2>1, CommandKinds
    <3> QED
      BY <3>1, CommandKinds DEF Frames
  <2>4. e.outstanding = Driver!Outstanding(name, ~malformed)
    BY <1>9 DEF Sends
  <2>5. \/ /\ ~driver.gate_open /\ Driver!MayPrime(driver) /\ name = Waypoints[1] /\ ~malformed
           /\ e.fired = driver.fired
        \/ /\ driver.gate_open /\ Driver!MayStream(driver) /\ driver.next_frame = 0
           /\ \/ /\ name = driver.mission.goal /\ malformed
                 /\ Driver!Strikes(driver, "malformed", name)
                 /\ e.fired = driver.fired \cup {"malformed"}
              \/ /\ name = Intruder /\ ~malformed
                 /\ Driver!Strikes(driver, "wrong_goal", driver.mission.goal)
                 /\ e.fired = driver.fired \cup {"wrong_goal"}
              \/ /\ name = driver.mission.goal /\ ~malformed
                 /\ ~Driver!Strikes(driver, "wrong_goal", name) /\ e.fired = driver.fired
    BY <1>3, <1>6, <1>7, <1>9 DEF Sends
  <2> QED
    BY <2>2, <2>3, <2>4, <2>5 DEF Shoots
<1> QED
  BY <1>1, <1>4, <1>5, <1>8, <1>9

-----------------------------------------------------------------------------
\* What the steps of the others leave of the driver, its frames and what it hears.
Private == <<script, driver, ticked, camera, analysing, last_seen>>
Machine == <<state, active_goal, waypoint_index>>

\* The orchestrator may tell a state, which may open or close a report, and no more.
Telling ==
  /\ UNCHANGED <<Private, losses>>
  /\ UNCHANGED <<to_driver.evidence, to_driver.assessment, to_driver.decision,
                 to_driver.cmd_vel>>
  /\ \/ UNCHANGED <<to_driver.state, to_driver.report, to_driver.request, reporter>>
     \/ /\ to_driver'.state = Append(to_driver.state, Told) /\ reporter' = NextReporter
        /\ to_driver'.report = IF reporter # "recording" /\ reporter' = "recording"
                               THEN Append(to_driver.report, "RECORDING") ELSE to_driver.report

\* Whatever it does, the orchestrator leaves the rest to the others.
LEMMA PublishTells ==
  ASSUME Wired, NEW sent, PublishState(sent), UNCHANGED <<Private, losses>>
  PROVE  /\ Telling /\ to_driver'.state = Append(to_driver.state, Told)
         /\ reporter' = NextReporter
<1> DEFINE told == Append(to_driver.state, Told)
           request == IF sent THEN to_driver.request \o Requests ELSE to_driver.request
           report == IF reporter # "recording" /\ reporter' = "recording"
                     THEN Append(to_driver.report, "RECORDING") ELSE to_driver.report
<1>1. to_driver' = [to_driver EXCEPT !.state = told, !.request = request, !.report = report]
      /\ reporter' = NextReporter
  BY DEF PublishState
<1> HIDE DEF told, request
<1>2. /\ DOMAIN to_driver = {"evidence", "assessment", "decision", "state", "cmd_vel",
                             "report", "request"}
      /\ to_driver = [x \in DOMAIN to_driver |-> to_driver[x]]
  BY DEF Wired, DriverInbox
<1>3. /\ to_driver'.state = told /\ to_driver'.report = report
      /\ to_driver'.evidence = to_driver.evidence
      /\ to_driver'.assessment = to_driver.assessment
      /\ to_driver'.decision = to_driver.decision /\ to_driver'.cmd_vel = to_driver.cmd_vel
  BY <1>1, <1>2
<1> QED
  BY <1>1, <1>3 DEF Telling, told

\* What is left of the orchestrator's topics when it has heard one.
Hears(topic, q) ==
  /\ q # <<>>
  /\ topic = "decision" => to_orchestrator'.decision = Tail(q)
                           /\ UNCHANGED <<to_orchestrator.reached, to_orchestrator.call>>
  /\ topic = "reached" => to_orchestrator'.reached = Tail(q)
                          /\ UNCHANGED <<to_orchestrator.decision, to_orchestrator.call>>
  /\ topic = "call" => to_orchestrator'.call = Tail(q)
                       /\ UNCHANGED <<to_orchestrator.decision, to_orchestrator.reached>>

\* Hearing a topic takes its head off and leaves the others.
LEMMA HearsFacts ==
  ASSUME Wired, NEW topic \in {"decision", "reached", "call"}, to_orchestrator[topic] # <<>>,
         to_orchestrator' = [to_orchestrator EXCEPT ![topic] = Tail(to_orchestrator[topic])]
  PROVE  Hears(topic, to_orchestrator[topic])
BY DEF Hears, Wired, OrchestratorInbox

\* A transition on a message tells a state.
LEMMA HearingTells ==
  ASSUME Wired, NEW topic \in {"decision", "reached", "call"},
         to_orchestrator[topic] # <<>>, ApplyTransition,
         to_orchestrator' = [to_orchestrator EXCEPT ![topic] = Tail(to_orchestrator[topic])],
         UNCHANGED <<script, down, supervising, driving, seeing, budget>>
  PROVE  /\ Telling /\ to_driver'.state = Append(to_driver.state, Told)
         /\ reporter' = NextReporter /\ UNCHANGED <<missions, down>>
         /\ Hears(topic, to_orchestrator[topic])
<1>1. UNCHANGED <<Private, losses, missions>> /\ PublishState(TRUE)
  BY DEF Private, supervising, driving, seeing, budget, ApplyTransition
<1> QED
  BY <1>1, PublishTells, HearsFacts

\* What is told when the orchestrator speaks, and what else it does.
Told1 == Telling /\ to_driver'.state = Append(to_driver.state, Told) /\ reporter' = NextReporter
Silent == Telling /\ UNCHANGED <<to_driver.state, to_driver.report, reporter>>

\* Each handler of the orchestrator: what it hears, what it tells, what of it changes.
LEMMA OrchestratorSpeaks ==
  ASSUME Wired
  PROVE  /\ OrchestratorHears("decision", Decided) =>
              /\ Told1 /\ UNCHANGED <<missions, down>> /\ Decided(Head(to_orchestrator.decision))
              /\ Hears("decision", to_orchestrator.decision)
         /\ OrchestratorHears("reached", Arrived) =>
              /\ Told1 /\ UNCHANGED <<missions, down>> /\ Arrived(Head(to_orchestrator.reached))
              /\ Hears("reached", to_orchestrator.reached)
         /\ OrchestratorHears("call", Called) =>
              /\ Told1 /\ UNCHANGED <<missions, down>> /\ Called(Head(to_orchestrator.call))
              /\ Hears("call", to_orchestrator.call)
         /\ WatchdogTimer =>
              /\ UNCHANGED <<missions, down, to_orchestrator>>
              /\ (Told1 /\ Watchdog) \/ (Silent /\ UNCHANGED Machine)
         /\ Heartbeat =>
              /\ UNCHANGED <<missions, down, to_orchestrator, Machine>>
              /\ (Told1 /\ state = "MOVING") \/ Silent
         /\ Crash =>
              /\ UNCHANGED <<missions, to_orchestrator>> /\ Silent
              /\ state' = "IDLE" /\ active_goal' = NoName /\ waypoint_index' = 0 /\ down'
         /\ Unheard =>
              /\ UNCHANGED <<missions, down, Machine>> /\ Silent
              /\ \E topic \in {"decision", "reached", "call"} : Hears(topic, to_orchestrator[topic])
         /\ ComeUp =>
              /\ UNCHANGED <<missions, to_orchestrator, Machine>> /\ Told1 /\ ~down'
         /\ Operate =>
              /\ UNCHANGED <<to_orchestrator, down>> /\ Told1
              /\ OperatorStart \/ OperatorReset
<1> USE DEF supervising, driving, seeing, budget, Elsewhere, ApplyTransition, Told1, Private
<1>1. ASSUME OrchestratorHears("decision", Decided)
      PROVE  /\ Told1 /\ UNCHANGED <<missions, down>> /\ Decided(Head(to_orchestrator.decision))
             /\ Hears("decision", to_orchestrator.decision)
  BY <1>1, HearingTells DEF OrchestratorHears
<1>2. ASSUME OrchestratorHears("reached", Arrived)
      PROVE  /\ Told1 /\ UNCHANGED <<missions, down>> /\ Arrived(Head(to_orchestrator.reached))
             /\ Hears("reached", to_orchestrator.reached)
  BY <1>2, HearingTells DEF OrchestratorHears
<1>3. ASSUME OrchestratorHears("call", Called)
      PROVE  /\ Told1 /\ UNCHANGED <<missions, down>> /\ Called(Head(to_orchestrator.call))
             /\ Hears("call", to_orchestrator.call)
  BY <1>3, HearingTells DEF OrchestratorHears
<1>4. ASSUME WatchdogTimer
      PROVE  /\ UNCHANGED <<missions, down, to_orchestrator>>
             /\ (Told1 /\ Watchdog) \/ (Silent /\ UNCHANGED Machine)
  <2>1. UNCHANGED <<Private, losses, missions, down>> /\ OnWatchdog
    BY <1>4 DEF WatchdogTimer
  <2>2. CASE Expired /\ ApplyTransition /\ UNCHANGED to_orchestrator
    <3>1. Watchdog
      BY <2>1, <2>2 DEF OnWatchdog
    <3> QED
      BY <2>1, <2>2, <3>1, PublishTells
  <2>3. CASE ~Expired /\ UNCHANGED <<reporter, topics>>
    <3>1. UNCHANGED Machine
      BY <2>1, <2>3 DEF OnWatchdog, Watchdog, Expired, vars, progress, Machine
    <3> QED
      BY <2>1, <2>3, <3>1 DEF topics, Silent, Telling
  <2> QED
    BY <1>4, <2>2, <2>3 DEF WatchdogTimer
<1>5. ASSUME Heartbeat
      PROVE  /\ UNCHANGED <<missions, down, to_orchestrator, Machine>>
             /\ (Told1 /\ state = "MOVING") \/ Silent
  <2>1. UNCHANGED <<Private, losses, missions, down, to_orchestrator, Machine>>
    BY <1>5 DEF Heartbeat, vars, progress, Machine
  <2>2. CASE Beats /\ PublishState(FALSE)
    BY <2>1, <2>2, PublishTells DEF Beats
  <2>3. CASE UNCHANGED <<reporter, to_controller, to_driver>>
    BY <2>1, <2>3 DEF Silent, Telling
  <2> QED
    BY <1>5, <2>1, <2>2, <2>3 DEF Heartbeat
<1>6. ASSUME Crash
      PROVE  /\ UNCHANGED <<missions, to_orchestrator>> /\ Silent
             /\ state' = "IDLE" /\ active_goal' = NoName /\ waypoint_index' = 0 /\ down'
  BY <1>6 DEF Crash, Restart, topics, Silent, Telling
<1>7. ASSUME Unheard
      PROVE  /\ UNCHANGED <<missions, down, Machine>> /\ Silent
             /\ \E topic \in {"decision", "reached", "call"} : Hears(topic, to_orchestrator[topic])
  <2>1. PICK topic \in DOMAIN to_orchestrator :
          /\ to_orchestrator[topic] # <<>>
          /\ to_orchestrator' = [to_orchestrator EXCEPT ![topic] = Tail(to_orchestrator[topic])]
    BY <1>7 DEF Unheard
  <2>2. topic \in {"decision", "reached", "call"}
    BY <2>1 DEF Wired, OrchestratorInbox
  <2> QED
    BY <1>7, <2>1, <2>2, HearsFacts
       DEF Unheard, orchestrating, vars, progress, Machine, Silent, Telling
<1>8. ASSUME ComeUp
      PROVE  UNCHANGED <<missions, to_orchestrator, Machine>> /\ Told1 /\ ~down'
  <2>1. UNCHANGED <<Private, losses, missions, to_orchestrator, Machine>>
    BY <1>8 DEF ComeUp, vars, progress, Machine
  <2> QED
    BY <1>8, <2>1, PublishTells DEF ComeUp
<1>9. ASSUME Operate
      PROVE  /\ UNCHANGED <<to_orchestrator, down>> /\ Told1
             /\ OperatorStart \/ OperatorReset
  <2>1. UNCHANGED <<Private, losses>>
    BY <1>9 DEF Operate
  <2> QED
    BY <1>9, <2>1, PublishTells DEF Operate
<1> QED
  BY <1>1, <1>2, <1>3, <1>4, <1>5, <1>6, <1>7, <1>8, <1>9

\* The controller and the reporter add to what the driver hears of them, nothing else.
Asides ==
  \/ ControllerHears("decision", Obeyed) \/ ControllerHears("state", Allowed)
  \/ ControlTimer \/ Finalize \/ UNCHANGED evars

\* They leave everything the mission and its frames depend on.
LEMMA AsideSteps ==
  ASSUME Wired, Asides
  PROVE  /\ UNCHANGED <<Private, losses, Machine, missions, down, to_orchestrator>>
         /\ UNCHANGED <<to_driver.evidence, to_driver.assessment, to_driver.decision,
                        to_driver.state>>
         /\ reporter' = reporter \/ (reporter = "closing" /\ reporter' = "finalized")
<1> USE DEF Wired, supervising, driving, seeing, orchestrating, budget, vars, progress,
            Private, Machine
<1>1. CASE ControllerHears("decision", Obeyed)
  BY <1>1 DEF ControllerHears, Obeyed, Controller!OnPolicyDecision
<1>2. CASE ControllerHears("state", Allowed)
  BY <1>2 DEF ControllerHears, Allowed, Controller!OnMissionState
<1>3. CASE ControlTimer
  BY <1>3 DEF ControlTimer, Controller!PublishSafeCommand, DriverInbox
<1>4. CASE Finalize
  BY <1>4 DEF Finalize, DriverInbox
<1>5. CASE UNCHANGED evars
  BY <1>5 DEF evars, nvars, topics
<1> QED
  BY <1>1, <1>2, <1>3, <1>4, <1>5 DEF Asides

\* A judgement is told to the driver and the orchestrator, after what was assessed.
Verdict(evidence) ==
  /\ to_orchestrator'.decision = Append(to_orchestrator.decision, Says(evidence))
  /\ to_driver'.decision = Append(to_driver.decision, Says(evidence))
Assessed(frame) ==
  /\ Verdict(EvidenceId(frame)) /\ last_seen' \in {last_seen, EvidenceId(frame)}
  /\ to_driver'.assessment = Append(to_driver.assessment, EvidenceId(frame))
  /\ UNCHANGED to_driver.evidence

\* A broadcast adds one decision to what the driver and the orchestrator will hear.
LEMMA BroadcastFacts ==
  ASSUME Wired, NEW answer, NEW told, DOMAIN told = DOMAIN to_driver, Broadcast(answer, told)
  PROVE  /\ UNCHANGED <<to_orchestrator.reached, to_orchestrator.call>>
         /\ to_orchestrator'.decision = Append(to_orchestrator.decision, answer)
         /\ to_driver'.decision = Append(told.decision, answer)
         /\ to_driver'.evidence = told.evidence /\ to_driver'.assessment = told.assessment
         /\ to_driver'.state = told.state /\ to_driver'.report = told.report
BY DEF Broadcast, Wired, OrchestratorInbox, DriverInbox

\* So does an assessment, which the driver hears of too.
LEMMA AssessFacts ==
  ASSUME Wired, NEW frame, NEW action, Assess(frame, action)
  PROVE  /\ Assessed(frame) /\ UNCHANGED <<to_orchestrator.reached, to_orchestrator.call>>
         /\ UNCHANGED <<to_driver.state, to_driver.report>>
<1> DEFINE id == EvidenceId(frame)
           told == [to_driver EXCEPT !.assessment = Append(to_driver.assessment, id)]
<1>1. Broadcast(Says(id), told) /\ last_seen' \in {last_seen, id}
  BY DEF Assess
<1>2. /\ DOMAIN told = DOMAIN to_driver /\ told.decision = to_driver.decision
      /\ told.evidence = to_driver.evidence /\ told.state = to_driver.state
      /\ told.report = to_driver.report
      /\ told.assessment = Append(to_driver.assessment, id)
  BY DEF Wired, DriverInbox
<1> HIDE DEF told
<1>3. /\ UNCHANGED <<to_orchestrator.reached, to_orchestrator.call>>
      /\ to_orchestrator'.decision = Append(to_orchestrator.decision, Says(id))
      /\ to_driver'.decision = Append(told.decision, Says(id))
      /\ to_driver'.evidence = told.evidence /\ to_driver'.assessment = told.assessment
      /\ to_driver'.state = told.state /\ to_driver'.report = told.report
  BY <1>1, <1>2, BroadcastFacts
<1> QED
  BY <1>1, <1>2, <1>3 DEF Assessed, Verdict

\* Of the bridge: a frame is lost, taken to be analysed, or refused and judged at once.
Aloof == <<script, driver, ticked, Machine, missions, down, reporter, to_orchestrator.reached,
           to_orchestrator.call, to_driver.state, to_driver.report>>

\* Each callback of the bridge.
LEMMA BridgeActs ==
  ASSUME Wired
  PROVE  /\ OnImage =>
              /\ UNCHANGED Aloof /\ TimersServed /\ camera # <<>> /\ camera' = Tail(camera)
              /\ \/ /\ UNCHANGED <<analysing, last_seen, to_driver.evidence,
                                   to_driver.assessment, to_driver.decision,
                                   to_orchestrator.decision>>
                    /\ losses < script.losses
                 \/ /\ ~Head(camera).malformed
                    /\ analysing' = Append(analysing, Taken(Head(camera)))
                    /\ to_driver'.evidence = Append(to_driver.evidence, EvidenceId(Head(camera)))
                    /\ UNCHANGED <<last_seen, to_driver.assessment, to_driver.decision,
                                   to_orchestrator.decision>>
                 \/ /\ Head(camera).malformed /\ Assessed(Head(camera))
                    /\ Assess(Head(camera), "INSPECT_CLOSER")
                    /\ UNCHANGED analysing
         /\ Analyse =>
              /\ UNCHANGED Aloof /\ TimersServed /\ analysing # <<>>
              /\ camera' = camera /\ analysing' = Tail(analysing) /\ Assessed(Head(analysing))
              /\ Assess(Head(analysing), script.reading)
         /\ CheckWatchdog =>
              /\ UNCHANGED <<Aloof, camera, analysing, last_seen, to_driver.evidence,
                             to_driver.assessment>>
              /\ \/ UNCHANGED <<to_driver.decision, to_orchestrator.decision>>
                 \/ Verdict(last_seen)
<1> USE DEF Aloof, orchestrating, driving, budget, vars, progress, Machine
<1>1. ASSUME OnImage
      PROVE  /\ UNCHANGED Aloof /\ TimersServed /\ camera # <<>> /\ camera' = Tail(camera)
             /\ \/ /\ UNCHANGED <<analysing, last_seen, to_driver.evidence,
                                  to_driver.assessment, to_driver.decision,
                                  to_orchestrator.decision>>
                   /\ losses < script.losses
                \/ /\ ~Head(camera).malformed
                   /\ analysing' = Append(analysing, Taken(Head(camera)))
                   /\ to_driver'.evidence = Append(to_driver.evidence, EvidenceId(Head(camera)))
                   /\ UNCHANGED <<last_seen, to_driver.assessment, to_driver.decision,
                                  to_orchestrator.decision>>
                \/ /\ Head(camera).malformed /\ Assessed(Head(camera))
                   /\ Assess(Head(camera), "INSPECT_CLOSER")
                   /\ UNCHANGED analysing
  <2>1. /\ UNCHANGED <<script, driver, ticked, Machine, missions, down, reporter>>
        /\ TimersServed /\ camera # <<>> /\ camera' = Tail(camera)
    BY <1>1 DEF OnImage
  <2>2. CASE LoseImage
    BY <2>1, <2>2 DEF LoseImage, topics, supervising
  <2>3. CASE AcceptImage
    <3>1. /\ analysing' = Append(analysing, Taken(Head(camera)))
          /\ to_driver' = [to_driver EXCEPT
                             !.evidence = Append(to_driver.evidence, EvidenceId(Head(camera)))]
          /\ ~Head(camera).malformed /\ UNCHANGED <<last_seen, to_orchestrator>>
      BY <2>3 DEF AcceptImage, supervising
    <3>2. DOMAIN to_driver = {"evidence", "assessment", "decision", "state", "cmd_vel",
                              "report", "request"}
      BY DEF Wired, DriverInbox
    <3>3. /\ to_driver'.evidence = Append(to_driver.evidence, EvidenceId(Head(camera)))
          /\ UNCHANGED <<to_driver.assessment, to_driver.decision, to_driver.state,
                         to_driver.report>>
      BY <3>1, <3>2
    <3> QED
      BY <2>1, <3>1, <3>3
  <2>4. CASE RejectImage
    <3>1. Head(camera).malformed /\ Assess(Head(camera), "INSPECT_CLOSER") /\ UNCHANGED analysing
      BY <2>4 DEF RejectImage
    <3> QED
      BY <2>1, <3>1, AssessFacts
  <2> QED
    BY <1>1, <2>2, <2>3, <2>4 DEF OnImage
<1>2. ASSUME Analyse
      PROVE  /\ UNCHANGED Aloof /\ TimersServed /\ analysing # <<>>
             /\ camera' = camera /\ analysing' = Tail(analysing) /\ Assessed(Head(analysing))
             /\ Assess(Head(analysing), script.reading)
  BY <1>2, AssessFacts DEF Analyse
<1>3. ASSUME CheckWatchdog
      PROVE  /\ UNCHANGED <<Aloof, camera, analysing, last_seen, to_driver.evidence,
                            to_driver.assessment>>
             /\ \/ UNCHANGED <<to_driver.decision, to_orchestrator.decision>>
                \/ Verdict(last_seen)
  <2>1. CASE UNCHANGED topics
    BY <1>3, <2>1 DEF CheckWatchdog, topics, seeing
  <2>2. CASE Broadcast(Says(last_seen), to_driver)
    BY <1>3, <2>2, BroadcastFacts DEF CheckWatchdog, seeing, Verdict
  <2> QED
    BY <1>3, <2>1, <2>2 DEF CheckWatchdog
<1> QED
  BY <1>1, <1>2, <1>3

\* The driver's callbacks touch its own fields, and what it sends.
Untouched == <<script, analysing, last_seen, losses, Machine, missions, down, reporter>>

\* Each callback of the driver.
LEMMA DriverActs ==
  ASSUME Wired, Shaped(driver), driver.commands = {}
  PROVE  /\ OnTick =>
              /\ UNCHANGED <<Untouched, to_driver>> /\ ~ticked /\ ticked' /\ ~driver.completed
              /\ Execute(Driver!OnTick(GraphSeen))
         /\ \A topic \in DOMAIN to_driver : DriverHears(topic) =>
              /\ UNCHANGED <<Untouched, ticked>> /\ TimersServed /\ ~driver.completed /\ ticked
              /\ to_driver[topic] # <<>>
              /\ to_driver'[topic] = Tail(to_driver[topic])
              /\ \A other \in DOMAIN to_driver \ {topic} : to_driver'[other] = to_driver[other]
              /\ Execute(Handled(topic, Head(to_driver[topic])))
         /\ Pass =>
              /\ UNCHANGED <<Untouched, camera, to_driver, to_orchestrator>>
              /\ Served /\ ~driver.completed /\ ~ticked'
              /\ driver' = Driver!Wait(driver)
<1>1. ASSUME NEW d, Execute(d) PROVE UNCHANGED Untouched
  BY <1>1 DEF Execute, Untouched, orchestrating, supervising, budget, vars, progress, Machine
<1>2. DOMAIN to_driver = {"evidence", "assessment", "decision", "state", "cmd_vel",
                          "report", "request"}
  BY DEF Wired, DriverInbox
<1>3. ASSUME OnTick
      PROVE  /\ UNCHANGED <<Untouched, to_driver>> /\ ~ticked /\ ticked' /\ ~driver.completed
             /\ Execute(Driver!OnTick(GraphSeen))
  BY <1>1, <1>3 DEF OnTick
<1>4. ASSUME NEW topic \in DOMAIN to_driver, DriverHears(topic)
      PROVE  /\ UNCHANGED <<Untouched, ticked>> /\ TimersServed /\ ~driver.completed /\ ticked
             /\ to_driver[topic] # <<>>
             /\ to_driver'[topic] = Tail(to_driver[topic])
             /\ \A other \in DOMAIN to_driver \ {topic} : to_driver'[other] = to_driver[other]
             /\ Execute(Handled(topic, Head(to_driver[topic])))
  <2>1. to_driver' = [to_driver EXCEPT ![topic] = Tail(to_driver[topic])]
    BY <1>4 DEF DriverHears
  <2>2. ticked
    BY <1>4 DEF DriverHears, TimersServed
  <2> QED
    BY <1>1, <1>4, <2>1, <2>2 DEF DriverHears, Wired, DriverInbox
<1>5. ASSUME Pass
      PROVE  /\ UNCHANGED <<Untouched, camera, to_driver, to_orchestrator>>
             /\ Served /\ ~driver.completed /\ ~ticked'
             /\ driver' = Driver!Wait(driver)
  BY <1>5 DEF Pass, Elapse, Tick, Untouched, seeing, topics, budget, progress, Machine
<1> QED
  BY <1>3, <1>4, <1>5

-----------------------------------------------------------------------------
\* Before the first mission: the pipeline is primed.

\* What is told of an idle mission; the evidence of the first goal's frames.
Idle(m) == m.state = "IDLE" /\ m.goal = NoName
Asleep(d) == Idle(d.mission) /\ d.phase = Driver!OfAllGoals("none") /\ d.fired = {}
Matching(evidence) == Driver!Matches(evidence, Waypoints[1])

\* A mission has been asked for, and the orchestrator has heard, or lost, the request.
Begun == missions > 0 \/ (driver.started /\ ~Contains(to_orchestrator.call, "start"))

\* The driver has the fields it was made with, and between its callbacks commands nothing.
Formed ==
  /\ Shaped(driver) /\ driver.options = script.options /\ driver.commands = {}
  /\ missions \in Nat

\* Before the tick of a clock unit nothing is under way that a later step of it sends.
Calm ==
  /\ driver.completed => ticked
  /\ ~ticked => /\ camera = <<>> /\ to_driver.evidence = <<>> /\ to_driver.assessment = <<>>
                /\ to_orchestrator.call = <<>> /\ to_orchestrator.reached = <<>>

\* Nobody knows yet of a mission, and the driver asks for one as soon as its gate is open.
Ahead ==
  /\ state = "IDLE" /\ active_goal = NoName /\ waypoint_index = 0 /\ reporter = "idle"
  /\ Asleep(driver) /\ \A m : Contains(to_driver.state, m) => Idle(m)
  /\ to_orchestrator.reached = <<>>
  /\ driver.started => to_orchestrator.call = <<"start">> /\ driver.gate_open
                       /\ driver.options.auto_start
  /\ ~driver.started => /\ to_orchestrator.call = <<>>
                        /\ ~(driver.gate_open /\ driver.options.auto_start)

\* A decision about the first goal has been made: the priming frame's.
Primed ==
  driver.gate_open \/ \E m : Contains(to_driver.decision, m) /\ Matching(m.evidence)

\* Until then at most one frame is under way, which the driver waits for; once there has
\* been one none is, and none is sent before the driver has heard of it.
Priming ==
  /\ \A frame : Contains(camera, frame) => frame.waypoint = Waypoints[1] /\ ~frame.malformed
  /\ \A frame : Contains(analysing, frame) => frame.waypoint = Waypoints[1]
  /\ Primed => camera = <<>> /\ analysing = <<>>
  /\ ~Primed =>
       /\ last_seen = NoName /\ to_driver.assessment = <<>>
       /\ driver.outstanding # Driver!NoFrame =>
            driver.outstanding.assessment = NoName /\ driver.outstanding.waypoint = Waypoints[1]
       /\ Len(camera) + Len(analysing) <= 1
       /\ camera # <<>> \/ analysing # <<>> => driver.outstanding # Driver!NoFrame
       /\ analysing # <<>> =>
            driver.outstanding.evidence # NoName \/ to_driver.evidence # <<>>
       /\ \A evidence : Contains(to_driver.evidence, evidence) => Matching(evidence)
  /\ ~ticked /\ ~driver.gate_open => ~Primed

\* From then on the driver has no mission left to ask for; while the first is under way the
\* report is open, and what is analysed was captured since.
Under ==
  /\ ~Contains(to_orchestrator.call, "start")
  /\ driver.options.auto_start <=> driver.started
  /\ missions <= 1 =>
       \/ /\ reporter = "recording"
          /\ \A frame : Contains(analysing, frame) => frame.recorded
       \/ reporter # "recording" /\ state \in Deaf

Prepared == Formed /\ Calm /\ (Begun => Under) /\ (~Begun => Ahead /\ Priming)

\* The steps, by who takes them.
Orchestrates ==
  \/ OrchestratorHears("decision", Decided) \/ OrchestratorHears("reached", Arrived)
  \/ OrchestratorHears("call", Called) \/ WatchdogTimer \/ Heartbeat
  \/ Crash \/ Unheard \/ ComeUp \/ Operate

\* These, the driver, the bridge, the others and time are all who act.
LEMMA StepKinds ==
  ASSUME [ENext]_evars
  PROVE  \/ OnTick \/ (\E topic \in DOMAIN to_driver : DriverHears(topic))
         \/ OnImage \/ Analyse \/ CheckWatchdog \/ Orchestrates \/ Asides \/ Pass
BY DEF ENext, Orchestrates, Asides

\* Whatever the orchestrator hears it takes off a topic; it sends nothing on those.
LEMMA OrchestratesFacts ==
  ASSUME Wired, Orchestrates
  PROVE  /\ Telling
         /\ \/ UNCHANGED to_orchestrator
            \/ \E topic \in {"decision", "reached", "call"} : Hears(topic, to_orchestrator[topic])
         /\ missions' = missions \/ (Operate /\ OperatorStart)
<1>1. CASE \/ OrchestratorHears("decision", Decided) \/ OrchestratorHears("reached", Arrived)
           \/ OrchestratorHears("call", Called)
  BY <1>1, OrchestratorSpeaks DEF Told1
<1>2. CASE WatchdogTimer \/ Heartbeat \/ Crash \/ Unheard \/ ComeUp
  BY <1>2, OrchestratorSpeaks DEF Told1, Silent
<1>3. CASE Operate
  BY <1>3, OrchestratorSpeaks DEF Told1, OperatorStart, OperatorReset
<1> QED
  BY <1>1, <1>2, <1>3 DEF Orchestrates

\* The driver keeps its shape,
LEMMA FormedStep == ASSUME Wired, Formed, [ENext]_evars PROVE Formed'
<1> USE DEF Formed
<1>1. ASSUME OnTick PROVE Formed'
  <2> DEFINE e == Driver!OnTick(GraphSeen)
  <2>1. /\ Shaped(e) /\ DriverOK(e)
        /\ Besides({"graph_ready", "stall", "commands", "fired", "outstanding", "next_frame"},
                   driver, e)
    BY TickStep
  <2>2. Execute(e) /\ UNCHANGED Untouched
    BY <1>1, DriverActs
  <2> HIDE DEF e
  <2>3. Shaped(driver') /\ Besides({"commands"}, e, driver') /\ driver'.commands = {}
    BY <2>1, <2>2, Executed
  <2> QED
    BY <2>1, <2>2, <2>3 DEF Besides, DriverFields, Untouched
<1>2. ASSUME NEW topic \in DOMAIN to_driver, DriverHears(topic) PROVE Formed'
  <2> DEFINE e == Handled(topic, Head(to_driver[topic]))
  <2>1. Execute(e) /\ UNCHANGED Untouched /\ to_driver[topic] # <<>>
    BY <1>2, DriverActs
  <2>2. Shaped(e) /\ DriverOK(e) /\ e.options = driver.options
    BY <2>1, HandledEffect
  <2> HIDE DEF e
  <2>3. Shaped(driver') /\ Besides({"commands"}, e, driver') /\ driver'.commands = {}
    BY <2>1, <2>2, Executed
  <2> QED
    BY <2>1, <2>2, <2>3 DEF Besides, DriverFields, Untouched
<1>3. ASSUME OnImage \/ Analyse \/ CheckWatchdog PROVE Formed'
  BY <1>3, BridgeActs DEF Aloof
<1>4. ASSUME Orchestrates PROVE Formed'
  <2>1. Telling /\ missions' \in Nat
    BY <1>4, OrchestratesFacts DEF OperatorStart
  <2> QED
    BY <2>1 DEF Telling, Private
<1>5. ASSUME Asides PROVE Formed'
  BY <1>5, AsideSteps DEF Private
<1>6. ASSUME Pass PROVE Formed'
  <2>1. UNCHANGED Untouched /\ driver' = Driver!Wait(driver)
    BY <1>6, DriverActs
  <2>2. Shaped(driver') /\ Besides({"next_frame"}, driver, driver')
    BY <2>1, WaitEffect
  <2> QED
    BY <2>1, <2>2 DEF Besides, DriverFields, Untouched
<1> QED
  BY <1>1, <1>2, <1>3, <1>4, <1>5, <1>6, StepKinds

\* and the clock unit its order.
LEMMA CalmStep == ASSUME Wired, Formed, Calm, [ENext]_evars PROVE Calm'
<1> USE DEF Formed
<1>1. ASSUME OnTick PROVE Calm'
  <2>1. ticked'
    BY <1>1, DriverActs
  <2> QED
    BY <2>1 DEF Calm
<1>2. ASSUME NEW topic \in DOMAIN to_driver, DriverHears(topic) PROVE Calm'
  <2>1. ticked'
    BY <1>2, DriverActs
  <2> QED
    BY <2>1 DEF Calm
<1>3. ASSUME OnImage \/ Analyse PROVE Calm'
  <2>1. ticked'
    BY <1>3, BridgeActs DEF Aloof, TimersServed, Calm
  <2> QED
    BY <2>1 DEF Calm
<1>4. ASSUME CheckWatchdog PROVE Calm'
  BY <1>4, BridgeActs DEF Aloof, Calm
<1>5. ASSUME Orchestrates PROVE Calm'
  <2>1. UNCHANGED <<driver, ticked, camera, to_driver.evidence, to_driver.assessment>>
    BY <1>5, OrchestratesFacts DEF Telling, Private
  <2>2. to_orchestrator.call = <<>> /\ to_orchestrator.reached = <<>> =>
          to_orchestrator'.call = <<>> /\ to_orchestrator'.reached = <<>>
    BY <1>5, OrchestratesFacts DEF Hears
  <2> QED
    BY <2>1, <2>2 DEF Calm
<1>6. ASSUME Asides PROVE Calm'
  BY <1>6, AsideSteps DEF Private, Calm
<1>7. ASSUME Pass PROVE Calm'
  <2>1. /\ UNCHANGED <<camera, to_driver, to_orchestrator>> /\ Served /\ ~driver.completed
        /\ driver' = Driver!Wait(driver)
    BY <1>7, DriverActs
  <2>2. ~driver'.completed
    BY <2>1, WaitEffect DEF Besides, DriverFields
  <2>3. /\ camera = <<>> /\ to_driver.evidence = <<>> /\ to_driver.assessment = <<>>
        /\ to_orchestrator.call = <<>> /\ to_orchestrator.reached = <<>>
    BY <2>1 DEF Served, Empty, Wired, DriverInbox, OrchestratorInbox
  <2> QED
    BY <2>1, <2>2, <2>3 DEF Calm
<1> QED
  BY <1>1, <1>2, <1>3, <1>4, <1>5, <1>6, <1>7, StepKinds

\* Nobody but the driver asks for a start, and it does so once.
LEMMA CallsStep ==
  ASSUME Wired, Formed, [ENext]_evars
  PROVE  /\ script' = script /\ driver'.options = driver.options
         /\ driver.started => driver'.started
         /\ driver'.started => driver.started \/ driver.options.auto_start
         /\ Contains(to_orchestrator'.call, "start") =>
              \/ Contains(to_orchestrator.call, "start")
              \/ ~driver.started /\ driver.options.auto_start /\ driver'.started
<1> USE DEF Formed
<1>0. Formed'
  BY FormedStep
<1>1. ASSUME OnTick
      PROVE  /\ script' = script /\ driver'.started = driver.started
             /\ Contains(to_orchestrator'.call, "start") => Contains(to_orchestrator.call, "start")
  <2> DEFINE e == Driver!OnTick(GraphSeen)
  <2>1. /\ Shaped(e) /\ DriverOK(e) /\ \A x : Driver!Call(x) \notin e.commands
        /\ Besides({"graph_ready", "stall", "commands", "fired", "outstanding", "next_frame"},
                   driver, e)
    BY TickStep
  <2>2. Execute(e) /\ script' = script
    BY <1>1, DriverActs DEF Untouched
  <2> HIDE DEF e
  <2>3. /\ Besides({"commands"}, e, driver')
        /\ \A service : Contains(to_orchestrator'.call, service) =>
             Contains(to_orchestrator.call, service) \/ Driver!Call(service) \in e.commands
    BY <2>1, <2>2, Executed
  <2> QED
    BY <2>1, <2>2, <2>3 DEF Besides, DriverFields
<1>2. ASSUME NEW topic \in DOMAIN to_driver, DriverHears(topic)
      PROVE  /\ script' = script
             /\ driver.started => driver'.started
             /\ driver'.started => driver.started \/ driver.options.auto_start
             /\ Contains(to_orchestrator'.call, "start") =>
                  \/ Contains(to_orchestrator.call, "start")
                  \/ ~driver.started /\ driver.options.auto_start /\ driver'.started
  <2> DEFINE e == Handled(topic, Head(to_driver[topic]))
  <2>1. Execute(e) /\ script' = script /\ to_driver[topic] # <<>>
    BY <1>2, DriverActs DEF Untouched
  <2>2. /\ Shaped(e) /\ DriverOK(e)
        /\ driver.started => e.started
        /\ e.started => driver.started \/ driver.options.auto_start
        /\ Driver!Call("start") \in e.commands =>
             e.started /\ ~driver.started /\ driver.options.auto_start
    BY <2>1, HandledEffect
  <2> HIDE DEF e
  <2>3. /\ Besides({"commands"}, e, driver')
        /\ \A service : Contains(to_orchestrator'.call, service) =>
             Contains(to_orchestrator.call, service) \/ Driver!Call(service) \in e.commands
    BY <2>1, <2>2, Executed
  <2>4. driver'.started = e.started
    BY <2>3 DEF Besides, DriverFields
  <2> QED
    BY <2>1, <2>2, <2>3, <2>4
<1>3. ASSUME OnImage \/ Analyse \/ CheckWatchdog
      PROVE  UNCHANGED <<script, driver, to_orchestrator.call>>
  BY <1>3, BridgeActs DEF Aloof
<1>4. ASSUME Orchestrates
      PROVE  /\ UNCHANGED <<script, driver>>
             /\ Contains(to_orchestrator'.call, "start") => Contains(to_orchestrator.call, "start")
  <2>1. UNCHANGED <<script, driver>>
    BY <1>4, OrchestratesFacts DEF Telling, Private
  <2>2. to_orchestrator'.call = to_orchestrator.call
        \/ (to_orchestrator.call # <<>> /\ to_orchestrator'.call = Tail(to_orchestrator.call))
    BY <1>4, OrchestratesFacts DEF Hears
  <2>3. to_orchestrator.call \in Seq(Services)
    BY DEF Wired, OrchestratorInbox
  <2>4. to_orchestrator.call # <<>> =>
          (Contains(Tail(to_orchestrator.call), "start") => Contains(to_orchestrator.call, "start"))
    BY <2>3, QueueFacts
  <2> QED
    BY <2>1, <2>2, <2>4
<1>5. ASSUME Asides PROVE UNCHANGED <<script, driver, to_orchestrator>>
  BY <1>5, AsideSteps DEF Private
<1>6. ASSUME Pass PROVE UNCHANGED <<script, to_orchestrator>> /\ driver'.started = driver.started
  <2>1. UNCHANGED <<script, to_orchestrator>> /\ driver' = Driver!Wait(driver)
    BY <1>6, DriverActs DEF Untouched
  <2> QED
    BY <2>1, WaitEffect DEF Besides, DriverFields
<1>7. script' = script
  BY <1>1, <1>2, <1>3, <1>4, <1>5, <1>6, StepKinds
<1> QED
  BY <1>0, <1>1, <1>2, <1>3, <1>4, <1>5, <1>6, <1>7, StepKinds

\* What has begun has begun.
LEMMA BegunStays == ASSUME Wired, Formed, Begun, [ENext]_evars PROVE Begun'
<1>1. missions' \in {missions, missions + 1}
  <2>1. OnTick \/ (\E topic \in DOMAIN to_driver : DriverHears(topic)) \/ Pass
        => missions' = missions
    BY DriverActs DEF Formed, Untouched
  <2>2. OnImage \/ Analyse \/ CheckWatchdog => missions' = missions
    BY BridgeActs DEF Aloof
  <2>3. Orchestrates => missions' \in {missions, missions + 1}
    BY OrchestratesFacts DEF OperatorStart
  <2>4. Asides => missions' = missions
    BY AsideSteps
  <2> QED
    BY <2>1, <2>2, <2>3, <2>4, StepKinds
<1> QED
  BY <1>1, CallsStep DEF Begun, Formed

\* Only a start wakes an orchestrator that is deaf to decisions.
LEMMA DeafStays ==
  ASSUME Wired, state \in Deaf, Orchestrates, ~(Operate /\ OperatorStart),
         ~Contains(to_orchestrator.call, "start")
  PROVE  state' \in Deaf
<1> USE DEF Deaf, Reject, Transition
<1>1. CASE OrchestratorHears("decision", Decided)
  BY <1>1 DEF OrchestratorHears, Decided, OnPolicy, ApplyPolicy
<1>2. CASE OrchestratorHears("reached", Arrived)
  BY <1>2 DEF OrchestratorHears, Arrived, WaypointReached
<1>3. CASE OrchestratorHears("call", Called)
  <2>1. to_orchestrator.call # <<>> /\ Called(Head(to_orchestrator.call))
    BY <1>3 DEF OrchestratorHears
  <2>2. Head(to_orchestrator.call) # "start"
    BY <2>1, QueueFacts DEF Wired, OrchestratorInbox
  <2> QED
    BY <2>1, <2>2 DEF Called, Abort
<1>4. CASE WatchdogTimer
  BY <1>4, OrchestratorSpeaks DEF Watchdog, PolicyExpired, RerouteExpired, Machine
<1>5. CASE Heartbeat \/ Unheard \/ ComeUp \/ Crash
  BY <1>5, OrchestratorSpeaks DEF Machine
<1>6. CASE Operate
  BY <1>6 DEF Operate, OperatorReset, Reset
<1> QED
  BY <1>1, <1>2, <1>3, <1>4, <1>5, <1>6 DEF Orchestrates

\* An operator starts missions only where the driver starts none.
LEMMA OperatorOrDriver ==
  ASSUME Wired, Formed, OperatorStart
  PROVE  ~driver.options.auto_start /\ missions' = missions + 1 /\ driver.gate_open
<1>1. missions < script.missions /\ missions' = missions + 1 /\ driver.gate_open
  BY DEF OperatorStart
<1>2. script.options.auto_start => script.missions = 0
  BY ScenarioAssumption DEF Wired
<1> QED
  BY <1>1, <1>2 DEF Formed

\* While the first mission is under way the report stays open until the mission is over.
LEMMA UnderStep ==
  ASSUME Wired, Formed, Begun, Under, TypeOK', [ENext]_evars
  PROVE  Under'
<1> USE DEF Under
<1>1. ~Contains(to_orchestrator'.call, "start")
  BY CallsStep
<1>2. driver'.options.auto_start <=> driver'.started
  BY CallsStep
<1> DEFINE Now == \/ /\ reporter = "recording"
                     /\ \A frame : Contains(analysing, frame) => frame.recorded
                  \/ reporter # "recording" /\ state \in Deaf
           Then == \/ /\ reporter' = "recording"
                      /\ \A frame : Contains(analysing', frame) => frame.recorded
                   \/ reporter' # "recording" /\ state' \in Deaf
<1>3. ASSUME missions' <= 1, missions' = missions, Now PROVE Then
  <2>1. CASE OnTick \/ (\E topic \in DOMAIN to_driver : DriverHears(topic)) \/ Pass
    <3>1. UNCHANGED <<reporter, state, analysing>>
      BY <2>1, DriverActs DEF Formed, Untouched, Machine
    <3> QED
      BY <1>3, <3>1
  <2>2. CASE OnImage \/ Analyse \/ CheckWatchdog
    <3>1. UNCHANGED <<reporter, state>>
      BY <2>2, BridgeActs DEF Aloof, Machine
    <3>2. \/ UNCHANGED analysing
          \/ analysing # <<>> /\ analysing' = Tail(analysing)
          \/ camera # <<>> /\ analysing' = Append(analysing, Taken(Head(camera)))
      BY <2>2, BridgeActs
    <3>3. analysing \in Seq(Takes) /\ camera \in Seq(Shots)
      BY DEF Wired
    <3>4. camera # <<>> => Taken(Head(camera)) \in Takes
                           /\ (Taken(Head(camera)).recorded <=> reporter = "recording")
      <4>1. camera # <<>> => Head(camera) \in Shots
        BY <3>3, TakenOff
      <4>2. (reporter = "recording") \in BOOLEAN
        OBVIOUS
      <4>3. Taken(Head(camera)).recorded <=> reporter = "recording"
        BY DEF Taken
      <4> QED
        BY <4>1, <4>2, <4>3 DEF Taken, Takes, Shots
    <3>5. \A frame : Contains(analysing', frame) =>
            \/ Contains(analysing, frame)
            \/ frame.recorded <=> reporter = "recording"
      <4>1. CASE UNCHANGED analysing
        BY <4>1
      <4>2. CASE analysing # <<>> /\ analysing' = Tail(analysing)
        BY <3>3, <4>2, QueueFacts
      <4>3. CASE camera # <<>> /\ analysing' = Append(analysing, Taken(Head(camera)))
        BY <3>3, <3>4, <4>3, QueueFacts
      <4> QED
        BY <3>2, <4>1, <4>2, <4>3
    <3> QED
      BY <1>3, <3>1, <3>5
  <2>3. CASE Orchestrates
    <3>1. Telling /\ UNCHANGED analysing
      BY <2>3, OrchestratesFacts DEF Telling, Private
    <3>2. ~(Operate /\ OperatorStart)
      BY <1>3, OperatorOrDriver DEF Formed
    <3>3. reporter' = reporter \/ reporter' = NextReporter
      BY <3>1 DEF Telling
    <3>4. CASE reporter = "recording"
      BY <1>3, <3>1, <3>3, <3>4 DEF NextReporter
    <3>5. CASE reporter # "recording" /\ state \in Deaf
      <4>1. state' \in Deaf
        BY <2>3, <3>2, <3>5, DeafStays
      <4> QED
        BY <3>3, <3>5, <4>1 DEF NextReporter, Recorded
    <3> QED
      BY <1>3, <3>4, <3>5
  <2>4. CASE Asides
    BY <1>3, <2>4, AsideSteps DEF Private, Machine
  <2> QED
    BY <2>1, <2>2, <2>3, <2>4, StepKinds
<1>4. missions' # missions => ~(missions' <= 1)
  <2>1. OnTick \/ (\E topic \in DOMAIN to_driver : DriverHears(topic)) \/ Pass
        => missions' = missions
    BY DriverActs DEF Formed, Untouched
  <2>2. OnImage \/ Analyse \/ CheckWatchdog => missions' = missions
    BY BridgeActs DEF Aloof
  <2>3. Asides => missions' = missions
    BY AsideSteps
  <2>4. ASSUME Orchestrates, missions' # missions PROVE ~(missions' <= 1)
    <3>1. OperatorStart
      BY <2>4, OrchestratesFacts
    <3>2. ~driver.options.auto_start /\ missions' = missions + 1
      BY <3>1, OperatorOrDriver
    <3>3. missions > 0
      BY <3>2 DEF Begun
    <3> QED
      BY <3>2, <3>3 DEF Formed
  <2> QED
    BY <2>1, <2>2, <2>3, <2>4, StepKinds
<1>5. missions' <= 1 => Then
  <2>1. CASE missions' = missions
    <3>1. missions' <= 1 => Now
      BY <2>1
    <3> QED
      BY <1>3, <2>1, <3>1
  <2> QED
    BY <1>4, <2>1
<1> QED
  BY <1>1, <1>2, <1>5

\* A mission begins with a start the orchestrator hears, or a dead one does not, or with the
\* operator's: the driver's gate is open then, so that nothing is being analysed.
LEMMA Begins ==
  ASSUME Wired, Formed, ~Begun, Ahead, [ENext]_evars, Begun'
  PROVE  /\ UNCHANGED <<analysing, driver>> /\ driver.gate_open /\ Orchestrates
         /\ missions' <= 1 /\ (missions' > 0 => ~driver.options.auto_start)
         /\ ~Contains(to_orchestrator'.call, "start")
         /\ driver.options.auto_start <=> driver.started
         /\ (reporter' = reporter /\ UNCHANGED Machine) \/ reporter' = NextReporter
         /\ UNCHANGED Machine \/ Start
<1> USE DEF Ahead
<1>0. missions = 0 /\ (driver.started => to_orchestrator.call = <<"start">>)
  BY DEF Begun, Formed
<1>1. Contains(<<"start">>, "start") /\ Head(<<"start">>) = "start" /\ Tail(<<"start">>) = <<>>
  BY DEF Contains
<1>2. ASSUME OnTick \/ (\E topic \in DOMAIN to_driver : DriverHears(topic)) PROVE FALSE
  <2>1. missions' = 0
    BY <1>0, <1>2, DriverActs DEF Formed, Untouched
  <2>2. driver'.started /\ ~Contains(to_orchestrator'.call, "start")
    BY <2>1 DEF Begun
  <2>3. CASE OnTick
    <3> DEFINE e == Driver!OnTick(GraphSeen)
    <3>1. /\ Shaped(e) /\ DriverOK(e)
          /\ Besides({"graph_ready", "stall", "commands", "fired", "outstanding", "next_frame"},
                     driver, e)
      BY TickStep DEF Formed
    <3>2. Execute(e)
      BY <2>3, DriverActs DEF Formed
    <3> HIDE DEF e
    <3>3. /\ Besides({"commands"}, e, driver')
          /\ Contains(to_orchestrator.call, "start") => Contains(to_orchestrator'.call, "start")
      BY <3>1, <3>2, Executed
    <3>4. driver.started
      BY <2>2, <3>1, <3>3 DEF Besides, DriverFields
    <3> QED
      BY <1>0, <1>1, <2>2, <3>3, <3>4
  <2>4. ASSUME NEW topic \in DOMAIN to_driver, DriverHears(topic) PROVE FALSE
    <3> DEFINE e == Handled(topic, Head(to_driver[topic]))
    <3>1. Execute(e) /\ to_driver[topic] # <<>>
      BY <2>4, DriverActs DEF Formed
    <3>2. /\ Shaped(e) /\ DriverOK(e)
          /\ e.started => driver.started \/ Driver!Call("start") \in e.commands
          /\ Driver!Call("start") \in e.commands =>
               ~driver.started /\ e.commands = {Driver!Call("start")}
      BY <3>1, HandledEffect DEF Formed
    <3> HIDE DEF e
    <3>3. /\ Besides({"commands"}, e, driver')
          /\ Contains(to_orchestrator.call, "start") => Contains(to_orchestrator'.call, "start")
          /\ Service(e.commands) = {"start"} /\ to_orchestrator.call = <<>> =>
               to_orchestrator'.call = <<"start">>
      BY <3>1, <3>2, Executed
    <3>4. e.started
      BY <2>2, <3>3 DEF Besides, DriverFields
    <3>5. CASE driver.started
      BY <1>0, <1>1, <2>2, <3>3, <3>5
    <3>6. CASE ~driver.started
      <4>1. e.commands = {Driver!Call("start")}
        BY <3>2, <3>4, <3>6
      <4>2. Service(e.commands) = {"start"}
        BY <4>1, CommandKinds DEF Service
      <4> QED
        BY <1>1, <2>2, <3>3, <3>6, <4>2
    <3> QED
      BY <3>5, <3>6
  <2> QED
    BY <1>2, <2>3, <2>4
<1>3. ASSUME UNCHANGED <<driver, missions, to_orchestrator.call>> PROVE FALSE
  BY <1>0, <1>1, <1>3 DEF Begun
<1>4. ~(OnImage \/ Analyse \/ CheckWatchdog)
  BY <1>3, BridgeActs DEF Aloof
<1>5. ~Asides
  BY <1>3, AsideSteps DEF Private
<1>6. ~Pass
  <2>1. ASSUME Pass PROVE FALSE
    <3>1. UNCHANGED <<missions, to_orchestrator>> /\ driver' = Driver!Wait(driver)
      BY <2>1, DriverActs DEF Formed, Untouched
    <3>2. driver'.started = driver.started
      BY <3>1, WaitEffect DEF Formed, Besides, DriverFields
    <3> QED
      BY <1>0, <1>1, <3>1, <3>2 DEF Begun
  <2> QED
    BY <2>1
<1>7. Orchestrates
  BY <1>2, <1>4, <1>5, <1>6, StepKinds
<1>8. /\ Telling /\ UNCHANGED <<analysing, driver>>
      /\ \/ UNCHANGED to_orchestrator
         \/ \E topic \in {"decision", "reached", "call"} : Hears(topic, to_orchestrator[topic])
      /\ missions' = missions \/ (Operate /\ OperatorStart)
  BY <1>7, OrchestratesFacts DEF Telling, Private
<1>9. CASE Operate /\ OperatorStart
  <2>1. ~driver.options.auto_start /\ missions' = missions + 1 /\ driver.gate_open
    BY <1>9, OperatorOrDriver
  <2>2. Start /\ reporter' = NextReporter /\ UNCHANGED to_orchestrator
    BY <1>9, OrchestratorSpeaks DEF OperatorStart, Told1
  <2>3. ~driver.started /\ to_orchestrator.call = <<>>
    BY <2>1
  <2> QED
    BY <1>0, <1>7, <1>8, <2>1, <2>2, <2>3 DEF Contains
<1>10. CASE missions' = missions
  <2>1. driver.started /\ to_orchestrator'.call # to_orchestrator.call
    BY <1>0, <1>3, <1>8, <1>10 DEF Begun
  <2>2. /\ to_orchestrator.call = <<"start">> /\ to_orchestrator'.call = <<>>
        /\ Hears("call", to_orchestrator.call)
    BY <1>0, <1>1, <1>8, <2>1 DEF Hears
  <2>3. CASE OrchestratorHears("call", Called)
    <3>1. Called("start") /\ reporter' = NextReporter
      BY <1>1, <2>2, <2>3, OrchestratorSpeaks DEF Told1
    <3> QED
      BY <1>0, <1>7, <1>8, <1>10, <2>1, <2>2, <3>1 DEF Called, Contains
  <2>4. CASE Unheard
    <3>1. UNCHANGED <<Machine, reporter>>
      BY <2>4, OrchestratorSpeaks DEF Silent
    <3> QED
      BY <1>0, <1>7, <1>8, <1>10, <2>1, <2>2, <3>1 DEF Contains
  <2>5. CASE \/ OrchestratorHears("decision", Decided) \/ OrchestratorHears("reached", Arrived)
             \/ WatchdogTimer \/ Heartbeat \/ Crash \/ ComeUp \/ Operate
    <3>1. to_orchestrator'.call = to_orchestrator.call
      BY <2>5, OrchestratorSpeaks DEF Hears
    <3> QED
      BY <2>1, <3>1
  <2> QED
    BY <1>7, <2>3, <2>4, <2>5 DEF Orchestrates
<1> QED
  BY <1>8, <1>9, <1>10

\* When the first mission begins nothing is analysed, and the report opens with it.
LEMMA BeginsStep ==
  ASSUME Wired, Formed, ~Begun, Ahead, Priming, [ENext]_evars, Begun'
  PROVE  Under'
<1>1. /\ UNCHANGED <<analysing, driver>> /\ driver.gate_open
      /\ ~Contains(to_orchestrator'.call, "start")
      /\ driver.options.auto_start <=> driver.started
      /\ (reporter' = reporter /\ UNCHANGED Machine) \/ reporter' = NextReporter
      /\ UNCHANGED Machine \/ Start
  BY Begins
<1>2. analysing' = <<>>
  BY <1>1 DEF Priming, Primed
<1>3. /\ reporter = "idle" /\ state = "IDLE" /\ state' \in {"IDLE", "WAITING_FOR_POLICY"}
      /\ (reporter' = reporter /\ state' = "IDLE") \/ reporter' = NextReporter
  BY <1>1 DEF Ahead, Machine, Start, Reject, Transition
<1>4. \/ reporter' = "recording"
      \/ reporter' # "recording" /\ state' \in Deaf
  BY <1>3 DEF NextReporter, Recorded, States, Deaf
<1>5. \A frame : ~Contains(analysing', frame)
  BY <1>2 DEF Contains
<1> QED
  BY <1>1, <1>4, <1>5 DEF Under

\* A queue with nothing in it is empty.
LEMMA NothingQueued ==
  ASSUME NEW S, NEW q \in Seq(S), \A x : ~Contains(q, x) PROVE q = <<>>
BY QueueFacts

\* What the driver makes of a message while nothing is known of a mission.
LEMMA AsleepEffect ==
  ASSUME Wired, Formed, Asleep(driver), NEW topic \in DOMAIN to_driver,
         to_driver[topic] # <<>>, NEW m, m = Head(to_driver[topic]),
         topic = "state" => Idle(m), NEW e, e = Handled(topic, m)
  PROVE  /\ Asleep(e) /\ \A x : Driver!Reached(x) \notin e.commands
         /\ topic # "decision" =>
              e.gate_open = driver.gate_open /\ e.started = driver.started
              /\ Service(e.commands) = {}
         /\ topic \notin {"evidence", "assessment"} => e.outstanding = driver.outstanding
         /\ topic = "decision" =>
              \/ /\ driver.gate_open \/ ~Matching(m.evidence)
                 /\ e.gate_open = driver.gate_open /\ e.started = driver.started
                 /\ e.commands = {}
              \/ /\ ~driver.gate_open /\ Matching(m.evidence) /\ e.gate_open
                 /\ \/ /\ driver.options.auto_start /\ ~driver.started
                       /\ e.started /\ e.commands = {Driver!Call("start")}
                    \/ /\ driver.options.auto_start => driver.started
                       /\ e.started = driver.started /\ e.commands = {}
         /\ topic \in {"evidence", "assessment"} =>
              e.outstanding = IF Driver!Answers(driver, m)
                              THEN Left([driver.outstanding EXCEPT ![topic] = m])
                              ELSE driver.outstanding
<1> USE DEF Formed
<1>0. DOMAIN to_driver = {"evidence", "assessment", "decision", "state", "cmd_vel",
                          "report", "request"}
  BY DEF Wired, DriverInbox
<1>1. driver.mission.goal = NoName /\ driver.mission.state = "IDLE"
      /\ driver.phase = Driver!OfAllGoals("none") /\ driver.fired = {}
  BY DEF Asleep, Idle
<1>2. ~Leaving(driver) /\ ~Driver!Counted(driver)
  BY <1>1 DEF Leaving, Driver!InPhase, Driver!NoName, NoName, Driver!Counted
<1>3. ASSUME NEW fields, Besides(fields, driver, e), e.mission = driver.mission,
             fields \cap {"fired", "gate_open", "started"} = {}, e.phase = driver.phase,
             e.commands \subseteq {Driver!Complete}
      PROVE  /\ Asleep(e) /\ e.gate_open = driver.gate_open /\ e.started = driver.started
             /\ Service(e.commands) = {} /\ \A x : Driver!Reached(x) \notin e.commands
  BY <1>1, <1>3, CommandKinds DEF Asleep, Idle, Besides, DriverFields, Service
<1>4. CASE topic \in {"evidence", "assessment"}
  <2>1. /\ Besides({"phase", "commands", "last_evidence", "outstanding"}, driver, e)
        /\ Progress(driver, e)
        /\ e.outstanding = IF Driver!Answers(driver, m)
                           THEN Left([driver.outstanding EXCEPT ![topic] = m])
                           ELSE driver.outstanding
    BY <1>4, AnswerEffect DEF Handled
  <2>2. e.mission = driver.mission /\ e.phase = driver.phase /\ e.commands = {}
    BY <1>2, <2>1 DEF Progress, Besides, DriverFields
  <2> QED
    BY <1>3, <1>4, <2>1, <2>2
<1>5. CASE topic = "decision"
  <2>1. e = Driver!OnPolicyDecision(driver, m.evidence)
    BY <1>5 DEF Handled
  <2>2. /\ Besides({"gate_open", "started", "commands"}, driver, e)
        /\ \/ /\ driver.gate_open \/ ~Matching(m.evidence)
              /\ e.gate_open = driver.gate_open /\ e.started = driver.started
              /\ e.commands = {}
           \/ /\ ~driver.gate_open /\ Matching(m.evidence) /\ e.gate_open
              /\ \/ /\ driver.options.auto_start /\ ~driver.started
                    /\ e.started /\ e.commands = {Driver!Call("start")}
                 \/ /\ driver.options.auto_start => driver.started
                    /\ e.started = driver.started /\ e.commands = {}
    BY <2>1, DecisionEffect DEF Matching
  <2>3. Asleep(e) /\ e.outstanding = driver.outstanding
    BY <1>1, <2>2 DEF Asleep, Idle, Besides, DriverFields
  <2>4. \A x : Driver!Reached(x) \notin e.commands
    BY <2>2, CommandKinds
  <2> QED
    BY <1>5, <2>2, <2>3, <2>4
<1>6. CASE topic = "state"
  <2>1. e = Driver!OnMissionState(driver, m) /\ m \in Tellings
    BY <1>6, TakenOff DEF Handled, Wired, DriverInbox
  <2>2. /\ Besides({"mission", "completed", "commands"}, driver, e)
        /\ e.commands \subseteq {Driver!Complete} /\ e.mission = m
    BY <1>1, <1>6, <2>1, TellingEffect DEF Idle
  <2> QED
    BY <1>1, <1>6, <2>2, CommandKinds DEF Asleep, Idle, Besides, DriverFields, Service
<1>7. CASE topic = "cmd_vel"
  <2>1. e = driver
    BY <1>2, <1>7, MotionEffect DEF Handled
  <2>2. Besides({}, driver, e)
    BY <2>1 DEF Besides
  <2> QED
    BY <1>3, <1>7, <2>1, <2>2
<1>8. CASE topic = "report"
  <2>1. /\ Besides({"recording", "finalized", "completed", "commands"}, driver, e)
        /\ e.commands \subseteq {Driver!Complete}
    BY <1>8, ReportEffect DEF Handled
  <2>2. /\ e.mission = driver.mission /\ e.phase = driver.phase
        /\ e.outstanding = driver.outstanding /\ e.commands \subseteq {Driver!Complete}
    BY <2>1 DEF Besides, DriverFields
  <2> QED
    BY <1>3, <1>8, <2>1, <2>2
<1>9. CASE topic = "request"
  <2>1. Besides({"next_frame"}, driver, e)
    BY <1>9, WaitEffect DEF Handled
  <2>2. /\ e.mission = driver.mission /\ e.phase = driver.phase
        /\ e.outstanding = driver.outstanding /\ e.commands \subseteq {Driver!Complete}
    BY <2>1 DEF Besides, DriverFields
  <2> QED
    BY <1>3, <1>9, <2>1, <2>2
<1> QED
  BY <1>0, <1>4, <1>5, <1>6, <1>7, <1>8, <1>9

\* An idle orchestrator whom nobody asks for a mission says that it is idle.
LEMMA IdleOrchestrator ==
  ASSUME Wired, Formed, ~Begun, Ahead, Orchestrates, ~Begun'
  PROVE  /\ state' = "IDLE" /\ active_goal' = NoName /\ waypoint_index' = 0
         /\ missions' = missions
         /\ UNCHANGED <<to_orchestrator.call, to_orchestrator.reached>>
         /\ reporter' = "idle" /\ Telling
         /\ UNCHANGED to_driver.state
            \/ (to_driver'.state = Append(to_driver.state, Told) /\ Idle(Told))
<1> USE DEF Ahead, Machine
<1>0. missions = 0 /\ missions' = 0 /\ UNCHANGED driver
      /\ ~(driver.started /\ ~Contains(to_orchestrator'.call, "start"))
  BY OrchestratesFacts DEF Begun, Formed, OperatorStart, Telling, Private
<1>1. Tail(<<"start">>) = <<>> /\ ~Contains(<<>>, "start")
  BY DEF Contains
<1>2. ASSUME NEW topic \in {"decision", "reached", "call"}, Hears(topic, to_orchestrator[topic])
      PROVE  /\ topic = "decision"
             /\ UNCHANGED <<to_orchestrator.call, to_orchestrator.reached>>
  BY <1>0, <1>1, <1>2 DEF Hears
<1>3. ASSUME state' = "IDLE", active_goal' = NoName, Told1
      PROVE  reporter' = "idle" /\ Telling
             /\ to_driver'.state = Append(to_driver.state, Told) /\ Idle(Told)
  BY <1>3 DEF Told1, NextReporter, Recorded, Deaf, Idle, Told
<1>4. CASE OrchestratorHears("decision", Decided)
  <2>1. Told1 /\ Hears("decision", to_orchestrator.decision)
        /\ Decided(Head(to_orchestrator.decision))
    BY <1>4, OrchestratorSpeaks
  <2>2. UNCHANGED Machine
    BY <2>1 DEF Decided, OnPolicy, ApplyPolicy, Reject, progress, Deaf
  <2> QED
    BY <1>0, <1>2, <1>3, <2>1, <2>2
<1>5. CASE OrchestratorHears("reached", Arrived) \/ OrchestratorHears("call", Called)
  BY <1>2, <1>5, OrchestratorSpeaks
<1>6. CASE WatchdogTimer
  BY <1>0, <1>6, OrchestratorSpeaks DEF Watchdog, PolicyExpired, RerouteExpired, Silent
<1>7. CASE Heartbeat
  BY <1>0, <1>7, OrchestratorSpeaks DEF Silent
<1>8. CASE Crash
  BY <1>0, <1>8, OrchestratorSpeaks DEF Silent
<1>9. CASE Unheard
  <2>1. UNCHANGED Machine /\ Silent
        /\ \E topic \in {"decision", "reached", "call"} : Hears(topic, to_orchestrator[topic])
    BY <1>9, OrchestratorSpeaks
  <2> QED
    BY <1>0, <1>2, <2>1 DEF Silent
<1>10. CASE ComeUp
  BY <1>0, <1>3, <1>10, OrchestratorSpeaks
<1>11. CASE Operate
  BY <1>0, <1>11, OrchestratorSpeaks DEF OperatorStart, OperatorReset
<1> QED
  BY <1>4, <1>5, <1>6, <1>7, <1>8, <1>9, <1>10, <1>11 DEF Orchestrates

\* Nobody comes to know of a mission,
LEMMA AheadStep ==
  ASSUME Wired, Wired', Formed, ~Begun, Ahead, [ENext]_evars, ~Begun'
  PROVE  Ahead'
<1> USE DEF Formed
<1>0. /\ state = "IDLE" /\ active_goal = NoName /\ waypoint_index = 0 /\ reporter = "idle"
      /\ \A x : ~Contains(to_orchestrator.reached, x)
  BY DEF Ahead, Contains
<1>1. ASSUME NEW e, DriverOK(e), Shaped(e), Execute(e), Asleep(e), UNCHANGED Untouched,
             \A m : Contains(to_driver'.state, m) => Contains(to_driver.state, m),
             \A x : Driver!Reached(x) \notin e.commands,
             e.options = driver.options,
             \/ /\ e.gate_open = driver.gate_open /\ e.started = driver.started
                /\ Service(e.commands) = {}
             \/ /\ ~driver.gate_open /\ e.gate_open
                /\ \/ /\ driver.options.auto_start /\ ~driver.started
                      /\ e.started /\ e.commands = {Driver!Call("start")}
                   \/ /\ driver.options.auto_start => driver.started
                      /\ e.started = driver.started /\ e.commands = {}
      PROVE  Ahead'
  <2>1. /\ Besides({"commands"}, e, driver')
        /\ Service(e.commands) = {} => to_orchestrator'.call = to_orchestrator.call
        /\ Service(e.commands) = {"start"} /\ to_orchestrator.call = <<>> =>
             to_orchestrator'.call = <<"start">>
        /\ \A goal : ~Contains(to_orchestrator'.reached, goal)
    BY <1>0, <1>1, Executed
  <2>2. /\ Asleep(driver') /\ driver'.options = driver.options
        /\ driver'.gate_open = e.gate_open /\ driver'.started = e.started
    BY <1>1, <2>1 DEF Asleep, Besides, DriverFields
  <2>3. to_orchestrator'.reached = <<>>
    <3>1. to_orchestrator'.reached \in Seq(Names)
      BY DEF Wired, OrchestratorInbox
    <3> QED
      BY <2>1, <3>1, NothingQueued
  <2>4. UNCHANGED <<state, active_goal, waypoint_index, reporter>>
    BY <1>1 DEF Untouched, Machine
  <2>5. \A m : Contains(to_driver'.state, m) => Idle(m)
    BY <1>1 DEF Ahead
  <2>6. CASE /\ e.gate_open = driver.gate_open /\ e.started = driver.started
             /\ Service(e.commands) = {}
    BY <2>1, <2>2, <2>3, <2>4, <2>5, <2>6 DEF Ahead
  <2>7. CASE /\ ~driver.gate_open /\ e.gate_open /\ driver.options.auto_start /\ ~driver.started
             /\ e.started /\ e.commands = {Driver!Call("start")}
    <3>1. Service(e.commands) = {"start"}
      BY <2>7, CommandKinds DEF Service
    <3> QED
      BY <2>1, <2>2, <2>3, <2>4, <2>5, <2>7, <3>1 DEF Ahead
  <2>8. CASE /\ ~driver.gate_open /\ e.gate_open /\ (driver.options.auto_start => driver.started)
             /\ e.started = driver.started /\ e.commands = {}
    <3>1. Service(e.commands) = {}
      BY <2>8 DEF Service
    <3> QED
      BY <2>1, <2>2, <2>3, <2>4, <2>5, <2>8, <3>1 DEF Ahead
  <2> QED
    BY <1>1, <2>6, <2>7, <2>8
<1>2. ASSUME OnTick PROVE Ahead'
  <2> DEFINE e == Driver!OnTick(GraphSeen)
  <2>1. /\ Shaped(e) /\ DriverOK(e)
        /\ Besides({"graph_ready", "stall", "commands", "fired", "outstanding", "next_frame"},
                   driver, e)
        /\ Service(e.commands) = {} /\ \A x : Driver!Reached(x) \notin e.commands
        /\ \/ e.fired = driver.fired
           \/ \E name, malformed : malformed \in BOOLEAN /\ Shoots(driver, e, name, malformed)
    BY TickStep
  <2>2. Execute(e) /\ UNCHANGED Untouched /\ UNCHANGED to_driver
    BY <1>2, DriverActs
  <2> HIDE DEF e
  <2>3. e.fired = driver.fired
    <3>1. ~Driver!MayStream(driver)
      BY DEF Ahead, Asleep, Idle, Driver!MayStream, Driver!StreamingStates
    <3> QED
      BY <2>1, <3>1 DEF Shoots
  <2>4. /\ Asleep(e) /\ e.options = driver.options /\ e.gate_open = driver.gate_open
        /\ e.started = driver.started
    BY <2>1, <2>3 DEF Ahead, Asleep, Besides, DriverFields
  <2> QED
    BY <1>1, <2>1, <2>2, <2>4
<1>3. ASSUME NEW topic \in DOMAIN to_driver, DriverHears(topic) PROVE Ahead'
  <2> DEFINE m == Head(to_driver[topic])
             e == Handled(topic, m)
  <2>1. /\ Execute(e) /\ UNCHANGED Untouched /\ to_driver[topic] # <<>>
        /\ to_driver'[topic] = Tail(to_driver[topic])
        /\ \A other \in DOMAIN to_driver \ {topic} : to_driver'[other] = to_driver[other]
    BY <1>3, DriverActs
  <2>2. Shaped(e) /\ DriverOK(e) /\ e.options = driver.options
    BY <2>1, HandledEffect
  <2>3. /\ "state" \in DOMAIN to_driver /\ to_driver.state \in Seq(Tellings)
    BY DEF Wired, DriverInbox
  <2>4. \A x : Contains(to_driver'.state, x) => Contains(to_driver.state, x)
    <3>1. CASE topic = "state"
      <4>1. to_driver.state # <<>> /\ to_driver'.state = Tail(to_driver.state)
        BY <2>1, <3>1
      <4> QED
        BY <2>3, <4>1, QueueFacts
    <3>2. CASE topic # "state"
      <4>1. to_driver'.state = to_driver.state
        BY <2>1, <2>3, <3>2
      <4> QED
        BY <4>1
    <3> QED
      BY <3>1, <3>2
  <2>5. topic = "state" => Idle(m)
    BY <2>1, <2>3, QueueFacts DEF Ahead
  <2>6. Asleep(driver)
    BY DEF Ahead
  <2>7. /\ Asleep(e) /\ \A x : Driver!Reached(x) \notin e.commands
        /\ topic # "decision" =>
              e.gate_open = driver.gate_open /\ e.started = driver.started
              /\ Service(e.commands) = {}
        /\ topic = "decision" =>
              \/ /\ driver.gate_open \/ ~Matching(m.evidence)
                 /\ e.gate_open = driver.gate_open /\ e.started = driver.started
                 /\ e.commands = {}
              \/ /\ ~driver.gate_open /\ Matching(m.evidence) /\ e.gate_open
                 /\ \/ /\ driver.options.auto_start /\ ~driver.started
                       /\ e.started /\ e.commands = {Driver!Call("start")}
                    \/ /\ driver.options.auto_start => driver.started
                       /\ e.started = driver.started /\ e.commands = {}
    BY <2>1, <2>5, <2>6, AsleepEffect
  <2>8. e.commands = {} => Service(e.commands) = {}
    BY DEF Service
  <2> HIDE DEF e, m
  <2> QED
    BY <1>1, <2>1, <2>2, <2>4, <2>7, <2>8
<1>4. ASSUME OnImage \/ Analyse \/ CheckWatchdog PROVE Ahead'
  BY <1>4, BridgeActs DEF Aloof, Machine, Ahead
<1>5. ASSUME Orchestrates PROVE Ahead'
  <2>1. UNCHANGED driver
    BY <1>5, OrchestratesFacts DEF Telling, Private
  <2>2. /\ state' = "IDLE" /\ active_goal' = NoName /\ waypoint_index' = 0
        /\ UNCHANGED <<to_orchestrator.call, to_orchestrator.reached>> /\ reporter' = "idle"
        /\ UNCHANGED to_driver.state
           \/ (to_driver'.state = Append(to_driver.state, Told) /\ Idle(Told))
    BY <1>5, IdleOrchestrator
  <2>3. \A m : Contains(to_driver'.state, m) => Idle(m)
    <3>1. CASE to_driver'.state = Append(to_driver.state, Told) /\ Idle(Told)
      <4>1. to_driver.state \in Seq(Tellings) /\ to_driver'.state \in Seq(Tellings)
        BY DEF Wired, DriverInbox
      <4>2. Told \in Tellings
        <5>1. Append(to_driver.state, Told)[Len(to_driver.state) + 1] = Told
          BY <4>1
        <5> QED
          BY <3>1, <4>1, <5>1
      <4> QED
        BY <3>1, <4>1, <4>2, QueueFacts DEF Ahead
    <3> QED
      BY <2>2, <3>1 DEF Ahead
  <2> QED
    BY <2>1, <2>2, <2>3 DEF Ahead
<1>6. ASSUME Asides PROVE Ahead'
  BY <1>6, AsideSteps DEF Private, Machine, Ahead
<1>7. ASSUME Pass PROVE Ahead'
  <2>1. UNCHANGED <<Untouched, to_driver, to_orchestrator>> /\ driver' = Driver!Wait(driver)
    BY <1>7, DriverActs
  <2>2. Besides({"next_frame"}, driver, driver')
    BY <2>1, WaitEffect
  <2> QED
    BY <2>1, <2>2 DEF Ahead, Asleep, Besides, DriverFields, Untouched, Machine
<1> QED
  BY <1>2, <1>3, <1>4, <1>5, <1>6, <1>7, StepKinds

\* An evidence id is its waypoint's; no evidence is nobody's.
LEMMA OwnEvidence ==
  /\ \A name \in Names, t \in DOMAIN Segment :
       Driver!Matches(Append(SafeName[name], Segment[t]), name)
  /\ \A name \in Names : ~Driver!Matches(NoName, name)
<1>1. ASSUME NEW S, NEW s \in Seq(S), s # <<>>, NEW x
      PROVE  IsStrictPrefix(s, Append(s, x)) /\ ~IsStrictPrefix(s, <<>>)
  <2>1. /\ s \in Seq(S \cup {x}) /\ Append(s, x) \in Seq(S \cup {x})
        /\ Len(Append(s, x)) = Len(s) + 1 /\ Len(s) \in Nat
        /\ \A i \in 1 .. Len(s) : Append(s, x)[i] = s[i]
    OBVIOUS
  <2>2. SubSeq(s, 1, Len(s)) = SubSeq(Append(s, x), 1, Len(s))
    BY <2>1
  <2>3. Len(<<>>) = 0 /\ ~(Len(s) <= 0)
    BY <1>1, <2>1, EmptySeq
  <2> QED
    BY <2>1, <2>2, <2>3 DEF IsStrictPrefix, IsPrefix
<1>2. \A name \in Names : SafeName[name] \in Seq(STRING) /\ SafeName[name] # <<>>
  BY EvidenceAssumption DEF NoName
<1>3. ASSUME NEW name \in Names, NEW x
      PROVE  /\ IsStrictPrefix(SafeName[name], Append(SafeName[name], x))
             /\ ~IsStrictPrefix(SafeName[name], <<>>)
  BY <1>1, <1>2
<1> QED
  BY <1>3 DEF Driver!Matches, Driver!IsStrictPrefix, Driver!IsPrefix, IsStrictPrefix, IsPrefix,
     NoName

\* The newest of a queue is in it.
LEMMA Newest == ASSUME NEW S, NEW q \in Seq(S), NEW y PROVE Contains(Append(q, y), y)
<1>1. Append(q, y)[Len(q) + 1] = y /\ Len(q) + 1 \in 1 .. Len(Append(q, y))
  OBVIOUS
<1> QED
  BY <1>1 DEF Contains

\* and the pipeline stays primed, or is being primed.
LEMMA PrimingStep ==
  ASSUME Wired, Wired', Formed, Calm, ~Begun, Ahead, Priming, [ENext]_evars, ~Begun'
  PROVE  Priming'
<1> USE DEF Formed
<1>0. /\ DOMAIN to_driver = {"evidence", "assessment", "decision", "state", "cmd_vel",
                             "report", "request"}
      /\ to_driver.evidence \in Seq(Evidence) /\ to_driver.assessment \in Seq(Evidence)
      /\ to_driver.decision \in Seq(Sayings) /\ to_driver'.decision \in Seq(Sayings)
      /\ to_driver'.evidence \in Seq(Evidence)
      /\ camera \in Seq(Shots) /\ analysing \in Seq(Takes)
      /\ camera' \in Seq(Shots) /\ analysing' \in Seq(Takes)
  BY DEF Wired, DriverInbox
<1>1. Waypoints[1] \in Names /\ NoName \notin Names /\ ~Matching(NoName)
      /\ Driver!NoName = NoName
  BY NameFacts, OwnEvidence DEF Matching, Driver!NoName, NoName
<1>2. ASSUME UNCHANGED <<camera, analysing, last_seen, to_driver.evidence,
                         to_driver.assessment, to_driver.decision>>,
             driver'.outstanding = driver.outstanding, driver'.gate_open = driver.gate_open,
             ~ticked' /\ ~driver.gate_open => ~Primed
      PROVE  Priming'
  <2>1. Primed' <=> Primed
    BY <1>2 DEF Primed
  <2> QED
    BY <1>2, <2>1 DEF Priming
<1>3. ASSUME OnTick PROVE Priming'
  <2> DEFINE e == Driver!OnTick(GraphSeen)
  <2>1. /\ Shaped(e) /\ DriverOK(e)
        /\ Besides({"graph_ready", "stall", "commands", "fired", "outstanding", "next_frame"},
                   driver, e)
        /\ \/ /\ Frames(e.commands) = {} /\ e.outstanding = driver.outstanding
           \/ \E name, malformed : malformed \in BOOLEAN /\ Shoots(driver, e, name, malformed)
    BY TickStep
  <2>2. Execute(e) /\ UNCHANGED <<Untouched, to_driver>> /\ ~ticked /\ ticked'
    BY <1>3, DriverActs
  <2> HIDE DEF e
  <2>3. /\ Besides({"commands"}, e, driver')
        /\ Frames(e.commands) = {} => camera' = camera
        /\ \A frame : Frames(e.commands) = {frame} /\ camera = <<>> => camera' = <<frame>>
    BY <2>1, <2>2, Executed
  <2>4. driver'.outstanding = e.outstanding /\ driver'.gate_open = driver.gate_open
    BY <2>1, <2>3 DEF Besides, DriverFields
  <2>5. CASE Frames(e.commands) = {} /\ e.outstanding = driver.outstanding
    BY <1>2, <2>2, <2>3, <2>4, <2>5 DEF Untouched
  <2>6. ASSUME NEW name, NEW malformed \in BOOLEAN, Shoots(driver, e, name, malformed)
        PROVE  Priming'
    <3>1. ~Driver!MayStream(driver)
      BY DEF Ahead, Asleep, Idle, Driver!MayStream, Driver!StreamingStates
    <3>2. /\ ~driver.gate_open /\ Driver!MayPrime(driver) /\ name = Waypoints[1] /\ ~malformed
          /\ e.outstanding = Driver!Outstanding(name, TRUE)
          /\ Frames(e.commands) = {[waypoint |-> name, malformed |-> malformed, stamp |-> now]}
      <4>1. ~malformed => (~malformed) = TRUE
        OBVIOUS
      <4> QED
        BY <2>6, <3>1, <4>1 DEF Shoots
    <3>3. ~Primed /\ camera = <<>> /\ to_driver.evidence = <<>> /\ to_driver.assessment = <<>>
      BY <2>2, <3>2 DEF Priming, Calm
    <3>4. analysing = <<>>
      BY <1>1, <3>2, <3>3 DEF Priming, Driver!MayPrime
    <3> DEFINE frame == [waypoint |-> name, malformed |-> malformed, stamp |-> now]
    <3>5. camera' = <<frame>> /\ frame.waypoint = Waypoints[1] /\ ~frame.malformed
      BY <2>3, <3>2, <3>3
    <3> HIDE DEF frame
    <3>6. /\ Len(camera') = 1 /\ Len(analysing') = 0 /\ analysing' = <<>>
          /\ \A x : Contains(camera', x) => x = frame
          /\ \A x : ~Contains(analysing', x)
      BY <2>2, <3>4, <3>5 DEF Untouched, Contains
    <3>7. /\ driver'.outstanding.assessment = NoName
          /\ driver'.outstanding.waypoint = Waypoints[1]
          /\ driver'.outstanding # Driver!NoFrame
      BY <1>1, <2>4, <3>2 DEF Driver!Outstanding, Driver!NoFrame
    <3>8. ~Primed'
      BY <2>2, <2>4, <3>3 DEF Primed
    <3> QED
      BY <2>2, <3>3, <3>5, <3>6, <3>7, <3>8 DEF Priming, Untouched
  <2> QED
    BY <2>1, <2>5, <2>6
<1>4. ASSUME NEW topic \in DOMAIN to_driver, DriverHears(topic) PROVE Priming'
  <2> DEFINE m == Head(to_driver[topic])
             e == Handled(topic, m)
  <2>1. /\ Execute(e) /\ UNCHANGED <<Untouched, ticked>> /\ to_driver[topic] # <<>> /\ ticked
        /\ to_driver'[topic] = Tail(to_driver[topic])
        /\ \A other \in DOMAIN to_driver \ {topic} : to_driver'[other] = to_driver[other]
    BY <1>4, DriverActs
  <2>2. Shaped(e) /\ DriverOK(e) /\ Frames(e.commands) = {}
    BY <2>1, HandledEffect
  <2>3. topic = "state" => Idle(m)
    <3>1. to_driver.state \in Seq(Tellings)
      BY DEF Wired, DriverInbox
    <3> QED
      BY <2>1, <3>1, QueueFacts DEF Ahead
  <2>4. Asleep(driver)
    BY DEF Ahead
  <2>5. /\ topic # "decision" => e.gate_open = driver.gate_open
        /\ topic \notin {"evidence", "assessment"} => e.outstanding = driver.outstanding
        /\ topic = "decision" =>
             \/ /\ driver.gate_open \/ ~Matching(m.evidence)
                /\ e.gate_open = driver.gate_open
             \/ /\ ~driver.gate_open /\ Matching(m.evidence) /\ e.gate_open
        /\ topic \in {"evidence", "assessment"} =>
             e.outstanding = IF Driver!Answers(driver, m)
                             THEN Left([driver.outstanding EXCEPT ![topic] = m])
                             ELSE driver.outstanding
    BY <2>1, <2>3, <2>4, AsleepEffect
  <2> HIDE DEF e
  <2>6. /\ Besides({"commands"}, e, driver') /\ camera' = camera
    BY <2>1, <2>2, Executed
  <2>7. driver'.outstanding = e.outstanding /\ driver'.gate_open = e.gate_open
    BY <2>6 DEF Besides, DriverFields
  <2>8. UNCHANGED <<analysing, last_seen>> /\ ticked'
    BY <2>1 DEF Untouched
  <2>9. CASE topic \notin {"evidence", "assessment", "decision"}
    BY <1>0, <1>2, <2>1, <2>5, <2>6, <2>7, <2>8, <2>9
  <2>10. CASE topic = "decision"
    <3>1. UNCHANGED <<to_driver.evidence, to_driver.assessment>>
          /\ to_driver'.decision = Tail(to_driver.decision) /\ to_driver.decision # <<>>
          /\ m = Head(to_driver.decision)
      BY <1>0, <2>1, <2>10
    <3>2. /\ Contains(to_driver.decision, m)
          /\ \A x : Contains(to_driver'.decision, x) => Contains(to_driver.decision, x)
          /\ \A x : Contains(to_driver.decision, x) => x = m \/ Contains(to_driver'.decision, x)
      BY <1>0, <3>1, QueueFacts
    <3>3. Primed' <=> Primed
      <4>1. CASE driver.gate_open
        BY <2>5, <2>7, <2>10, <4>1 DEF Primed
      <4>2. CASE ~driver.gate_open /\ Matching(m.evidence) /\ e.gate_open
        BY <2>7, <3>2, <4>2 DEF Primed
      <4>3. CASE ~driver.gate_open /\ ~Matching(m.evidence) /\ ~e.gate_open
        <5> HIDE DEF m
        <5>1. ASSUME Primed PROVE \E x : Contains(to_driver'.decision, x) /\ Matching(x.evidence)
          <6>1. PICK x : Contains(to_driver.decision, x) /\ Matching(x.evidence)
            BY <4>3, <5>1 DEF Primed
          <6>2. x # m
            BY <4>3, <6>1
          <6> QED
            BY <3>2, <6>1, <6>2
        <5>2. Primed' => \E x : Contains(to_driver.decision, x) /\ Matching(x.evidence)
          BY <2>7, <3>2, <4>3 DEF Primed
        <5>3. (\E x : Contains(to_driver'.decision, x) /\ Matching(x.evidence)) => Primed'
          BY DEF Primed
        <5> QED
          BY <5>1, <5>2, <5>3 DEF Primed
      <4> QED
        BY <2>5, <2>10, <4>1, <4>2, <4>3
    <3> HIDE DEF m
    <3> QED
      BY <2>5, <2>6, <2>7, <2>8, <2>10, <3>1, <3>3 DEF Priming
  <2>11. CASE topic \in {"evidence", "assessment"}
    <3>1. /\ topic = "evidence" =>
               to_driver'.evidence = Tail(to_driver.evidence) /\ UNCHANGED to_driver.assessment
          /\ topic = "assessment" => to_driver.assessment # <<>>
          /\ UNCHANGED to_driver.decision
      BY <1>0, <2>1, <2>11
    <3>2. Primed' <=> Primed
      BY <2>5, <2>7, <2>11, <3>1 DEF Primed
    <3>3. CASE Primed
      BY <2>6, <2>8, <3>2, <3>3 DEF Priming
    <3>4. CASE ~Primed
      <4>1. topic = "evidence" /\ to_driver.evidence # <<>>
        BY <2>1, <2>11, <3>1, <3>4 DEF Priming
      <4>2. Contains(to_driver.evidence, m) /\ m \in Evidence /\ m # NoName /\ Matching(m)
            /\ \A x : Contains(to_driver'.evidence, x) => Contains(to_driver.evidence, x)
        <5>1. Contains(to_driver.evidence, m) /\ m \in Evidence
              /\ \A x : Contains(to_driver'.evidence, x) => Contains(to_driver.evidence, x)
          <6>1. m = Head(to_driver.evidence) /\ to_driver'.evidence = Tail(to_driver.evidence)
            BY <3>1, <4>1
          <6> QED
            BY <1>0, <4>1, <6>1, QueueFacts
        <5> QED
          BY <1>1, <3>4, <5>1 DEF Priming
      <4> HIDE DEF m
      <4>3. CASE driver.outstanding = Driver!NoFrame
        <5>1. e.outstanding = Driver!NoFrame
          BY <2>5, <4>1, <4>3 DEF Driver!Answers
        <5> QED
          BY <2>6, <2>7, <2>8, <3>1, <3>2, <3>4, <4>1, <4>2, <4>3, <5>1 DEF Priming
      <4>4. CASE driver.outstanding # Driver!NoFrame
        <5> DEFINE frame == [driver.outstanding EXCEPT !.evidence = m]
        <5>1. DOMAIN driver.outstanding = FrameFields
              /\ driver.outstanding.assessment = NoName
              /\ driver.outstanding.waypoint = Waypoints[1]
          BY <3>4, <4>4 DEF Priming, Shaped
        <5>2. Driver!Answers(driver, m)
          BY <4>2, <4>4, <5>1 DEF Driver!Answers, Matching
        <5>3. frame.evidence = m /\ frame.assessment = NoName /\ frame.waypoint = Waypoints[1]
          BY <5>1 DEF FrameFields
        <5>4. e.outstanding = Left(frame)
          BY <2>5, <4>1, <5>2
        <5> HIDE DEF frame
        <5>5. e.outstanding = frame
          BY <1>1, <5>3, <5>4 DEF Left, Driver!Settled
        <5>6. frame # Driver!NoFrame
          BY <1>1, <5>3 DEF Driver!NoFrame
        <5> QED
          BY <2>6, <2>7, <2>8, <3>1, <3>2, <3>4, <4>1, <4>2, <4>4, <5>3, <5>5, <5>6 DEF Priming
      <4> QED
        BY <4>3, <4>4
    <3> QED
      BY <3>3, <3>4
  <2> QED
    BY <1>0, <2>9, <2>10, <2>11
<1>5. ASSUME OnImage PROVE Priming'
  <2>1. /\ UNCHANGED Aloof /\ camera # <<>> /\ camera' = Tail(camera) /\ ticked'
    BY <1>5, BridgeActs DEF Aloof, TimersServed, Calm
  <2>2. ~Primed
    BY <2>1 DEF Priming
  <2>3. /\ Head(camera).waypoint = Waypoints[1] /\ ~Head(camera).malformed
        /\ Head(camera) \in Shots /\ Len(Tail(camera)) = Len(camera) - 1
        /\ \A x : Contains(camera', x) => Contains(camera, x)
        /\ Len(camera) \in Nat /\ Len(analysing) \in Nat
        /\ Len(analysing) = 0 <=> analysing = <<>>
    <3>1. /\ Contains(camera, Head(camera)) /\ Head(camera) \in Shots
          /\ Len(Tail(camera)) = Len(camera) - 1
          /\ \A x : Contains(camera', x) => Contains(camera, x)
      BY <1>0, <2>1, QueueFacts
    <3>2. /\ Len(camera) \in Nat /\ Len(analysing) \in Nat
          /\ Len(analysing) = 0 <=> analysing = <<>>
      BY <1>0, LenProperties, EmptySeq
    <3> QED
      BY <3>1, <3>2 DEF Priming
  <2>4. driver.outstanding # Driver!NoFrame
    BY <2>1, <2>2 DEF Priming
  <2>5. CASE UNCHANGED <<analysing, last_seen, to_driver.evidence,
                         to_driver.assessment, to_driver.decision>>
    <3>1. ~Primed'
      BY <2>1, <2>2, <2>5 DEF Primed, Aloof
    <3> QED
      BY <2>1, <2>2, <2>3, <2>4, <2>5, <3>1 DEF Priming, Aloof
  <2>6. CASE /\ analysing' = Append(analysing, Taken(Head(camera)))
             /\ to_driver'.evidence = Append(to_driver.evidence, EvidenceId(Head(camera)))
             /\ UNCHANGED <<last_seen, to_driver.assessment, to_driver.decision>>
    <3>1. ~Primed'
      BY <2>1, <2>2, <2>6 DEF Primed, Aloof
    <3>2. Matching(EvidenceId(Head(camera))) /\ EvidenceId(Head(camera)) \in Evidence
      <4>1. Head(camera).stamp \in DOMAIN Segment
        BY <2>3, SegmentAssumption DEF Shots
      <4>2. Head(camera).stamp \in 0 .. MaxTime
        BY <2>3 DEF Shots
      <4> QED
        BY <1>1, <2>3, <4>1, <4>2, OwnEvidence, EvidenceIdOK DEF EvidenceId, Matching
    <3>3. Taken(Head(camera)) \in Takes /\ Taken(Head(camera)).waypoint = Waypoints[1]
      <4>1. (reporter = "recording") \in BOOLEAN
        OBVIOUS
      <4> QED
        BY <2>3, <4>1 DEF Taken, Takes, Shots
    <3>4. /\ Len(analysing') = Len(analysing) + 1
          /\ \A x : Contains(analysing', x) => Contains(analysing, x) \/ x = Taken(Head(camera))
      BY <1>0, <2>6, <3>3, QueueFacts
    <3>5. /\ \A x : Contains(to_driver'.evidence, x) =>
                 Contains(to_driver.evidence, x) \/ x = EvidenceId(Head(camera))
          /\ to_driver'.evidence # <<>>
      <4>1. Contains(to_driver'.evidence, EvidenceId(Head(camera)))
        BY <1>0, <2>6, <3>2, QueueFacts
      <4>2. to_driver'.evidence # <<>>
        BY <4>1 DEF Contains
      <4> QED
        BY <1>0, <2>6, <3>2, <4>2, QueueFacts
    <3>6. driver' = driver
      BY <2>1 DEF Aloof
    <3>7. Len(camera') + Len(analysing') <= 1
      BY <2>1, <2>2, <2>3, <3>4 DEF Priming
    <3> QED
      BY <2>1, <2>2, <2>3, <2>4, <2>6, <3>1, <3>2, <3>3, <3>4, <3>5, <3>6, <3>7 DEF Priming
  <2> QED
    BY <1>5, <2>3, <2>5, <2>6, BridgeActs
<1>6. ASSUME Analyse PROVE Priming'
  <2>1. /\ UNCHANGED Aloof /\ analysing # <<>> /\ analysing' = Tail(analysing) /\ ticked'
        /\ camera' = camera /\ Assessed(Head(analysing))
    BY <1>6, BridgeActs DEF Aloof, TimersServed, Calm
  <2>2. ~Primed
    BY <2>1 DEF Priming
  <2>3. /\ Contains(analysing, Head(analysing)) /\ Head(analysing) \in Takes
        /\ Len(Tail(analysing)) = Len(analysing) - 1
        /\ Len(camera) \in Nat /\ Len(analysing) \in Nat /\ Len(Tail(analysing)) \in Nat
        /\ Len(camera) = 0 => camera = <<>>
        /\ Len(Tail(analysing)) = 0 => Tail(analysing) = <<>>
    BY <1>0, <2>1, QueueFacts, LenProperties, EmptySeq
  <2>4. Matching(EvidenceId(Head(analysing)))
    <3>1. Head(analysing).waypoint = Waypoints[1]
      BY <2>3 DEF Priming
    <3>2. Head(analysing).stamp \in DOMAIN Segment
      BY <2>3, SegmentAssumption DEF Takes
    <3> QED
      BY <1>1, <3>1, <3>2, OwnEvidence DEF EvidenceId, Matching
  <2>5. Primed'
    <3> DEFINE said == Says(EvidenceId(Head(analysing)))
    <3>1. to_driver'.decision = Append(to_driver.decision, said)
      BY <2>1 DEF Assessed, Verdict
    <3>2. said.evidence = EvidenceId(Head(analysing))
      BY DEF Says
    <3> HIDE DEF said
    <3>3. Contains(to_driver'.decision, said)
      BY <1>0, <3>1, Newest
    <3> QED
      BY <2>4, <3>2, <3>3 DEF Primed
  <2>6. camera' = <<>> /\ analysing' = <<>>
    BY <2>1, <2>2, <2>3 DEF Priming
  <2>7. \A x : ~Contains(<<>>, x)
    BY DEF Contains
  <2> QED
    BY <2>1, <2>5, <2>6, <2>7 DEF Priming
<1>7. ASSUME CheckWatchdog PROVE Priming'
  <2>1. /\ UNCHANGED <<Aloof, camera, analysing, last_seen, to_driver.evidence,
                       to_driver.assessment>>
        /\ \/ UNCHANGED <<to_driver.decision, to_orchestrator.decision>>
           \/ Verdict(last_seen)
    BY <1>7, BridgeActs
  <2>2. Primed => Primed'
    <3>1. CASE Verdict(last_seen)
      <4>1. to_driver'.decision = Append(to_driver.decision, Says(last_seen))
        BY <3>1 DEF Verdict
      <4>2. Says(last_seen) \in Sayings
        <5>1. Contains(to_driver'.decision, Says(last_seen))
          BY <1>0, <4>1, Newest
        <5> QED
          BY <1>0, <5>1, QueueFacts
      <4>3. \A x : Contains(to_driver.decision, x) => Contains(to_driver'.decision, x)
        BY <1>0, <4>1, <4>2, QueueFacts
      <4> QED
        BY <2>1, <4>3 DEF Primed, Aloof
    <3> QED
      BY <2>1, <3>1 DEF Primed, Aloof
  <2>3. ~Primed => ~Primed'
    <3>1. CASE ~Primed /\ Verdict(last_seen)
      <4>1. to_driver'.decision = Append(to_driver.decision, Says(last_seen))
        BY <3>1 DEF Verdict
      <4>2. Says(last_seen).evidence = NoName
        BY <3>1 DEF Priming, Says
      <4>3. Says(last_seen) \in Sayings
        <5>1. Contains(to_driver'.decision, Says(last_seen))
          BY <1>0, <4>1, Newest
        <5> QED
          BY <1>0, <5>1, QueueFacts
      <4>4. \A x : Contains(to_driver'.decision, x) =>
              Contains(to_driver.decision, x) \/ x = Says(last_seen)
        BY <1>0, <4>1, <4>3, QueueFacts
      <4> QED
        BY <1>1, <2>1, <3>1, <4>2, <4>4 DEF Primed, Aloof
    <3> QED
      BY <2>1, <3>1 DEF Primed, Aloof
  <2> QED
    BY <2>1, <2>2, <2>3 DEF Priming, Aloof
<1>8. ASSUME Orchestrates \/ Asides PROVE Priming'
  <2>1. UNCHANGED <<Private, to_driver.evidence, to_driver.assessment, to_driver.decision>>
    BY <1>8, OrchestratesFacts, AsideSteps DEF Telling
  <2> QED
    BY <1>2, <2>1 DEF Private, Priming
<1>9. ASSUME Pass PROVE Priming'
  <2>1. UNCHANGED <<Untouched, camera, to_driver>> /\ Served /\ driver' = Driver!Wait(driver)
    BY <1>9, DriverActs
  <2>2. driver'.outstanding = driver.outstanding /\ driver'.gate_open = driver.gate_open
    BY <2>1, WaitEffect DEF Besides, DriverFields
  <2>3. to_driver.decision = <<>>
    BY <1>0, <2>1 DEF Served, Empty
  <2>4. ~driver.gate_open => ~Primed
    BY <2>3 DEF Primed, Contains
  <2> QED
    BY <1>2, <2>1, <2>2, <2>4 DEF Untouched
<1> QED
  BY <1>3, <1>4, <1>5, <1>6, <1>7, <1>8, <1>9, StepKinds

\* The invariant holds at first, is kept by every step, and so holds always.
LEMMA PreparedInit == EInit => Prepared
<1> SUFFICES ASSUME EInit PROVE Prepared
  OBVIOUS
<1>1. Wired
  BY WiredInit
<1>2. /\ script \in Scenarios /\ driver = Driver!NewDriver(script.options) /\ ticked = FALSE
      /\ camera = <<>> /\ analysing = <<>> /\ last_seen = NoName
      /\ to_orchestrator.call = <<>> /\ to_orchestrator.reached = <<>>
      /\ to_driver.evidence = <<>> /\ to_driver.assessment = <<>>
      /\ to_driver.decision = <<>> /\ to_driver.state = <<>>
      /\ missions = 0 /\ reporter = "idle"
      /\ state = "IDLE" /\ active_goal = NoName /\ waypoint_index = 0
  BY DEF EInit, NInit, Init
<1>3. /\ DOMAIN driver = DriverFields /\ driver.options = script.options
      /\ driver.phase = Driver!OfAllGoals("none") /\ driver.samples = Driver!OfAllGoals(0)
      /\ driver.outstanding = Driver!NoFrame /\ driver.commands = {} /\ driver.fired = {}
      /\ ~driver.gate_open /\ ~driver.started /\ ~driver.completed
      /\ driver.mission.state = "IDLE" /\ driver.mission.goal = NoName
  BY <1>2 DEF Driver!NewDriver, DriverFields, NoName, Driver!NoName
<1>4. Shaped(driver)
  BY <1>1, <1>2, <1>3, ScenarioAssumption
     DEF Shaped, Wired, DriverOK, Driver!OfAllGoals, Driver!Phases
<1>5. \A x : ~Contains(<<>>, x)
  BY DEF Contains
<1>6. Formed /\ Calm /\ ~Begun
  BY <1>2, <1>3, <1>4 DEF Formed, Calm, Begun
<1>7. Ahead
  BY <1>2, <1>3, <1>5 DEF Ahead, Asleep, Idle
<1>8. Len(<<>>) = 0
  BY EmptySeq
<1>9. ~Primed /\ Priming
  BY <1>2, <1>3, <1>5, <1>8 DEF Priming, Primed
<1> QED
  BY <1>6, <1>7, <1>9 DEF Prepared

LEMMA PreparedStep ==
  ASSUME Wired, Wired', TypeOK', Prepared, [ENext]_evars PROVE Prepared'
<1> USE DEF Prepared
<1>1. Formed' /\ Calm'
  BY FormedStep, CalmStep
<1>2. CASE Begun
  BY <1>1, <1>2, BegunStays, UnderStep
<1>3. CASE ~Begun /\ Begun'
  BY <1>1, <1>3, BeginsStep
<1>4. CASE ~Begun /\ ~Begun'
  BY <1>1, <1>4, AheadStep, PrimingStep
<1> QED
  BY <1>2, <1>3, <1>4

LEMMA PreparedAlways == ESpec => [](Wired /\ NSafe /\ Pictured /\ Prepared)
<1>1. EInit => Prepared
  BY PreparedInit
<1>2. Wired /\ NSafe /\ Pictured /\ (Wired /\ NSafe /\ Pictured)' /\ Prepared /\ [ENext]_evars
      => Prepared'
  <2> SUFFICES ASSUME Wired, NSafe, Wired', Prepared, [ENext]_evars PROVE Prepared'
    OBVIOUS
  <2>1. TypeOK'
    BY NodeRuns, MachineSafe
  <2> QED
    BY <2>1, PreparedStep
<1> QED
  BY <1>1, <1>2, WiredAlways, PTL DEF ESpec

\* No frame straddles the opening of a report: what the bridge assesses while the first
\* mission's report is open (node.py's image callback and its worker) was captured for it,
\* whatever the latency, and whoever starts the mission.
THEOREM NoFrameStraddlesAlways == ESpec => NoFrameStraddles
<1>1. Wired /\ Prepared /\ Analyse /\ reporter = "recording" /\ missions <= 1
      => Head(analysing).recorded
  <2> SUFFICES ASSUME Wired, Prepared, Analyse, reporter = "recording", missions <= 1
               PROVE  Head(analysing).recorded
    OBVIOUS
  <2>1. Begun
    BY DEF Prepared, Ahead
  <2>2. \A frame : Contains(analysing, frame) => frame.recorded
    BY <2>1 DEF Prepared, Under
  <2>3. analysing # <<>> /\ analysing \in Seq(Takes)
    BY BridgeActs DEF Wired
  <2> QED
    BY <2>2, <2>3, QueueFacts
<1>2. Wired /\ NSafe /\ Pictured /\ Prepared =>
        [Analyse /\ reporter = "recording" /\ missions <= 1 => Head(analysing).recorded]_evars
  BY <1>1
<1> QED
  BY <1>2, PreparedAlways, PTL DEF NoFrameStraddles

-----------------------------------------------------------------------------
\* A goal at which a fault halts the driver is never left.

\* The faults at which the driver itself halts: it shows the goal no more frames.
Blocking == {"camera_stall", "forged"}

\* Whichever position of the route such a fault strikes, the first mission ends before it.
HaltsStopTheMission ==
  \A kind \in Blocking :
    Struck(kind) # Driver!Disabled /\ missions <= 1 => waypoint_index < Struck(kind)

\* Until the fault strikes the goal is at most being filmed, and the driver does not yet know
\* of motion to it; then the driver has halted there.
Barred(d, kind, goal) ==
  /\ kind \notin d.fired => /\ d.phase[goal] \in {"none", "streaming"}
                            /\ ~(Driver!Moving(d) /\ d.mission.goal = goal)
  /\ kind \in d.fired => d.phase[goal] = "halted"

\* What is told of idleness was told before the mission, of which the driver then knows nothing.
Ordered(d, q) ==
  /\ d.mission.state = "IDLE" => Asleep(d)
  /\ \A i \in 1 .. Len(q) :
       q[i].state = "IDLE" => Asleep(d) /\ \A j \in 1 .. i : Idle(q[j])

\* So nobody reports the arrival at the goal, and the orchestrator keeps to the route.
Guarded(kind, goal) ==
  /\ active_goal = NextGoal(waypoint_index)
  /\ Ordered(driver, to_driver.state) /\ Barred(driver, kind, goal)
  /\ ~Contains(to_orchestrator.reached, goal)
Bounded(kind, stop) ==
  waypoint_index < stop /\ (state \notin Deaf => Guarded(kind, Waypoints[stop]))

\* A goal has one place on the route and at most one fault, and none is the intruder.
LEMMA OneFault ==
  ASSUME NEW d, d.options.plan \in Driver!Plans, NEW kind \in Blocking,
         NEW stop, stop = d.options.plan[kind], stop # Driver!Disabled
  PROVE  /\ stop \in 1 .. Len(Waypoints) /\ Waypoints[stop] \in Names
         /\ Waypoints[stop] # Intruder /\ Waypoints[stop] # NoName
         /\ Driver!Strikes(d, kind, Waypoints[stop]) <=> kind \notin d.fired
         /\ \A goal : Driver!Strikes(d, kind, goal) => goal = Waypoints[stop]
         /\ \A other \in Blocking : Driver!Strikes(d, other, Waypoints[stop]) => other = kind
<1>1. Waypoints \in Seq(Names) /\ NoName \notin Names
  BY WaypointsAssumption, NameFacts
<1>2. /\ d.options.plan \in [Driver!FaultKinds -> {Driver!Disabled} \cup DOMAIN Waypoints]
      /\ \A k, l \in Driver!FaultKinds :
           d.options.plan[k] = d.options.plan[l] => k = l \/ d.options.plan[k] = Driver!Disabled
  BY DEF Driver!Plans
<1>3. Blocking \subseteq Driver!FaultKinds
  BY DEF Blocking, Driver!FaultKinds
<1>4. stop \in 1 .. Len(Waypoints) /\ Waypoints[stop] \in Names
  BY <1>1, <1>2, <1>3
<1>5. Waypoints[stop] # Intruder
  BY <1>1, <1>4, DriverAssumption
<1>6. Driver!Strikes(d, kind, Waypoints[stop]) <=> kind \notin d.fired
  BY DEF Driver!Strikes
<1>7. ASSUME NEW other \in Blocking, Driver!Strikes(d, other, Waypoints[stop])
      PROVE  other = kind
  <2>1. /\ d.options.plan[other] # Driver!Disabled
        /\ Waypoints[d.options.plan[other]] = Waypoints[stop]
    BY <1>7 DEF Driver!Strikes
  <2>2. d.options.plan[other] \in 1 .. Len(Waypoints)
    BY <1>1, <1>2, <1>3, <2>1
  <2>3. d.options.plan[other] = stop
    BY <1>4, <2>1, <2>2, WaypointsAssumption
  <2> QED
    BY <1>2, <1>3, <2>1, <2>3
<1>8. \A goal : Driver!Strikes(d, kind, goal) => goal = Waypoints[stop]
  BY DEF Driver!Strikes
<1> QED
  BY <1>1, <1>4, <1>5, <1>6, <1>7, <1>8

\* Hearing a mission state leaves the goal barred, and its arrival unreported.
LEMMA BarredTelling ==
  ASSUME NEW d, Shaped(d), d.commands = {}, NEW m \in Tellings, m.state # "IDLE",
         NEW kind \in Blocking, NEW stop, stop = d.options.plan[kind],
         stop # Driver!Disabled, NEW goal, goal = Waypoints[stop], Barred(d, kind, goal),
         NEW e, e = Driver!OnMissionState(d, m)
  PROVE  Barred(e, kind, goal) /\ Driver!Reached(goal) \notin e.commands
<1>0. /\ goal \in Names /\ goal # Intruder
      /\ Driver!Strikes(d, kind, goal) <=> kind \notin d.fired
      /\ \A x : Driver!Strikes(d, kind, x) => x = goal
      /\ \A other \in Blocking : Driver!Strikes(d, other, goal) => other = kind
  BY OneFault DEF Shaped
<1>1. /\ e.mission = m
      /\ e.commands \subseteq Answering(m.goal)
      /\ \A other \in Names : other # m.goal => e.phase[other] = d.phase[other]
      /\ kind \in e.fired <=> kind \in d.fired \/ StruckNow(d, kind, m)
      /\ FaultNow(d, m) => /\ m.goal \in Names /\ e.phase[m.goal] = "halted"
                           /\ e.commands \subseteq {Driver!Call("abort"), Driver!Complete,
                                                    Driver!Reached(Intruder)}
      /\ ~FaultNow(d, m) /\ m.goal \in Names =>
           /\ d.phase[m.goal] = "none" => e.phase[m.goal] = "streaming"
           /\ d.phase[m.goal] \in {"streaming", "reported", "halted"} =>
                e.phase[m.goal] = d.phase[m.goal]
           /\ e.phase[m.goal] # "reported" =>
                e.commands \subseteq {Driver!Call("abort"), Driver!Complete}
  BY TellingEffect DEF Blocking
<1>2. \A other : other # goal => Driver!Reached(goal) # Driver!Reached(other)
  BY CommandKinds
<1>3. Driver!Reached(goal) \notin {Driver!Call("abort"), Driver!Complete, Driver!Reached(Intruder)}
  BY <1>0, <1>2, CommandKinds
<1>4. CASE m.goal # goal
  <2>1. ~StruckNow(d, kind, m)
    BY <1>0, <1>4 DEF StruckNow
  <2>2. Driver!Reached(goal) \notin e.commands
    BY <1>1, <1>2, <1>3, <1>4 DEF Answering
  <2> QED
    BY <1>0, <1>1, <1>4, <2>1, <2>2 DEF Barred
<1>5. CASE m.goal = goal /\ kind \in d.fired
  <2>1. d.phase[goal] = "halted" /\ kind \in e.fired
    BY <1>1, <1>5 DEF Barred
  <2>2. e.phase[goal] = "halted"
    BY <1>0, <1>1, <1>5, <2>1
  <2>3. Driver!Reached(goal) \notin e.commands
    BY <1>0, <1>1, <1>3, <1>5, <2>2
  <2> QED
    BY <2>1, <2>2, <2>3 DEF Barred
<1>6. CASE m.goal = goal /\ kind \notin d.fired /\ StruckNow(d, kind, m)
  <2>1. FaultNow(d, m) /\ kind \in e.fired
    BY <1>1, <1>6 DEF FaultNow, Blocking
  <2> QED
    BY <1>1, <1>3, <1>6, <2>1 DEF Barred
<1>7. CASE m.goal = goal /\ kind \notin d.fired /\ ~StruckNow(d, kind, m)
  <2>1. ~(m.state = "MOVING" /\ m.authorized)
    BY <1>0, <1>7 DEF StruckNow
  <2>2. ~FaultNow(d, m)
    BY <2>1 DEF FaultNow, StruckNow
  <2>3. kind \notin e.fired /\ ~Driver!Moving(e)
    BY <1>1, <1>7, <2>1 DEF Driver!Moving
  <2>4. d.phase[goal] \in {"none", "streaming"}
    BY <1>7 DEF Barred
  <2>5. e.phase[goal] = "streaming"
    BY <1>0, <1>1, <1>7, <2>2, <2>4
  <2> QED
    BY <1>0, <1>1, <1>3, <1>7, <2>2, <2>3, <2>5 DEF Barred
<1> QED
  BY <1>4, <1>5, <1>6, <1>7

\* Motion seen counts for the goal it is seen to, if it counts.
LEMMA CountedMotion ==
  ASSUME NEW d, Shaped(d), d.commands = {}, NEW nonzero, NEW e, e = Driver!OnCmdVel(d, nonzero)
  PROVE  \/ e = d
         \/ /\ Driver!Counted(d)
            /\ Besides({"samples", "phase", "fired", "stall", "commands"}, d, e)
            /\ \A other \in Names : other # d.mission.goal => e.phase[other] = d.phase[other]
            /\ e.fired = d.fired \/ e.fired = d.fired \cup {"desired_stall"}
            /\ e.commands \subseteq {Driver!Reached(d.mission.goal)}
<1>1. e = d \/ Driver!Counted(d)
  BY MotionEffect
<1>2. Besides({"samples", "phase", "fired", "stall", "commands"}, d, e)
  BY MotionEffect
<1>3. \A other \in Names : other # d.mission.goal => e.phase[other] = d.phase[other]
  BY MotionEffect
<1>4. e.fired = d.fired \/ e.fired = d.fired \cup {"desired_stall"}
  BY MotionEffect
<1>5. e.commands \subseteq {Driver!Reached(d.mission.goal)}
  BY MotionEffect
<1> QED
  BY <1>1, <1>2, <1>3, <1>4, <1>5

\* So does hearing anything else, and a driver that knows of no mission learns of none.
LEMMA BarredHeard ==
  ASSUME Wired, Formed, NEW topic \in DOMAIN to_driver, to_driver[topic] # <<>>,
         NEW e, e = Handled(topic, Head(to_driver[topic])),
         NEW kind \in Blocking, NEW stop, stop = driver.options.plan[kind],
         stop # Driver!Disabled, NEW goal, goal = Waypoints[stop],
         Barred(driver, kind, goal), Ordered(driver, to_driver.state)
  PROVE  /\ Barred(e, kind, goal) /\ Driver!Reached(goal) \notin e.commands
         /\ e.mission.state = "IDLE" => Asleep(e)
         /\ topic # "state" /\ Asleep(driver) => Asleep(e)
         /\ topic = "state" /\ Head(to_driver.state).state = "IDLE" => Asleep(e)
<1> USE DEF Formed
<1> DEFINE m == Head(to_driver[topic])
<1>0. /\ DOMAIN to_driver = {"evidence", "assessment", "decision", "state", "cmd_vel",
                             "report", "request"}
      /\ goal \in Names /\ goal # NoName
      /\ e.mission = IF topic = "state" THEN m ELSE driver.mission
  <2>1. goal \in Names /\ goal # NoName
    BY OneFault DEF Shaped
  <2>2. e.mission = IF topic = "state" THEN m ELSE driver.mission
    BY HandledEffect
  <2> QED
    BY <2>1, <2>2 DEF Wired, DriverInbox
<1>1. topic = "state" => m \in Tellings
  BY <1>0, TakenOff DEF Wired, DriverInbox
<1>2. topic = "state" /\ m.state = "IDLE" => Idle(m) /\ Asleep(driver)
  <2>1. ASSUME topic = "state", m.state = "IDLE" PROVE Idle(m) /\ Asleep(driver)
    <3>1. to_driver.state \in Seq(Tellings) /\ to_driver.state # <<>>
      BY <1>0, <2>1 DEF Wired, DriverInbox
    <3>2. 1 \in 1 .. Len(to_driver.state) /\ to_driver.state[1] = m
      BY <2>1, <3>1
    <3> QED
      BY <2>1, <3>2 DEF Ordered
  <2> QED
    BY <2>1
<1>3. Asleep(driver) /\ (topic = "state" => Idle(m)) => Asleep(e)
                                            /\ Driver!Reached(goal) \notin e.commands
  BY AsleepEffect
<1>4. topic # "state" /\ Asleep(driver) => Asleep(e)
  BY <1>3
<1>5. topic = "state" /\ m.state = "IDLE" => Asleep(e)
  BY <1>2, <1>3
<1>6. e.mission.state = "IDLE" => Asleep(e)
  <2>1. topic # "state" /\ driver.mission.state = "IDLE" => Asleep(driver)
    BY DEF Ordered
  <2> QED
    BY <1>0, <1>4, <1>5, <2>1
<1>7. ASSUME Asleep(e) PROVE Barred(e, kind, goal)
  BY <1>0, <1>7 DEF Asleep, Idle, Barred, Driver!OfAllGoals, Driver!Moving
<1>8. ASSUME NEW fields, Besides(fields, driver, e), topic # "state",
             fields \cap {"phase", "fired", "mission"} = {}
      PROVE  Barred(e, kind, goal)
  BY <1>8 DEF Barred, Besides, DriverFields, Driver!Moving
<1>9. CASE topic \in {"evidence", "assessment"}
  <2>1. /\ Besides({"phase", "commands", "last_evidence", "outstanding"}, driver, e)
        /\ Progress(driver, e)
    BY <1>9, AnswerEffect DEF Handled
  <2>2. e.mission = driver.mission /\ e.fired = driver.fired
    BY <2>1 DEF Besides, DriverFields
  <2>3. Leaving(driver) => driver.mission.goal # goal
    BY DEF Leaving, Driver!InPhase, Barred
  <2>4. e.phase[goal] = driver.phase[goal]
    BY <1>0, <2>1, <2>3 DEF Progress
  <2>5. Driver!Reached(goal) \notin e.commands
    BY <2>1, <2>3, CommandKinds DEF Progress
  <2>6. Barred(e, kind, goal)
    BY <2>2, <2>4 DEF Barred, Driver!Moving
  <2> QED
    BY <1>4, <1>5, <1>6, <2>5, <2>6
<1>10. CASE topic = "decision"
  <2>1. /\ Besides({"gate_open", "started", "commands"}, driver, e)
        /\ e.commands = {} \/ e.commands = {Driver!Call("start")}
    BY <1>10, DecisionEffect DEF Handled
  <2>2. Driver!Reached(goal) \notin e.commands
    BY <2>1, CommandKinds
  <2> QED
    BY <1>4, <1>5, <1>6, <1>8, <1>10, <2>1, <2>2
<1>11. CASE topic = "state"
  <2>1. e = Driver!OnMissionState(driver, m)
    BY <1>11 DEF Handled
  <2>2. CASE m.state = "IDLE"
    BY <1>2, <1>3, <1>4, <1>5, <1>6, <1>7, <1>11, <2>2
  <2>3. CASE m.state # "IDLE"
    BY <1>1, <1>4, <1>5, <1>6, <1>11, <2>1, <2>3, BarredTelling
  <2> QED
    BY <2>2, <2>3
<1>12. CASE topic = "cmd_vel"
  <2>1. e = Driver!OnCmdVel(driver, m)
    BY <1>12 DEF Handled
  <2>2. CASE e = driver
    BY <1>4, <1>5, <1>6, <2>2
  <2>3. CASE e # driver
    <3>1. driver.mission.goal # goal
      BY <2>1, <2>3, CountedMotion DEF Driver!Counted, Driver!InPhase, Barred
    <3>2. /\ Besides({"samples", "phase", "fired", "stall", "commands"}, driver, e)
          /\ e.phase[goal] = driver.phase[goal]
          /\ e.fired = driver.fired \/ e.fired = driver.fired \cup {"desired_stall"}
          /\ e.commands \subseteq {Driver!Reached(driver.mission.goal)}
      BY <1>0, <2>1, <2>3, <3>1, CountedMotion
    <3>3. Driver!Reached(goal) \notin e.commands
      BY <3>1, <3>2, CommandKinds
    <3>4. Barred(e, kind, goal)
      BY <3>1, <3>2 DEF Barred, Blocking, Besides, DriverFields, Driver!Moving
    <3> QED
      BY <1>4, <1>5, <1>6, <3>3, <3>4
  <2> QED
    BY <2>2, <2>3
<1>13. CASE topic = "report"
  <2>1. /\ Besides({"recording", "finalized", "completed", "commands"}, driver, e)
        /\ e.commands \subseteq {Driver!Complete}
    BY <1>13, ReportEffect DEF Handled
  <2>2. Driver!Reached(goal) \notin e.commands
    BY <2>1, CommandKinds
  <2> QED
    BY <1>4, <1>5, <1>6, <1>8, <1>13, <2>1, <2>2
<1>14. CASE topic = "request"
  <2>1. Besides({"next_frame"}, driver, e)
    BY <1>14, WaitEffect DEF Handled
  <2>2. Driver!Reached(goal) \notin e.commands
    BY <2>1 DEF Besides, DriverFields
  <2> QED
    BY <1>4, <1>5, <1>6, <1>8, <1>14, <2>1, <2>2
<1> QED
  BY <1>0, <1>9, <1>10, <1>11, <1>12, <1>13, <1>14

\* What is told, and what has been heard, stays in that order.
LEMMA OrderedKept ==
  ASSUME NEW d, NEW q \in Seq(Tellings), Ordered(d, q), NEW e,
         e.mission.state = "IDLE" => Asleep(e)
  PROVE  /\ (Asleep(d) => Asleep(e)) => Ordered(e, q)
         /\ q # <<>> /\ (Head(q).state = "IDLE" => Asleep(e)) => Ordered(e, Tail(q))
         /\ \A m \in Tellings : m.state # "IDLE" => Ordered(d, Append(q, m))
<1>1. (Asleep(d) => Asleep(e)) => Ordered(e, q)
  BY DEF Ordered
<1>2. ASSUME q # <<>>, Head(q).state = "IDLE" => Asleep(e) PROVE Ordered(e, Tail(q))
  <2>1. /\ Len(Tail(q)) = Len(q) - 1 /\ Len(q) \in Nat \ {0} /\ Head(q) = q[1]
        /\ \A i \in 1 .. Len(Tail(q)) : Tail(q)[i] = q[i + 1]
    BY <1>2
  <2>2. ASSUME NEW i \in 1 .. Len(Tail(q)), Tail(q)[i].state = "IDLE"
        PROVE  Asleep(e) /\ \A j \in 1 .. i : Idle(Tail(q)[j])
    <3>1. i + 1 \in 1 .. Len(q) /\ q[i + 1].state = "IDLE"
      BY <2>1, <2>2
    <3>2. \A j \in 1 .. i + 1 : Idle(q[j])
      BY <3>1 DEF Ordered
    <3>3. 1 \in 1 .. i + 1 /\ \A j \in 1 .. i : j + 1 \in 1 .. i + 1 /\ j \in 1 .. Len(Tail(q))
      BY <2>1
    <3>4. Head(q).state = "IDLE"
      BY <2>1, <3>2, <3>3 DEF Idle
    <3> QED
      BY <1>2, <2>1, <3>2, <3>3, <3>4
  <2> QED
    BY <2>2 DEF Ordered
<1>3. ASSUME NEW m \in Tellings, m.state # "IDLE" PROVE Ordered(d, Append(q, m))
  <2>1. /\ Len(Append(q, m)) = Len(q) + 1 /\ Append(q, m)[Len(q) + 1] = m
        /\ \A i \in 1 .. Len(q) : Append(q, m)[i] = q[i]
    OBVIOUS
  <2>2. ASSUME NEW i \in 1 .. Len(q) + 1, Append(q, m)[i].state = "IDLE"
        PROVE  Asleep(d) /\ \A j \in 1 .. i : Idle(Append(q, m)[j])
    <3>1. i \in 1 .. Len(q) /\ q[i].state = "IDLE"
      BY <1>3, <2>1, <2>2
    <3>2. Asleep(d) /\ \A j \in 1 .. i : Idle(q[j])
      BY <3>1 DEF Ordered
    <3>3. \A j \in 1 .. i : Append(q, m)[j] = q[j]
      BY <2>1, <3>1
    <3> QED
      BY <3>2, <3>3
  <2> QED
    BY <2>1, <2>2 DEF Ordered
<1> QED
  BY <1>1, <1>2, <1>3

\* The orchestrator moves along the route, when it hears of the arrival at its goal, or is
\* back at its beginning and deaf.
LEMMA CourseFacts ==
  ASSUME Wired, Orchestrates, ~(Operate /\ OperatorStart),
         ~Contains(to_orchestrator.call, "start")
  PROVE  \/ UNCHANGED <<active_goal, waypoint_index>>
         \/ waypoint_index' = 0 /\ state' \in Deaf
         \/ /\ state = "MOVING" /\ Contains(to_orchestrator.reached, active_goal)
            /\ waypoint_index' = waypoint_index + 1
            /\ active_goal' = NextGoal(waypoint_index + 1)
<1> USE DEF Deaf, Reject, Transition, progress
<1>1. CASE OrchestratorHears("decision", Decided)
  <2>1. Decided(Head(to_orchestrator.decision))
    BY <1>1 DEF OrchestratorHears
  <2>2. UNCHANGED progress
    BY <2>1 DEF Decided, OnPolicy, ApplyPolicy
  <2> QED
    BY <2>2
<1>2. CASE OrchestratorHears("reached", Arrived)
  <2>1. /\ to_orchestrator.reached # <<>> /\ Arrived(Head(to_orchestrator.reached))
        /\ to_orchestrator.reached \in Seq(Names)
    BY <1>2 DEF OrchestratorHears, Wired, OrchestratorInbox
  <2>2. Contains(to_orchestrator.reached, Head(to_orchestrator.reached))
    BY <2>1, QueueFacts
  <2> QED
    BY <2>1, <2>2 DEF Arrived, WaypointReached, Arrive
<1>3. CASE OrchestratorHears("call", Called)
  <2>1. to_orchestrator.call # <<>> /\ Called(Head(to_orchestrator.call))
    BY <1>3 DEF OrchestratorHears
  <2>2. Head(to_orchestrator.call) # "start"
    BY <2>1, QueueFacts DEF Wired, OrchestratorInbox
  <2> QED
    BY <2>1, <2>2 DEF Called, Abort
<1>4. CASE WatchdogTimer
  BY <1>4, OrchestratorSpeaks DEF Watchdog, Machine
<1>5. CASE Heartbeat \/ Unheard \/ ComeUp \/ Crash
  BY <1>5, OrchestratorSpeaks DEF Machine
<1>6. CASE Operate
  BY <1>6 DEF Operate, OperatorReset, Reset
<1> QED
  BY <1>1, <1>2, <1>3, <1>4, <1>5, <1>6 DEF Orchestrates

\* What is told is the orchestrator's new phase, and one deaf to decisions stays so.
LEMMA ToldOrNot ==
  ASSUME Wired, Wired', Orchestrates
  PROVE  /\ UNCHANGED driver /\ to_driver.state \in Seq(Tellings)
         /\ \/ UNCHANGED to_driver.state
            \/ to_driver'.state = Append(to_driver.state, Told) /\ Told \in Tellings
         /\ Told.state = state'
         /\ \A x : Contains(to_orchestrator'.reached, x) => Contains(to_orchestrator.reached, x)
<1>1. /\ to_driver.state \in Seq(Tellings) /\ to_driver'.state \in Seq(Tellings)
      /\ to_orchestrator.reached \in Seq(Names)
  BY DEF Wired, DriverInbox, OrchestratorInbox
<1>2. Telling /\ \/ UNCHANGED to_orchestrator
                 \/ \E topic \in {"decision", "reached", "call"} :
                      Hears(topic, to_orchestrator[topic])
  BY OrchestratesFacts
<1>3. \/ UNCHANGED to_orchestrator.reached
      \/ to_orchestrator.reached # <<>> /\ to_orchestrator'.reached = Tail(to_orchestrator.reached)
  BY <1>2 DEF Hears
<1>4. \A x : Contains(to_orchestrator'.reached, x) => Contains(to_orchestrator.reached, x)
  BY <1>1, <1>3, QueueFacts
<1>5. UNCHANGED driver /\ (UNCHANGED to_driver.state
                           \/ to_driver'.state = Append(to_driver.state, Told))
  BY <1>2 DEF Telling, Private
<1>6. to_driver'.state = Append(to_driver.state, Told) => Told \in Tellings
  <2>1. Append(to_driver.state, Told)[Len(to_driver.state) + 1] = Told
    BY <1>1
  <2>2. ASSUME to_driver'.state = Append(to_driver.state, Told)
        PROVE  Len(to_driver.state) + 1 \in 1 .. Len(to_driver'.state)
    BY <1>1, <2>2
  <2> QED
    BY <1>1, <2>1, <2>2
<1>7. Told.state = state'
  BY DEF Told
<1> QED
  BY <1>1, <1>4, <1>5, <1>6, <1>7

\* The orchestrator's steps, while the first mission is under way.
LEMMA OrchestratorBounded ==
  ASSUME Wired, Wired', Formed, Orchestrates, ~(Operate /\ OperatorStart),
         ~Contains(to_orchestrator.call, "start"), waypoint_index \in Nat,
         NEW kind, NEW stop \in 1 .. Len(Waypoints), Bounded(kind, stop)
  PROVE  Bounded(kind, stop)'
<1> DEFINE goal == Waypoints[stop]
<1>1. state \in Deaf => state' \in Deaf
  BY DeafStays
<1>2. /\ UNCHANGED driver /\ to_driver.state \in Seq(Tellings)
      /\ \/ UNCHANGED to_driver.state
         \/ to_driver'.state = Append(to_driver.state, Told) /\ Told \in Tellings
      /\ Told.state = state'
      /\ \A x : Contains(to_orchestrator'.reached, x) => Contains(to_orchestrator.reached, x)
  BY ToldOrNot
<1>3. ASSUME state' \notin Deaf
      PROVE  /\ Ordered(driver', to_driver'.state) /\ Barred(driver', kind, goal)
             /\ ~Contains(to_orchestrator'.reached, goal)
  <2>1. Guarded(kind, goal)
    BY <1>1, <1>3 DEF Bounded
  <2>2. Told.state # "IDLE"
    BY <1>2, <1>3 DEF Deaf
  <2>3. driver.mission.state = "IDLE" => Asleep(driver)
    BY <2>1 DEF Guarded, Ordered
  <2>4. Ordered(driver, to_driver'.state)
    BY <1>2, <2>1, <2>2, <2>3, OrderedKept DEF Guarded
  <2> QED
    BY <1>2, <2>1, <2>4 DEF Guarded
<1>4. CASE UNCHANGED <<active_goal, waypoint_index>>
  BY <1>1, <1>3, <1>4 DEF Bounded, Guarded, NextGoal
<1>5. CASE waypoint_index' = 0 /\ state' \in Deaf
  BY <1>5 DEF Bounded
<1>6. CASE /\ state = "MOVING" /\ Contains(to_orchestrator.reached, active_goal)
           /\ waypoint_index' = waypoint_index + 1
           /\ active_goal' = NextGoal(waypoint_index + 1)
  <2>1. Guarded(kind, goal) /\ waypoint_index < stop
    BY <1>6 DEF Bounded, Deaf
  <2>2. waypoint_index + 1 # stop
    <3>1. ASSUME waypoint_index + 1 = stop PROVE FALSE
      <4>1. waypoint_index < Len(Waypoints)
        BY <2>1
      <4>2. active_goal = goal
        BY <2>1, <3>1, <4>1 DEF Guarded, NextGoal
      <4> QED
        BY <1>6, <2>1, <4>2 DEF Guarded
    <3> QED
      BY <3>1
  <2>3. waypoint_index' < stop /\ active_goal' = NextGoal(waypoint_index')
    BY <1>6, <2>1, <2>2
  <2> QED
    BY <1>3, <2>3 DEF Bounded, Guarded, NextGoal
<1> QED
  BY <1>4, <1>5, <1>6, CourseFacts

\* The driver's callbacks.
LEMMA DriverBounded ==
  ASSUME Wired, Formed, NEW kind \in Blocking, NEW stop, stop = driver.options.plan[kind],
         stop # Driver!Disabled, Bounded(kind, stop),
         OnTick \/ (\E topic \in DOMAIN to_driver : DriverHears(topic)) \/ Pass
  PROVE  Bounded(kind, stop)'
<1> USE DEF Formed
<1> DEFINE goal == Waypoints[stop]
           q == to_driver.state
<1>0. /\ "state" \in DOMAIN to_driver /\ q \in Seq(Tellings)
  BY DEF Wired, DriverInbox
<1>1. UNCHANGED <<state, active_goal, waypoint_index>>
  BY DriverActs DEF Untouched, Machine
<1>2. SUFFICES ASSUME state \notin Deaf
               PROVE  /\ Ordered(driver', to_driver'.state) /\ Barred(driver', kind, goal)
                      /\ ~Contains(to_orchestrator'.reached, goal)
  BY <1>1 DEF Bounded, Guarded, NextGoal
<1>3. /\ Ordered(driver, q) /\ Barred(driver, kind, goal)
      /\ ~Contains(to_orchestrator.reached, goal)
      /\ driver.mission.state = "IDLE" => Asleep(driver)
  BY <1>2 DEF Bounded, Guarded, Ordered
<1>4. ASSUME NEW e, Besides({"commands"}, e, driver')
      PROVE  /\ Asleep(driver') <=> Asleep(e)
             /\ driver'.mission = e.mission
             /\ Barred(e, kind, goal) => Barred(driver', kind, goal)
  BY <1>4 DEF Besides, DriverFields, Asleep, Barred, Driver!Moving
<1>5. ASSUME NEW e, e.mission = driver.mission, e.phase = driver.phase,
             kind \in e.fired <=> kind \in driver.fired,
             driver.mission.state = "IDLE" => e.fired = driver.fired
      PROVE  /\ Barred(e, kind, goal) /\ (Asleep(driver) => Asleep(e))
             /\ e.mission.state = "IDLE" => Asleep(e)
  BY <1>3, <1>5 DEF Asleep, Idle, Barred, Driver!Moving
<1>6. CASE OnTick
  <2> DEFINE e == Driver!OnTick(GraphSeen)
  <2>1. /\ Shaped(e) /\ DriverOK(e)
        /\ Besides({"graph_ready", "stall", "commands", "fired", "outstanding", "next_frame"},
                   driver, e)
        /\ \A x : Driver!Reached(x) \notin e.commands
        /\ \/ e.fired = driver.fired
           \/ \E name, malformed : malformed \in BOOLEAN /\ Shoots(driver, e, name, malformed)
    BY TickStep
  <2>2. Execute(e) /\ UNCHANGED to_driver
    BY <1>6, DriverActs
  <2> HIDE DEF e
  <2>3. \/ e.fired = driver.fired
        \/ /\ e.fired \in {driver.fired \cup {"malformed"}, driver.fired \cup {"wrong_goal"}}
           /\ Driver!MayStream(driver)
    BY <2>1 DEF Shoots
  <2>4. kind \in e.fired <=> kind \in driver.fired
    BY <2>3 DEF Blocking
  <2>5. driver.mission.state = "IDLE" => e.fired = driver.fired
    BY <2>3 DEF Driver!MayStream, Driver!StreamingStates
  <2>6. e.mission = driver.mission /\ e.phase = driver.phase
    BY <2>1 DEF Besides, DriverFields
  <2>7. /\ Besides({"commands"}, e, driver') /\ ~Contains(to_orchestrator'.reached, goal)
    BY <1>3, <2>1, <2>2, Executed
  <2>8. Barred(e, kind, goal) /\ (Asleep(driver) => Asleep(e))
        /\ (e.mission.state = "IDLE" => Asleep(e))
    BY <1>5, <2>4, <2>5, <2>6
  <2>9. Ordered(driver', q)
    BY <1>0, <1>3, <1>4, <2>7, <2>8, OrderedKept
  <2> QED
    BY <1>4, <2>2, <2>7, <2>8, <2>9
<1>7. ASSUME NEW topic \in DOMAIN to_driver, DriverHears(topic)
      PROVE  /\ Ordered(driver', to_driver'.state) /\ Barred(driver', kind, goal)
             /\ ~Contains(to_orchestrator'.reached, goal)
  <2> DEFINE e == Handled(topic, Head(to_driver[topic]))
  <2>1. /\ Execute(e) /\ to_driver[topic] # <<>>
        /\ to_driver'[topic] = Tail(to_driver[topic])
        /\ \A other \in DOMAIN to_driver \ {topic} : to_driver'[other] = to_driver[other]
    BY <1>7, DriverActs
  <2>2. Shaped(e) /\ DriverOK(e)
    BY <2>1, HandledEffect
  <2>3. /\ Barred(e, kind, goal) /\ Driver!Reached(goal) \notin e.commands
        /\ e.mission.state = "IDLE" => Asleep(e)
        /\ topic # "state" /\ Asleep(driver) => Asleep(e)
        /\ topic = "state" /\ Head(q).state = "IDLE" => Asleep(e)
    BY <1>3, <2>1, BarredHeard
  <2> HIDE DEF e
  <2>4. Besides({"commands"}, e, driver') /\ ~Contains(to_orchestrator'.reached, goal)
    BY <1>3, <2>1, <2>2, <2>3, Executed
  <2>5. driver'.mission.state = "IDLE" => Asleep(driver')
    BY <1>4, <2>3, <2>4
  <2>6. Ordered(driver', to_driver'.state)
    <3>1. CASE topic = "state"
      <4>1. q # <<>> /\ to_driver'.state = Tail(q)
            /\ (Head(q).state = "IDLE" => Asleep(driver'))
        BY <1>4, <2>1, <2>3, <2>4, <3>1
      <4> QED
        BY <1>0, <1>3, <2>5, <4>1, OrderedKept
    <3>2. CASE topic # "state"
      <4>1. to_driver'.state = q /\ (Asleep(driver) => Asleep(driver'))
        BY <1>0, <1>4, <2>1, <2>3, <2>4, <3>2
      <4> QED
        BY <1>0, <1>3, <2>5, <4>1, OrderedKept
    <3> QED
      BY <3>1, <3>2
  <2> QED
    BY <1>4, <2>3, <2>4, <2>6
<1>8. CASE Pass
  <2>1. UNCHANGED <<to_driver, to_orchestrator>> /\ driver' = Driver!Wait(driver)
    BY <1>8, DriverActs
  <2>2. Besides({"next_frame"}, driver, driver')
    BY <2>1, WaitEffect
  <2>3. driver'.mission = driver.mission /\ driver'.phase = driver.phase
        /\ driver'.fired = driver.fired
    BY <2>2 DEF Besides, DriverFields
  <2>4. Barred(driver', kind, goal) /\ (Asleep(driver) => Asleep(driver'))
        /\ (driver'.mission.state = "IDLE" => Asleep(driver'))
    BY <1>5, <2>3
  <2>5. Ordered(driver', q)
    BY <1>0, <1>3, <2>4, OrderedKept
  <2> QED
    BY <1>3, <2>1, <2>4, <2>5
<1> QED
  BY <1>6, <1>7, <1>8

\* The mission begins at the beginning, with the driver as it was made.
LEMMA BeginsBounded ==
  ASSUME Wired, Wired', Formed, ~Begun, Ahead, [ENext]_evars, Begun',
         NEW kind \in Blocking, NEW stop, stop = driver.options.plan[kind],
         stop # Driver!Disabled
  PROVE  Bounded(kind, stop)'
<1> DEFINE goal == Waypoints[stop]
<1>1. /\ stop \in 1 .. Len(Waypoints) /\ goal \in Names /\ goal # NoName
  BY OneFault DEF Formed, Shaped
<1>2. /\ UNCHANGED driver /\ Orchestrates
      /\ UNCHANGED Machine \/ Start
  BY Begins
<1>3. /\ to_driver.state \in Seq(Tellings)
      /\ \/ UNCHANGED to_driver.state
         \/ to_driver'.state = Append(to_driver.state, Told) /\ Told \in Tellings
      /\ Told.state = state'
      /\ \A x : Contains(to_orchestrator'.reached, x) => Contains(to_orchestrator.reached, x)
  BY <1>2, ToldOrNot
<1>4. /\ state = "IDLE" /\ waypoint_index = 0 /\ Asleep(driver)
      /\ \A m : Contains(to_driver.state, m) => Idle(m)
      /\ \A x : ~Contains(to_orchestrator.reached, x)
  BY DEF Ahead, Contains
<1>5. waypoint_index' = 0 /\ (state' \in Deaf \/ active_goal' = Waypoints[1])
  BY <1>2, <1>4 DEF Machine, Start, Reject, progress, Deaf
<1>6. CASE state' \in Deaf
  BY <1>1, <1>5, <1>6 DEF Bounded
<1>7. CASE state' \notin Deaf
  <2>1. \A i \in 1 .. Len(to_driver.state) : Idle(to_driver.state[i])
    BY <1>3, <1>4 DEF Contains
  <2>2. Ordered(driver, to_driver.state)
    BY <1>3, <1>4, <2>1 DEF Ordered
  <2>3. Ordered(driver, to_driver'.state)
    BY <1>3, <1>4, <1>7, <2>2, OrderedKept DEF Deaf
  <2>4. Barred(driver, kind, goal)
    BY <1>1, <1>4 DEF Barred, Asleep, Idle, Driver!OfAllGoals, Driver!Moving
  <2>5. active_goal' = NextGoal(waypoint_index')
    BY <1>1, <1>5, <1>7 DEF NextGoal
  <2>6. ~Contains(to_orchestrator'.reached, goal)
    BY <1>3, <1>4
  <2> QED
    BY <1>1, <1>2, <1>5, <2>3, <2>4, <2>5, <2>6 DEF Bounded, Guarded, NextGoal
<1> QED
  BY <1>6, <1>7

\* Where the first mission ends at the latest.
HaltsBound ==
  \A kind \in Blocking :
    driver.options.plan[kind] # Driver!Disabled /\ missions <= 1
    => Bounded(kind, driver.options.plan[kind])

LEMMA HaltsInit == EInit => HaltsBound
<1> SUFFICES ASSUME EInit, NEW kind \in Blocking,
                    driver.options.plan[kind] # Driver!Disabled
             PROVE  Bounded(kind, driver.options.plan[kind])
  BY DEF HaltsBound
<1>1. Formed
  BY PreparedInit DEF Prepared
<1>2. state = "IDLE" /\ waypoint_index = 0
  BY DEF EInit, NInit, Init
<1>3. driver.options.plan[kind] \in 1 .. Len(Waypoints)
  BY <1>1, OneFault DEF Formed, Shaped
<1> QED
  BY <1>2, <1>3 DEF Bounded, Deaf

LEMMA HaltsStep ==
  ASSUME Wired, Wired', TypeOK, Prepared, Prepared', HaltsBound, [ENext]_evars
  PROVE  HaltsBound'
<1> USE DEF Prepared
<1>1. SUFFICES ASSUME NEW kind \in Blocking, NEW stop, stop = driver.options.plan[kind],
                      stop # Driver!Disabled, missions' <= 1
               PROVE  Bounded(kind, stop)'
  <2>1. driver'.options = driver.options
    BY CallsStep DEF Formed
  <2> QED
    BY <1>1, <2>1 DEF HaltsBound
<1>2. stop \in 1 .. Len(Waypoints) /\ waypoint_index \in Nat
  <2>1. stop \in 1 .. Len(Waypoints)
    BY <1>1, OneFault DEF Formed, Shaped
  <2>2. waypoint_index \in Nat
    BY DEF TypeOK
  <2> QED
    BY <2>1, <2>2
<1>3. CASE ~Begun'
  BY <1>2, <1>3 DEF Ahead, Bounded, Deaf
<1>4. CASE ~Begun /\ Begun'
  BY <1>1, <1>4, BeginsBounded
<1>5. CASE Begun
  <2>1. ~(Operate /\ OperatorStart)
    <3>1. ASSUME OperatorStart PROVE FALSE
      <4>1. ~driver.options.auto_start /\ missions' = missions + 1
        BY <3>1, OperatorOrDriver
      <4>2. missions > 0
        BY <1>5, <4>1 DEF Begun, Under
      <4> QED
        BY <1>1, <4>1, <4>2 DEF Formed
    <3> QED
      BY <3>1
  <2>2. missions' = missions
    <3>1. OnTick \/ (\E topic \in DOMAIN to_driver : DriverHears(topic)) \/ Pass
          => missions' = missions
      BY DriverActs DEF Formed, Untouched
    <3>2. OnImage \/ Analyse \/ CheckWatchdog => missions' = missions
      BY BridgeActs DEF Aloof
    <3>3. Orchestrates => missions' = missions
      BY <2>1, OrchestratesFacts
    <3>4. Asides => missions' = missions
      BY AsideSteps
    <3> QED
      BY <3>1, <3>2, <3>3, <3>4, StepKinds
  <2>3. Bounded(kind, stop)
    BY <1>1, <2>2 DEF HaltsBound
  <2>4. CASE OnTick \/ (\E topic \in DOMAIN to_driver : DriverHears(topic)) \/ Pass
    BY <1>1, <2>3, <2>4, DriverBounded
  <2>5. CASE OnImage \/ Analyse \/ CheckWatchdog
    <3>1. UNCHANGED Aloof
      BY <2>5, BridgeActs
    <3> QED
      BY <2>3, <3>1 DEF Aloof, Machine, Bounded, Guarded, NextGoal
  <2>6. CASE Orchestrates
    BY <1>2, <1>5, <2>1, <2>3, <2>6, OrchestratorBounded DEF Under
  <2>7. CASE Asides
    <3>1. UNCHANGED <<driver, Machine, to_orchestrator>> /\ UNCHANGED to_driver.state
      BY <2>7, AsideSteps DEF Private
    <3> QED
      BY <2>3, <3>1 DEF Machine, Bounded, Guarded, NextGoal
  <2> QED
    BY <2>4, <2>5, <2>6, <2>7, StepKinds
<1> QED
  BY <1>3, <1>4, <1>5

\* A camera that stalls or an arrival that is forged at a goal (scenario_logic.py halts there
\* on both) keeps the first mission from ever leaving the goal, whatever the timing of the
\* pipeline, its losses and crashes, and whatever else the fault plan holds.
THEOREM HaltsStopTheMissionAlways == ESpec => []HaltsStopTheMission
<1>1. EInit => HaltsBound
  BY HaltsInit
<1>2. /\ Wired /\ NSafe /\ Pictured /\ Prepared /\ (Wired /\ NSafe /\ Pictured /\ Prepared)'
      /\ HaltsBound /\ [ENext]_evars
      => HaltsBound'
  <2> SUFFICES ASSUME Wired, NSafe, Prepared, Wired', Prepared', HaltsBound, [ENext]_evars
               PROVE  HaltsBound'
    OBVIOUS
  <2>1. TypeOK
    BY DEF NSafe
  <2> QED
    BY <2>1, HaltsStep
<1>3. Wired /\ NSafe /\ Pictured /\ Prepared /\ HaltsBound => HaltsStopTheMission
  BY DEF HaltsBound, HaltsStopTheMission, Bounded, Prepared, Formed, Struck
<1> QED
  BY <1>1, <1>2, <1>3, PreparedAlways, PTL DEF ESpec

=============================================================================
