------------------------- MODULE MissionStateMachine -------------------------
(***************************************************************************)
(* The mission state machine of the ROS 2 orchestrator                     *)
(* (inspectron_mission_orchestrator/state_machine.py): one action per      *)
(* public method of MissionStateMachine.  It authorises motion towards one *)
(* goal at a time, on the strength of policy decisions whose evidence was  *)
(* gathered for that goal.                                                 *)
(*                                                                         *)
(* A name (a waypoint, a reroute target, an evidence id) is the sequence   *)
(* of its '-'-separated segments: the code compares names for equality and *)
(* tests str.startswith(safe + "-"), which on segments is IsStrictPrefix.  *)
(* SafeName is what re.sub makes of a goal for that test: names that       *)
(* differ may have it in common. The empty name is <<>>. The code keeps    *)
(* the monotonic times _last_policy_at and _reroute_started_at and only    *)
(* ever compares their distance to now with a timeout; the model keeps     *)
(* that distance, an age which Tick advances and which saturates one unit  *)
(* past its timeout.                                                       *)
(***************************************************************************)
EXTENDS Integers, Sequences, SequencesExt

CONSTANTS Waypoints,        \* the ordered required goals: a sequence of names
          Names,            \* every name an operator or a planner may send
          SafeName,         \* a goal as evidence ids spell it, a function of the name
          Evidence,         \* every evidence id a decision may carry
          PolicyTimeout,    \* policy_timeout_seconds, in clock units
          RerouteTimeout,   \* reroute_timeout_seconds, in clock units
          None              \* Python's None

NoName == <<>>

ASSUME WaypointsAssumption ==
  /\ Names \subseteq Seq(STRING) \ {NoName}
  /\ Waypoints \in Seq(Names) /\ Waypoints # <<>>
  /\ \A i, j \in 1 .. Len(Waypoints) : Waypoints[i] = Waypoints[j] => i = j
ASSUME EvidenceAssumption ==
  /\ Evidence \subseteq Seq(STRING) \ {NoName}
  /\ DOMAIN SafeName = Names
  /\ \A name \in Names : SafeName[name] \in Seq(STRING) \ {NoName}
ASSUME TimeoutAssumption ==
  PolicyTimeout \in Nat \ {0} /\ RerouteTimeout \in Nat \ {0}
ASSUME NoneAssumption == None \notin Int

Actions == {"PROCEED", "SLOW_DOWN", "STOP", "REROUTE", "INSPECT_CLOSER", "UNKNOWN"}
Statuses == {"VALID", "INVALID", "STALE"}
States == {"IDLE", "WAITING_FOR_POLICY", "MOVING", "PAUSED", "INSPECTING_CLOSER",
           "REROUTING", "SAFETY_STOPPED", "COMPLETED", "ABORTED",
           "EMERGENCY_STOPPED"}
Deaf == {"IDLE", "COMPLETED", "ABORTED", "EMERGENCY_STOPPED"}
Halted == {"PAUSED", "SAFETY_STOPPED"}
Effects == {"goal", "cancel", "perception", "closer_view", "reroute"}
Results == [accepted : BOOLEAN, effects : SUBSET Effects]

VARIABLES
  state, waypoint_index, active_goal, last_evidence_id, motion_authorized,
  policy_age,             \* now - _last_policy_at, or None
  policy_allows_motion,   \* _latest_policy_allows_motion
  reroute_age,            \* now - _reroute_started_at, or None
  emergency_stop_active,
  result                  \* the TransitionResult last returned: accepted, effects

progress == <<waypoint_index, active_goal>>
policy == <<last_evidence_id, policy_age, policy_allows_motion>>
vars == <<state, motion_authorized, progress, policy, reroute_age,
          emergency_stop_active, result>>

Ages(timeout) == 0 .. timeout + 1

\* A mission past its last waypoint has none left to be judged for.
TypeOK ==
  /\ state \in States
  /\ waypoint_index \in 0 .. Len(Waypoints)
  /\ waypoint_index < Len(Waypoints) \/ state \in Deaf
  /\ active_goal \in Names \cup {NoName}
  /\ last_evidence_id \in Evidence \cup {NoName}
  /\ motion_authorized \in BOOLEAN
  /\ policy_age \in Ages(PolicyTimeout) \cup {None}
  /\ policy_allows_motion \in BOOLEAN
  /\ reroute_age \in Ages(RerouteTimeout) \cup {None}
  /\ emergency_stop_active \in BOOLEAN
  /\ result \in Results

Init ==
  /\ state = "IDLE"
  /\ waypoint_index = 0
  /\ active_goal = NoName
  /\ last_evidence_id = NoName
  /\ motion_authorized = FALSE
  /\ policy_age = None
  /\ policy_allows_motion = FALSE
  /\ reroute_age = None
  /\ emergency_stop_active = FALSE
  /\ result = [accepted |-> TRUE, effects |-> {}]

-----------------------------------------------------------------------------
(***************************************************************************)
(* What the operations are made of.  A definition named Broken... is the   *)
(* one it precedes with a bug of the kind this code could have: the        *)
(* property that notices it is named beside it.                            *)
(***************************************************************************)

Return(accepted, effects) == result' = [accepted |-> accepted, effects |-> effects]

Reject ==
  /\ Return(FALSE, {})
  /\ UNCHANGED <<state, motion_authorized, progress, policy, reroute_age,
                 emergency_stop_active>>

Transition(next_state, authorized) ==
  state' = next_state /\ motion_authorized' = authorized

BrokenSafetyStop ==                                   \* MotionEndsWithCancel
  Transition("SAFETY_STOPPED", FALSE) /\ Return(FALSE, {})
SafetyStop == Transition("SAFETY_STOPPED", FALSE) /\ Return(FALSE, {"cancel"})

ForgetPolicy == policy_age' = None /\ policy_allows_motion' = FALSE

PolicyIsFresh == policy_age # None /\ policy_age <= PolicyTimeout

EvidenceMatchesActiveGoal(evidence) ==
  /\ active_goal # NoName
  /\ evidence # NoName
  /\ IsStrictPrefix(SafeName[active_goal], evidence)

-----------------------------------------------------------------------------
\* Operator services.

Start ==
  \/ (emergency_stop_active \/ state # "IDLE") /\ Reject
  \/ /\ ~emergency_stop_active /\ state = "IDLE"
     /\ waypoint_index' = 0
     /\ active_goal' = Waypoints[1]
     /\ last_evidence_id' = NoName
     /\ ForgetPolicy
     /\ reroute_age' = None
     /\ Transition("WAITING_FOR_POLICY", FALSE)
     /\ Return(TRUE, {"goal", "perception"})
     /\ UNCHANGED emergency_stop_active

Pausable == {"WAITING_FOR_POLICY", "MOVING", "INSPECTING_CLOSER", "REROUTING"}

Pause ==
  \/ state \notin Pausable /\ Reject
  \/ /\ state \in Pausable
     /\ ForgetPolicy
     /\ reroute_age' = None
     /\ Transition("PAUSED", FALSE)
     /\ Return(TRUE, {"cancel"})
     /\ UNCHANGED <<progress, last_evidence_id, emergency_stop_active>>

BrokenMayMoveAtOnce == policy_allows_motion /\ active_goal # NoName  \* MotionStartsFresh
MayMoveAtOnce == policy_allows_motion /\ PolicyIsFresh /\ active_goal # NoName

Resume ==
  \/ (emergency_stop_active \/ state \notin Halted) /\ Reject
  \/ /\ ~emergency_stop_active /\ state \in Halted
     /\ \/ /\ MayMoveAtOnce
           /\ Transition("MOVING", TRUE)
           /\ Return(TRUE, {"goal"})
        \/ /\ ~MayMoveAtOnce
           /\ Transition("WAITING_FOR_POLICY", FALSE)
           /\ Return(TRUE, {"perception"} \cup {e \in {"goal"} : active_goal # NoName})
     /\ UNCHANGED <<progress, policy, reroute_age, emergency_stop_active>>

Abort ==
  \/ state \in {"IDLE", "COMPLETED", "ABORTED"} /\ Reject
  \/ /\ state \notin {"IDLE", "COMPLETED", "ABORTED"}
     /\ Transition("ABORTED", FALSE)
     /\ Return(TRUE, {"cancel"})
     /\ UNCHANGED <<progress, policy, reroute_age, emergency_stop_active>>

BrokenResetRefused == FALSE                           \* EmergencyStopIsLatched
ResetRefused == emergency_stop_active

Reset ==
  \/ ResetRefused /\ Reject
  \/ /\ ~ResetRefused
     /\ waypoint_index' = 0
     /\ active_goal' = NoName
     /\ last_evidence_id' = NoName
     /\ ForgetPolicy
     /\ reroute_age' = None
     /\ Transition("IDLE", FALSE)
     /\ Return(TRUE, {"cancel"})
     /\ UNCHANGED emergency_stop_active

BrokenClearEmergencyStop ==                           \* KeepsTheLifecycle
  Transition("WAITING_FOR_POLICY", FALSE) /\ UNCHANGED policy_allows_motion
ClearEmergencyStop == UNCHANGED <<state, motion_authorized, policy_allows_motion>>

SetEmergencyStop(active) ==
  /\ emergency_stop_active' = active
  /\ \/ /\ active
        /\ policy_allows_motion' = FALSE
        /\ Transition("EMERGENCY_STOPPED", FALSE)
        /\ Return(TRUE, {"cancel"})
     \/ /\ ~active
        /\ ClearEmergencyStop
        /\ Return(TRUE, {})
  /\ UNCHANGED <<progress, last_evidence_id, policy_age, reroute_age>>

-----------------------------------------------------------------------------
\* Policy decisions.

ForbidMotion == policy_allows_motion' = FALSE

ApplyMismatch ==
  /\ ForbidMotion
  /\ SafetyStop
  /\ UNCHANGED <<last_evidence_id, policy_age, reroute_age>>

ApplyStop == ForbidMotion /\ SafetyStop /\ UNCHANGED reroute_age

ApplyInspectCloser ==
  /\ ForbidMotion
  /\ Transition("INSPECTING_CLOSER", FALSE)
  /\ Return(TRUE, {"cancel", "closer_view"})
  /\ UNCHANGED reroute_age

ApplyReroute ==
  /\ ForbidMotion
  /\ reroute_age' = 0
  /\ Transition("REROUTING", FALSE)
  /\ Return(TRUE, {"cancel", "reroute"})

BrokenHoldsPermission == {"SAFETY_STOPPED", "REROUTING"}   \* StopsAreLiftedKnowingly
HoldsPermission == {"PAUSED", "SAFETY_STOPPED", "REROUTING"}

ApplyMotion ==
  /\ policy_allows_motion' = TRUE
  /\ \/ /\ state \in HoldsPermission
        /\ Transition(state, FALSE)
        /\ Return(TRUE, {})
     \/ /\ state \notin HoldsPermission
        /\ Transition("MOVING", TRUE)
        /\ Return(TRUE, {"goal"})
  /\ UNCHANGED reroute_age

\* The age is now - policy_reference: 0 when the caller passes no reference.
ApplyPolicy(action, status, evidence, age) ==
  \/ state \in Deaf /\ Reject
  \/ /\ state \notin Deaf
     /\ \/ ~EvidenceMatchesActiveGoal(evidence) /\ ApplyMismatch
        \/ /\ EvidenceMatchesActiveGoal(evidence)
           /\ last_evidence_id' = evidence
           /\ policy_age' = age
           /\ \/ (status # "VALID" \/ action \in {"STOP", "UNKNOWN"}) /\ ApplyStop
              \/ status = "VALID" /\ action = "INSPECT_CLOSER" /\ ApplyInspectCloser
              \/ status = "VALID" /\ action = "REROUTE" /\ ApplyReroute
              \/ status = "VALID" /\ action \in {"PROCEED", "SLOW_DOWN"} /\ ApplyMotion
     /\ UNCHANGED <<progress, emergency_stop_active>>

-----------------------------------------------------------------------------
\* Waypoint progress.

NextGoal(index) == IF index < Len(Waypoints) THEN Waypoints[index + 1] ELSE NoName

BrokenRouteIsDone(index) == index > Len(Waypoints)    \* TypeOK
RouteIsDone(index) == index >= Len(Waypoints)

Arrive ==
  /\ waypoint_index' = waypoint_index + 1
  /\ active_goal' = NextGoal(waypoint_index + 1)
  /\ last_evidence_id' = NoName
  /\ ForgetPolicy
  /\ \/ /\ RouteIsDone(waypoint_index + 1)
        /\ Transition("COMPLETED", FALSE)
        /\ Return(TRUE, {"cancel"})
     \/ /\ ~RouteIsDone(waypoint_index + 1)
        /\ Transition("WAITING_FOR_POLICY", FALSE)
        /\ Return(TRUE, {"goal", "perception"})
  /\ UNCHANGED <<reroute_age, emergency_stop_active>>

WaypointReached(waypoint) ==
  \/ state # "MOVING" /\ Reject
  \/ /\ state = "MOVING" /\ waypoint # active_goal
     /\ SafetyStop
     /\ UNCHANGED <<progress, policy, reroute_age, emergency_stop_active>>
  \/ state = "MOVING" /\ waypoint = active_goal /\ Arrive

BrokenAdoptTarget(target) ==                          \* PermissionIsForTheGoal
  /\ active_goal' = target /\ reroute_age' = None /\ last_evidence_id' = NoName
  /\ UNCHANGED <<policy_age, policy_allows_motion>>
AdoptTarget(target) ==
  /\ active_goal' = target
  /\ reroute_age' = None
  /\ last_evidence_id' = NoName
  /\ ForgetPolicy

SetRerouteTarget(target) ==
  \/ state # "REROUTING" /\ Reject
  \/ /\ state = "REROUTING" /\ target = NoName
     /\ SafetyStop
     /\ UNCHANGED <<progress, policy, reroute_age, emergency_stop_active>>
  \/ /\ state = "REROUTING" /\ target # NoName
     /\ AdoptTarget(target)
     /\ Transition("WAITING_FOR_POLICY", FALSE)
     /\ Return(TRUE, {"goal", "perception"})
     /\ UNCHANGED <<waypoint_index, emergency_stop_active>>

-----------------------------------------------------------------------------
\* The watchdog timer and the passing of time.

BrokenPolicyExpired == FALSE                          \* UnrenewedMotionStops
PolicyExpired == state = "MOVING" /\ ~PolicyIsFresh

BrokenRerouteExpired == FALSE                         \* RerouteWaitEnds
RerouteExpired ==
  state = "REROUTING" /\ reroute_age # None /\ reroute_age > RerouteTimeout

\* With neither expired the method returns None and its caller does nothing.
Watchdog ==
  /\ SafetyStop
  /\ \/ PolicyExpired /\ ForbidMotion
     \/ RerouteExpired /\ UNCHANGED policy_allows_motion
  /\ UNCHANGED <<progress, last_evidence_id, policy_age, reroute_age,
                 emergency_stop_active>>

Older(age, timeout) ==
  IF age = None \/ age = timeout + 1 THEN age ELSE age + 1

Tick ==
  /\ policy_age' = Older(policy_age, PolicyTimeout)
  /\ reroute_age' = Older(reroute_age, RerouteTimeout)
  /\ UNCHANGED <<state, motion_authorized, progress, last_evidence_id,
                 policy_allows_motion, emergency_stop_active, result>>

-----------------------------------------------------------------------------
\* A decision the node judged untimely reaches the machine as STALE; one it
\* admitted is at most PolicyTimeout old.

Decide == \E action \in Actions, status \in Statuses, evidence \in Evidence \cup {NoName},
             age \in 0 .. PolicyTimeout : ApplyPolicy(action, status, evidence, age)
Report == \E waypoint \in Names \cup {NoName} : WaypointReached(waypoint)
Retarget == \E target \in Names \cup {NoName} : SetRerouteTarget(target)
SwitchEmergencyStop == \E active \in BOOLEAN : SetEmergencyStop(active)

NextButResume ==
  \/ Start \/ Pause \/ Abort \/ Reset
  \/ Decide \/ Report \/ Retarget \/ SwitchEmergencyStop
  \/ Watchdog \/ Tick
Next == NextButResume \/ Resume

\* Time passes, and the watchdog timer keeps firing.
Fairness == WF_vars(Tick) /\ WF_vars(Watchdog)
Spec == Init /\ [][Next]_vars
FairSpec == Spec /\ Fairness

-----------------------------------------------------------------------------
(***************************************************************************)
(* Properties.                                                             *)
(***************************************************************************)

\* The flag the motion controller trusts is up exactly in MOVING, where a
\* stored permission backs it; while the emergency stop is pressed the mission
\* is stopped, or aborted from there, whatever requests and decisions arrive.
EmergencyStopIsLatched ==
  /\ motion_authorized <=> state = "MOVING"
  /\ motion_authorized => policy_allows_motion
  /\ emergency_stop_active => state \in {"EMERGENCY_STOPPED", "ABORTED"}

\* A permission kept for later (apply_policy stores one while the mission is
\* halted or rerouting) is always backed by evidence gathered for the goal the
\* robot would now be sent to: no change of goal leaves an old one behind.
PermissionIsForTheGoal ==
  policy_allows_motion =>
    /\ EvidenceMatchesActiveGoal(last_evidence_id)
    /\ policy_age # None

\* Whatever authorises motion, a decision or a resume request that uses the
\* stored one, does it on an observation within the policy timeout.
MotionStartsFresh ==
  [][state # "MOVING" /\ state' = "MOVING" => PolicyIsFresh']_vars

\* Motion never ends silently: the planner is told to cancel, or has itself
\* reported arrival.
MotionEndsWithCancel ==
  [][state = "MOVING" /\ state' # "MOVING" =>
       "cancel" \in result'.effects \/ Arrive]_vars

\* A paused or safety-stopped mission comes back to life by an operator's
\* resume, or by a decision that itself asks for a closer view or a new route;
\* never by a decision that only permits motion.
StopsAreLiftedKnowingly ==
  [][(state \in Halted /\ state' \notin Halted \cup Deaf) =>
       (Resume \/ result'.effects \cap {"closer_view", "reroute"} # {})]_vars

\* A wait for a reroute target ends, or is renewed by another REROUTE decision
\* (each one restarts the timeout).
RerouteWaitEnds ==
  state = "REROUTING" /\ reroute_age = 1 ~> state # "REROUTING" \/ reroute_age = 0

\* Motion whose policy has expired is stopped, or is covered by a newer policy.
UnrenewedMotionStops ==
  state = "MOVING" /\ policy_age > PolicyTimeout ~> state # "MOVING" \/ PolicyIsFresh

=============================================================================
