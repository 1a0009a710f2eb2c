--------------------------- MODULE MotionController ---------------------------
(***************************************************************************)
(* The fail-closed motion controller (motion_controller_node.cpp and       *)
(* motion_policy.cpp): three inputs, each with a lifetime of its own, and  *)
(* a control timer that forwards the desired command only while all three  *)
(* permit it.                                                              *)
(*                                                                         *)
(* The environment: decisions with any observation time, late, repeated or *)
(* out of order; mission states and desired commands delivered late by any *)
(* amount or never.  An evidence id is unique to one observation           *)
(* (docs/ros2-motion-controller.md), so the model uses the observation's   *)
(* time for both.  Without an input (has_... is false) the code holds the  *)
(* stop values and nothing is fresh: here its age is past its timeout.     *)
(***************************************************************************)
EXTENDS TemporalGate

CONSTANTS Decisions,                        \* the <<action, valid>> pairs sent
          CommandTimeout, MissionTimeout,   \* in clock units, as Timeout
          MaxTime                           \* the clock stops here: the bound

Actions == {"PROCEED", "SLOW_DOWN", "STOP", "REROUTE", "INSPECT_CLOSER"}

ASSUME InputAssumption ==
  /\ Decisions \subseteq Actions \X BOOLEAN
  /\ CommandTimeout \in Nat \ {0} /\ MissionTimeout \in Nat \ {0} /\ MaxTime \in Nat \ {0}

Times == 0 .. MaxTime
Stamps == {Malformed} \cup Times
EvidenceTimes == 1 .. MaxTime
NoEvidence == 0

Modes == {"Proceed", "Slow", "Stop"}

VARIABLES
  gate,       \* latest_policy_observation_ns_, policy_recovery_barrier_ns_, ...
  policy,     \* policy_valid_, policy_mode_, policy_evidence_id_ and the age of
              \* policy_received_at_
  mission,    \* whether it is MOVING, authorized and has a goal; the evidence it
              \* names; its age; and when it was sent, for the properties alone
  command,    \* the age of command_received_at_, and when it was sent
  output,     \* the scale of the velocity last published (Stop is zero), and for
              \* the properties what it was published on
  controlled, \* the control timer has fired in this unit
  now,
  fault       \* history: when a decision last met a fault of its own

inputs == <<policy, mission, command>>
vars == <<gate, inputs, output, controlled, now, fault>>

Policies == [valid : BOOLEAN, mode : Modes, evidence : Times, age : 0 .. Timeout + 1]
Missions ==
  [authorized : BOOLEAN, evidence : Times, age : 0 .. MissionTimeout + 1, sent : Times]
Commands == [age : 0 .. CommandTimeout + 1, sent : Times]
Outputs == [scale : Modes, evidence : Times, sent : Times, commanded : Times]

NoPolicy ==
  [valid |-> FALSE, mode |-> "Stop", evidence |-> NoEvidence, age |-> Timeout + 1]
NoMission == [authorized |-> FALSE, evidence |-> NoEvidence,
              age |-> MissionTimeout + 1, sent |-> 0]
NoCommand == [age |-> CommandTimeout + 1, sent |-> 0]
Zero == [scale |-> "Stop", evidence |-> 0, sent |-> 0, commanded |-> 0]

TypeOK ==
  /\ gate \in Gates
  /\ policy \in Policies /\ mission \in Missions
  /\ command \in Commands
  /\ output \in Outputs
  /\ controlled \in BOOLEAN
  /\ now \in Times /\ fault \in Times

Init ==
  /\ gate = EmptyGate
  /\ policy = NoPolicy /\ mission = NoMission /\ command = NoCommand
  /\ output = Zero
  /\ controlled = FALSE
  /\ now = 0 /\ fault = 0

-----------------------------------------------------------------------------
\* message_steady_reference: the age at which an input starts its lifetime.
BrokenReference(age, dds) == 0             \* MovesOnLiveInputs: from the arrival
Reference(age, dds) == Later(age, dds)

Looked(stamp) ==
  LET pruned == Prune(gate, now, now) IN
  IF stamp = Malformed THEN pruned ELSE Prolong(pruned, stamp, now, now)

\* A quarantine refuses malformed times too.
Recalled(g, stamp) == g.until # 0 \/ stamp \in g.future
Queued(g, stamp) == stamp > 0 /\ Blocked(g, stamp)
Timely(stamp, dds) ==
  stamp \in 1 .. now /\ now - stamp <= Timeout /\ dds <= Timeout

Mode(action) ==
  CASE action = "PROCEED" -> "Proceed" [] action = "SLOW_DOWN" -> "Slow"
    [] OTHER -> "Stop"

RevokePolicy == policy' = NoPolicy

\* A decision: its observation time, the older of its DDS ages, what it says.
OnPolicyDecision(stamp, dds, action, valid) ==
  LET g == Looked(stamp) IN
  /\ \/ /\ Recalled(g, stamp)
        /\ gate' = RefuseRemembered(g, now)
        /\ RevokePolicy /\ UNCHANGED fault
     \/ /\ ~Recalled(g, stamp) /\ stamp > now
        /\ gate' = Raise(Remember(g, stamp, now, now), now)
        /\ RevokePolicy /\ fault' = now
     \/ /\ ~Recalled(g, stamp) /\ stamp <= now /\ Queued(g, stamp)
        /\ gate' = g
        /\ RevokePolicy /\ UNCHANGED fault
     \/ /\ ~Recalled(g, stamp) /\ stamp <= now /\ ~Queued(g, stamp)
        /\ ~Timely(stamp, dds) \/ stamp <= g.last
        /\ gate' = Raise(g, now)
        /\ RevokePolicy /\ fault' = now
     \/ /\ ~Recalled(g, stamp) /\ ~Queued(g, stamp)
        /\ Timely(stamp, dds) /\ stamp > g.last
        /\ gate' = Admit(g, stamp)
        /\ policy' = [valid |-> valid, evidence |-> stamp,
                      mode |-> IF valid THEN Mode(action) ELSE "Stop",
                      age |-> Reference(now - stamp, dds)]
        /\ UNCHANGED fault
  /\ UNCHANGED <<mission, command, output, controlled, now>>

\* A mission state sent dds units ago; too old a one revokes what was believed.
OnMissionState(authorized, evidence, dds) ==
  /\ dds <= now
  /\ \/ dds > MissionTimeout /\ mission' = NoMission
     \/ /\ dds <= MissionTimeout
        /\ mission' = [authorized |-> authorized, evidence |-> evidence,
                       age |-> Reference(0, dds), sent |-> now - dds]
  /\ UNCHANGED <<gate, policy, command, output, controlled, now, fault>>

\* A velocity that is not finite moves the robot no more than a missing one.
OnDesiredCommand(finite, dds) ==
  /\ dds <= now
  /\ command' = IF finite /\ dds <= CommandTimeout
                THEN [age |-> Reference(0, dds), sent |-> now - dds] ELSE NoCommand
  /\ UNCHANGED <<gate, policy, mission, output, controlled, now, fault>>

-----------------------------------------------------------------------------
\* publish_safe_command and enforce_motion_policy.

Correlated == mission.evidence = policy.evidence

MissionAuthorizes ==
  /\ mission.age <= MissionTimeout
  /\ mission.authorized
  /\ mission.evidence # NoEvidence
  /\ Correlated

Permitted ==
  /\ policy.valid /\ MissionAuthorizes
  /\ policy.age <= Timeout
  /\ command.age <= CommandTimeout
  /\ policy.mode # "Stop"

PublishSafeCommand ==
  /\ ~controlled
  /\ controlled' = TRUE
  /\ \/ ~Permitted /\ output' = Zero
     \/ Permitted /\ output' = [scale |-> policy.mode, evidence |-> policy.evidence,
                                sent |-> mission.sent, commanded |-> command.sent]
  /\ UNCHANGED <<gate, inputs, now, fault>>

\* An input past its timeout is as good as none: only its freshness is asked for.
Aged(input, timeout, none) ==
  IF input.age >= timeout THEN none ELSE [input EXCEPT !.age = @ + 1]

\* The control timer keeps its rate: it fires before the next unit passes.
Elapse ==
  /\ controlled /\ now < MaxTime
  /\ now' = now + 1
  /\ controlled' = FALSE
  /\ policy' = Aged(policy, Timeout, NoPolicy)
  /\ mission' = Aged(mission, MissionTimeout, NoMission)
  /\ command' = Aged(command, CommandTimeout, NoCommand)
  /\ UNCHANGED <<gate, output, fault>>

\* A mission that is not authorized names no evidence here: it is not compared.
Next ==
  \/ \E stamp \in Stamps, dds \in 0 .. Timeout + 1, decision \in Decisions :
       OnPolicyDecision(stamp, dds, decision[1], decision[2])
  \/ \E evidence \in EvidenceTimes, dds \in 0 .. MissionTimeout + 1 :
       OnMissionState(TRUE, evidence, dds)
  \/ OnMissionState(FALSE, NoEvidence, 0)
  \/ \E finite \in BOOLEAN, dds \in 0 .. CommandTimeout + 1 : OnDesiredCommand(finite, dds)
  \/ PublishSafeCommand \/ Elapse

Spec == Init /\ [][Next]_vars

-----------------------------------------------------------------------------
Moving == output.scale # "Stop"

\* The robot moves on what the camera saw within the policy timeout, on an authority
\* the orchestrator held within the mission timeout and on a velocity asked for within
\* the command timeout, give or take one control period, however late each arrived:
\* with every message of any of them lost from then on it stops by itself.
MovesOnLiveInputs ==
  Moving => /\ now - output.evidence <= Timeout + 1
            /\ now - output.sent <= MissionTimeout + 1
            /\ now - output.commanded <= CommandTimeout + 1

\* Motion restarts only on the newest observation admitted, made after the last
\* temporal fault.
RestartsAfterTheFault ==
  [][output.scale = "Stop" /\ output'.scale # "Stop" =>
       output'.evidence = gate.last /\ output'.evidence > fault]_vars

=============================================================================
