--------------------------- MODULE MissionLifecycle ---------------------------
(***************************************************************************)
(* What the mission orchestrator promises to everything that follows       *)
(* /mission/state, with the causes of each change left open: a mission is  *)
(* a sequence of legs, gained one at a time and only in motion; motion     *)
(* starts only in a mission that is under way and held; a mission that is  *)
(* over, or under an emergency stop, does not come back except by a reset  *)
(* and a new beginning.                                                    *)
(***************************************************************************)
EXTENDS Naturals

CONSTANT Legs       \* the number of required waypoints

VARIABLES phase, leg

Init == phase = "idle" /\ leg = 0

Begin == phase = "idle" /\ phase' = "held" /\ leg' = 0
Go == phase = "held" /\ phase' = "moving" /\ UNCHANGED leg
Hold == phase = "moving" /\ phase' = "held" /\ UNCHANGED leg
Gain ==
  /\ phase = "moving"
  /\ leg' = leg + 1
  /\ \/ leg + 1 < Legs /\ phase' = "held"
     \/ leg + 1 = Legs /\ phase' = "over"
Abandon ==
  phase \in {"held", "moving", "emergency"} /\ phase' = "over" /\ UNCHANGED leg
EmergencyStop == phase' = "emergency" /\ UNCHANGED leg
Reset == phase' = "idle" /\ leg' = 0

Next == Begin \/ Go \/ Hold \/ Gain \/ Abandon \/ EmergencyStop \/ Reset

Spec == Init /\ [][Next]_<<phase, leg>>
=============================================================================
