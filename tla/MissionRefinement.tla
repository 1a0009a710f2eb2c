-------------------------- MODULE MissionRefinement --------------------------
(***************************************************************************)
(* The mission state machine keeps the promise of MissionLifecycle.        *)
(***************************************************************************)
EXTENDS MissionStateMachine

Phase ==
  CASE state = "IDLE" -> "idle"
    [] state = "MOVING" -> "moving"
    [] state \in {"COMPLETED", "ABORTED"} -> "over"
    [] state = "EMERGENCY_STOPPED" -> "emergency"
    [] OTHER -> "held"

Lifecycle == INSTANCE MissionLifecycle
  WITH Legs <- Len(Waypoints), phase <- Phase, leg <- waypoint_index

\* Every behaviour of the machine is, seen through /mission/state, one the
\* lifecycle allows: progress is made only in motion, one leg at a time, and
\* nothing but reset leads out of a finished or an emergency-stopped mission.
KeepsTheLifecycle == Lifecycle!Spec
=============================================================================
