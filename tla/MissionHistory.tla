---------------------------- MODULE MissionHistory ----------------------------
(***************************************************************************)
(* The mission state machine with a history variable, to state what        *)
(* docs/ros2-mission-orchestrator.md says of whole missions.  The variable *)
(* does not constrain the machine.                                         *)
(***************************************************************************)
EXTENDS MissionStateMachine

VARIABLE resume_owed      \* a safety stop has happened that no resume has answered

hvars == <<vars, resume_owed>>

HInit == Init /\ resume_owed = FALSE

OweResume ==
  \/ /\ NextButResume
     /\ resume_owed' = (state' = "SAFETY_STOPPED" \/ (resume_owed /\ state' # "IDLE"))
  \/ /\ Resume
     /\ resume_owed' = (resume_owed /\ ~result'.accepted)

HSpec == HInit /\ [][OweResume]_hvars

-----------------------------------------------------------------------------
\* "A safety-stopped mission never automatically restarts. It requires a fresh
\* motion-authorizing policy and an explicit resume request."
\* (docs/ros2-mission-orchestrator.md:102-103)
RestartsOnlyOnResume == motion_authorized => ~resume_owed

\* "The orchestrator cancels motion when: [...] a policy is invalid, stale,
\* unknown, or associated with another waypoint"
\* (docs/ros2-mission-orchestrator.md:92-95).  An evidence id is the name of the
\* waypoint it was gathered at, as ids spell it, followed by its stamp.
MovesOnEvidenceOfTheGoal ==
  motion_authorized => Front(last_evidence_id) = SafeName[active_goal]
=============================================================================
