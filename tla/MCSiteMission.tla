------------------------------ MODULE MCSiteMission ------------------------------
(***************************************************************************)
(* A route of three waypoints, two views of each, and the six steps they   *)
(* may take.                                                               *)
(***************************************************************************)
EXTENDS SiteMission

CONSTANTS A, B, C

MCRequired == <<A, B, C>>
=============================================================================
