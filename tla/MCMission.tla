------------------------------ MODULE MCMission ------------------------------
(***************************************************************************)
(* A two-waypoint mission with one detour target, whose names are such     *)
(* that no one's evidence can pass for another's; one of them is spelled   *)
(* otherwise in evidence ids.  And the lifecycle the mission refines.      *)
(***************************************************************************)
EXTENDS MissionRefinement

MCWaypoints == <<<<"a">>, <<"bay 2">>>>
MCNames == {<<"a">>, <<"bay 2">>, <<"c">>}
MCSafeName == [name \in MCNames |-> IF name = <<"bay 2">> THEN <<"bay_2">> ELSE name]
MCEvidence == {Append(MCSafeName[name], "1") : name \in MCNames}
=============================================================================
