--------------------------- MODULE MCMissionHistory ---------------------------
(***************************************************************************)
(* A mission over two waypoints of which one, "aisle", is named like the   *)
(* beginning of the other, "aisle-b"; and a detour target.                 *)
(***************************************************************************)
EXTENDS MissionHistory

MCWaypoints == <<<<"aisle">>, <<"aisle", "b">>>>
MCNames == {<<"aisle">>, <<"aisle", "b">>, <<"dock">>}
MCSafeName == [name \in MCNames |-> name]
MCEvidence == {Append(name, "1") : name \in MCNames}
=============================================================================
