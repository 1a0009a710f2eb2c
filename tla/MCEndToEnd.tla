----------------------------- MODULE MCEndToEnd -----------------------------
EXTENDS EndToEnd

MCWaypoints == <<<<"a">>, <<"b">>>>
MCIntruder == <<"z">>
MCNames == {<<"a">>, <<"b">>, <<"z">>}
MCSafeName == [name \in MCNames |-> name]
MCSegment == [t \in 0 .. MaxTime |-> ToString(t)]
MCDecisions == Actions \X Statuses
MCEvidence == {Append(name, MCSegment[t]) : name \in MCNames, t \in 0 .. MaxTime}

Plan(faults) ==
  [kind \in Driver!FaultKinds |->
     IF kind \in DOMAIN faults THEN faults[kind] ELSE Driver!Disabled]
Options(faults, auto) ==
  [plan |-> Plan(faults), stall_ticks |-> 3, always |-> FALSE, auto_start |-> auto,
   abort_on_stop |-> TRUE]

Auto(faults, reading, t, l, c) ==
  [options |-> Options(faults, TRUE), reading |-> reading, latency |-> t, losses |-> l,
   crashes |-> c, missions |-> 0, until |-> IF c = 0 THEN MaxTime ELSE 14]
Operated(faults) ==
  [options |-> Options(faults, FALSE), reading |-> "PROCEED", latency |-> 1, losses |-> 0,
   crashes |-> 0, missions |-> 2, until |-> 14]
NoFaults == [kind \in {} |-> 0]

MCScenarios ==
  {Auto(NoFaults, "PROCEED", 2, 0, 0), Auto(NoFaults, "PROCEED", 1, 1, 0),
   Auto(NoFaults, "PROCEED", 1, 0, 1), Auto(NoFaults, "STOP", 2, 0, 0)}
  \cup {Auto(kind :> i, "PROCEED", 2, 0, 0) : kind \in {"malformed", "wrong_goal"}, i \in 1 .. 2}
  \cup {Auto(kind :> i, "PROCEED", 1, 0, 0) : kind \in Driver!FaultKinds, i \in 1 .. 2}
  \cup {Operated("forged" :> 1)}
=============================================================================
