---------------------------- MODULE PolicyAdmission ----------------------------
(***************************************************************************)
(* The orchestrator's gate at work: decisions of any observation time, in  *)
(* any order and repeated, on a ROS clock that may be stepped either way   *)
(* while the steady clock goes on.  foreseen and fault are history         *)
(* variables.                                                              *)
(***************************************************************************)
EXTENDS PolicyJudgement

CONSTANTS MaxTime,         \* both clocks stop here: the bound of the model
          ClockMayStep     \* whether the ROS clock may be set

ASSUME ClockAssumption == MaxTime \in Nat \ {0} /\ ClockMayStep \in BOOLEAN

Times == 0 .. MaxTime
Stamps == {Malformed} \cup Times

VARIABLES
  gate,        \* _last_policy_observed_ns, _policy_recovery_barrier_ns,
               \* _rejected_future_policy_observations, ..._quarantine_until
  now,         \* the node's ROS clock
  mono,        \* time.monotonic()
  foreseen,    \* the times that have arrived while they lay in the future, and
               \* that the cache holds or a quarantine of the steady clock outlasts
  fault        \* when a decision was last refused for a fault of its own

vars == <<gate, now, mono, foreseen, fault>>

TypeOK ==
  /\ gate \in Gates
  /\ now \in Times /\ mono \in Times
  /\ foreseen \subseteq Times
  /\ fault \in Times

Init ==
  /\ gate = EmptyGate
  /\ now = 0 /\ mono = 0
  /\ foreseen = {}
  /\ fault = 0

Near(times) == {t \in times : t <= now + 2 * Timeout}
Foreseen(stamp) == foreseen \cup {t \in {stamp} : t > now /\ t <= now + 2 * Timeout}

\* An overflow that finds the clock set back promises nothing about times further
\* ahead than the quarantine lasts.
Receive(stamp) ==
  LET verdict == Judge(gate, stamp, now, mono) IN
  /\ gate' = Judged(gate, stamp, now, mono)
  /\ foreseen' = IF gate'.until # 0 THEN Near(Foreseen(stamp)) ELSE Foreseen(stamp)
  /\ fault' = IF verdict \in OwnFaults THEN now ELSE fault
  /\ UNCHANGED <<now, mono>>

Tick ==
  /\ now < MaxTime /\ mono < MaxTime
  /\ now' = now + 1 /\ mono' = mono + 1
  /\ UNCHANGED <<gate, foreseen, fault>>

\* A quarantine cannot know that the ROS clock is set back, and ends too soon.
StepClock ==
  /\ ClockMayStep
  /\ now' \in Times
  /\ foreseen' = IF gate.until # 0 /\ now' < now THEN {} ELSE foreseen
  /\ UNCHANGED <<gate, mono, fault>>

Next == (\E stamp \in Stamps : Receive(stamp)) \/ Tick \/ StepClock

Spec == Init /\ [][Next]_vars

-----------------------------------------------------------------------------
Admitted == gate'.last # gate.last

\* An observation refused while it lay in the future does not speak once its
\* time has come: not after the cache forgot it, not after the quarantine that
\* swallowed it.
NeverAdmitsForeseen == [][Admitted => gate'.last \notin foreseen]_vars

\* The observations that speak advance strictly, and after a fault only one made
\* later than it speaks, whatever other refusals and clock steps came between.
SpeaksAfterTheFault ==
  [][Admitted => gate'.last > gate.last /\ gate'.last > fault]_vars

=============================================================================
