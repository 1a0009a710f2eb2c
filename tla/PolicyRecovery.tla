---------------------------- MODULE PolicyRecovery ----------------------------
(***************************************************************************)
(* The orchestrator's gate behind a pipeline that heals: up to Healing any *)
(* decision may arrive; from then on one arrives per clock unit, of the    *)
(* observation made Lag units before.                                      *)
(***************************************************************************)
EXTENDS PolicyAdmission

CONSTANTS Lag,        \* from the camera to the orchestrator, in clock units
          Healing     \* the instant after which the pipeline is healthy

\* Observations bear times: the pipeline is not healthy before the clock has
\* shown its lag.
ASSUME HealingAssumption == Lag \in 0 .. Timeout /\ Healing \in Lag .. MaxTime

VARIABLE heard        \* this unit's decision has arrived

rvars == <<vars, heard>>

Healthy == now > Healing

RInit == Init /\ heard = FALSE

Disorder ==
  /\ ~Healthy
  /\ \/ \E stamp \in {s \in Stamps : s <= now + 2 * Timeout} : Receive(stamp)
     \/ StepClock /\ now' <= Healing
  /\ UNCHANGED heard

Deliver == Healthy /\ ~heard /\ Receive(now - Lag) /\ heard' = TRUE

Pass == (Healthy => heard) /\ Tick /\ heard' = FALSE

RNext == Disorder \/ Deliver \/ Pass

RSpec == RInit /\ [][RNext]_rvars

-----------------------------------------------------------------------------
\* Whatever went wrong before, a healthy pipeline is believed again once the
\* furthest time refused in the future has come and been forgotten, and the lag
\* of the pipeline has passed: decisions that were under way when a fault was
\* met do not move its barrier on.
RecoveryTime == (2 * Timeout) + (Timeout + 1) + (Lag + 1)
RecoversInTime ==
  heard /\ now >= Healing + RecoveryTime => gate.last = now - Lag

=============================================================================
