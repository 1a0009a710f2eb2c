----------------------------- MODULE TemporalGate -----------------------------
(***************************************************************************)
(* The bookkeeping by which a node decides which camera observations may   *)
(* still speak.  The orchestrator (node.py), the motion controller         *)
(* (motion_controller_node.cpp) and the safety supervisor                  *)
(* (safety_supervisor_node.cpp) each keep one such gate and differ in the  *)
(* order of their tests, which their own modules give; the operations they *)
(* share are here, as functions on the gate.                               *)
(*                                                                         *)
(*   last     newest observation time admitted, 0 before the first         *)
(*   barrier  the recovery barrier: an observation made at or before it is *)
(*            refused; 0 when no temporal fault is open                    *)
(*   future   the replay cache: times refused while they lay in the future *)
(*   until    end of the quarantine an overflowing cache opens (steady     *)
(*            clock); 0 when there is none                                 *)
(*                                                                         *)
(* now is the ROS clock, which stamps observations; mono the steady clock. *)
(***************************************************************************)
EXTENDS Integers, FiniteSets

CONSTANTS Timeout,        \* how long an observation may speak
          MaxRejected     \* capacity of the replay cache (256 in the code)

ASSUME GateAssumption == Timeout \in Nat \ {0} /\ MaxRejected \in Nat

\* A stamp that is no time: negative seconds, or too many nanoseconds.
Malformed == -1

Later(s, t) == IF s >= t THEN s ELSE t

EmptyGate == [last |-> 0, barrier |-> 0, future |-> {}, until |-> 0]

Gates == [last : Nat, barrier : Nat, future : SUBSET Nat, until : Nat]

\* A temporal fault met at time now opens a recovery epoch, or moves it on.
Raise(g, now) == [g EXCEPT !.barrier = Later(@, now)]

\* Cached times that other tests would now refuse are dropped, and a quarantine
\* that has run out is lifted; either opens a recovery epoch.
Retained(g, now) == {t \in g.future : t >= now - Timeout /\ t > g.last}
Released(g, mono) == g.until # 0 /\ mono > g.until

BrokenPrune(g, now, mono) ==              \* NeverAdmitsForeseen: opens no epoch
  [g EXCEPT !.future = Retained(g, now),
            !.until = IF Released(g, mono) THEN 0 ELSE @]
Prune(g, now, mono) ==
  LET pruned == [g EXCEPT !.future = Retained(g, now),
                          !.until = IF Released(g, mono) THEN 0 ELSE @]
  IN  IF Retained(g, now) # g.future \/ Released(g, mono)
      THEN Raise(pruned, now)
      ELSE pruned

\* A time refused while in the future is cached; overflow trades the cache for
\* a quarantine of everything.
Remember(g, t, now, mono) ==
  LET pruned == Prune(g, now, mono)
      cache == pruned.future \cup {t}
  IN  IF pruned.until # 0 THEN pruned
      ELSE IF Cardinality(cache) <= MaxRejected THEN [pruned EXCEPT !.future = cache]
      ELSE [pruned EXCEPT !.future = {}, !.until = mono + 2 * Timeout]

\* During a quarantine another time from the future prolongs it.
Prolong(g, t, now, mono) ==
  IF g.until # 0 /\ t > now
  THEN [g EXCEPT !.until = Later(@, mono + 2 * Timeout)]
  ELSE g

Remembered(g, t) == t \in g.future \/ g.until # 0

BrokenBlocked(g, t) == FALSE    \* Speaks..., RestartsAfterTheFault, PermitsAfterTheFault
Blocked(g, t) == g.barrier > 0 /\ t <= g.barrier

\* What an admission does: the fault is over, older cached times are moot.
Admit(g, t) ==
  [g EXCEPT !.last = t, !.barrier = 0, !.future = {u \in @ : u > t}]

\* A cached or quarantined time opens an epoch only if none is open.
RefuseRemembered(g, now) == IF g.barrier = 0 THEN Raise(g, now) ELSE g

=============================================================================
