---------------------------- MODULE AdmissionProofs ----------------------------
(***************************************************************************)
(* Proofs about the orchestrator's gate at work, for every timeout, cache  *)
(* capacity and bound of the clocks, and whether or not the ROS clock may  *)
(* be stepped.                                                             *)
(***************************************************************************)
EXTENDS PolicyRecovery, GateProofs

\* Every decision the gate meets is one the lemmas are about.
LEMMA StampFacts == Stamps \subseteq Observed
BY ClockAssumption DEF Stamps, Times, Observed

\* One step keeps the gate well formed.
LEMMA GateStepsAreTyped ==
  ASSUME TypeOK, [Next]_vars
  PROVE  TypeOK'
<1>1. ASSUME NEW stamp \in Stamps, Receive(stamp)
      PROVE  TypeOK'
  <2>1. now \in Nat /\ mono \in Nat
    BY ClockAssumption DEF TypeOK, Times
  <2>2. gate' \in Gates
    BY <1>1, <2>1, JudgedFacts, StampFacts DEF Receive, TypeOK
  <2>3. foreseen' \subseteq Times
    <3>1. stamp > now => stamp \in Times
      BY <2>1 DEF Stamps, Malformed
    <3> QED
      BY <1>1, <3>1 DEF Receive, TypeOK, Near, Foreseen
  <2> QED
    BY <1>1, <2>2, <2>3 DEF Receive, TypeOK
<1>2. CASE Tick
  BY <1>2, ClockAssumption DEF Tick, TypeOK, Times
<1>3. CASE StepClock
  BY <1>3 DEF StepClock, TypeOK
<1>4. CASE UNCHANGED vars
  BY <1>4 DEF vars, TypeOK
<1> QED
  BY <1>1, <1>2, <1>3, <1>4 DEF Next

\* The state of the gate is well formed: the times it keeps are natural numbers
\* whatever decisions arrive and however the clock is stepped.
THEOREM GateTypeCorrect == Spec => []TypeOK
<1>1. Init => TypeOK
  BY ClockAssumption DEF Init, TypeOK, EmptyGate, Gates, Times
<1>2. TypeOK /\ [Next]_vars => TypeOK'
  BY GateStepsAreTyped
<1> QED
  BY <1>1, <1>2, PTL DEF Spec

\* The latest fault is never later than the epoch in force, or than the newest
\* observation that has spoken since.
FaultKept == fault <= gate.last \/ fault <= gate.barrier

\* The fault last met stays behind the newest admitted time or the barrier.
LEMMA FaultStep == TypeOK /\ FaultKept /\ [Next]_vars => FaultKept'
<1> SUFFICES ASSUME TypeOK, FaultKept, [Next]_vars
             PROVE  FaultKept'
  OBVIOUS
<1>1. /\ now \in Nat /\ mono \in Nat /\ fault \in Nat /\ gate \in Gates
      /\ gate.last \in Nat /\ gate.barrier \in Nat
  BY ClockAssumption DEF TypeOK, Times, Gates
<1>2. ASSUME NEW stamp \in Stamps, Receive(stamp)
      PROVE  FaultKept'
  <2> DEFINE v == Judge(gate, stamp, now, mono)
             j == Judged(gate, stamp, now, mono)
  <2>1. /\ j \in Gates
        /\ v = "admitted" => j.last = stamp /\ stamp > gate.last /\ stamp > gate.barrier
        /\ v # "admitted" => j.last = gate.last /\ j.barrier >= gate.barrier
        /\ v \in OwnFaults => j.barrier >= now
    BY <1>1, JudgedFacts, StampFacts
  <2>2. gate' = j /\ fault' = IF v \in OwnFaults THEN now ELSE fault
    BY <1>2 DEF Receive
  <2>3. v \in OwnFaults => v # "admitted"
    BY DEF OwnFaults
  <2> HIDE DEF v, j
  <2>4. j.last \in Nat /\ j.barrier \in Nat
    BY <2>1 DEF Gates
  <2>5. stamp \in Int
    BY ClockAssumption DEF Stamps, Times, Malformed
  <2> QED
    BY <1>1, <2>1, <2>2, <2>3, <2>4, <2>5 DEF FaultKept
<1>3. CASE Tick \/ StepClock \/ UNCHANGED vars
  BY <1>3 DEF Tick, StepClock, vars, FaultKept
<1> QED
  BY <1>2, <1>3 DEF Next

\* Whatever decisions arrive, in any order, and however the ROS clock is stepped:
\* observations speak in strictly increasing order, and after a fault only later
\* ones do.
THEOREM SpeaksAfterTheFaultAlways == Spec => SpeaksAfterTheFault
<1>1. Init => FaultKept
  BY DEF Init, FaultKept, EmptyGate
<1>2. TypeOK /\ FaultKept /\ [Next]_vars =>
        [Admitted => gate'.last > gate.last /\ gate'.last > fault]_vars
  <2> SUFFICES ASSUME TypeOK, FaultKept, Next, Admitted
               PROVE  gate'.last > gate.last /\ gate'.last > fault
    BY DEF vars
  <2>1. /\ now \in Nat /\ mono \in Nat /\ fault \in Nat /\ gate \in Gates
        /\ gate.last \in Nat /\ gate.barrier \in Nat
    BY ClockAssumption DEF TypeOK, Times, Gates
  <2>2. PICK stamp \in Stamps : Receive(stamp)
    BY DEF Next, Tick, StepClock, Admitted
  <2> DEFINE v == Judge(gate, stamp, now, mono)
             j == Judged(gate, stamp, now, mono)
  <2>3. /\ v = "admitted" => j.last = stamp /\ stamp > gate.last /\ stamp > gate.barrier
        /\ v # "admitted" => j.last = gate.last
    BY <2>1, JudgedFacts, StampFacts
  <2>4. gate' = j
    BY <2>2 DEF Receive
  <2> HIDE DEF v, j
  <2>5. gate'.last = stamp /\ stamp > gate.last /\ stamp > gate.barrier
    BY <2>3, <2>4 DEF Admitted
  <2>6. stamp \in Int
    BY ClockAssumption DEF Stamps, Times, Malformed
  <2> QED
    BY <2>1, <2>5, <2>6 DEF FaultKept
<1> QED
  BY <1>1, <1>2, FaultStep, GateTypeCorrect, PTL DEF Spec, SpeaksAfterTheFault

\* The gate knows of every foreseen time.
ForeseenKept == \A t \in foreseen : t > 0 /\ Covered(gate, t, now, mono)

\* Every step keeps the foreseen times covered.
LEMMA ForeseenStep == TypeOK /\ ForeseenKept /\ [Next]_vars => ForeseenKept'
<1> SUFFICES ASSUME TypeOK, ForeseenKept, [Next]_vars
             PROVE  ForeseenKept'
  OBVIOUS
<1>1. /\ now \in Nat /\ mono \in Nat /\ gate \in Gates /\ foreseen \subseteq Nat
      /\ Timeout \in Nat /\ gate.until \in Nat
  BY ClockAssumption, GateAssumption DEF TypeOK, Times, Gates
<1>2. ASSUME NEW stamp \in Stamps, Receive(stamp)
      PROVE  ForeseenKept'
  <2>1. /\ gate' = Judged(gate, stamp, now, mono)
        /\ foreseen' = IF gate'.until # 0 THEN Near(Foreseen(stamp)) ELSE Foreseen(stamp)
        /\ now' = now /\ mono' = mono
    BY <1>2 DEF Receive
  <2>2. ASSUME NEW t \in foreseen'
        PROVE  t > 0 /\ Covered(gate', t, now, mono)
    <3>1. /\ t \in foreseen \/ (t = stamp /\ stamp > now /\ stamp <= now + 2 * Timeout)
          /\ gate'.until # 0 => t <= now + 2 * Timeout
      BY <2>1, <2>2 DEF Near, Foreseen
    <3>2. CASE t \in foreseen
      BY <1>1, <2>1, <3>1, <3>2, JudgedCovers, StampFacts DEF ForeseenKept
    <3>3. CASE t = stamp /\ stamp > now /\ stamp <= now + 2 * Timeout
      <4>1. stamp > 0
        BY <1>1, <3>3 DEF Stamps, Times, Malformed
      <4> QED
        BY <1>1, <2>1, <3>3, <4>1, ForeseenCovered, StampFacts
    <3> QED
      BY <3>1, <3>2, <3>3
  <2> QED
    BY <2>1, <2>2 DEF ForeseenKept, Covered
<1>3. CASE Tick
  <2>1. /\ gate' = gate /\ foreseen' = foreseen
        /\ now' = now + 1 /\ mono' = mono + 1
    BY <1>3 DEF Tick
  <2>2. ASSUME NEW t \in foreseen
        PROVE  t > 0 /\ Covered(gate, t, now + 1, mono + 1)
    <3>1. t \in Nat /\ t > 0 /\ Covered(gate, t, now, mono)
      BY <1>1 DEF ForeseenKept
    <3>2. t + mono <= gate.until + now => t + (mono + 1) <= gate.until + (now + 1)
      BY <1>1, <3>1
    <3> QED
      BY <3>1, <3>2 DEF Covered
  <2> QED
    BY <2>1, <2>2 DEF ForeseenKept
<1>4. CASE StepClock
  <2>1. /\ gate' = gate /\ mono' = mono /\ now' \in Nat
        /\ foreseen' = IF gate.until # 0 /\ now' < now THEN {} ELSE foreseen
    BY <1>4, ClockAssumption DEF StepClock, Times
  <2>2. CASE gate.until # 0 /\ now' < now
    BY <2>1, <2>2 DEF ForeseenKept
  <2>3. CASE gate.until = 0 \/ now' >= now
    <3>1. ASSUME NEW t \in foreseen
          PROVE  t > 0 /\ Covered(gate, t, now', mono)
      <4>1. t \in Nat /\ t > 0 /\ Covered(gate, t, now, mono)
        BY <1>1 DEF ForeseenKept
      <4>2. now' >= now => (t + mono <= gate.until + now => t + mono <= gate.until + now')
        BY <1>1, <2>1, <4>1
      <4> QED
        BY <2>3, <4>1, <4>2 DEF Covered
    <3>2. foreseen' \subseteq foreseen
      BY <2>1
    <3> QED
      BY <2>1, <3>1, <3>2 DEF ForeseenKept
  <2> QED
    BY <1>1, <2>1, <2>2, <2>3
<1>5. CASE UNCHANGED vars
  BY <1>5 DEF vars, ForeseenKept
<1> QED
  BY <1>2, <1>3, <1>4, <1>5 DEF Next

\* An observation refused while it lay in the future (by no more than two timeouts)
\* never speaks, however many decisions overflow the cache in the meantime and
\* however the ROS clock is stepped: unless it was set back during a quarantine, or
\* so far that an overflow met the time still further ahead.
THEOREM NeverAdmitsForeseenAlways == Spec => NeverAdmitsForeseen
<1>1. Init => ForeseenKept
  BY DEF Init, ForeseenKept
<1>2. TypeOK /\ ForeseenKept /\ [Next]_vars => [Admitted => gate'.last \notin foreseen]_vars
  <2> SUFFICES ASSUME TypeOK, ForeseenKept, Next, Admitted, gate'.last \in foreseen
               PROVE  FALSE
    BY DEF vars
  <2>1. /\ now \in Nat /\ mono \in Nat /\ gate \in Gates /\ foreseen \subseteq Nat
        /\ gate.last \in Nat /\ gate.barrier \in Nat
    BY ClockAssumption DEF TypeOK, Times, Gates
  <2>2. PICK stamp \in Stamps : Receive(stamp)
    BY DEF Next, Tick, StepClock, Admitted
  <2> DEFINE s == SeenBy(gate, stamp, now, mono)
  <2>3. gate' = After(s, Verdict(s, stamp, now), stamp, now, mono)
    BY <2>2 DEF Receive, Judged
  <2>4. s \in Gates /\ s.last = gate.last
    BY <2>1, SeenFacts, StampFacts
  <2>5. Verdict(s, stamp, now) = "admitted" /\ gate'.last = stamp
    <3> HIDE DEF s
    <3> QED
      BY <2>1, <2>3, <2>4, AfterFacts, StampFacts DEF Admitted
  <2>6. Covered(s, stamp, now, mono) /\ stamp > 0
    BY <2>1, <2>5, SeenCovers, StampFacts DEF ForeseenKept
  <2> HIDE DEF s
  <2>7. /\ stamp > s.last /\ stamp \in Nat
        /\ ~Remembered(s, stamp) /\ ~Blocked(s, stamp)
    BY <2>1, <2>4, <2>5, VerdictFacts, StampFacts
  <2>8. s.last \in Nat /\ s.barrier \in Nat
    BY <2>4 DEF Gates
  <2> QED
    BY <2>6, <2>7, <2>8 DEF Covered, Remembered, Blocked
<1> QED
  BY <1>1, <1>2, ForeseenStep, GateTypeCorrect, PTL DEF Spec, NeverAdmitsForeseen

-----------------------------------------------------------------------------
\* The last instant at which a remembered time can still move the barrier on.
Horizon == Healing + 3 * Timeout + 1

\* The last unit of which the decision has arrived.
Served == IF heard THEN now ELSE now - 1

\* While anything may arrive, the gate keeps nothing beyond what a decision of the
\* disorder could have taught it.
BoundedInDisorder ==
  /\ gate.last <= Healing /\ gate.barrier <= Healing
  /\ gate.until <= mono + 2 * Timeout

\* Afterwards its newest observation is the pipeline's, the quarantine is not
\* prolonged, and the cache holds nothing that the last decision would have dropped.
BoundedInHealth ==
  /\ gate.last <= Later(Healing, Served - Lag) /\ gate.barrier <= Horizon
  /\ gate.until # 0 => gate.until + now <= mono + Healing + 2 * Timeout
  /\ Served > Healing =>
       /\ \A t \in gate.future : t >= Served - Timeout
       /\ gate.until # 0 => mono + Served <= gate.until + now

Recovering ==
  /\ heard \in BOOLEAN
  /\ \A t \in gate.future : t <= Healing + 2 * Timeout
  /\ ~Healthy => ~heard /\ BoundedInDisorder
  /\ Healthy => BoundedInHealth
  /\ RecoversInTime

\* The kinds of the constants and of the state, as the proofs below need them.
LEMMA RecoveryKinds ==
  ASSUME TypeOK
  PROVE  /\ Timeout \in Nat \ {0} /\ MaxTime \in Nat
         /\ Lag \in Nat /\ Lag <= Timeout
         /\ Healing \in Nat /\ Lag <= Healing /\ Healing <= MaxTime
         /\ now \in Nat /\ now <= MaxTime /\ mono \in Nat /\ gate \in Gates
         /\ gate.last \in Nat /\ gate.barrier \in Nat /\ gate.until \in Nat
         /\ gate.future \subseteq Nat
BY GateAssumption, ClockAssumption, HealingAssumption DEF TypeOK, Times, Gates

\* A healing pipeline is one of those that PolicyAdmission admits.
LEMMA HealingRefinesStep == TypeOK /\ [RNext]_rvars => [Next]_vars
<1> SUFFICES ASSUME TypeOK, [RNext]_rvars
             PROVE  [Next]_vars
  OBVIOUS
<1>1. CASE Disorder
  BY <1>1 DEF Disorder, Next
<1>2. CASE Deliver
  <2>1. now - Lag \in Stamps
    BY <1>2, RecoveryKinds DEF Deliver, Healthy, Stamps, Times
  <2> QED
    BY <1>2, <2>1 DEF Deliver, Next
<1>3. CASE Pass \/ UNCHANGED rvars
  BY <1>3 DEF Pass, rvars, Next
<1> QED
  BY <1>1, <1>2, <1>3 DEF RNext

\* While the cache or the quarantine holds anything, the horizon has not passed.
LEMMA HorizonAhead ==
  ASSUME TypeOK, Recovering, Healthy, ~heard,
         gate.future # {} \/ gate.until # 0
  PROVE  now <= Horizon
<1> USE RecoveryKinds
<1>1. CASE now - 1 <= Healing
  BY <1>1 DEF Horizon
<1>2. CASE now - 1 > Healing
  <2>1. /\ \A t \in gate.future : t >= now - 1 - Timeout /\ t <= Healing + 2 * Timeout
        /\ gate.until # 0 => /\ mono + (now - 1) <= gate.until + now
                             /\ gate.until + now <= mono + Healing + 2 * Timeout
    BY <1>2 DEF Recovering, BoundedInHealth, Served
  <2>2. CASE gate.until # 0
    BY <2>1, <2>2 DEF Horizon
  <2>3. CASE gate.future # {}
    <3>1. PICK t \in gate.future : TRUE
      BY <2>3
    <3>2. t \in Nat /\ t >= now - 1 - Timeout /\ t <= Healing + 2 * Timeout
      BY <2>1, <3>1
    <3> QED
      BY <3>2 DEF Horizon
  <2> QED
    BY <2>2, <2>3
<1> QED
  BY <1>1, <1>2

\* What pruning leaves of a gate when the decision of this unit arrives.
LEMMA PrunedInHealth ==
  ASSUME TypeOK, Recovering, Healthy, ~heard
  PROVE  LET p == Prune(gate, now, mono)
         IN  /\ p \in Gates /\ p.last = gate.last
             /\ p.future \subseteq gate.future
             /\ \A t \in p.future : t >= now - Timeout
             /\ p.until = 0 \/ (p.until = gate.until /\ mono <= p.until)
             /\ p.barrier <= Horizon
<1> DEFINE p == Prune(gate, now, mono)
           q == [gate EXCEPT !.future = Retained(gate, now),
                             !.until = IF Released(gate, mono) THEN 0 ELSE @]
<1> USE RecoveryKinds
<1>1. /\ q \in Gates /\ q.last = gate.last /\ q.barrier = gate.barrier
      /\ q.future = Retained(gate, now)
      /\ q.until = IF Released(gate, mono) THEN 0 ELSE gate.until
  BY DEF Gates, Retained
<1>2. p = IF Retained(gate, now) # gate.future \/ Released(gate, mono)
          THEN Raise(q, now) ELSE q
  BY DEF Prune
<1>3. /\ Retained(gate, now) \subseteq gate.future
      /\ \A t \in Retained(gate, now) : t >= now - Timeout
      /\ ~Released(gate, mono) => gate.until = 0 \/ mono <= gate.until
  BY DEF Retained, Released
<1>4. gate.barrier <= Horizon /\ Horizon \in Nat
  BY DEF Recovering, BoundedInHealth, Horizon
<1>5. Retained(gate, now) # gate.future \/ Released(gate, mono) => now <= Horizon
  <2>1. Retained(gate, now) # gate.future => gate.future # {}
    BY <1>3
  <2>2. Released(gate, mono) => gate.until # 0
    BY DEF Released
  <2> QED
    BY <2>1, <2>2, HorizonAhead
<1> HIDE DEF q
<1>6. /\ Raise(q, now) \in Gates /\ Raise(q, now).last = q.last
      /\ Raise(q, now).future = q.future /\ Raise(q, now).until = q.until
  BY <1>1, RaiseFacts
<1>7. Raise(q, now).barrier = Later(gate.barrier, now)
  BY <1>1 DEF Raise, Gates
<1>8. p \in {q, Raise(q, now)}
  BY <1>2
<1>9. p.barrier <= Horizon
  BY <1>1, <1>2, <1>4, <1>5, <1>7 DEF Later
<1> HIDE DEF p
<1>10. /\ p \in Gates /\ p.last = gate.last /\ p.future = Retained(gate, now)
       /\ p.until = IF Released(gate, mono) THEN 0 ELSE gate.until
  BY <1>1, <1>6, <1>8
<1>11. p.until = 0 \/ (p.until = gate.until /\ mono <= p.until)
  BY <1>3, <1>10
<1> QED
  BY <1>3, <1>9, <1>10, <1>11 DEF p

\* What the decision of this unit leaves: the barrier does not pass the horizon, and
\* once the horizon lies behind its observation, the observation speaks.
LEMMA DeliveredInHealth ==
  ASSUME TypeOK, Recovering, Healthy, ~heard
  PROVE  LET j == Judged(gate, now - Lag, now, mono)
         IN  /\ j.last <= Later(Healing, now - Lag)
             /\ j.future \subseteq gate.future
             /\ \A t \in j.future : t >= now - Timeout
             /\ j.until = 0 \/ (j.until = gate.until /\ mono <= j.until)
             /\ j.barrier <= Horizon
             /\ now - Lag > Horizon => j.last = now - Lag
<1> DEFINE p == Prune(gate, now, mono)
           s == now - Lag
           j == Judged(gate, s, now, mono)
<1> USE RecoveryKinds
<1>1. s \in Nat /\ s > 0 /\ s <= now /\ now - s <= Timeout
  BY DEF Healthy
<1>2. /\ p \in Gates /\ p.last = gate.last
      /\ p.future \subseteq gate.future
      /\ \A t \in p.future : t >= now - Timeout
      /\ p.until = 0 \/ (p.until = gate.until /\ mono <= p.until)
      /\ p.barrier <= Horizon
  BY PrunedInHealth
<1>3. \/ Remembered(p, s) /\ j = RefuseRemembered(p, now)
      \/ Blocked(p, s) /\ j = p
      \/ s <= p.last /\ j = Raise(p, now)
      \/ ~Remembered(p, s) /\ ~Blocked(p, s) /\ j = Admit(p, s)
  BY <1>1, PunctualFacts
<1>4. gate.last <= Later(Healing, now - 1 - Lag) /\ Horizon \in Nat /\ Horizon >= Healing + Lag
  BY DEF Recovering, BoundedInHealth, Served, Horizon
<1> HIDE DEF p, j
<1>5. p.barrier \in Nat /\ p.last <= Later(Healing, s)
  BY <1>2, <1>4 DEF Gates, Later
<1> SUFFICES /\ j.last <= Later(Healing, s)
             /\ j.future \subseteq p.future
             /\ j.until = p.until
             /\ j.barrier <= Horizon
             /\ s > Horizon => j.last = s
  BY <1>2 DEF j
<1>6. ASSUME now <= Horizon
      PROVE  /\ ~(s > Horizon)
             /\ Raise(p, now).last = p.last /\ Raise(p, now).future = p.future
             /\ Raise(p, now).until = p.until /\ Raise(p, now).barrier <= Horizon
  <2>1. ~(s > Horizon)
    BY <1>4, <1>6
  <2>2. Raise(p, now).barrier = Later(p.barrier, now)
    BY <1>2 DEF Raise, Gates
  <2>3. Later(p.barrier, now) <= Horizon
    BY <1>2, <1>6 DEF Later
  <2> QED
    BY <1>2, <2>1, <2>2, <2>3, RaiseFacts
<1>7. CASE Remembered(p, s) /\ j = RefuseRemembered(p, now)
  <2>1. gate.future # {} \/ gate.until # 0
    BY <1>2, <1>7 DEF Remembered
  <2>2. now <= Horizon
    BY <2>1, HorizonAhead
  <2> HIDE DEF s
  <2> QED
    BY <1>2, <1>5, <1>6, <1>7, <2>2 DEF RefuseRemembered
<1>8. CASE Blocked(p, s) /\ j = p
  BY <1>1, <1>2, <1>4, <1>5, <1>8 DEF Blocked
<1>9. CASE s <= p.last /\ j = Raise(p, now)
  <2>1. s <= Healing
    BY <1>1, <1>2, <1>4, <1>9 DEF Later
  <2>2. now <= Horizon
    BY <1>4, <2>1
  <2> HIDE DEF s
  <2> QED
    BY <1>5, <1>6, <1>9, <2>2
<1>10. CASE ~Remembered(p, s) /\ ~Blocked(p, s) /\ j = Admit(p, s)
  <2>1. /\ j.last = s /\ j.barrier = 0 /\ j.until = p.until
        /\ j.future = {t \in p.future : t > s}
    BY <1>1, <1>2, <1>10, AdmitFacts
  <2> QED
    BY <1>1, <1>4, <2>1 DEF Later
<1> QED
  BY <1>3, <1>7, <1>8, <1>9, <1>10

\* The bounds hold while anything may arrive.
LEMMA DisorderKeeps ==
  ASSUME TypeOK, TypeOK', Recovering, Disorder
  PROVE  Recovering'
<1> USE RecoveryKinds
<1>1. ~Healthy /\ ~heard /\ heard' = heard /\ mono' = mono /\ now <= Healing
  BY DEF Disorder, Receive, StepClock, Recovering, Healthy
<1>2. Bounded(gate, Healing, Healing + 2 * Timeout, mono + 2 * Timeout)
  BY <1>1 DEF Recovering, BoundedInDisorder, Bounded
<1>3. /\ now' <= Healing /\ now' \in Nat
      /\ Bounded(gate', Healing, Healing + 2 * Timeout, mono + 2 * Timeout)
  <2>1. CASE \E stamp \in {s \in Stamps : s <= now + 2 * Timeout} : Receive(stamp)
    <3>1. PICK stamp \in Stamps : stamp <= now + 2 * Timeout /\ Receive(stamp)
      BY <2>1
    <3>2. stamp \in Observed /\ stamp <= Healing + 2 * Timeout
      BY <1>1, <3>1, StampFacts DEF Observed, Malformed
    <3>3. Bounded(Judged(gate, stamp, now, mono),
                  Healing, Healing + 2 * Timeout, mono + 2 * Timeout)
      <4>1. Healing + 2 * Timeout \in Nat /\ mono + 2 * Timeout \in Nat
        OBVIOUS
      <4>2. mono + 2 * Timeout <= mono + 2 * Timeout
        BY <4>1
      <4> QED
        BY <1>1, <1>2, <3>2, <4>1, <4>2, JudgedBounded
    <3> QED
      BY <1>1, <3>1, <3>3 DEF Receive
  <2>2. CASE StepClock /\ now' <= Healing
    BY <1>2, <2>2 DEF StepClock, Times
  <2> QED
    BY <2>1, <2>2 DEF Disorder
<1>4. ~Healthy'
  BY <1>3 DEF Healthy
<1> QED
  BY <1>1, <1>3, <1>4 DEF Recovering, BoundedInDisorder, Bounded, RecoversInTime

\* They hold when the decision of a unit has arrived.
LEMMA DeliverKeeps ==
  ASSUME TypeOK, Recovering, Deliver
  PROVE  Recovering'
<1> USE RecoveryKinds
<1>1. /\ Healthy /\ ~heard /\ heard' = TRUE /\ now' = now /\ mono' = mono
      /\ gate' = Judged(gate, now - Lag, now, mono)
  BY DEF Deliver, Receive
<1>2. /\ gate'.last <= Later(Healing, now - Lag)
      /\ gate'.future \subseteq gate.future
      /\ \A t \in gate'.future : t >= now - Timeout
      /\ gate'.until = 0 \/ (gate'.until = gate.until /\ mono <= gate'.until)
      /\ gate'.barrier <= Horizon
      /\ now - Lag > Horizon => gate'.last = now - Lag
  BY <1>1, DeliveredInHealth
<1>3. Healthy' /\ Served' = now
  BY <1>1 DEF Healthy, Served
<1>4. gate'.until # 0 => /\ gate'.until + now <= mono + Healing + 2 * Timeout
                         /\ mono + now <= gate'.until + now
  BY <1>1, <1>2 DEF Recovering, BoundedInHealth
<1>5. BoundedInHealth'
  BY <1>1, <1>2, <1>3, <1>4 DEF BoundedInHealth, Horizon
<1>6. RecoversInTime'
  BY <1>1, <1>2 DEF RecoversInTime, RecoveryTime, Horizon
<1>7. \A t \in gate'.future : t <= Healing + 2 * Timeout
  BY <1>2 DEF Recovering
<1> QED
  BY <1>1, <1>3, <1>5, <1>6, <1>7 DEF Recovering

\* And when the unit has passed, the first healthy one included.
LEMMA PassKeeps ==
  ASSUME TypeOK, Recovering, Pass
  PROVE  Recovering'
<1> USE RecoveryKinds
<1>1. /\ now' = now + 1 /\ mono' = mono + 1 /\ gate' = gate /\ heard' = FALSE
      /\ Healthy => heard
  BY DEF Pass, Tick
<1>2. Served' = now
  BY <1>1 DEF Served
<1>3. CASE Healthy
  <2>1. Served = now /\ Healthy' /\ BoundedInHealth
    BY <1>1, <1>3 DEF Served, Healthy, Recovering
  <2>2. BoundedInHealth'
    BY <1>1, <1>2, <2>1 DEF BoundedInHealth, Horizon
  <2> QED
    BY <1>1, <2>1, <2>2 DEF Recovering, RecoversInTime
<1>4. CASE ~Healthy
  <2>1. BoundedInDisorder /\ now <= Healing
    BY <1>4 DEF Recovering, Healthy
  <2>2. BoundedInDisorder'
    BY <1>1, <2>1 DEF BoundedInDisorder
  <2>3. Healthy' => BoundedInHealth'
    BY <1>1, <1>2, <2>1 DEF BoundedInDisorder, BoundedInHealth, Horizon, Healthy, Later
  <2> QED
    BY <1>1, <2>2, <2>3 DEF Recovering, RecoversInTime
<1> QED
  BY <1>3, <1>4

\* Recovering holds in every reachable state of the recovery.
LEMMA RecoveringAlways == RSpec => [](TypeOK /\ Recovering)
<1>1. RInit => Init
  BY DEF RInit
<1>2. Init => TypeOK
  BY ClockAssumption DEF Init, TypeOK, EmptyGate, Gates, Times
<1>3. RInit => Recovering
  <2> SUFFICES ASSUME RInit
               PROVE  Recovering
    OBVIOUS
  <2>1. Healing \in Nat /\ Timeout \in Nat
    BY GateAssumption, ClockAssumption, HealingAssumption
  <2>2. /\ heard = FALSE /\ now = 0 /\ mono = 0
        /\ gate.last = 0 /\ gate.barrier = 0 /\ gate.future = {} /\ gate.until = 0
    BY DEF RInit, Init, EmptyGate
  <2>3. ~Healthy /\ BoundedInDisorder
    BY <2>1, <2>2 DEF Healthy, BoundedInDisorder
  <2> QED
    BY <2>2, <2>3 DEF Recovering, RecoversInTime
<1>4. TypeOK /\ Recovering /\ [RNext]_rvars => (TypeOK /\ Recovering)'
  <2> SUFFICES ASSUME TypeOK, Recovering, [RNext]_rvars
               PROVE  TypeOK' /\ Recovering'
    OBVIOUS
  <2>1. TypeOK'
    BY HealingRefinesStep, GateStepsAreTyped
  <2>2. CASE UNCHANGED rvars
    <3>1. heard' = heard /\ gate' = gate /\ now' = now /\ mono' = mono
      BY <2>2 DEF rvars, vars
    <3>2. /\ Healthy' = Healthy /\ BoundedInDisorder' = BoundedInDisorder
          /\ BoundedInHealth' = BoundedInHealth /\ RecoversInTime' = RecoversInTime
      BY <3>1, Zenon DEF Healthy, BoundedInDisorder, BoundedInHealth, Served, RecoversInTime
    <3> QED
      BY <2>1, <3>1, <3>2, Zenon DEF Recovering
  <2> QED
    BY <2>1, <2>2, DisorderKeeps, DeliverKeeps, PassKeeps DEF RNext
<1> QED
  BY <1>1, <1>2, <1>3, <1>4, PTL DEF RSpec

\* For every timeout, lag, capacity of the cache and length of the disorder: whatever
\* decisions and clock steps the gate of _policy_source_reference was put through, it
\* believes a healthy pipeline again within RecoveryTime, and stays with it.
THEOREM RecoversInTimeAlways == RSpec => []RecoversInTime
<1>1. Recovering => RecoversInTime
  BY DEF Recovering
<1> QED
  BY <1>1, RecoveringAlways, PTL

\* A pipeline that heals is one that PolicyAdmission knows: what is proved of the gate
\* at work holds of it.
THEOREM HealingRefinesAdmission == RSpec => Spec
<1>1. RInit => Init
  BY DEF RInit
<1> QED
  BY <1>1, HealingRefinesStep, RecoveringAlways, PTL DEF RSpec, Spec

=============================================================================
