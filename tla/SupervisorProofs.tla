--------------------------- MODULE SupervisorProofs ---------------------------
(***************************************************************************)
(* The safety supervisor's two promises about what its topic holds, for    *)
(* every assessment timeout, watchdog period and cache capacity.           *)
(***************************************************************************)
EXTENDS SafetySupervisor, GateProofs

\* Looking at the cache and the quarantine loses nothing the gate knows.
LEMMA LookedFacts ==
  ASSUME gate \in Gates, now \in Nat, NEW stamp \in Stamps
  PROVE  /\ Looked(stamp) \in Gates
         /\ Looked(stamp).last = gate.last /\ Looked(stamp).barrier >= gate.barrier
<1>1. CASE stamp = Malformed
  BY <1>1 DEF Looked, Gates
<1>2. CASE stamp # Malformed
  <2> DEFINE p == Prune(gate, now, now)
  <2>0. stamp \in Nat
    BY <1>2, PeriodAssumption DEF Stamps
  <2>1. p \in Gates /\ p.last = gate.last /\ p.barrier >= gate.barrier
    BY PruneFacts
  <2>2. Looked(stamp) = Prolong(p, stamp, now, now)
    BY <1>2 DEF Looked
  <2> HIDE DEF p
  <2>3. /\ Prolong(p, stamp, now, now) \in Gates
        /\ Prolong(p, stamp, now, now).last = p.last
        /\ Prolong(p, stamp, now, now).barrier = p.barrier
    BY <2>0, <2>1, ProlongFacts
  <2> QED
    BY <2>1, <2>2, <2>3
<1> QED
  BY <1>1, <1>2

\* A fault moves the recovery barrier on to now, and leaves the newest time.
LEMMA FaultedFacts ==
  ASSUME NEW g \in Gates, now \in Nat, NEW stamp \in Int
  PROVE  /\ Faulted(g, stamp) \in Gates
         /\ Faulted(g, stamp).last = g.last
         /\ Faulted(g, stamp).barrier >= now /\ Faulted(g, stamp).barrier >= g.barrier
<1> DEFINE r == IF stamp > now THEN Remember(g, stamp, now, now) ELSE g
<1>1. r \in Gates /\ r.last = g.last /\ r.barrier >= g.barrier
  <2>1. CASE stamp > now
    <3>1. stamp \in Nat
      BY <2>1
    <3>2. /\ Remember(g, stamp, now, now) \in Gates
          /\ Remember(g, stamp, now, now).last = Prune(g, now, now).last
          /\ Remember(g, stamp, now, now).barrier = Prune(g, now, now).barrier
      BY <3>1, RememberFacts
    <3>3. Prune(g, now, now).last = g.last /\ Prune(g, now, now).barrier >= g.barrier
      BY PruneFacts
    <3> QED
      BY <2>1, <3>2, <3>3
  <2>2. CASE ~(stamp > now)
    BY <2>2 DEF Gates
  <2> QED
    BY <2>1, <2>2
<1>2. Faulted(g, stamp) = Raise(r, now)
  BY DEF Faulted
<1> HIDE DEF r
<1>3. /\ Raise(r, now) \in Gates /\ Raise(r, now).last = r.last
      /\ Raise(r, now).barrier >= r.barrier /\ Raise(r, now).barrier >= now
  BY <1>1, RaiseFacts
<1>4. g.barrier \in Nat /\ r.barrier \in Nat /\ Raise(r, now).barrier \in Nat
  BY <1>1, <1>3 DEF Gates
<1> QED
  BY <1>1, <1>2, <1>3, <1>4

-----------------------------------------------------------------------------
\* The parts of the type invariant the promises rest on.
Typed ==
  /\ gate \in Gates /\ lease \in Nat /\ timeout_published \in BOOLEAN
  /\ decision \in [action : Actions, status : Statuses, stamp : Int]
  /\ fault \in Nat /\ now \in Nat /\ watchdog_due \in 0 .. WatchdogPeriod

\* The fault last met is behind the newest admitted observation, or the barrier.
FaultKept == fault <= gate.last \/ fault <= gate.barrier

\* A permissive decision is of the newest observation, which the lease is no younger
\* than until it has run out, and which has outlived its timeout at most since the
\* watchdog last looked.
PermitsInTime ==
  Permits =>
    /\ decision.stamp = gate.last /\ timeout_published = FALSE
    /\ lease > Timeout \/ now - gate.last <= lease
    /\ now - gate.last <= Timeout + (WatchdogPeriod - watchdog_due)

Safe == Typed /\ FaultKept /\ PermitsInTime

\* The answers to an assessment: a fail-closed one, or one that admits it.
LEMMA AssessmentStep ==
  ASSUME Safe, NEW stamp \in Stamps, NEW dds \in DdsAges, NEW answer \in Answers,
         HandleAssessment(stamp, dds, answer.action, answer.status)
  PROVE  /\ Typed' /\ FaultKept' /\ UNCHANGED <<now, watchdog_due>>
         /\ \/ ~Permits'
            \/ /\ stamp \in Nat /\ stamp > fault /\ stamp > gate.last
               /\ gate'.last = stamp /\ decision'.stamp = stamp
               /\ stamp <= now /\ now - stamp <= Timeout
               /\ timeout_published' = FALSE /\ lease' \in Nat /\ now - stamp <= lease'
<1> DEFINE g == Looked(stamp)
<1>1. /\ gate \in Gates /\ now \in Nat /\ fault \in Nat /\ lease \in Nat
      /\ gate.last \in Nat /\ gate.barrier \in Nat
      /\ Timeout \in Nat /\ stamp \in Int
  BY GateAssumption, PeriodAssumption DEF Safe, Typed, Gates, Stamps, Malformed
<1>2. g \in Gates /\ g.last = gate.last /\ g.barrier >= gate.barrier
  BY <1>1, LookedFacts
<1>3. /\ Faulted(g, stamp) \in Gates /\ Faulted(g, stamp).last = g.last
      /\ Faulted(g, stamp).barrier >= now /\ Faulted(g, stamp).barrier >= g.barrier
  <2> HIDE DEF g
  <2> QED
    BY <1>1, <1>2, FaultedFacts
<1>4. /\ g.barrier \in Nat /\ Faulted(g, stamp).barrier \in Nat
  <2> HIDE DEF g
  <2> QED
    BY <1>2, <1>3 DEF Gates
<1>5. UNCHANGED <<now, watchdog_due>>
  BY DEF HandleAssessment
<1>6. answer.action \in Actions /\ answer.status \in Statuses
  BY DEF Answers, Actions, Statuses
<1>7. CASE \E advance \in BOOLEAN :
             /\ StaleStop(g, stamp, advance)
             /\ fault' \in {fault, now} /\ (fault' = now /\ fault' # fault => advance)
  <2>1. PICK advance \in BOOLEAN :
             /\ StaleStop(g, stamp, advance)
             /\ fault' \in {fault, now} /\ (fault' = now /\ fault' # fault => advance)
    BY <1>7
  <2> HIDE DEF g
  <2>2. /\ timeout_published' = TRUE /\ lease' = lease
        /\ decision' = [action |-> "STOP", status |-> "STALE", stamp |-> stamp]
        /\ gate' = IF advance THEN Faulted(g, stamp) ELSE g
    BY <2>1 DEF StaleStop, Publish
  <2>3. ~Permits'
    BY <2>2 DEF Permits
  <2>4. Typed'
    <3>1. gate' \in Gates
      BY <1>2, <1>3, <2>2
    <3>2. decision' \in [action : Actions, status : Statuses, stamp : Int]
      BY <1>1, <2>2 DEF Actions, Statuses
    <3>3. fault' \in Nat
      BY <1>1, <2>1
    <3> QED
      BY <1>1, <1>5, <2>2, <3>1, <3>2, <3>3 DEF Safe, Typed
  <2>5. FaultKept'
    <3>1. gate'.last = gate.last /\ gate'.barrier >= gate.barrier /\ gate'.barrier \in Nat
      BY <1>1, <1>2, <1>3, <1>4, <2>2
    <3>2. fault' # fault => fault' = now /\ gate'.barrier >= now
      BY <1>3, <2>1, <2>2
    <3> QED
      BY <1>1, <3>1, <3>2 DEF Safe, FaultKept
  <2> QED
    BY <1>5, <2>3, <2>4, <2>5
<1>8. CASE /\ ~Queued(g, stamp) /\ Timely(stamp, dds) /\ stamp > g.last
           /\ gate' = Admit(g, stamp) /\ lease' = Reference(stamp, dds)
           /\ timeout_published' = FALSE /\ Publish(answer.action, answer.status, stamp)
           /\ UNCHANGED fault
  <2> HIDE DEF g
  <2>1. stamp \in Nat /\ stamp > 0 /\ stamp <= now /\ now - stamp <= Timeout /\ dds \in Nat
    BY <1>1, <1>8 DEF Timely, DdsAges, Unavailable
  <2>2. gate' \in Gates /\ gate'.last = stamp
    BY <1>2, <1>8, <2>1, AdmitFacts
  <2>3. stamp > gate.last /\ stamp > gate.barrier
    BY <1>1, <1>2, <1>4, <1>8, <2>1 DEF Queued, Blocked
  <2>4. stamp > fault
    BY <1>1, <2>1, <2>3 DEF Safe, FaultKept
  <2>5. lease' \in Nat /\ now - stamp <= lease'
    BY <1>1, <1>8, <2>1 DEF Reference, Later
  <2>6. decision' = [action |-> answer.action, status |-> answer.status, stamp |-> stamp]
    BY <1>8 DEF Publish
  <2>7. Typed'
    <3>1. decision' \in [action : Actions, status : Statuses, stamp : Int]
      BY <1>1, <1>6, <2>6
    <3> QED
      BY <1>1, <1>5, <1>8, <2>2, <2>5, <3>1 DEF Safe, Typed
  <2>8. FaultKept'
    BY <1>1, <1>8, <2>1, <2>2, <2>4 DEF FaultKept
  <2> QED
    BY <1>5, <1>8, <2>1, <2>2, <2>3, <2>4, <2>5, <2>6, <2>7, <2>8
<1> QED
  BY <1>7, <1>8 DEF HandleAssessment

\* Safe is inductive, and a permissive decision that is new speaks of an observation
\* newer than the last, made after the last fault.
LEMMA SafeStep ==
  ASSUME Safe, [Next]_vars
  PROVE  /\ Safe'
         /\ Permits' /\ decision' # decision =>
              decision'.stamp > fault /\ decision'.stamp > gate.last
<1>1. /\ gate \in Gates /\ gate.last \in Nat /\ now \in Nat /\ lease \in Nat
      /\ watchdog_due \in 0 .. WatchdogPeriod
      /\ Timeout \in Nat /\ WatchdogPeriod \in Nat \ {0}
  BY GateAssumption, PeriodAssumption DEF Safe, Typed, Gates
<1>2. ASSUME NEW stamp \in Stamps, NEW dds \in DdsAges, NEW answer \in Answers,
             HandleAssessment(stamp, dds, answer.action, answer.status)
      PROVE  /\ Safe'
             /\ Permits' => decision'.stamp > fault /\ decision'.stamp > gate.last
  <2>1. /\ Typed' /\ FaultKept' /\ now' = now /\ watchdog_due' = watchdog_due
        /\ \/ ~Permits'
           \/ /\ stamp \in Nat /\ stamp > fault /\ stamp > gate.last
              /\ gate'.last = stamp /\ decision'.stamp = stamp
              /\ stamp <= now /\ now - stamp <= Timeout
              /\ timeout_published' = FALSE /\ lease' \in Nat /\ now - stamp <= lease'
    BY <1>2, AssessmentStep
  <2>2. PermitsInTime'
    BY <1>1, <2>1 DEF PermitsInTime
  <2> QED
    BY <2>1, <2>2 DEF Safe
<1>3. CASE CheckWatchdog
  <2>1. /\ gate' = gate /\ lease' = lease /\ fault' = fault /\ now' = now
        /\ watchdog_due = 0 /\ watchdog_due' = WatchdogPeriod
    BY <1>3 DEF CheckWatchdog
  <2>2. CASE Silenced /\ UNCHANGED <<timeout_published, decision>>
    <3>1. Permits' <=> Permits
      BY <2>2 DEF Permits
    <3>2. Permits => lease < Timeout
      BY <2>2 DEF Silenced, Safe, PermitsInTime
    <3>3. PermitsInTime'
      BY <1>1, <2>1, <2>2, <3>1, <3>2 DEF Safe, PermitsInTime
    <3>4. Typed' /\ FaultKept'
      BY <1>1, <2>1, <2>2 DEF Safe, Typed, FaultKept
    <3> QED
      BY <2>2, <3>3, <3>4 DEF Safe
  <2>3. CASE timeout_published' = TRUE /\ Publish("STOP", "STALE", gate.last)
    <3>1. decision' = [action |-> "STOP", status |-> "STALE", stamp |-> gate.last]
      BY <2>3 DEF Publish
    <3>2. ~Permits'
      BY <3>1 DEF Permits
    <3>3. Typed' /\ FaultKept'
      BY <1>1, <2>1, <2>3, <3>1 DEF Safe, Typed, FaultKept, Actions, Statuses
    <3> QED
      BY <3>2, <3>3 DEF Safe, PermitsInTime
  <2> QED
    BY <1>3, <2>2, <2>3 DEF CheckWatchdog
<1>4. CASE Elapse
  <2>1. /\ UNCHANGED <<gate, timeout_published, decision, fault>>
        /\ now' = now + 1 /\ watchdog_due' = watchdog_due - 1 /\ watchdog_due > 0
        /\ lease' = IF lease > Timeout THEN lease ELSE lease + 1
    BY <1>4 DEF Elapse
  <2>2. Permits' <=> Permits
    BY <2>1 DEF Permits
  <2>3. PermitsInTime'
    BY <1>1, <2>1, <2>2 DEF Safe, PermitsInTime
  <2>4. Typed' /\ FaultKept'
    BY <1>1, <2>1 DEF Safe, Typed, FaultKept
  <2> QED
    BY <2>1, <2>3, <2>4 DEF Safe
<1>5. CASE UNCHANGED vars
  BY <1>5 DEF vars, Safe, Typed, FaultKept, PermitsInTime, Permits
<1> QED
  BY <1>2, <1>3, <1>4, <1>5 DEF Next

\* A supervisor just started says stop.
LEMMA SafeInit == Init => Safe
<1> SUFFICES ASSUME Init PROVE Safe
  OBVIOUS
<1>1. gate \in Gates /\ gate.last = 0
  BY DEF Init, EmptyGate, Gates
<1>2. decision \in [action : Actions, status : Statuses, stamp : Int] /\ ~Permits
  BY DEF Init, NoDecision, Actions, Statuses, Malformed, Permits
<1>3. /\ lease \in Nat /\ fault = 0 /\ now \in Nat /\ watchdog_due \in 0 .. WatchdogPeriod
  BY PeriodAssumption DEF Init
<1>6. timeout_published \in BOOLEAN
  BY DEF Init
<1>4. Typed
  BY <1>1, <1>2, <1>3, <1>6 DEF Typed
<1>5. FaultKept
  BY <1>1, <1>3 DEF FaultKept
<1> QED
  BY <1>2, <1>4, <1>5 DEF Safe, PermitsInTime

\* What the topic holds permits motion only on the newest admitted observation, no
\* older than the assessment timeout and one watchdog period.
THEOREM StopsWhenTheSceneIsOldAlways == Spec => []StopsWhenTheSceneIsOld
<1>1. Safe => StopsWhenTheSceneIsOld
  BY GateAssumption, PeriodAssumption
     DEF Safe, Typed, Gates, PermitsInTime, StopsWhenTheSceneIsOld
<1> QED
  BY <1>1, SafeInit, SafeStep, PTL DEF Spec

\* Motion is permitted anew only on an observation later than the last admitted one and
\* than the last fault.
THEOREM PermitsAfterTheFaultAlways == Spec => PermitsAfterTheFault
<1>1. Safe /\ [Next]_vars =>
        [Permits' /\ decision' # decision =>
           decision'.stamp > fault /\ decision'.stamp > gate.last]_vars
  BY SafeStep
<1> QED
  BY <1>1, SafeInit, SafeStep, PTL DEF Spec, PermitsAfterTheFault

=============================================================================
