--------------------------- MODULE SafetySupervisor ---------------------------
(***************************************************************************)
(* The safety supervisor node (safety_supervisor_node.cpp): assessments    *)
(* come in, each answered by one decision; a watchdog answers for those    *)
(* that do not come.  What a decision says of an admitted assessment is    *)
(* SafetyPolicy's; here it is one of Permissive and the rest.              *)
(*                                                                         *)
(* lease is the age of last_assessment_at_ (of started_at_ before the      *)
(* first), which is the oldest of the observation's, the publication's and *)
(* the receipt's ages at admission.                                        *)
(***************************************************************************)
EXTENDS TemporalGate

CONSTANTS WatchdogPeriod,   \* assessment_timeout / 4, in clock units
          MaxTime           \* the clock stops here: the bound of the model

ASSUME PeriodAssumption == WatchdogPeriod \in Nat \ {0} /\ MaxTime \in Nat \ {0}

Stamps == {Malformed} \cup 0 .. MaxTime

\* The older of the DDS publication's and receipt's ages; Unavailable for
\* metadata that is missing, in the future or expired.
Unavailable == Timeout + 1
DdsAges == 0 .. Unavailable

Actions == {"PROCEED", "SLOW_DOWN", "STOP", "REROUTE", "INSPECT_CLOSER"}
Permissive == {"PROCEED", "SLOW_DOWN"}
Statuses == {"VALID", "INVALID", "STALE"}
PolicyDecisions == [action : Actions, status : Statuses, stamp : Stamps]

VARIABLES
  gate,                \* last_observed_at_ (0: received_assessment_ is false),
                       \* recovery_barrier_ns_, rejected_future_observations_, ...
  lease,
  timeout_published,
  decision,            \* the decision the transient-local topic holds, or none
  fault,               \* history: when an assessment last met a fault of its own
  now,
  watchdog_due

vars == <<gate, lease, timeout_published, decision, fault, now, watchdog_due>>

NoDecision == [action |-> "STOP", status |-> "STALE", stamp |-> Malformed]

TypeOK ==
  /\ gate \in Gates
  /\ lease \in 0 .. Timeout + 1
  /\ timeout_published \in BOOLEAN
  /\ decision \in PolicyDecisions
  /\ fault \in 0 .. MaxTime
  /\ now \in 0 .. MaxTime
  /\ watchdog_due \in 0 .. WatchdogPeriod

Init ==
  /\ gate = EmptyGate
  /\ lease = 0
  /\ timeout_published = FALSE
  /\ decision = NoDecision
  /\ fault = 0
  /\ now = 0
  /\ watchdog_due = WatchdogPeriod

-----------------------------------------------------------------------------
Publish(action, status, stamp) ==
  decision' = [action |-> action, status |-> status, stamp |-> stamp]

\* The cache and the quarantine, looked at for well-formed times only.
Looked(stamp) ==
  IF stamp = Malformed THEN gate
  ELSE Prolong(Prune(gate, now, now), stamp, now, now)

Recalled(g, stamp) == stamp # Malformed /\ Remembered(g, stamp)
Queued(g, stamp) == stamp > 0 /\ Blocked(g, stamp)
Timely(stamp, dds) ==
  stamp \in 1 .. now /\ now - stamp <= Timeout /\ dds <= Timeout

\* publish_stale_assessment_stop.
Faulted(g, stamp) ==
  Raise(IF stamp > now THEN Remember(g, stamp, now, now) ELSE g, now)

StaleStop(g, stamp, advance) ==
  /\ timeout_published' = TRUE
  /\ gate' = IF advance THEN Faulted(g, stamp) ELSE g
  /\ Publish("STOP", "STALE", stamp)
  /\ UNCHANGED lease

BrokenReference(stamp, dds) == 0      \* StopsWhenTheSceneIsOld: arrival
Reference(stamp, dds) == Later(now - stamp, dds)

HandleAssessment(stamp, dds, action, status) ==
  LET g == Looked(stamp) IN
  /\ \/ /\ Recalled(g, stamp)
        /\ StaleStop(g, stamp, g.barrier = 0)
        /\ UNCHANGED fault
     \/ /\ ~Recalled(g, stamp) /\ Queued(g, stamp)
        /\ StaleStop(g, stamp, FALSE)
        /\ UNCHANGED fault
     \/ /\ ~Recalled(g, stamp) /\ ~Queued(g, stamp)
        /\ ~Timely(stamp, dds) \/ stamp <= g.last
        /\ StaleStop(g, stamp, TRUE)
        /\ fault' = now
     \/ /\ ~Recalled(g, stamp) /\ ~Queued(g, stamp)
        /\ Timely(stamp, dds) /\ stamp > g.last
        /\ gate' = Admit(g, stamp)
        /\ lease' = Reference(stamp, dds)
        /\ timeout_published' = FALSE
        /\ Publish(action, status, stamp)
        /\ UNCHANGED fault
  /\ UNCHANGED <<now, watchdog_due>>

Silenced == timeout_published \/ lease < Timeout

CheckWatchdog ==
  /\ watchdog_due = 0
  /\ watchdog_due' = WatchdogPeriod
  /\ \/ Silenced /\ UNCHANGED <<timeout_published, decision>>
     \/ /\ ~Silenced
        /\ timeout_published' = TRUE
        /\ Publish("STOP", "STALE", gate.last)
  /\ UNCHANGED <<gate, lease, fault, now>>

Elapse ==
  /\ watchdog_due > 0 /\ now < MaxTime
  /\ now' = now + 1
  /\ watchdog_due' = watchdog_due - 1
  /\ lease' = IF lease > Timeout THEN lease ELSE lease + 1
  /\ UNCHANGED <<gate, timeout_published, decision, fault>>

\* An invalid assessment is answered by an INVALID stop, a valid one by VALID.
Answers == {[action |-> "STOP", status |-> "INVALID"]}
           \cup {[action |-> action, status |-> "VALID"] : action \in Actions}

Next ==
  \/ \E stamp \in Stamps, dds \in DdsAges, answer \in Answers :
       HandleAssessment(stamp, dds, answer.action, answer.status)
  \/ CheckWatchdog \/ Elapse

Spec == Init /\ [][Next]_vars

-----------------------------------------------------------------------------
Permits == decision.status = "VALID" /\ decision.action \in Permissive

\* The decision a late subscriber finds on the topic permits motion only on the
\* newest admitted observation, no older than the assessment timeout and the
\* watchdog's next look, however late that observation was delivered.
StopsWhenTheSceneIsOld ==
  Permits => /\ decision.stamp = gate.last
             /\ now - decision.stamp <= Timeout + WatchdogPeriod

\* Motion is permitted anew only on an observation later than the last admitted one
\* and than the last fault: results of inference that complete out of order do not
\* overwrite what a newer one said, nor the stop a fault was answered by.  (The
\* watchdog's stop and one for a blocked time leave the gate as strict as it was, as
\* does one for a remembered time while there is a barrier: an observation made before
\* such a stop may lift it.)
PermitsAfterTheFault ==
  [][Permits' /\ decision' # decision =>
       decision'.stamp > fault /\ decision'.stamp > gate.last]_vars

=============================================================================
