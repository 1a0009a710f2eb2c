-------------------------- MODULE MissionOrchestrator --------------------------
(***************************************************************************)
(* The orchestrator node (node.py): the mission state machine behind the   *)
(* gate that judges a decision's observation time, with the watchdog timer *)
(* and a process that may be restarted.  Its executor is single-threaded,  *)
(* so a callback is one step; within a callback the ROS clock and the      *)
(* steady clock are read as the same instant.                              *)
(***************************************************************************)
EXTENDS MissionStateMachine

CONSTANTS Decisions,        \* the <<action, status>> pairs a decision may carry
          MaxRejected,      \* capacity of the replay cache
          WatchdogPeriod,   \* 1 / watchdog_rate_hz, in clock units
          MaxTime           \* the clock stops here: the bound of the model

ASSUME DecisionsAssumption == Decisions \subseteq Actions \X Statuses
ASSUME PeriodAssumption ==
  WatchdogPeriod \in Nat \ {0} /\ MaxTime \in Nat /\ MaxRejected \in Nat

Gate == INSTANCE PolicyJudgement WITH Timeout <- PolicyTimeout

VARIABLES gate,             \* the gate's fields of the node
          now,              \* the clock
          watchdog_due      \* until the watchdog timer fires again

nvars == <<vars, gate, now, watchdog_due>>

NInit ==
  /\ Init
  /\ gate = Gate!EmptyGate
  /\ now = 0
  /\ watchdog_due = WatchdogPeriod

-----------------------------------------------------------------------------
\* What the source reference makes of the age of an admitted decision.
BrokenSourceAge(stamp) == 0       \* MovesWithinTheTimeout: from the arrival
SourceAge(stamp) == now - stamp

OnPolicy(action, status, evidence, stamp) ==
  /\ gate' = Gate!Judged(gate, stamp, now, now)
  /\ \/ /\ Gate!Judge(gate, stamp, now, now) = "admitted"
        /\ ApplyPolicy(action, status, evidence, SourceAge(stamp))
     \/ /\ Gate!Judge(gate, stamp, now, now) # "admitted"
        /\ ApplyPolicy(action, "STALE", evidence, 0)
  /\ UNCHANGED <<now, watchdog_due>>

OnRequest ==
  /\ Start \/ Pause \/ Resume \/ Abort \/ Reset \/ Report \/ Retarget
     \/ SwitchEmergencyStop
  /\ UNCHANGED <<gate, now, watchdog_due>>

Expired == PolicyExpired \/ RerouteExpired

OnWatchdog ==
  /\ watchdog_due = 0
  /\ watchdog_due' = WatchdogPeriod
  /\ Watchdog \/ (~Expired /\ UNCHANGED vars)
  /\ UNCHANGED <<gate, now>>

\* The timer fires in time: the executor serves it before the next unit passes.
Elapse ==
  /\ watchdog_due > 0 /\ now < MaxTime
  /\ now' = now + 1
  /\ watchdog_due' = watchdog_due - 1
  /\ Tick
  /\ UNCHANGED gate

\* The process dies and is started again: nothing of the mission is persisted.
Restart ==
  /\ state' = "IDLE" /\ waypoint_index' = 0 /\ active_goal' = NoName
  /\ last_evidence_id' = NoName /\ motion_authorized' = FALSE
  /\ ForgetPolicy
  /\ reroute_age' = None
  /\ emergency_stop_active' = FALSE
  /\ Return(TRUE, {})
  /\ gate' = Gate!EmptyGate
  /\ watchdog_due' = WatchdogPeriod
  /\ UNCHANGED now

NNext ==
  \/ \E decision \in Decisions, evidence \in Evidence \cup {NoName},
        stamp \in {Gate!Malformed} \cup 0 .. MaxTime :
       OnPolicy(decision[1], decision[2], evidence, stamp)
  \/ OnRequest \/ OnWatchdog \/ Elapse \/ Restart

NSpec == NInit /\ [][NNext]_nvars

-----------------------------------------------------------------------------
\* The permission a mission under way holds, or moves on, is of the newest observation
\* the gate has admitted, and is counted as old as that observation is: no
\* admission that does not renew a permission leaves an older one in force.
PermissionIsTheNewest ==
  policy_allows_motion /\ state \notin Deaf =>
    /\ gate.last > 0
    /\ policy_age = (IF now - gate.last > PolicyTimeout THEN PolicyTimeout + 1
                     ELSE now - gate.last)

\* Motion is never authorised for longer after the camera saw the scene than the
\* policy timeout and one watchdog period, wherever the decision was delayed.
MovesWithinTheTimeout ==
  motion_authorized => now - gate.last <= PolicyTimeout + WatchdogPeriod

=============================================================================
