--------------------------- MODULE PolicyJudgement ---------------------------
(***************************************************************************)
(* How the orchestrator judges a decision's source_observed_at             *)
(* (MissionOrchestratorNode._policy_source_reference): the verdict is the  *)
(* early return taken, Judged the gate the handler leaves behind.          *)
(***************************************************************************)
EXTENDS TemporalGate

Verdict(g, stamp, now) ==
  IF stamp = Malformed THEN "malformed"
  ELSE IF Remembered(g, stamp) THEN "remembered"
  ELSE IF stamp = 0 THEN "missing"
  ELSE IF stamp > now THEN "future"
  ELSE IF Blocked(g, stamp) THEN "blocked"
  ELSE IF now - stamp > Timeout THEN "expired"
  ELSE IF stamp <= g.last THEN "regressed"
  ELSE "admitted"

\* The verdicts on a decision's own observation time.
OwnFaults == {"malformed", "missing", "future", "expired", "regressed"}

BrokenAfter(g, verdict, stamp, now, mono) ==   \* RecoversInTime: blocked raises
  CASE verdict = "admitted"   -> Admit(g, stamp)
    [] verdict = "remembered" -> RefuseRemembered(g, now)
    [] verdict = "future"     -> Raise(Remember(g, stamp, now, mono), now)
    [] OTHER                  -> Raise(g, now)
After(g, verdict, stamp, now, mono) ==
  CASE verdict = "admitted"   -> Admit(g, stamp)
    [] verdict = "remembered" -> RefuseRemembered(g, now)
    [] verdict = "blocked"    -> g
    [] verdict = "future"     -> Raise(Remember(g, stamp, now, mono), now)
    [] OTHER                  -> Raise(g, now)

\* The cache and the quarantine as the handler sees them once it has pruned; a
\* malformed stamp is refused before they are looked at.
SeenBy(g, stamp, now, mono) ==
  IF stamp = Malformed THEN g ELSE Prolong(Prune(g, now, mono), stamp, now, mono)
Judge(g, stamp, now, mono) == Verdict(SeenBy(g, stamp, now, mono), stamp, now)
Judged(g, stamp, now, mono) ==
  LET seen == SeenBy(g, stamp, now, mono)
  IN  After(seen, Verdict(seen, stamp, now), stamp, now, mono)

=============================================================================
