---------------------------- MODULE PolicyMonotone ----------------------------
(***************************************************************************)
(* A scene that gets worse, one feature at a time: what the policy makes   *)
(* of it, compared from reading to reading and from language to language.  *)
(***************************************************************************)
EXTENDS SafetyPolicy

VARIABLE reading

ReadingInit ==
  reading \in [traversability : Traversabilities, hazards : {{}},
                  recommended_action : RecommendedActions,
                  confidence : {Full}, view_quality : {Full}]

MoreHazard == \E h \in HazardTypes \cup {Unknown} :
  reading' = [reading EXCEPT !.hazards = @ \cup {h}]

LessConfidence ==
  /\ reading.confidence >= 0
  /\ reading' = [reading EXCEPT !.confidence = @ - 1]

LessQuality ==
  /\ reading.view_quality >= 0
  /\ reading' = [reading EXCEPT !.view_quality = @ - 1]

\* An unknown or a blocked way is worse than a restricted one, that than a clear.
Worse == [CLEAR |-> {"RESTRICTED"}, RESTRICTED |-> {"BLOCKED", "UNKNOWN"},
          BLOCKED |-> {Unknown}, UNKNOWN |-> {Unknown}]
LessTraversable ==
  /\ reading.traversability \in Traversabilities
  /\ \E t \in Worse[reading.traversability] :
       reading' = [reading EXCEPT !.traversability = t]

\* The model may recommend what it likes, or something unheard of.
OtherAdvice == \E r \in RecommendedActions \cup {Unknown} :
  reading' = [reading EXCEPT !.recommended_action = r]

Worsens ==
  MoreHazard \/ LessConfidence \/ LessQuality \/ LessTraversable \/ OtherAdvice

ReadingSpec == ReadingInit /\ [][Worsens]_reading

-----------------------------------------------------------------------------
Freedom(action) ==
  CASE action = "PROCEED" -> 2 [] action = "SLOW_DOWN" -> 1 [] OTHER -> 0

\* However a reading gets worse, and whatever the model recommends, the action
\* it is given never leaves the robot freer than before.  Advice that is unheard
\* of makes a reading invalid; taking it back is no worsening.
NeverFreer ==
  [][IsValidAssessment(reading) \/ ~OtherAdvice =>
       Freedom(ResolvePolicy(reading').action)
         <= Freedom(ResolvePolicy(reading).action)]_reading

\* On every reading Python can represent, the agent and the supervisor agree on
\* the action and on what contradicts itself; the rest the supervisor stops for.
PoliciesAgree ==
  IF IsValidAssessment(reading)
  THEN /\ ResolvePolicy(reading).action = ResolveSafeAction(reading)
       /\ Violations(reading) = SafeViolations(reading)
  ELSE ResolvePolicy(reading).action = "STOP"

\* Whatever the model says, the bridge sends the supervisor a valid assessment;
\* one it could not parse asks for a closer view and permits no motion.
ModelOutputFailsClosed ==
  /\ IsValidAssessment(Bridged(reading))
  /\ ResolvePolicy(Bridged(reading)).action =
       (IF Parses(reading) THEN ResolveSafeAction(reading) ELSE "INSPECT_CLOSER")

=============================================================================
