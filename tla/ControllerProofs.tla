--------------------------- MODULE ControllerProofs ---------------------------
(***************************************************************************)
(* The motion controller moves the robot on three live inputs, and after a *)
(* fault only on what was observed since, for every timeout, every set of  *)
(* decisions and every cache capacity.                                     *)
(***************************************************************************)
EXTENDS MotionController, GateProofs

\* Looking at the cache and the quarantine loses nothing the gate knows.
LEMMA LookedFacts ==
  ASSUME gate \in Gates, now \in Nat, NEW stamp \in Stamps
  PROVE  /\ Looked(stamp) \in Gates
         /\ Looked(stamp).last = gate.last /\ Looked(stamp).barrier >= gate.barrier
<1> DEFINE p == Prune(gate, now, now)
<1>1. p \in Gates /\ p.last = gate.last /\ p.barrier >= gate.barrier
  BY PruneFacts
<1>2. Looked(stamp) = IF stamp = Malformed THEN p ELSE Prolong(p, stamp, now, now)
  BY DEF Looked
<1>3. stamp # Malformed => stamp \in Nat
  BY InputAssumption DEF Stamps, Times
<1> HIDE DEF p
<1>4. stamp # Malformed =>
        /\ Prolong(p, stamp, now, now) \in Gates
        /\ Prolong(p, stamp, now, now).last = p.last
        /\ Prolong(p, stamp, now, now).barrier = p.barrier
  BY <1>1, <1>3, ProlongFacts
<1> QED
  BY <1>1, <1>2, <1>4

\* Caching a time from the future and raising the barrier for it.
LEMMA FutureFacts ==
  ASSUME NEW g \in Gates, NEW stamp \in Nat, NEW n \in Nat
  PROVE  /\ Raise(Remember(g, stamp, n, n), n) \in Gates
         /\ Raise(Remember(g, stamp, n, n), n).last = g.last
         /\ Raise(Remember(g, stamp, n, n), n).barrier >= n
<1> DEFINE r == Remember(g, stamp, n, n)
<1>1. r \in Gates /\ r.last = Prune(g, n, n).last
  BY RememberFacts
<1>2. Prune(g, n, n).last = g.last
  BY PruneFacts
<1> HIDE DEF r
<1>3. /\ Raise(r, n) \in Gates /\ Raise(r, n).last = r.last /\ Raise(r, n).barrier >= n
  BY <1>1, RaiseFacts
<1>4. /\ Raise(r, n) \in Gates /\ Raise(r, n).last = g.last /\ Raise(r, n).barrier >= n
  BY <1>1, <1>2, <1>3
<1> QED
  BY <1>4 DEF r

-----------------------------------------------------------------------------
\* The parts of the type invariant the promises rest on.
Typed ==
  /\ gate \in Gates
  /\ policy \in [valid : BOOLEAN, mode : Modes, evidence : Nat, age : Nat]
  /\ mission \in [authorized : BOOLEAN, evidence : Nat, age : Nat, sent : Nat]
  /\ command \in [age : Nat, sent : Nat]
  /\ output \in [scale : Modes, evidence : Nat, sent : Nat, commanded : Nat]
  /\ now \in Nat /\ fault \in Nat

\* The fault last met is behind the newest admitted observation, or the barrier.
FaultKept == fault <= gate.last \/ fault <= gate.barrier

\* A decision in force is the newest admitted, made after the last fault, and its
\* observation is no older than its lifetime has run, until that is over.
PolicyKept ==
  policy.valid = TRUE =>
    /\ policy.evidence = gate.last /\ policy.evidence > fault
    /\ policy.age > Timeout \/ now - policy.evidence <= policy.age

\* So is the authority of a mission that moves.
MissionKept ==
  mission.authorized = TRUE =>
    mission.age > MissionTimeout \/ now - mission.sent <= mission.age

\* So is a desired velocity.
CommandKept == command.age > CommandTimeout \/ now - command.sent <= command.age

\* What the robot moves on was live when the control timer last fired.
SinceControl == IF controlled = TRUE THEN 0 ELSE 1
OutputKept ==
  Moving =>
    /\ now - output.evidence <= Timeout + SinceControl
    /\ now - output.sent <= MissionTimeout + SinceControl
    /\ now - output.commanded <= CommandTimeout + SinceControl

Safe == Typed /\ FaultKept /\ PolicyKept /\ MissionKept /\ CommandKept /\ OutputKept

\* The arithmetic facts the constants and the types bring to every step.
LEMMA Numbers ==
  ASSUME Typed
  PROVE  /\ gate \in Gates /\ gate.last \in Nat /\ gate.barrier \in Nat
         /\ now \in Nat /\ fault \in Nat /\ command \in [age : Nat, sent : Nat]
         /\ Timeout \in Nat /\ MissionTimeout \in Nat /\ CommandTimeout \in Nat
         /\ MaxTime \in Nat
BY GateAssumption, InputAssumption DEF Typed, Gates

\* A decision is refused, which revokes the one in force, or takes its place.
LEMMA DecisionStep ==
  ASSUME Safe, NEW stamp \in Stamps, NEW dds \in 0 .. Timeout + 1, NEW action \in Actions,
         NEW valid \in BOOLEAN, OnPolicyDecision(stamp, dds, action, valid)
  PROVE  Typed' /\ FaultKept' /\ PolicyKept'
<1> DEFINE g == Looked(stamp)
<1>1. /\ gate \in Gates /\ gate.last \in Nat /\ gate.barrier \in Nat
      /\ now \in Nat /\ fault \in Nat /\ Timeout \in Nat
      /\ stamp \in Int /\ (stamp > now => stamp \in Nat) /\ dds \in Nat
  BY Numbers, InputAssumption DEF Safe, Stamps, Times, Malformed
<1>2. g \in Gates /\ g.last = gate.last /\ g.barrier >= gate.barrier
  BY LookedFacts DEF Safe, Typed
<1>3. UNCHANGED <<mission, command, output, now>>
  BY DEF OnPolicyDecision
<1>4. FaultKept
  BY DEF Safe
<1>5. CASE /\ RevokePolicy
           /\ gate' \in Gates /\ gate'.last = g.last
           /\ \/ gate'.barrier >= g.barrier /\ fault' = fault
              \/ gate'.barrier >= now /\ fault' = now
  <2> HIDE DEF g
  <2>1. policy' = NoPolicy
    BY <1>5 DEF RevokePolicy
  <2>2. policy' \in [valid : BOOLEAN, mode : Modes, evidence : Nat, age : Nat]
        /\ policy'.valid = FALSE
    BY <1>1, <2>1 DEF NoPolicy, Modes, NoEvidence
  <2>3. g.barrier \in Nat /\ gate'.barrier \in Nat /\ fault' \in Nat
    BY <1>1, <1>2, <1>5 DEF Gates
  <2>4. FaultKept'
    BY <1>1, <1>2, <1>4, <1>5, <2>3 DEF FaultKept
  <2>5. Typed'
    BY <1>3, <1>5, <2>2, <2>3 DEF Safe, Typed
  <2> QED
    BY <2>2, <2>4, <2>5 DEF PolicyKept
<1>6. CASE /\ ~Queued(g, stamp) /\ Timely(stamp, dds) /\ stamp > g.last
           /\ gate' = Admit(g, stamp) /\ fault' = fault
           /\ policy' = [valid |-> valid, evidence |-> stamp,
                         mode |-> IF valid THEN Mode(action) ELSE "Stop",
                         age |-> Reference(now - stamp, dds)]
  <2> HIDE DEF g
  <2>1. stamp \in Nat /\ stamp > 0 /\ stamp <= now
    BY <1>1, <1>6 DEF Timely
  <2>2. gate' \in Gates /\ gate'.last = stamp
    BY <1>2, <1>6, <2>1, AdmitFacts
  <2>3. g.barrier \in Nat
    BY <1>2 DEF Gates
  <2>4. stamp > gate.last /\ stamp > gate.barrier
    BY <1>1, <1>2, <1>6, <2>1, <2>3 DEF Queued, Blocked
  <2>5. stamp > fault
    BY <1>1, <1>4, <2>1, <2>4 DEF FaultKept
  <2>6. Reference(now - stamp, dds) \in Nat /\ Reference(now - stamp, dds) >= now - stamp
    BY <1>1, <2>1 DEF Reference, Later
  <2>7. (IF valid THEN Mode(action) ELSE "Stop") \in Modes
    BY DEF Mode, Modes
  <2>8. /\ policy' \in [valid : BOOLEAN, mode : Modes, evidence : Nat, age : Nat]
        /\ policy'.evidence = stamp /\ policy'.age = Reference(now - stamp, dds)
    BY <1>6, <2>1, <2>6, <2>7
  <2>9. Typed'
    BY <1>1, <1>3, <1>6, <2>2, <2>8 DEF Safe, Typed
  <2>10. FaultKept'
    BY <1>1, <1>6, <2>1, <2>2, <2>5 DEF FaultKept
  <2>11. PolicyKept'
    BY <1>1, <1>3, <1>6, <2>1, <2>2, <2>5, <2>6, <2>8 DEF PolicyKept
  <2> QED
    BY <2>9, <2>10, <2>11
<1>7. /\ g.barrier \in Nat /\ RefuseRemembered(g, now) \in Gates
      /\ RefuseRemembered(g, now).last = g.last /\ RefuseRemembered(g, now).barrier >= g.barrier
      /\ Raise(g, now) \in Gates /\ Raise(g, now).last = g.last /\ Raise(g, now).barrier >= now
  <2> HIDE DEF g
  <2>1. g.barrier \in Nat
    BY <1>2 DEF Gates
  <2>2. /\ Raise(g, now) \in Gates /\ Raise(g, now).last = g.last
        /\ Raise(g, now).barrier >= now /\ Raise(g, now).barrier >= g.barrier
    BY <1>1, <1>2, RaiseFacts
  <2> QED
    BY <1>2, <2>1, <2>2 DEF RefuseRemembered
<1>8. CASE Recalled(g, stamp) /\ gate' = RefuseRemembered(g, now) /\ RevokePolicy /\ fault' = fault
  BY <1>5, <1>7, <1>8
<1>9. CASE /\ stamp > now /\ gate' = Raise(Remember(g, stamp, now, now), now)
           /\ RevokePolicy /\ fault' = now
  <2> HIDE DEF g
  <2>1. /\ Raise(Remember(g, stamp, now, now), now) \in Gates
        /\ Raise(Remember(g, stamp, now, now), now).last = g.last
        /\ Raise(Remember(g, stamp, now, now), now).barrier >= now
    BY <1>1, <1>2, <1>9, FutureFacts
  <2> QED
    BY <1>5, <1>9, <2>1
<1>10. CASE gate' = g /\ RevokePolicy /\ fault' = fault
  BY <1>2, <1>5, <1>7, <1>10
<1>11. CASE gate' = Raise(g, now) /\ RevokePolicy /\ fault' = now
  BY <1>5, <1>7, <1>11
<1> HIDE DEF g
<1> QED
  BY <1>6, <1>8, <1>9, <1>10, <1>11 DEF OnPolicyDecision, g

\* What a decision does not touch stays in force.
LEMMA DecisionKeeps ==
  ASSUME Safe, NEW stamp \in Stamps, NEW dds \in 0 .. Timeout + 1, NEW action \in Actions,
         NEW valid \in BOOLEAN, OnPolicyDecision(stamp, dds, action, valid)
  PROVE  Safe'
<1>1. UNCHANGED <<mission, command, output, controlled, now>>
  BY DEF OnPolicyDecision
<1>2. MissionKept' /\ CommandKept' /\ OutputKept'
  BY <1>1 DEF Safe, MissionKept, CommandKept, OutputKept, Moving, SinceControl
<1> QED
  BY <1>2, DecisionStep DEF Safe

\* A mission state is believed from when it was sent.
LEMMA MissionStep ==
  ASSUME Safe, NEW authorized \in BOOLEAN, NEW evidence \in Nat,
         NEW dds \in 0 .. MissionTimeout + 1, OnMissionState(authorized, evidence, dds)
  PROVE  Safe'
<1>1. /\ now \in Nat /\ MissionTimeout \in Nat /\ dds \in Nat
  BY Numbers, InputAssumption DEF Safe
<1>2. UNCHANGED <<gate, policy, command, output, controlled, now, fault>>
  BY DEF OnMissionState
<1>3. /\ mission' \in [authorized : BOOLEAN, evidence : Nat, age : Nat, sent : Nat]
      /\ MissionKept'
  <2>1. CASE mission' = NoMission
    <3>1. mission'.authorized = FALSE
      BY <2>1 DEF NoMission
    <3>2. mission' \in [authorized : BOOLEAN, evidence : Nat, age : Nat, sent : Nat]
      BY <1>1, <2>1 DEF NoMission, NoEvidence
    <3> QED
      BY <3>1, <3>2 DEF MissionKept
  <2>2. CASE mission' # NoMission
    <3>1. /\ mission' = [authorized |-> authorized, evidence |-> evidence,
                         age |-> Reference(0, dds), sent |-> now - dds]
          /\ dds <= now
      BY <2>2 DEF OnMissionState
    <3>2. Reference(0, dds) = dds /\ now - dds \in Nat
      BY <1>1, <3>1 DEF Reference, Later
    <3>3. mission' \in [authorized : BOOLEAN, evidence : Nat, age : Nat, sent : Nat]
      BY <1>1, <3>1, <3>2
    <3>4. mission'.age = dds /\ mission'.sent = now - dds
      BY <3>1, <3>2
    <3>5. now' - mission'.sent <= mission'.age
      BY <1>1, <1>2, <3>4
    <3> QED
      BY <3>3, <3>5 DEF MissionKept
  <2> QED
    BY <2>1, <2>2
<1>4. Typed'
  BY <1>2, <1>3 DEF Safe, Typed
<1>5. FaultKept' /\ PolicyKept' /\ CommandKept' /\ OutputKept'
  BY <1>2 DEF Safe, FaultKept, PolicyKept, CommandKept, OutputKept, Moving, SinceControl
<1> QED
  BY <1>3, <1>4, <1>5 DEF Safe

\* A desired velocity starts its own lifetime, from when it was sent.
LEMMA CommandStep ==
  ASSUME Safe, NEW finite \in BOOLEAN, NEW dds \in 0 .. CommandTimeout + 1,
         OnDesiredCommand(finite, dds)
  PROVE  Safe'
<1>1. UNCHANGED <<gate, policy, mission, output, controlled, now, fault>>
  BY DEF OnDesiredCommand
<1>2. command' \in [age : Nat, sent : Nat] /\ CommandKept'
  <2>1. now \in Nat /\ CommandTimeout \in Nat /\ dds \in Nat /\ dds <= now
    BY Numbers, InputAssumption DEF Safe, OnDesiredCommand
  <2>2. CASE command' = NoCommand
    <3>1. /\ command' \in [age : Nat, sent : Nat]
          /\ command'.age = CommandTimeout + 1
      BY <2>1, <2>2 DEF NoCommand
    <3> QED
      BY <2>1, <3>1 DEF CommandKept
  <2>3. CASE command' # NoCommand
    <3>1. command' = [age |-> Reference(0, dds), sent |-> now - dds]
      BY <2>3 DEF OnDesiredCommand
    <3>2. Reference(0, dds) = dds /\ now - dds \in Nat
      BY <2>1 DEF Reference, Later
    <3>3. /\ command' \in [age : Nat, sent : Nat]
          /\ command'.age = dds /\ command'.sent = now - dds
      BY <2>1, <3>1, <3>2
    <3>4. now' - command'.sent <= command'.age
      BY <1>1, <2>1, <3>3
    <3> QED
      BY <3>3, <3>4 DEF CommandKept
  <2> QED
    BY <2>2, <2>3
<1>3. Typed'
  BY <1>1, <1>2 DEF Safe, Typed
<1>4. FaultKept' /\ PolicyKept' /\ MissionKept' /\ OutputKept'
  BY <1>1 DEF Safe, FaultKept, PolicyKept, MissionKept, OutputKept, Moving, SinceControl
<1> QED
  BY <1>2, <1>3, <1>4 DEF Safe

\* The control timer lets the robot move on what is live, and only then.
LEMMA ControlStep ==
  ASSUME Safe, PublishSafeCommand
  PROVE  /\ Safe'
         /\ output'.scale # "Stop" => output'.evidence = gate.last /\ output'.evidence > fault
<1>1. UNCHANGED <<gate, policy, mission, command, now, fault>> /\ controlled' = TRUE
  BY DEF PublishSafeCommand, inputs
<1>2. FaultKept' /\ PolicyKept' /\ MissionKept' /\ CommandKept'
  BY <1>1 DEF Safe, FaultKept, PolicyKept, MissionKept, CommandKept
<1>3. CASE ~Permitted /\ output' = Zero
  <2>1. output' \in [scale : Modes, evidence : Nat, sent : Nat, commanded : Nat]
        /\ output'.scale = "Stop"
    BY <1>3 DEF Zero, Modes
  <2>2. Typed' /\ OutputKept'
    BY <1>1, <2>1 DEF Safe, Typed, OutputKept, Moving
  <2> QED
    BY <1>2, <2>1, <2>2 DEF Safe
<1>4. CASE Permitted /\ output' = [scale |-> policy.mode, evidence |-> policy.evidence,
                                   sent |-> mission.sent, commanded |-> command.sent]
  <2>1. /\ policy \in [valid : BOOLEAN, mode : Modes, evidence : Nat, age : Nat]
        /\ mission \in [authorized : BOOLEAN, evidence : Nat, age : Nat, sent : Nat]
        /\ command \in [age : Nat, sent : Nat]
    BY DEF Safe, Typed
  <2>2. output' \in [scale : Modes, evidence : Nat, sent : Nat, commanded : Nat]
    BY <1>4, <2>1
  <2>3. /\ output'.evidence = policy.evidence /\ output'.sent = mission.sent
        /\ output'.commanded = command.sent
    BY <1>4
  <2>4. /\ policy.valid = TRUE /\ mission.authorized = TRUE
        /\ policy.age <= Timeout /\ mission.age <= MissionTimeout
        /\ command.age <= CommandTimeout
    BY <1>4, <2>1 DEF Permitted, MissionAuthorizes
  <2>5. /\ policy.evidence = gate.last /\ policy.evidence > fault
        /\ now - policy.evidence <= policy.age
    BY <2>1, <2>4, Numbers DEF Safe, PolicyKept
  <2>6. now - mission.sent <= mission.age
    BY <2>1, <2>4, Numbers DEF Safe, MissionKept
  <2>7. /\ now - policy.evidence <= Timeout + 0 /\ now - mission.sent <= MissionTimeout + 0
        /\ now - command.sent <= CommandTimeout + 0
    BY <2>1, <2>4, <2>5, <2>6, Numbers DEF Safe, CommandKept
  <2>8. OutputKept'
    BY <1>1, <2>3, <2>4, <2>7 DEF OutputKept, SinceControl
  <2>9. Typed'
    BY <1>1, <2>2 DEF Safe, Typed
  <2> QED
    BY <1>2, <2>3, <2>5, <2>8, <2>9 DEF Safe
<1> QED
  BY <1>3, <1>4 DEF PublishSafeCommand

\* Lifetimes run down as time passes.
LEMMA ElapseStep == ASSUME Safe, Elapse PROVE Safe'
<1>1. /\ UNCHANGED <<gate, output, fault>>
      /\ controlled = TRUE /\ controlled' = FALSE /\ now' = now + 1
      /\ policy' = Aged(policy, Timeout, NoPolicy)
      /\ mission' = Aged(mission, MissionTimeout, NoMission)
      /\ command' = Aged(command, CommandTimeout, NoCommand)
  BY DEF Elapse
<1>2. /\ policy \in [valid : BOOLEAN, mode : Modes, evidence : Nat, age : Nat]
      /\ mission \in [authorized : BOOLEAN, evidence : Nat, age : Nat, sent : Nat]
      /\ output \in [scale : Modes, evidence : Nat, sent : Nat, commanded : Nat]
      /\ now \in Nat /\ command \in [age : Nat, sent : Nat] /\ Timeout \in Nat
      /\ MissionTimeout \in Nat /\ CommandTimeout \in Nat
  BY Numbers DEF Safe, Typed
<1>3. /\ policy' \in [valid : BOOLEAN, mode : Modes, evidence : Nat, age : Nat]
      /\ PolicyKept'
  <2>1. CASE policy.age >= Timeout
    <3>1. policy' = NoPolicy
      BY <1>1, <2>1 DEF Aged
    <3>2. /\ policy' \in [valid : BOOLEAN, mode : Modes, evidence : Nat, age : Nat]
          /\ policy'.valid = FALSE
      BY <1>2, <3>1 DEF NoPolicy, Modes, NoEvidence
    <3> QED
      BY <3>2 DEF PolicyKept
  <2>2. CASE policy.age < Timeout
    <3>1. policy' = [policy EXCEPT !.age = policy.age + 1]
      BY <1>1, <1>2, <2>2 DEF Aged
    <3>2. /\ policy' \in [valid : BOOLEAN, mode : Modes, evidence : Nat, age : Nat]
          /\ policy'.valid = policy.valid /\ policy'.evidence = policy.evidence
          /\ policy'.age = policy.age + 1
      BY <1>2, <3>1
    <3> QED
      BY <1>1, <1>2, <2>2, <3>2 DEF Safe, PolicyKept
  <2> QED
    BY <1>2, <2>1, <2>2
<1>4. /\ mission' \in [authorized : BOOLEAN, evidence : Nat, age : Nat, sent : Nat]
      /\ MissionKept'
  <2>1. CASE mission.age >= MissionTimeout
    <3>1. mission' = NoMission
      BY <1>1, <2>1 DEF Aged
    <3>2. /\ mission' \in [authorized : BOOLEAN, evidence : Nat, age : Nat, sent : Nat]
          /\ mission'.authorized = FALSE
      BY <1>2, <3>1 DEF NoMission, NoEvidence
    <3> QED
      BY <3>2 DEF MissionKept
  <2>2. CASE mission.age < MissionTimeout
    <3>1. mission' = [mission EXCEPT !.age = mission.age + 1]
      BY <1>1, <1>2, <2>2 DEF Aged
    <3>2. /\ mission' \in [authorized : BOOLEAN, evidence : Nat, age : Nat, sent : Nat]
          /\ mission'.authorized = mission.authorized /\ mission'.sent = mission.sent
          /\ mission'.age = mission.age + 1
      BY <1>2, <3>1
    <3> QED
      BY <1>1, <1>2, <2>2, <3>2 DEF Safe, MissionKept
  <2> QED
    BY <1>2, <2>1, <2>2
<1>5. command' \in [age : Nat, sent : Nat] /\ CommandKept'
  <2>1. CASE command.age >= CommandTimeout
    <3>1. command' = NoCommand
      BY <1>1, <2>1 DEF Aged
    <3>2. /\ command' \in [age : Nat, sent : Nat]
          /\ command'.age = CommandTimeout + 1
      BY <1>2, <3>1 DEF NoCommand
    <3> QED
      BY <1>1, <1>2, <3>2 DEF CommandKept
  <2>2. CASE command.age < CommandTimeout
    <3>1. command' = [command EXCEPT !.age = command.age + 1]
      BY <1>1, <1>2, <2>2 DEF Aged
    <3>2. /\ command' \in [age : Nat, sent : Nat]
          /\ command'.age = command.age + 1 /\ command'.sent = command.sent
      BY <1>2, <3>1
    <3>3. now - command.sent <= command.age
      BY <1>2, <2>2 DEF Safe, CommandKept
    <3> QED
      BY <1>1, <1>2, <3>2, <3>3 DEF CommandKept
  <2> QED
    BY <1>2, <2>1, <2>2
<1>6. Typed'
  BY <1>1, <1>2, <1>3, <1>4, <1>5 DEF Safe, Typed
<1>7. OutputKept'
  BY <1>1, <1>2 DEF Safe, OutputKept, Moving, SinceControl
<1> QED
  BY <1>1, <1>3, <1>4, <1>5, <1>6, <1>7 DEF Safe, FaultKept

\* Safe is inductive, and what sets the robot moving is the newest observation
\* admitted, made after the last fault.
LEMMA SafeStep ==
  ASSUME Safe, [Next]_vars
  PROVE  /\ Safe'
         /\ output.scale = "Stop" /\ output'.scale # "Stop" =>
              output'.evidence = gate.last /\ output'.evidence > fault
<1>1. ASSUME NEW stamp \in Stamps, NEW dds \in 0 .. Timeout + 1, NEW d \in Decisions,
             OnPolicyDecision(stamp, dds, d[1], d[2])
      PROVE  Safe' /\ output' = output
  <2>1. d[1] \in Actions /\ d[2] \in BOOLEAN
    BY InputAssumption
  <2>2. output' = output
    BY <1>1 DEF OnPolicyDecision
  <2> QED
    BY <1>1, <2>1, <2>2, DecisionKeeps
<1>2. ASSUME NEW evidence \in EvidenceTimes, NEW dds \in 0 .. MissionTimeout + 1,
             OnMissionState(TRUE, evidence, dds)
      PROVE  Safe' /\ output' = output
  <2>1. evidence \in Nat
    BY InputAssumption DEF EvidenceTimes
  <2> QED
    BY <1>2, <2>1, MissionStep DEF OnMissionState
<1>3. CASE OnMissionState(FALSE, NoEvidence, 0)
  <2>1. 0 \in 0 .. MissionTimeout + 1 /\ NoEvidence \in Nat
    BY InputAssumption DEF NoEvidence
  <2>2. output' = output
    BY <1>3 DEF OnMissionState
  <2> QED
    BY <1>3, <2>1, <2>2, MissionStep
<1>4. ASSUME NEW finite \in BOOLEAN, NEW dds \in 0 .. CommandTimeout + 1,
             OnDesiredCommand(finite, dds)
      PROVE  Safe' /\ output' = output
  BY <1>4, CommandStep DEF OnDesiredCommand
<1>5. CASE PublishSafeCommand
  BY <1>5, ControlStep
<1>6. CASE Elapse
  BY <1>6, ElapseStep DEF Elapse
<1>7. CASE UNCHANGED vars
  BY <1>7 DEF vars, inputs, Safe, Typed, FaultKept, PolicyKept, MissionKept, CommandKept,
              OutputKept, Moving, SinceControl
<1> QED
  BY <1>1, <1>2, <1>3, <1>4, <1>5, <1>6, <1>7 DEF Next

\* A controller just started holds no input and stops the robot.
LEMMA SafeInit == Init => Safe
<1> SUFFICES ASSUME Init PROVE Safe
  OBVIOUS
<1>1. gate \in Gates /\ gate.last = 0
  BY DEF Init, EmptyGate, Gates
<1>2. /\ policy \in [valid : BOOLEAN, mode : Modes, evidence : Nat, age : Nat]
      /\ policy.valid = FALSE
  BY GateAssumption DEF Init, NoPolicy, Modes, NoEvidence
<1>3. /\ mission \in [authorized : BOOLEAN, evidence : Nat, age : Nat, sent : Nat]
      /\ mission.authorized = FALSE
  BY InputAssumption DEF Init, NoMission, NoEvidence
<1>4. /\ output \in [scale : Modes, evidence : Nat, sent : Nat, commanded : Nat]
      /\ ~Moving
  BY DEF Init, Zero, Modes, Moving
<1>5. /\ command \in [age : Nat, sent : Nat] /\ command.age = CommandTimeout + 1
      /\ CommandTimeout \in Nat /\ now = 0 /\ fault = 0
  BY InputAssumption DEF Init, NoCommand
<1>6. Typed
  BY <1>1, <1>2, <1>3, <1>4, <1>5 DEF Typed
<1> QED
  BY <1>1, <1>2, <1>3, <1>4, <1>5, <1>6
  DEF Safe, FaultKept, PolicyKept, MissionKept, CommandKept, OutputKept

\* The robot moves on an observation, an authority and a desired velocity that were
\* live one control period ago at the latest, whatever is delayed or lost.
THEOREM MovesOnLiveInputsAlways == Spec => []MovesOnLiveInputs
<1>1. Safe => MovesOnLiveInputs
  <2> SUFFICES ASSUME Safe, Moving
               PROVE  /\ now - output.evidence <= Timeout + 1
                      /\ now - output.sent <= MissionTimeout + 1
                      /\ now - output.commanded <= CommandTimeout + 1
    BY DEF MovesOnLiveInputs
  <2>1. output.evidence \in Nat /\ output.sent \in Nat /\ output.commanded \in Nat
    BY DEF Safe, Typed
  <2> QED
    BY <2>1, Numbers DEF Safe, OutputKept, SinceControl
<1> QED
  BY <1>1, SafeInit, SafeStep, PTL DEF Spec

\* Motion restarts on the newest observation, made after the last temporal fault.
THEOREM RestartsAfterTheFaultAlways == Spec => RestartsAfterTheFault
<1>1. Safe /\ [Next]_vars =>
        [output.scale = "Stop" /\ output'.scale # "Stop" =>
           output'.evidence = gate.last /\ output'.evidence > fault]_vars
  BY SafeStep
<1> QED
  BY <1>1, SafeInit, SafeStep, PTL DEF Spec, RestartsAfterTheFault

=============================================================================
