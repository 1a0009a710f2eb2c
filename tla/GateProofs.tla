------------------------------ MODULE GateProofs -------------------------------
(***************************************************************************)
(* What the operations shared by the three gates do, for every timeout and *)
(* cache capacity.  The lemmas say what one operation preserves; Covered,  *)
(* the heart of the replay argument, names the four ways in which a gate   *)
(* remembers that a time must not speak.                                   *)
(***************************************************************************)
EXTENDS PolicyJudgement, TLAPS

\* What an operation that is no admission may do to a gate: the newest admitted
\* time stays, the recovery barrier only moves on.
LEMMA LaterFacts ==
  ASSUME NEW s \in Nat, NEW t \in Nat
  PROVE  Later(s, t) \in Nat /\ Later(s, t) >= s /\ Later(s, t) >= t
         /\ Later(s, t) \in {s, t}
BY DEF Later

\* Raising the barrier to a time keeps the gate well formed and loses nothing it
\* has admitted, opened or cached.
LEMMA RaiseFacts ==
  ASSUME NEW g \in Gates, NEW n \in Nat
  PROVE  /\ Raise(g, n) \in Gates
         /\ Raise(g, n).last = g.last
         /\ Raise(g, n).future = g.future
         /\ Raise(g, n).until = g.until
         /\ Raise(g, n).barrier >= g.barrier
         /\ Raise(g, n).barrier >= n
BY LaterFacts, g.barrier \in Nat DEF Raise, Gates

\* A pruned gate opens an epoch whenever it forgets something.
LEMMA PruneFacts ==
  ASSUME NEW g \in Gates, NEW n \in Nat, NEW m \in Nat
  PROVE  /\ Prune(g, n, m) \in Gates
         /\ Prune(g, n, m).last = g.last
         /\ Prune(g, n, m).future = Retained(g, n)
         /\ Prune(g, n, m).barrier >= g.barrier
         /\ \/ Prune(g, n, m).until = g.until
            \/ g.until # 0 /\ m > g.until /\ Prune(g, n, m).until = 0
         /\ \/ Prune(g, n, m).barrier >= n
            \/ Retained(g, n) = g.future /\ Prune(g, n, m).until = g.until
<1> DEFINE p == [g EXCEPT !.future = Retained(g, n),
                          !.until = IF Released(g, m) THEN 0 ELSE @]
<1>1. /\ p \in Gates
      /\ p.last = g.last /\ p.barrier = g.barrier
      /\ p.future = Retained(g, n)
      /\ p.until = IF Released(g, m) THEN 0 ELSE g.until
  BY DEF Gates, Retained
<1>2. Prune(g, n, m) = IF Retained(g, n) # g.future \/ Released(g, m)
                       THEN Raise(p, n) ELSE p
  BY DEF Prune
<1> HIDE DEF p
<1>3. /\ Raise(p, n) \in Gates
      /\ Raise(p, n).last = p.last /\ Raise(p, n).future = p.future
      /\ Raise(p, n).until = p.until
      /\ Raise(p, n).barrier >= p.barrier /\ Raise(p, n).barrier >= n
  BY <1>1, RaiseFacts
<1>4. g.barrier \in Nat
  BY DEF Gates
<1>5. CASE Retained(g, n) # g.future \/ Released(g, m)
  BY <1>1, <1>2, <1>3, <1>5 DEF Released
<1>6. CASE ~(Retained(g, n) # g.future \/ Released(g, m))
  BY <1>1, <1>2, <1>4, <1>6
<1> QED
  BY <1>5, <1>6

\* Prolonging a quarantine never shortens it, and leaves the rest of the gate.
LEMMA ProlongFacts ==
  ASSUME NEW g \in Gates, NEW t \in Nat, NEW n \in Nat, NEW m \in Nat
  PROVE  /\ Prolong(g, t, n, m) \in Gates
         /\ Prolong(g, t, n, m).last = g.last
         /\ Prolong(g, t, n, m).future = g.future
         /\ Prolong(g, t, n, m).barrier = g.barrier
         /\ Prolong(g, t, n, m).until >= g.until
         /\ Prolong(g, t, n, m).until # 0 => g.until # 0
         /\ g.until # 0 /\ t > n => Prolong(g, t, n, m).until >= m + 2 * Timeout
<1>1. g.until \in Nat /\ m + 2 * Timeout \in Nat
  BY GateAssumption DEF Gates
<1>2. Later(g.until, m + 2 * Timeout) \in Nat
      /\ Later(g.until, m + 2 * Timeout) >= g.until
      /\ Later(g.until, m + 2 * Timeout) >= m + 2 * Timeout
  BY <1>1, LaterFacts
<1> QED
  BY <1>1, <1>2 DEF Prolong, Gates

\* A time to be remembered is cached, or a quarantine is in force that outlasts
\* it when it was opened on its account.
LEMMA RememberFacts ==
  ASSUME NEW g \in Gates, NEW t \in Nat, NEW n \in Nat, NEW m \in Nat
  PROVE  LET p == Prune(g, n, m)
             r == Remember(g, t, n, m)
         IN  /\ r \in Gates
             /\ r.last = p.last /\ r.barrier = p.barrier
             /\ \/ p.until # 0 /\ r = p
                \/ p.until = 0 /\ r.until = 0 /\ t \in r.future /\ p.future \subseteq r.future
                \/ p.until = 0 /\ r.until = m + 2 * Timeout
<1> DEFINE p == Prune(g, n, m)
<1>1. p \in Gates
  BY PruneFacts
<1>2. m + 2 * Timeout \in Nat
  BY GateAssumption
<1>3. Remember(g, t, n, m) =
        IF p.until # 0 THEN p
        ELSE IF Cardinality(p.future \cup {t}) <= MaxRejected
             THEN [p EXCEPT !.future = p.future \cup {t}]
             ELSE [p EXCEPT !.future = {}, !.until = m + 2 * Timeout]
  BY DEF Remember
<1> HIDE DEF p
<1> SUFFICES /\ Remember(g, t, n, m) \in Gates
             /\ Remember(g, t, n, m).last = p.last
             /\ Remember(g, t, n, m).barrier = p.barrier
             /\ \/ p.until # 0 /\ Remember(g, t, n, m) = p
                \/ /\ p.until = 0 /\ Remember(g, t, n, m).until = 0
                   /\ t \in Remember(g, t, n, m).future
                   /\ p.future \subseteq Remember(g, t, n, m).future
                \/ p.until = 0 /\ Remember(g, t, n, m).until = m + 2 * Timeout
  BY DEF p
<1>4. p.future \in SUBSET Nat /\ p.until \in Nat
  BY <1>1 DEF Gates
<1>5. CASE p.until # 0
  <2>1. Remember(g, t, n, m) = p
    BY <1>3, <1>5
  <2> QED
    BY <1>1, <1>5, <2>1
<1>6. CASE p.until = 0 /\ Cardinality(p.future \cup {t}) <= MaxRejected
  <2>1. Remember(g, t, n, m) = [p EXCEPT !.future = p.future \cup {t}]
    BY <1>3, <1>6
  <2>2. p.future \cup {t} \in SUBSET Nat
    BY <1>4
  <2> QED
    BY <1>1, <1>6, <2>1, <2>2 DEF Gates
<1>7. CASE p.until = 0 /\ ~(Cardinality(p.future \cup {t}) <= MaxRejected)
  <2>1. Remember(g, t, n, m) = [p EXCEPT !.future = {}, !.until = m + 2 * Timeout]
    BY <1>3, <1>7
  <2>2. /\ Remember(g, t, n, m).until = m + 2 * Timeout
        /\ Remember(g, t, n, m).last = p.last
        /\ Remember(g, t, n, m).barrier = p.barrier
    BY <1>1, <2>1 DEF Gates
  <2>3. Remember(g, t, n, m) \in Gates
    BY <1>1, <1>2, <2>1 DEF Gates
  <2> QED
    BY <1>7, <2>2, <2>3
<1> QED
  BY <1>4, <1>5, <1>6, <1>7

\* Admitting a stamp makes it the newest time of a gate that stays well formed.
LEMMA AdmitFacts ==
  ASSUME NEW g \in Gates, NEW t \in Nat
  PROVE  /\ Admit(g, t) \in Gates
         /\ Admit(g, t).last = t
         /\ Admit(g, t).barrier = 0
         /\ Admit(g, t).until = g.until
         /\ Admit(g, t).future = {u \in g.future : u > t}
BY DEF Admit, Gates

-----------------------------------------------------------------------------
\* The four ways in which a gate knows, when the clocks show n and m, that t must
\* not speak: a quarantine in force lasts until t has come.
Covered(g, t, n, m) ==
  \/ t \in g.future
  \/ t <= g.last
  \/ t <= g.barrier
  \/ g.until # 0 /\ t + m <= g.until + n

\* Pruning uncovers nothing: what the cache drops has passed, and
\* so has whatever a quarantine stood for when it is lifted.
LEMMA PruneCovers ==
  ASSUME NEW g \in Gates, NEW t \in Nat, NEW n \in Nat, NEW m \in Nat,
         Covered(g, t, n, m)
  PROVE  Covered(Prune(g, n, m), t, n, m)
<1> DEFINE p == Prune(g, n, m)
<1>1. /\ p \in Gates /\ p.last = g.last /\ p.barrier >= g.barrier
      /\ p.future = Retained(g, n)
      /\ p.until = g.until \/ (g.until # 0 /\ m > g.until /\ p.until = 0)
      /\ p.barrier >= n \/ (Retained(g, n) = g.future /\ p.until = g.until)
  BY PruneFacts
<1> HIDE DEF p
<1> SUFFICES Covered(p, t, n, m)
  BY DEF p
<1>2. /\ p.barrier \in Nat /\ p.last \in Nat /\ p.until \in Nat
      /\ g.barrier \in Nat /\ g.last \in Nat /\ g.until \in Nat
  BY <1>1 DEF Gates
<1>3. CASE t <= g.last \/ t <= g.barrier
  BY <1>1, <1>2, <1>3 DEF Covered
<1>4. CASE t \in g.future
  <2>1. CASE t \in Retained(g, n)
    BY <1>1, <2>1 DEF Covered
  <2>2. CASE t \notin Retained(g, n)
    <3>1. t < n - Timeout \/ t <= g.last
      BY <1>2, <1>4, <2>2, GateAssumption DEF Retained
    <3>2. p.barrier >= n
      BY <1>1, <1>4, <2>2
    <3> QED
      BY <1>1, <1>2, <3>1, <3>2, GateAssumption DEF Covered
  <2> QED
    BY <2>1, <2>2
<1>5. CASE g.until # 0 /\ t + m <= g.until + n
  BY <1>1, <1>2, <1>5 DEF Covered
<1> QED
  BY <1>3, <1>4, <1>5 DEF Covered

\* Admitting a later time uncovers none: an older one is no longer the newest, and
\* the cache keeps the others.
LEMMA AdmitCovers ==
  ASSUME NEW g \in Gates, NEW stamp \in Nat, NEW n \in Nat, NEW m \in Nat,
         NEW t \in Nat, Covered(g, t, n, m),
         stamp > g.last, ~Remembered(g, stamp), ~Blocked(g, stamp)
  PROVE  Covered(Admit(g, stamp), t, n, m)
<1> DEFINE j == Admit(g, stamp)
<1>1. j.last = stamp /\ j.future = {u \in g.future : u > stamp}
  BY AdmitFacts
<1>2. g.last \in Nat /\ g.barrier \in Nat /\ g.until \in Nat
  BY DEF Gates
<1>3. t \in g.future \/ t <= stamp
  BY <1>2 DEF Covered, Remembered, Blocked
<1> HIDE DEF j
<1>4. Covered(j, t, n, m)
  BY <1>1, <1>3 DEF Covered
<1> QED
  BY <1>4 DEF j

\* Refusing a time from the future uncovers no other, but those that lie further
\* ahead than the quarantine an overflow opens.
LEMMA RememberCovers ==
  ASSUME NEW g \in Gates, NEW stamp \in Nat, NEW n \in Nat, NEW m \in Nat,
         NEW t \in Nat, Covered(g, t, n, m), g.until = 0
  PROVE  LET j == Raise(Remember(g, stamp, n, m), n)
         IN  Covered(j, t, n, m) \/ (j.until # 0 /\ t > n + 2 * Timeout)
<1> DEFINE p == Prune(g, n, m)
           r == Remember(g, stamp, n, m)
           j == Raise(r, n)
<1>1. p \in Gates /\ p.until = 0
  BY PruneFacts
<1>2. Covered(p, t, n, m)
  BY PruneCovers
<1>3. /\ r \in Gates /\ r.last = p.last /\ r.barrier = p.barrier
      /\ \/ p.until # 0 /\ r = p
         \/ p.until = 0 /\ r.until = 0 /\ stamp \in r.future /\ p.future \subseteq r.future
         \/ p.until = 0 /\ r.until = m + 2 * Timeout
  BY RememberFacts, ZenonT(30)
<1> HIDE DEF p, r
<1>4. /\ j \in Gates /\ j.last = r.last /\ j.future = r.future
      /\ j.until = r.until /\ j.barrier >= r.barrier
  BY <1>3, RaiseFacts
<1> SUFFICES Covered(j, t, n, m) \/ (j.until # 0 /\ t > n + 2 * Timeout)
  BY DEF j, r
<1> HIDE DEF j
<1>5. /\ p.last \in Nat /\ p.barrier \in Nat /\ j.barrier \in Nat
  BY <1>1, <1>4 DEF Gates
<1>6. CASE r.until = m + 2 * Timeout
  BY <1>4, <1>6, GateAssumption DEF Covered
<1>7. CASE r.until = 0 /\ p.future \subseteq r.future
  BY <1>1, <1>2, <1>3, <1>4, <1>5, <1>7 DEF Covered
<1> QED
  BY <1>1, <1>3, <1>6, <1>7

-----------------------------------------------------------------------------
\* What the orchestrator's judgement of one decision does to its gate.

\* What a decision may carry: any time, or what is none.
Observed == {Malformed} \cup Nat

\* What the handler sees once it has pruned and prolonged.
LEMMA SeenFacts ==
  ASSUME NEW g \in Gates, NEW stamp \in Observed, NEW n \in Nat, NEW m \in Nat
  PROVE  /\ SeenBy(g, stamp, n, m) \in Gates
         /\ SeenBy(g, stamp, n, m).last = g.last
         /\ SeenBy(g, stamp, n, m).barrier >= g.barrier
<1>1. CASE stamp = Malformed
  BY <1>1 DEF SeenBy, Gates
<1>2. CASE stamp # Malformed
  <2> DEFINE p == Prune(g, n, m)
  <2>1. stamp \in Nat
    BY <1>2 DEF Observed
  <2>2. p \in Gates /\ p.last = g.last /\ p.barrier >= g.barrier
    BY PruneFacts
  <2>3. SeenBy(g, stamp, n, m) = Prolong(p, stamp, n, m)
    BY <1>2 DEF SeenBy
  <2> HIDE DEF p
  <2>4. /\ Prolong(p, stamp, n, m) \in Gates
        /\ Prolong(p, stamp, n, m).last = p.last
        /\ Prolong(p, stamp, n, m).barrier = p.barrier
    BY <2>1, <2>2, ProlongFacts
  <2> QED
    BY <2>2, <2>3, <2>4
<1> QED
  BY <1>1, <1>2

\* What was covered is still covered once the handler has pruned and prolonged.
LEMMA SeenCovers ==
  ASSUME NEW g \in Gates, NEW stamp \in Observed, NEW n \in Nat, NEW m \in Nat,
         NEW t \in Nat, Covered(g, t, n, m)
  PROVE  Covered(SeenBy(g, stamp, n, m), t, n, m)
<1>1. CASE stamp = Malformed
  BY <1>1 DEF SeenBy
<1>2. CASE stamp # Malformed
  <2> DEFINE p == Prune(g, n, m)
             q == Prolong(p, stamp, n, m)
  <2>1. stamp \in Nat
    BY <1>2 DEF Observed
  <2>2. p \in Gates /\ Covered(p, t, n, m)
    BY PruneFacts, PruneCovers
  <2> HIDE DEF p
  <2>3. /\ q \in Gates /\ q.last = p.last /\ q.future = p.future
        /\ q.barrier = p.barrier /\ q.until >= p.until
    BY <2>1, <2>2, ProlongFacts
  <2>4. p.until \in Nat /\ q.until \in Nat
    BY <2>2, <2>3 DEF Gates
  <2>5. Covered(q, t, n, m)
    BY <2>2, <2>3, <2>4 DEF Covered
  <2> QED
    BY <1>2, <2>5 DEF SeenBy, p
<1> QED
  BY <1>1, <1>2

\* What each verdict tells of the stamp.
LEMMA VerdictFacts ==
  ASSUME NEW g \in Gates, NEW stamp \in Observed, NEW n \in Nat
  PROVE  LET v == Verdict(g, stamp, n) IN
         /\ v = "admitted" =>
              /\ stamp \in Nat /\ stamp > 0 /\ stamp <= n /\ n - stamp <= Timeout
              /\ ~Remembered(g, stamp) /\ ~Blocked(g, stamp) /\ stamp > g.last
         /\ v = "future" => stamp \in Nat /\ stamp > n /\ ~Remembered(g, stamp)
         /\ v = "remembered" => stamp \in Nat /\ Remembered(g, stamp)
         /\ stamp > n => v \in {"remembered", "future"}
         /\ v \in OwnFaults => v \notin {"admitted", "remembered", "blocked"}
         /\ v \in OwnFaults \cup {"admitted", "remembered", "blocked"}
<1>1. stamp # Malformed => stamp \in Nat
  BY DEF Observed
<1>2. g.last \in Nat /\ GateAssumption!1
  BY GateAssumption DEF Gates
<1> QED
  BY <1>1, <1>2 DEF Verdict, OwnFaults, Malformed

-----------------------------------------------------------------------------
\* What a handler does to the gate, by verdict.
LEMMA AfterFacts ==
  ASSUME NEW g \in Gates, NEW stamp \in Observed, NEW n \in Nat, NEW m \in Nat
  PROVE  LET v == Verdict(g, stamp, n)
             j == After(g, v, stamp, n, m)
         IN  /\ j \in Gates
             /\ v = "admitted" => j = Admit(g, stamp) /\ j.last = stamp /\ j.barrier = 0
             /\ v # "admitted" => j.last = g.last /\ j.barrier >= g.barrier
             /\ v \in OwnFaults => j.barrier >= n
<1> DEFINE v == Verdict(g, stamp, n)
           j == After(g, v, stamp, n, m)
<1>1. /\ v = "admitted" => stamp \in Nat
      /\ v = "future" => stamp \in Nat
      /\ v \in OwnFaults => v \notin {"admitted", "remembered", "blocked"}
      /\ v \in OwnFaults \cup {"admitted", "remembered", "blocked"}
  BY VerdictFacts
<1>2. g.barrier \in Nat
  BY DEF Gates
<1> HIDE DEF v
<1> SUFFICES /\ j \in Gates
             /\ v = "admitted" => j = Admit(g, stamp) /\ j.last = stamp /\ j.barrier = 0
             /\ v # "admitted" => j.last = g.last /\ j.barrier >= g.barrier
             /\ v \in OwnFaults => j.barrier >= n
  BY DEF v
<1>3. CASE v = "admitted"
  BY <1>1, <1>3, AdmitFacts DEF After
<1>4. CASE v = "remembered"
  <2>1. j = RefuseRemembered(g, n)
    BY <1>4 DEF After
  <2>2. j \in Gates /\ j.last = g.last /\ j.barrier >= g.barrier
    BY <1>2, <2>1, RaiseFacts DEF RefuseRemembered
  <2> QED
    BY <1>1, <1>4, <2>2
<1>5. CASE v = "blocked"
  <2>1. j = g
    BY <1>5 DEF After
  <2> QED
    BY <1>1, <1>2, <1>5, <2>1
<1>6. CASE v = "future"
  <2> DEFINE r == Remember(g, stamp, n, m)
  <2>1. stamp \in Nat
    BY <1>1, <1>6
  <2>2. /\ Prune(g, n, m) \in Gates /\ Prune(g, n, m).last = g.last
        /\ Prune(g, n, m).barrier >= g.barrier
    BY PruneFacts
  <2>3. r \in Gates /\ r.last = g.last /\ r.barrier >= g.barrier
    BY <2>1, <2>2, RememberFacts
  <2>4. j = Raise(r, n)
    BY <1>6 DEF After
  <2> HIDE DEF r
  <2>5. Raise(r, n) \in Gates /\ Raise(r, n).last = r.last
        /\ Raise(r, n).barrier >= r.barrier /\ Raise(r, n).barrier >= n
    BY <2>3, RaiseFacts
  <2>6. r.barrier \in Nat /\ Raise(r, n).barrier \in Nat
    BY <2>3, <2>5 DEF Gates
  <2> QED
    BY <1>2, <1>6, <2>3, <2>4, <2>5, <2>6
<1>7. CASE v \in OwnFaults \ {"future"}
  <2>1. j = Raise(g, n)
    BY <1>7 DEF After, OwnFaults
  <2> QED
    BY <1>1, <1>7, <2>1, RaiseFacts
<1> QED
  BY <1>1, <1>3, <1>4, <1>5, <1>6, <1>7

\* A whole decision keeps the gate well formed: each of its handlers does.
LEMMA JudgedFacts ==
  ASSUME NEW g \in Gates, NEW stamp \in Observed, NEW n \in Nat, NEW m \in Nat
  PROVE  LET v == Judge(g, stamp, n, m)
             j == Judged(g, stamp, n, m)
         IN  /\ j \in Gates
             /\ v = "admitted" =>
                  /\ j.last = stamp /\ j.barrier = 0 /\ stamp > g.last
                  /\ stamp > g.barrier /\ stamp <= n /\ n - stamp <= Timeout
             /\ v # "admitted" => j.last = g.last /\ j.barrier >= g.barrier
             /\ v \in OwnFaults => j.barrier >= n
<1> DEFINE s == SeenBy(g, stamp, n, m)
           v == Verdict(s, stamp, n)
           j == After(s, v, stamp, n, m)
<1>1. s \in Gates /\ s.last = g.last /\ s.barrier >= g.barrier
  BY SeenFacts
<1>2. Judge(g, stamp, n, m) = v /\ Judged(g, stamp, n, m) = j
  BY DEF Judge, Judged
<1> HIDE DEF s
<1>3. v = "admitted" =>
        /\ stamp \in Nat /\ stamp > 0 /\ stamp <= n /\ n - stamp <= Timeout
        /\ ~Blocked(s, stamp) /\ stamp > s.last
  BY <1>1, VerdictFacts
<1>4. /\ j \in Gates
      /\ v = "admitted" => j.last = stamp /\ j.barrier = 0
      /\ v # "admitted" => j.last = s.last /\ j.barrier >= s.barrier
      /\ v \in OwnFaults => j.barrier >= n
  BY <1>1, AfterFacts
<1> HIDE DEF v, j
<1>5. s.barrier \in Nat /\ g.barrier \in Nat /\ j.barrier \in Nat
  BY <1>1, <1>4 DEF Gates
<1>6. v = "admitted" => stamp > g.barrier
  BY <1>1, <1>3, <1>5 DEF Blocked
<1>7. v # "admitted" => j.barrier >= g.barrier
  BY <1>1, <1>4, <1>5
<1> QED
  BY <1>1, <1>2, <1>3, <1>4, <1>6, <1>7

\* A handler uncovers no time but those that lie further ahead than a quarantine it
\* leaves in force.
LEMMA AfterCovers ==
  ASSUME NEW g \in Gates, NEW stamp \in Observed, NEW n \in Nat, NEW m \in Nat,
         NEW t \in Nat, t > 0, Covered(g, t, n, m)
  PROVE  LET j == After(g, Verdict(g, stamp, n), stamp, n, m)
         IN  Covered(j, t, n, m) \/ (j.until # 0 /\ t > n + 2 * Timeout)
<1> DEFINE v == Verdict(g, stamp, n)
           j == After(g, v, stamp, n, m)
<1>1. /\ v = "admitted" =>
           /\ stamp \in Nat /\ stamp > g.last
           /\ ~Remembered(g, stamp) /\ ~Blocked(g, stamp)
      /\ v = "future" => stamp \in Nat /\ ~Remembered(g, stamp)
      /\ v \in OwnFaults \cup {"admitted", "remembered", "blocked"}
  BY VerdictFacts
<1>2. g.last \in Nat /\ g.barrier \in Nat /\ g.until \in Nat /\ g.future \subseteq Nat
  BY DEF Gates
<1> HIDE DEF v
<1> SUFFICES Covered(j, t, n, m) \/ (j.until # 0 /\ t > n + 2 * Timeout)
  BY DEF v
<1>3. CASE v = "admitted"
  <2>1. j = Admit(g, stamp)
    BY <1>3 DEF After
  <2> HIDE DEF j
  <2> QED
    BY <1>1, <1>3, <2>1, AdmitCovers
<1>4. CASE v = "future"
  <2>1. j = Raise(Remember(g, stamp, n, m), n)
    BY <1>4 DEF After
  <2>2. stamp \in Nat /\ g.until = 0
    BY <1>1, <1>4 DEF Remembered
  <2> HIDE DEF j
  <2> QED
    BY <2>1, <2>2, RememberCovers
<1>5. CASE v \in (OwnFaults \ {"future"}) \cup {"remembered", "blocked"}
  <2>1. j = g \/ j = Raise(g, n)
    BY <1>5 DEF After, OwnFaults, RefuseRemembered
  <2>2. /\ Raise(g, n) \in Gates /\ Raise(g, n).last = g.last
        /\ Raise(g, n).future = g.future /\ Raise(g, n).until = g.until
        /\ Raise(g, n).barrier >= g.barrier
    BY RaiseFacts
  <2>3. Raise(g, n).barrier \in Nat
    BY <2>2 DEF Gates
  <2> QED
    BY <1>2, <2>1, <2>2, <2>3 DEF Covered
<1> QED
  BY <1>1, <1>3, <1>4, <1>5

\* Nor does a whole decision.
LEMMA JudgedCovers ==
  ASSUME NEW g \in Gates, NEW stamp \in Observed, NEW n \in Nat, NEW m \in Nat,
         NEW t \in Nat, t > 0, Covered(g, t, n, m)
  PROVE  LET j == Judged(g, stamp, n, m)
         IN  Covered(j, t, n, m) \/ (j.until # 0 /\ t > n + 2 * Timeout)
<1> DEFINE s == SeenBy(g, stamp, n, m)
<1>1. s \in Gates /\ Covered(s, t, n, m)
  BY SeenFacts, SeenCovers
<1>2. Judged(g, stamp, n, m) = After(s, Verdict(s, stamp, n), stamp, n, m)
  BY DEF Judged
<1> HIDE DEF s
<1> QED
  BY <1>1, <1>2, AfterCovers

\* A time met in the future is cached, or a quarantine in force outlasts it.
LEMMA ForeseenCovered ==
  ASSUME NEW g \in Gates, NEW stamp \in Observed, NEW n \in Nat, NEW m \in Nat,
         stamp > n, stamp <= n + 2 * Timeout
  PROVE  Covered(Judged(g, stamp, n, m), stamp, n, m)
<1> DEFINE q == Prune(g, n, m)
           s == SeenBy(g, stamp, n, m)
<1>1. stamp \in Nat /\ stamp # Malformed /\ stamp > 0
  BY DEF Observed, Malformed
<1>2. q \in Gates
  BY PruneFacts
<1>3. s = Prolong(q, stamp, n, m)
  BY <1>1 DEF SeenBy
<1> HIDE DEF q
<1>4. /\ s \in Gates
      /\ s.until # 0 => s.until >= m + 2 * Timeout
  BY <1>1, <1>2, <1>3, ProlongFacts
<1>5. Judged(g, stamp, n, m) = After(s, Verdict(s, stamp, n), stamp, n, m)
  BY DEF Judged
<1> HIDE DEF s
<1>6. CASE Remembered(s, stamp)
  <2>1. s.until \in Nat
    BY <1>4 DEF Gates
  <2>2. Covered(s, stamp, n, m)
    <3>1. s.until # 0 => stamp + m <= s.until + n
      BY <1>1, <1>4, <2>1, GateAssumption
    <3> QED
      BY <1>6, <3>1 DEF Remembered, Covered
  <2> QED
    BY <1>1, <1>4, <1>5, <2>2, AfterCovers, GateAssumption
<1>7. CASE ~Remembered(s, stamp)
  <2> DEFINE p == Prune(s, n, m)
             r == Remember(s, stamp, n, m)
  <2>1. Verdict(s, stamp, n) = "future" /\ s.until = 0
    BY <1>1, <1>4, <1>7, VerdictFacts DEF Remembered
  <2>2. /\ r \in Gates
        /\ \/ p.until # 0 /\ r = p
           \/ p.until = 0 /\ r.until = 0 /\ stamp \in r.future /\ p.future \subseteq r.future
           \/ p.until = 0 /\ r.until = m + 2 * Timeout
    BY <1>1, <1>4, RememberFacts
  <2>3. p.until = 0
    BY <1>4, <2>1, PruneFacts
  <2>4. Judged(g, stamp, n, m) = Raise(r, n)
    BY <1>5, <2>1 DEF After
  <2> HIDE DEF p, r
  <2>5. Raise(r, n).future = r.future /\ Raise(r, n).until = r.until
    BY <2>2, RaiseFacts
  <2>6. r.until = m + 2 * Timeout => stamp + m <= r.until + n /\ r.until # 0
    BY <1>1, GateAssumption
  <2> QED
    BY <1>1, <2>2, <2>3, <2>4, <2>5, <2>6 DEF Covered
<1> QED
  BY <1>6, <1>7

-----------------------------------------------------------------------------
\* A gate that keeps nothing later than the newest time judged, the furthest time
\* met and the longest quarantine opened.
Bounded(g, newest, furthest, longest) ==
  /\ g.last <= newest /\ g.barrier <= newest
  /\ \A t \in g.future : t <= furthest
  /\ g.until <= longest

\* Pruning bounds a gate no worse than it was.
LEMMA PruneBounded ==
  ASSUME NEW g \in Gates, NEW n \in Nat, NEW m \in Nat,
         NEW b \in Nat, NEW f \in Nat, NEW u \in Nat, Bounded(g, b, f, u), n <= b
  PROVE  Prune(g, n, m) \in Gates /\ Bounded(Prune(g, n, m), b, f, u)
<1> DEFINE p == [g EXCEPT !.future = Retained(g, n),
                          !.until = IF Released(g, m) THEN 0 ELSE @]
<1>1. p \in Gates /\ Bounded(p, b, f, u)
  <2>1. /\ p \in Gates /\ p.last = g.last /\ p.barrier = g.barrier
        /\ p.future \subseteq g.future
        /\ p.until = 0 \/ p.until = g.until
    BY DEF Gates, Retained
  <2> HIDE DEF p
  <2> QED
    BY <2>1 DEF Gates, Bounded
<1>2. Prune(g, n, m) \in {p, Raise(p, n)}
  BY DEF Prune
<1> HIDE DEF p
<1>3. Raise(p, n) \in Gates /\ Bounded(Raise(p, n), b, f, u)
  BY <1>1 DEF Raise, Later, Gates, Bounded
<1> QED
  BY <1>1, <1>2, <1>3

\* Nor does a whole decision, whatever its verdict.
LEMMA JudgedBounded ==
  ASSUME NEW g \in Gates, NEW stamp \in Observed, NEW n \in Nat, NEW m \in Nat,
         NEW b \in Nat, NEW f \in Nat, NEW u \in Nat, Bounded(g, b, f, u),
         n <= b, stamp <= f, m + 2 * Timeout <= u
  PROVE  Bounded(Judged(g, stamp, n, m), b, f, u)
<1> DEFINE s == SeenBy(g, stamp, n, m)
           v == Verdict(s, stamp, n)
<1> USE GateAssumption
<1>1. s \in Gates /\ Bounded(s, b, f, u)
  <2> DEFINE p == Prune(g, n, m)
  <2>1. p \in Gates /\ Bounded(p, b, f, u)
    BY PruneBounded
  <2> HIDE DEF p
  <2>2. Prolong(p, stamp, n, m) \in Gates /\ Bounded(Prolong(p, stamp, n, m), b, f, u)
    BY <2>1 DEF Prolong, Later, Gates, Bounded
  <2> QED
    BY <2>1, <2>2 DEF SeenBy, p
<1>2. Judged(g, stamp, n, m) = After(s, v, stamp, n, m)
  BY DEF Judged
<1> HIDE DEF s
<1>3. /\ v = "admitted" => stamp \in Nat /\ stamp <= n
      /\ v = "future" => stamp \in Nat
      /\ v \in OwnFaults \cup {"admitted", "remembered", "blocked"}
  BY <1>1, VerdictFacts
<1> HIDE DEF v
<1>4. CASE v = "admitted"
  <2>1. Admit(s, stamp) = [s EXCEPT !.last = stamp, !.barrier = 0,
                                    !.future = {t \in s.future : t > stamp}]
    BY DEF Admit, Gates
  <2>2. Bounded(Admit(s, stamp), b, f, u)
    BY <1>1, <1>3, <1>4, <2>1 DEF Gates, Bounded
  <2> QED
    BY <1>2, <1>4, <2>2 DEF After
<1>5. CASE v = "future"
  <2> DEFINE p == Prune(s, n, m)
             r == Remember(s, stamp, n, m)
  <2>1. p \in Gates /\ Bounded(p, b, f, u)
    BY <1>1, PruneBounded
  <2>2. r = IF p.until # 0 THEN p
            ELSE IF Cardinality(p.future \cup {stamp}) <= MaxRejected
                 THEN [p EXCEPT !.future = p.future \cup {stamp}]
                 ELSE [p EXCEPT !.future = {}, !.until = m + 2 * Timeout]
    BY DEF Remember
  <2> HIDE DEF p
  <2>3. r \in Gates /\ Bounded(r, b, f, u)
    <3>1. \/ r = p
          \/ r = [p EXCEPT !.future = p.future \cup {stamp}]
          \/ r = [p EXCEPT !.future = {}, !.until = m + 2 * Timeout]
      BY <2>2
    <3> HIDE DEF r
    <3>2. CASE r = p
      BY <2>1, <3>2
    <3>3. CASE r = [p EXCEPT !.future = p.future \cup {stamp}]
      <4>1. /\ r \in Gates /\ r.last = p.last /\ r.barrier = p.barrier
            /\ r.future = p.future \cup {stamp} /\ r.until = p.until
        BY <1>3, <1>5, <2>1, <3>3 DEF Gates
      <4> QED
        BY <2>1, <4>1 DEF Bounded
    <3>4. CASE r = [p EXCEPT !.future = {}, !.until = m + 2 * Timeout]
      <4> m + 2 * Timeout \in Nat /\ {} \in SUBSET Nat
        OBVIOUS
      <4>1. /\ r \in Gates /\ r.last = p.last /\ r.barrier = p.barrier
            /\ r.future = {} /\ r.until = m + 2 * Timeout
        BY <2>1, <3>4 DEF Gates
      <4> QED
        BY <2>1, <4>1 DEF Bounded
    <3> QED
      BY <3>1, <3>2, <3>3, <3>4
  <2> HIDE DEF r
  <2>4. Bounded(Raise(r, n), b, f, u)
    BY <2>3 DEF Raise, Later, Gates, Bounded
  <2> QED
    BY <1>2, <1>5, <2>4 DEF After, r
<1>6. CASE v \in (OwnFaults \ {"future"}) \cup {"remembered", "blocked"}
  <2>1. After(s, v, stamp, n, m) \in {s, Raise(s, n)}
    BY <1>6 DEF After, OwnFaults, RefuseRemembered
  <2>2. Bounded(Raise(s, n), b, f, u)
    BY <1>1 DEF Raise, Later, Gates, Bounded
  <2> QED
    BY <1>1, <1>2, <2>1, <2>2
<1> QED
  BY <1>3, <1>4, <1>5, <1>6

\* An observation that arrives in time, and not from the future, is refused because
\* the gate remembers it, because an epoch is open, or because a later one has spoken;
\* otherwise it speaks.
LEMMA PunctualFacts ==
  ASSUME NEW g \in Gates, NEW n \in Nat, NEW m \in Nat,
         NEW stamp \in Nat, stamp > 0, stamp <= n, n - stamp <= Timeout
  PROVE  LET p == Prune(g, n, m)
             j == Judged(g, stamp, n, m)
         IN  \/ Remembered(p, stamp) /\ j = RefuseRemembered(p, n)
             \/ Blocked(p, stamp) /\ j = p
             \/ stamp <= p.last /\ j = Raise(p, n)
             \/ ~Remembered(p, stamp) /\ ~Blocked(p, stamp) /\ j = Admit(p, stamp)
<1> DEFINE p == Prune(g, n, m)
           j == Judged(g, stamp, n, m)
<1>1. stamp # Malformed
  BY DEF Malformed
<1>2. SeenBy(g, stamp, n, m) = p
  BY <1>1 DEF SeenBy, Prolong
<1>3. j = After(p, Verdict(p, stamp, n), stamp, n, m)
  BY <1>2 DEF Judged
<1> HIDE DEF p, j
<1>4. CASE Remembered(p, stamp)
  <2>1. Verdict(p, stamp, n) = "remembered"
    BY <1>1, <1>4 DEF Verdict
  <2> QED
    BY <1>3, <1>4, <2>1 DEF After, p, j
<1>5. CASE ~Remembered(p, stamp) /\ Blocked(p, stamp)
  <2>1. Verdict(p, stamp, n) = "blocked"
    BY <1>1, <1>5 DEF Verdict
  <2> QED
    BY <1>3, <1>5, <2>1 DEF After, p, j
<1>6. CASE ~Remembered(p, stamp) /\ ~Blocked(p, stamp)
  <2>1. Verdict(p, stamp, n) = IF stamp <= p.last THEN "regressed" ELSE "admitted"
    BY <1>1, <1>6, GateAssumption DEF Verdict
  <2> QED
    BY <1>3, <1>6, <2>1 DEF After, p, j
<1> QED
  BY <1>4, <1>5, <1>6

=============================================================================
