-------------------------- MODULE RiskEngineProofs --------------------------
(***************************************************************************)
(* The engine between a score and an action: what the level and a          *)
(* TERMINATE stand for, for every K, N, cooldown and budget, and whatever  *)
(* the gating and the time between windows; the rate limit of the decision *)
(* policy; the arithmetic of the scores; and the frozen corpora that the   *)
(* profiles behind those scores are trained on and measured against.       *)
(***************************************************************************)
EXTENDS RiskEngine, Scoring, Corpus, Evaluation, FiniteSetTheorems, WellFoundedInduction, TLAPS

\* The last m scores of the history were all below b.
EndsBelow(h, m, b) == \A i \in Len(h) - m + 1 .. Len(h) : h[i] < b
EndsHigh(h, m) == \A i \in Len(h) - m + 1 .. Len(h) : h[i] >= 2

\* The ghosts count at least what the history still shows of a run.
RunsAreCounted ==
  /\ \A b \in Raised, m \in 0 .. Len(history) : EndsBelow(history, m, b) => quiet[b] >= m
  /\ \A m \in 0 .. Len(history) : EndsHigh(history, m) => peak >= m

EngineInv == BreachTypeOK /\ RunsAreCounted /\ TerminateIsSustained

\* Appending drops the oldest score of a full history and shifts the others.
LEMMA AppendedShifts ==
  ASSUME NEW h \in Seq(Bands), Len(h) <= N, NEW x \in Bands
  PROVE  LET g == Appended(h, x) IN
         /\ g \in Seq(Bands)
         /\ Len(g) \in 1 .. N /\ Len(g) = IF Len(h) < N THEN Len(h) + 1 ELSE N
         /\ g[Len(g)] = x
         /\ \A i \in 1 .. Len(g) - 1 : g[i] = h[i + Len(h) + 1 - Len(g)]
<1> USE BreachAssumption
<1>1. CASE Len(h) < N
  BY <1>1 DEF Appended
<1>2. CASE ~(Len(h) < N)
  <2>1. Len(h) = N /\ h # <<>>
    BY <1>2
  <2>2. Tail(h) \in Seq(Bands) /\ Len(Tail(h)) = N - 1
        /\ \A i \in 1 .. N - 1 : Tail(h)[i] = h[i + 1]
    BY <2>1
  <2>3. Appended(h, x) = Append(Tail(h), x)
    BY <1>2 DEF Appended
  <2> QED BY <2>1, <2>2, <2>3
<1> QED BY <1>1, <1>2

\* A level falls only over a full history below it.
LEMMA FallNeedsQuiet ==
  ASSUME NEW h \in Seq(Bands), Len(h) <= N, NEW current \in Bands,
         WithHysteresis(current, h, Candidate(h)) < current
  PROVE  Len(h) = N /\ current \in Raised /\ \A i \in 1 .. Len(h) : h[i] < current
<1>1. Candidate(h) \in Bands
  BY DEF Candidate, Bands
<1> QED BY <1>1, BreachAssumption DEF WithHysteresis, Bands, Raised

\* As many high scores as a history can hold fill it.
LEMMA FullOfHighs ==
  ASSUME NEW h \in Seq(Bands), Len(h) <= N, Reaching(h, 2) >= N
  PROVE  Len(h) = N /\ EndsHigh(h, N)
<1> DEFINE S == {i \in 1 .. Len(h) : h[i] >= 2}
<1>1. IsFiniteSet(1 .. Len(h)) /\ Cardinality(1 .. Len(h)) = Len(h)
  <2>1. Len(h) \in Nat
    OBVIOUS
  <2> DEFINE n == Len(h)
  <2> HIDE DEF n
  <2>2. n \in Int /\ IsFiniteSet(1 .. n) /\ Cardinality(1 .. n) = IF 1 > n THEN 0 ELSE n - 1 + 1
    BY <2>1, FS_Interval, SMTT(20) DEF n
  <2>3. Cardinality(1 .. n) = n
    BY <2>1, <2>2 DEF n
  <2> QED BY <2>2, <2>3 DEF n
<1>2. S \subseteq 1 .. Len(h)
  OBVIOUS
<1>3. IsFiniteSet(S) /\ Cardinality(S) <= Len(h)
      /\ (Cardinality(S) = Len(h) => S = 1 .. Len(h))
  BY <1>1, <1>2, FS_Subset
<1>4. Cardinality(S) \in Nat
  BY <1>3, FS_CardinalityType
<1>5. Cardinality(S) = Len(h) /\ Len(h) = N
  BY <1>3, <1>4, BreachAssumption DEF Reaching
<1>6. \A i \in 1 .. Len(h) : h[i] >= 2
  BY <1>3, <1>5
<1> QED BY <1>5, <1>6, BreachAssumption DEF EndsHigh

\* Where the entry at j is after the oldest of len entries may have left for a new one.
LEMMA EntryMoves ==
  \A len, now, m, j \in Nat :
    /\ now \in 1 .. len + 1 /\ now >= len /\ m \in 1 .. now /\ j \in len - (m - 1) + 1 .. len
    => LET i == j + now - len - 1 IN
       i \in 1 .. now - 1 /\ i \in now - m + 1 .. now /\ i + len + 1 - now = j
  OBVIOUS

(* A new score is counted in its run, and the oldest may leave the         *)
(* history.                                                                *)
LEMMA ObserveCounts ==
  ASSUME EngineInv, NEW x \in Bands, Observe(x)
  PROVE  BreachTypeOK' /\ RunsAreCounted'
<1> USE BreachAssumption
<1>1. /\ history' \in Seq(Bands) /\ Len(history') \in 1 .. N
      /\ history'[Len(history')] = x
      /\ Len(history') = IF Len(history) < N THEN Len(history) + 1 ELSE N
      /\ \A i \in 1 .. Len(history') - 1 :
           history'[i] = history[i + Len(history) + 1 - Len(history')]
  BY AppendedShifts, ZenonT(30) DEF Observe, EngineInv, BreachTypeOK
<1>2. quiet' \in [Raised -> 0 .. N] /\ peak' \in 0 .. N /\ strikes' \in 0 .. K
  BY DEF Observe, EngineInv, BreachTypeOK, Counted, Raised, Bands
<1>3. level' \in Bands
  BY DEF Observe, EngineInv, BreachTypeOK, WithHysteresis, Candidate, Bands
<1>7. /\ Len(history) \in Nat /\ Len(history') \in 1 .. Len(history) + 1
      /\ Len(history') >= Len(history)
  BY <1>1 DEF EngineInv, BreachTypeOK
<1>4. ASSUME NEW b \in Raised, NEW m \in 0 .. Len(history'), EndsBelow(history', m, b)
      PROVE  quiet'[b] >= m
  <2>1. CASE m = 0
    BY <1>2, <2>1 DEF Raised
  <2>2. CASE m > 0
    <3>1. x < b
      BY <1>1, <1>4, <2>2 DEF EndsBelow
    <3>2. m - 1 \in 0 .. Len(history)
      BY <1>1, <2>2 DEF EngineInv, BreachTypeOK
    <3>3. EndsBelow(history, m - 1, b)
      <4> SUFFICES ASSUME NEW j \in Len(history) - (m - 1) + 1 .. Len(history)
                   PROVE  history[j] < b
        BY DEF EndsBelow
      <4> DEFINE i == j + Len(history') - Len(history) - 1
      <4>1. i \in 1 .. Len(history') - 1 /\ i \in Len(history') - m + 1 .. Len(history')
            /\ i + Len(history) + 1 - Len(history') = j
        <5>1. j \in Nat /\ m \in 1 .. Len(history')
          BY <1>1, <2>2, <3>2
        <5> QED BY <1>7, <5>1, EntryMoves
      <4>2. history'[i] = history[j]
        BY <1>1, <4>1
      <4> QED BY <1>4, <4>1, <4>2 DEF EndsBelow
    <3>4. quiet[b] >= m - 1
      BY <3>2, <3>3 DEF EngineInv, RunsAreCounted
    <3>5. quiet'[b] = Counted(quiet[b], N)
      BY <3>1 DEF Observe
    <3> QED BY <1>1, <3>4, <3>5 DEF Counted, EngineInv, BreachTypeOK
  <2> QED BY <1>1, <2>1, <2>2
<1>5. ASSUME NEW m \in 0 .. Len(history'), EndsHigh(history', m)
      PROVE  peak' >= m
  <2>1. CASE m = 0
    BY <1>2, <2>1
  <2>2. CASE m > 0
    <3>1. x = 2
      BY <1>1, <1>5, <2>2 DEF EndsHigh, Bands
    <3>2. m - 1 \in 0 .. Len(history)
      BY <1>1, <2>2 DEF EngineInv, BreachTypeOK
    <3>3. EndsHigh(history, m - 1)
      <4> SUFFICES ASSUME NEW j \in Len(history) - (m - 1) + 1 .. Len(history)
                   PROVE  history[j] >= 2
        BY DEF EndsHigh
      <4> DEFINE i == j + Len(history') - Len(history) - 1
      <4>1. i \in 1 .. Len(history') - 1 /\ i \in Len(history') - m + 1 .. Len(history')
            /\ i + Len(history) + 1 - Len(history') = j
        <5>1. j \in Nat /\ m \in 1 .. Len(history')
          BY <1>1, <2>2, <3>2
        <5> QED BY <1>7, <5>1, EntryMoves
      <4>2. history'[i] = history[j]
        BY <1>1, <4>1
      <4> QED BY <1>5, <4>1, <4>2 DEF EndsHigh
    <3>4. peak >= m - 1
      BY <3>2, <3>3 DEF EngineInv, RunsAreCounted
    <3> QED BY <1>1, <3>1, <3>4 DEF Observe, Counted, EngineInv, BreachTypeOK
  <2> QED BY <1>1, <2>1, <2>2
<1>6. Len(history') <= N
  BY <1>1
<1> QED BY <1>1, <1>2, <1>3, <1>4, <1>5, <1>6 DEF BreachTypeOK, RunsAreCounted

(* The invariant at the start.                                             *)
LEMMA EngineInit_Inv == EngineInit => EngineInv
<1> SUFFICES ASSUME EngineInit PROVE EngineInv
  OBVIOUS
<1>1. BreachTypeOK
  BY BreachAssumption DEF EngineInit, BreachInit, BreachTypeOK, Bands, Raised
<1>2. RunsAreCounted
  BY DEF EngineInit, BreachInit, RunsAreCounted
<1>3. TerminateIsSustained
  BY DEF EngineInit, TerminateIsSustained
<1> QED BY <1>1, <1>2, <1>3 DEF EngineInv

(* Every step keeps the invariant.                                         *)
LEMMA EngineStepKeeps == EngineInv /\ [EngineNext]_engineVars => EngineInv'
<1> SUFFICES ASSUME EngineInv, [EngineNext]_engineVars PROVE EngineInv'
  OBVIOUS
<1>1. ASSUME NEW x \in Bands, Process(x) PROVE EngineInv'
  <2>1. BreachTypeOK' /\ RunsAreCounted'
    BY <1>1, ObserveCounts DEF Process
  <2>2. TerminateIsSustained'
    <3> SUFFICES ASSUME decision'.action = "TERMINATE" PROVE peak' = N
      BY DEF TerminateIsSustained
    <3>1. Requested(level', Reaching(history', 2)) = "TERMINATE"
      BY <1>1 DEF Process, Decide, Emit
    <3>2. Reaching(history', 2) >= N
      BY <2>1, <3>1 DEF Requested, BreachTypeOK, Bands
    <3>3. Len(history') = N /\ EndsHigh(history', N)
      BY <2>1, <3>2, FullOfHighs DEF BreachTypeOK
    <3>4. peak' >= N
      BY <2>1, <3>3, BreachAssumption DEF RunsAreCounted
    <3> QED BY <2>1, <3>4, BreachAssumption DEF BreachTypeOK
  <2> QED BY <2>1, <2>2 DEF EngineInv
<1>2. CASE UNCHANGED <<breachVars, decision>>
  BY <1>2 DEF EngineInv, BreachTypeOK, RunsAreCounted, TerminateIsSustained, breachVars
<1>3. CASE Gate \/ Pass \/ UNCHANGED engineVars
  BY <1>2, <1>3 DEF Gate, Pass, engineVars, breachVars
<1> QED BY <1>1, <1>3 DEF EngineNext

(* The invariant always holds.                                             *)
LEMMA EngineInvariant == EngineSpec => []EngineInv
BY EngineInit_Inv, EngineStepKeeps, PTL DEF EngineSpec

(* TERMINATE answers only a full history of high scores (PLAN.md 11.3,     *)
(* "sustained beyond escalation window"), for every K and N.               *)
THEOREM TerminateIsSustainedAlways == EngineSpec => []TerminateIsSustained
<1>1. EngineInv => TerminateIsSustained
  BY DEF EngineInv
<1> QED BY <1>1, EngineInvariant, PTL

(* "De-escalation requires a longer sustained period of normal behavior    *)
(* than escalation required" (PLAN.md 11.3): for every K and N the level   *)
(* falls only after N scores in a row below the threshold it falls from.   *)
THEOREM FallsOnlyWhenQuietAlways == EngineSpec => FallsOnlyWhenQuiet
<1>1. EngineInv /\ [EngineNext]_engineVars => [level' < level => quiet'[level] = N]_breachVars
  <2> SUFFICES ASSUME EngineInv, [EngineNext]_engineVars, level' < level
               PROVE  quiet'[level] = N
    BY DEF breachVars
  <2>1. PICK x \in Bands : Process(x)
    BY DEF EngineInv, BreachTypeOK, Bands, EngineNext, Gate, Pass, engineVars
  <2>2. BreachTypeOK' /\ RunsAreCounted'
    BY <2>1, ObserveCounts DEF Process
  <2>3. /\ Len(history') = N /\ level \in Raised
        /\ \A i \in 1 .. Len(history') : history'[i] < level
    BY <2>1, <2>2, FallNeedsQuiet DEF Process, Observe, EngineInv, BreachTypeOK
  <2>4. EndsBelow(history', N, level)
    BY <2>3, BreachAssumption DEF EndsBelow
  <2>5. quiet'[level] >= N
    BY <2>2, <2>3, <2>4, BreachAssumption DEF RunsAreCounted
  <2> QED BY <2>2, <2>3, <2>5, BreachAssumption DEF BreachTypeOK
<1> QED BY <1>1, EngineInvariant, PTL DEF EngineSpec, FallsOnlyWhenQuiet

-----------------------------------------------------------------------------
(* The rate limit of DecisionPolicy, for every cooldown and every budget:    *)
(* the lazily trimmed deque and the per-action stamps bound what is applied  *)
(* in every window of length Cooldown.                                       *)

(* A function on 1 .. n is a sequence of n.                                *)
LEMMA FunctionIsSeq ==
  ASSUME NEW S, NEW n \in Nat, NEW f \in [1 .. n -> S]
  PROVE  f \in Seq(S) /\ Len(f) = n
OBVIOUS

(* Ages that grow together keep their order.                               *)
LEMMA ShiftedOrder == \A x, y \in Nat : x >= y => x + 1 >= y + 1
OBVIOUS

(* An age within a bound stays within it.                                  *)
LEMMA ShiftedBound == \A x, y, z \in Nat : x <= y + 1 /\ y <= z => x <= z + 1
OBVIOUS

(* What is left of the deque when its first n times are popped.            *)
LEMMA KeptFacts ==
  ASSUME PolicyInv, NEW n \in 0 .. Len(applied), Expired(n)
  PROVE  /\ Kept(n) \in Seq(Ages)
         /\ Len(Kept(n)) = Len(applied) - n
         /\ \A i \in 1 .. Len(Kept(n)) : Kept(n)[i] = applied[i + n]
         /\ n <= Len(applied) - Len(log)
<1> applied \in Seq(Ages) /\ Len(applied) \in Nat
  BY DEF PolicyInv, PolicyTypeOK
<1>1. /\ Kept(n) \in Seq(Ages)
      /\ Len(Kept(n)) = Len(applied) - n
      /\ \A i \in 1 .. Len(Kept(n)) : Kept(n)[i] = applied[i + n]
  BY SMTT(30) DEF Kept
<1>2. n <= Len(applied) - Len(log)
  <2>1. log \in Seq(Entry) /\ Len(log) \in Nat /\ Len(log) <= Len(applied)
    BY DEF PolicyInv, PolicyTypeOK
  <2>2. CASE Len(log) = 0
    BY <2>1, <2>2
  <2>3. CASE Len(log) > 0
    <3> DEFINE k == Len(applied) - Len(log)
    <3>1. log[1].age = applied[1 + k] /\ log[1] \in Entry
      BY <2>1, <2>3 DEF PolicyInv
    <3>2. applied[1 + k] < Cooldown
      BY <3>1, CooldownAssumption DEF Entry
    <3>3. ASSUME n > k PROVE FALSE
      <4>1. 1 + k \in 1 .. n
        BY <2>1, <3>3
      <4>2. applied[1 + k] >= Cooldown
        BY <4>1 DEF Expired
      <4>3. applied[1 + k] \in Ages
        BY <2>1, <2>3
      <4> QED
        BY <3>2, <4>2, <4>3, CooldownAssumption DEF Ages
    <3> QED
      BY <2>1, <3>3
  <2> QED
    BY <2>1, <2>2, <2>3
<1> QED
  BY <1>1, <1>2

(* The policy's invariant at the start.                                    *)
LEMMA InitPolicy == PolicyInit => PolicyInv
<1> SUFFICES ASSUME PolicyInit PROVE PolicyInv
  OBVIOUS
<1>1. PolicyTypeOK
  BY CooldownAssumption DEF PolicyInit, PolicyTypeOK, Ages
<1>2. Len(log) = 0 /\ Len(applied) = 0
  BY DEF PolicyInit
<1> QED
  BY <1>1, <1>2, BudgetAssumption DEF PolicyInv, Spaced

(* Trimming the deque keeps the log at its recent end.                     *)
LEMMA TrimPolicy ==
  ASSUME PolicyInv, NEW n \in 0 .. Len(applied), Expired(n),
         applied' = Kept(n), UNCHANGED <<last, log>>
  PROVE  PolicyInv'
<1> DEFINE k == Len(applied) - Len(log)
<1>1. /\ applied' \in Seq(Ages) /\ Len(applied') = Len(applied) - n
      /\ \A i \in 1 .. Len(applied') : applied'[i] = applied[i + n]
      /\ n <= k
  BY KeptFacts
<1>2. /\ log \in Seq(Entry) /\ Len(log) \in Nat /\ Len(applied) \in Nat
      /\ Len(applied) <= Budget /\ Len(log) <= Len(applied)
  BY DEF PolicyInv, PolicyTypeOK
<1>3. PolicyTypeOK'
  BY <1>1 DEF PolicyInv, PolicyTypeOK
<1>4. Len(applied') - Len(log) = k - n /\ Len(applied') <= Budget /\ Len(log) <= Len(applied')
  BY <1>1, <1>2, BudgetAssumption
<1>5. \A i \in 1 .. Len(log) : log[i].age = applied'[i + (k - n)]
  <2> TAKE i \in 1 .. Len(log)
  <2>1. log[i].age = applied[i + k]
    BY DEF PolicyInv
  <2>2. i + (k - n) \in 1 .. Len(applied')
    BY <1>1, <1>2
  <2>3. applied'[i + (k - n)] = applied[(i + (k - n)) + n]
    BY <1>1, <2>2
  <2> QED
    BY <1>2, <2>1, <2>3
<1>6. \A i \in 1 .. k - n : applied'[i] = Cooldown
  <2> TAKE i \in 1 .. k - n
  <2>1. i \in 1 .. Len(applied') /\ i + n \in 1 .. k
    BY <1>1, <1>2
  <2> QED
    BY <1>1, <2>1 DEF PolicyInv
<1> QED
  BY <1>3, <1>4, <1>5, <1>6 DEF PolicyInv, Spaced

(* An applied action joins both ends.                                      *)
LEMMA ApplyPolicy == ASSUME PolicyInv, NEW a \in Actions, Apply(a) PROVE PolicyInv'
<1> DEFINE e == [action |-> a, age |-> 0]
<1>1. PICK n \in 0 .. Len(applied) :
        Expired(n) /\ Len(Kept(n)) < Budget /\ applied' = Append(Kept(n), 0)
  BY DEF Apply
<1> DEFINE s == Kept(n)
           k == Len(applied) - Len(log)
<1>2. /\ s \in Seq(Ages) /\ Len(s) = Len(applied) - n /\ n <= k
      /\ \A i \in 1 .. Len(s) : s[i] = applied[i + n]
  BY <1>1, KeptFacts
<1>3. /\ log \in Seq(Entry) /\ Len(log) \in Nat /\ Len(applied) \in Nat
      /\ Len(log) <= Len(applied) /\ last \in [Actions -> Ages]
  BY DEF PolicyInv, PolicyTypeOK
<1>4. e \in Entry /\ 0 \in Ages
  BY CooldownAssumption DEF Entry, Ages
<1> HIDE DEF s
<1>5. /\ applied' \in Seq(Ages) /\ Len(applied') = Len(s) + 1
      /\ applied'[Len(s) + 1] = 0
      /\ \A i \in 1 .. Len(s) : applied'[i] = s[i]
  BY <1>1, <1>2, <1>4 DEF s
<1>6. /\ log' \in Seq(Entry) /\ Len(log') = Len(log) + 1
      /\ log'[Len(log) + 1] = e
      /\ \A i \in 1 .. Len(log) : log'[i] = log[i]
  BY <1>3, <1>4 DEF Apply
<1>7. last' \in [Actions -> Ages] /\ last'[a] = 0 /\ \A b \in Actions \ {a} : last'[b] = last[b]
  BY <1>3, <1>4 DEF Apply
<1>8. PolicyTypeOK'
  BY <1>5, <1>6, <1>7 DEF PolicyTypeOK
<1>9. Len(applied') <= Budget /\ Len(log') <= Len(applied') /\ Len(applied') - Len(log') = k - n
  BY <1>1, <1>2, <1>3, <1>5, <1>6, BudgetAssumption, SMTT(20) DEF s
<1>10. ASSUME NEW i \in 1 .. Len(log)
       PROVE  log[i] \in Entry /\ log[i].age = applied[i + k] /\ last[log[i].action] <= log[i].age
  BY <1>3 DEF PolicyInv
<1>11. ASSUME NEW i \in 1 .. Len(log) PROVE log[i].action # a
  <2>1. last[a] >= Cooldown /\ last[a] \in Nat
    BY <1>3 DEF Apply, Ages
  <2>2. last[log[i].action] <= log[i].age /\ log[i].age \in 0 .. Cooldown - 1
    BY <1>10 DEF Entry
  <2> QED
    BY <2>1, <2>2, CooldownAssumption
<1>12. \A i \in 1 .. Len(log') : log'[i].age = applied'[i + (k - n)]
  <2> TAKE i \in 1 .. Len(log')
  <2>1. CASE i = Len(log) + 1
    <3>1. i + (k - n) = Len(s) + 1
      BY <1>2, <1>3, <2>1
    <3> QED
      BY <1>5, <1>6, <2>1, <3>1
  <2>2. CASE i \in 1 .. Len(log)
    <3>1. i + (k - n) \in 1 .. Len(s) /\ (i + (k - n)) + n = i + k
      BY <1>2, <1>3, <2>2
    <3> QED
      BY <1>2, <1>5, <1>6, <1>10, <2>2, <3>1, ZenonT(30)
  <2> QED
    BY <1>3, <1>6, <2>1, <2>2
<1>13. \A i \in 1 .. k - n : applied'[i] = Cooldown
  <2> TAKE i \in 1 .. k - n
  <2>1. i \in 1 .. Len(s) /\ i + n \in 1 .. k
    BY <1>2, <1>3
  <2> QED
    BY <1>2, <1>5, <2>1 DEF PolicyInv
<1>14. \A i \in 1 .. Len(log') : last'[log'[i].action] <= log'[i].age
  <2> TAKE i \in 1 .. Len(log')
  <2>1. CASE i = Len(log) + 1
    BY <1>6, <1>7, <2>1
  <2>2. CASE i \in 1 .. Len(log)
    <3>1. log'[i] = log[i] /\ log[i].action \in Actions \ {a}
      BY <1>6, <1>10, <1>11, <2>2 DEF Entry
    <3> QED
      BY <1>7, <1>10, <2>2, <3>1
  <2> QED
    BY <1>3, <1>6, <2>1, <2>2
<1>15. \A i, j \in 1 .. Len(log') : i < j => log'[i].age >= log'[j].age
  <2> TAKE i, j \in 1 .. Len(log')
  <2>1. CASE j = Len(log) + 1 /\ i \in 1 .. Len(log)
    <3>1. log[i].age >= 0
      BY <1>10, <2>1 DEF Entry
    <3> QED
      BY <1>6, <2>1, <3>1
  <2>2. CASE i \in 1 .. Len(log) /\ j \in 1 .. Len(log)
    BY <1>6, <2>2 DEF PolicyInv
  <2> QED
    BY <1>3, <1>6, <2>1, <2>2
<1>16. Spaced'
  <2> SUFFICES ASSUME NEW i \in 1 .. Len(log'), NEW j \in 1 .. Len(log'),
                      log'[i].action = log'[j].action
               PROVE  i = j
    BY DEF Spaced
  <2>1. CASE i \in 1 .. Len(log) /\ j \in 1 .. Len(log)
    BY <1>6, <2>1 DEF PolicyInv, Spaced
  <2>2. CASE i = Len(log) + 1 /\ j \in 1 .. Len(log)
    BY <1>6, <1>11, <2>2
  <2>3. CASE i \in 1 .. Len(log) /\ j = Len(log) + 1
    BY <1>6, <1>11, <2>3
  <2> QED
    BY <1>3, <1>6, <2>1, <2>2, <2>3
<1> QED
  BY <1>8, <1>9, <1>12, <1>13, <1>14, <1>15, <1>16 DEF PolicyInv

(* A unit of time ages both and drops from the log what leaves the window. *)
LEMMA ElapsePolicy == ASSUME PolicyInv, Elapse PROVE PolicyInv'
<1> DEFINE k == Len(applied) - Len(log)
<1>1. PICK m \in 0 .. Len(log) :
        /\ \A i \in 1 .. m : log[i].age + 1 >= Cooldown
        /\ m < Len(log) => log[m + 1].age + 1 < Cooldown
        /\ log' = [i \in 1 .. Len(log) - m |->
                     [action |-> log[i + m].action, age |-> log[i + m].age + 1]]
  BY DEF Elapse
<1>2. /\ log \in Seq(Entry) /\ Len(log) \in Nat /\ Len(applied) \in Nat
      /\ applied \in Seq(Ages) /\ last \in [Actions -> Ages]
      /\ Len(applied) <= Budget /\ Len(log) <= Len(applied)
  BY DEF PolicyInv, PolicyTypeOK
<1>3. \A x \in Ages : Older(x) \in Ages /\ Older(x) <= x + 1 /\ Older(x) >= x
  BY CooldownAssumption DEF Older, Ages
<1>4. /\ applied' \in Seq(Ages) /\ Len(applied') = Len(applied)
      /\ \A i \in 1 .. Len(applied) : applied'[i] = Older(applied[i])
  BY <1>2, <1>3 DEF Elapse
<1>5. last' \in [Actions -> Ages] /\ \A a \in Actions : last'[a] = Older(last[a])
  BY <1>2, <1>3 DEF Elapse
<1>6. ASSUME NEW i \in 1 .. Len(log) - m
      PROVE  /\ i + m \in 1 .. Len(log)
             /\ log[i + m] \in Entry
             /\ log[i + m].age + 1 < Cooldown
             /\ [action |-> log[i + m].action, age |-> log[i + m].age + 1] \in Entry
  <2>1. i + m \in 1 .. Len(log) /\ m + 1 \in 1 .. Len(log)
    BY <1>2
  <2>2. log[i + m] \in Entry /\ log[m + 1] \in Entry
    BY <1>2, <2>1
  <2>3. log[i + m].age <= log[m + 1].age
    <3>1. CASE i = 1
      BY <2>2, <3>1 DEF Entry
    <3>2. CASE m + 1 < i + m
      BY <2>1, <3>2 DEF PolicyInv
    <3> QED
      BY <3>1, <3>2
  <2>4. log[i + m].age \in Nat /\ log[m + 1].age \in Nat /\ log[i + m].action \in Actions
    BY <2>2, CooldownAssumption DEF Entry
  <2>5. log[m + 1].age + 1 < Cooldown
    BY <1>1, <1>2
  <2>6. log[i + m].age + 1 < Cooldown
    BY <2>3, <2>4, <2>5, CooldownAssumption
  <2> QED
    BY <2>1, <2>2, <2>4, <2>6, CooldownAssumption DEF Entry
<1>7. /\ log' \in Seq(Entry) /\ Len(log') = Len(log) - m
      /\ \A i \in 1 .. Len(log) - m : /\ log'[i].age = log[i + m].age + 1
                                     /\ log'[i].action = log[i + m].action
  <2>1. Len(log) - m \in Nat
    BY <1>2
  <2> DEFINE n == Len(log) - m
  <2>a. log' \in [1 .. n -> Entry]
    BY <1>1, <1>6
  <2> HIDE DEF n
  <2>b. log' \in Seq(Entry) /\ Len(log') = n
    BY <2>1, <2>a, FunctionIsSeq DEF n
  <2>2. log' \in Seq(Entry) /\ Len(log') = Len(log) - m
    BY <2>b DEF n
  <2> QED
    BY <1>1, <1>6, <2>2 DEF Entry
<1>8. PolicyTypeOK'
  BY <1>4, <1>5, <1>7 DEF PolicyTypeOK
<1>9. Len(applied') - Len(log') = k + m /\ Len(applied') <= Budget /\ Len(log') <= Len(applied')
  BY <1>2, <1>4, <1>7
<1>10. \A i \in 1 .. Len(log') : log'[i].age = applied'[i + (k + m)]
  <2> TAKE i \in 1 .. Len(log')
  <2>1. i + m \in 1 .. Len(log) /\ log[i + m].age = applied[(i + m) + k]
    BY <1>6, <1>7 DEF PolicyInv
  <2>2. (i + m) + k = i + (k + m) /\ i + (k + m) \in 1 .. Len(applied)
    BY <1>2, <2>1
  <2>3. log[i + m].age \in Nat /\ log[i + m].age + 1 < Cooldown
    BY <1>6, <1>7, CooldownAssumption DEF Entry
  <2>4. applied'[i + (k + m)] = Older(log[i + m].age)
    BY <1>4, <2>1, <2>2
  <2>5. Older(log[i + m].age) = log[i + m].age + 1
    BY <2>3, CooldownAssumption DEF Older
  <2> QED
    BY <1>7, <2>4, <2>5
<1>11. \A i \in 1 .. k + m : applied'[i] = Cooldown
  <2> TAKE i \in 1 .. k + m
  <2>1. i \in 1 .. Len(applied)
    BY <1>2
  <2>2. CASE i \in 1 .. k
    <3>1. applied[i] = Cooldown
      BY <2>2 DEF PolicyInv
    <3> QED
      BY <1>4, <2>1, <3>1 DEF Older
  <2>3. CASE i > k
    <3>1. i - k \in 1 .. m /\ i - k \in 1 .. Len(log) /\ (i - k) + k = i
      BY <1>2, <2>3
    <3>2. log[i - k].age = applied[i] /\ log[i - k] \in Entry
      BY <1>2, <3>1 DEF PolicyInv
    <3>3. log[i - k].age + 1 >= Cooldown
      BY <1>1, <3>1
    <3>4. applied[i] + 1 = Cooldown /\ applied[i] # Cooldown
      BY <3>2, <3>3, CooldownAssumption DEF Entry
    <3> QED
      BY <1>4, <2>1, <3>4, CooldownAssumption DEF Older
  <2> QED
    BY <1>2, <2>2, <2>3
<1>12. \A i \in 1 .. Len(log') : last'[log'[i].action] <= log'[i].age
  <2> TAKE i \in 1 .. Len(log')
  <2>1. i + m \in 1 .. Len(log) /\ log[i + m] \in Entry
    BY <1>6, <1>7
  <2>2. last[log[i + m].action] <= log[i + m].age /\ log[i + m].action \in Actions
    BY <2>1 DEF PolicyInv, Entry
  <2>3. last[log[i + m].action] \in Ages
    BY <1>2, <2>2
  <2>4. last'[log[i + m].action] <= last[log[i + m].action] + 1
    BY <1>3, <1>5, <2>2, <2>3
  <2>5. last'[log[i + m].action] \in Ages
    BY <1>5, <2>2
  <2>6. /\ last[log[i + m].action] \in Nat /\ last'[log[i + m].action] \in Nat
        /\ log[i + m].age \in Nat
    BY <2>1, <2>3, <2>5, CooldownAssumption DEF Ages, Entry
  <2>7. last'[log[i + m].action] <= log[i + m].age + 1
    BY <2>2, <2>4, <2>6, ShiftedBound
  <2> QED
    BY <1>7, <2>7
<1>13. \A i, j \in 1 .. Len(log') : i < j => log'[i].age >= log'[j].age
  <2> TAKE i, j \in 1 .. Len(log')
  <2>1. i + m \in 1 .. Len(log) /\ j + m \in 1 .. Len(log)
    BY <1>6, <1>7
  <2>2. log[i + m] \in Entry /\ log[j + m] \in Entry
    BY <1>2, <2>1
  <2>3. i < j => log[i + m].age >= log[j + m].age
    <3>1. \A a, b \in 1 .. Len(log) : a < b => log[a].age >= log[b].age
      BY DEF PolicyInv
    <3>2. i < j => i + m < j + m
      BY <1>2
    <3> QED BY <2>1, <3>1, <3>2
  <2>4. log[i + m].age \in Nat /\ log[j + m].age \in Nat
    BY <2>2, CooldownAssumption DEF Entry
  <2>5. log'[i].age = log[i + m].age + 1 /\ log'[j].age = log[j + m].age + 1
    BY <1>7
  <2>6. i < j => log[i + m].age + 1 >= log[j + m].age + 1
    BY <2>3, <2>4, ShiftedOrder
  <2> QED
    BY <2>5, <2>6
<1>14. Spaced'
  <2> SUFFICES ASSUME NEW i \in 1 .. Len(log'), NEW j \in 1 .. Len(log'),
                      log'[i].action = log'[j].action
               PROVE  i = j
    BY DEF Spaced
  <2>1. i + m \in 1 .. Len(log) /\ j + m \in 1 .. Len(log)
    BY <1>6, <1>7
  <2>2. i + m = j + m
    BY <1>7, <2>1 DEF PolicyInv, Spaced
  <2> QED
    BY <1>2, <2>2
<1> QED
  BY <1>8, <1>9, <1>10, <1>11, <1>12, <1>13, <1>14 DEF PolicyInv

(* Every step keeps the policy's invariant.                                *)
LEMMA NextPolicy == PolicyInv /\ [PolicyNext]_policyVars => PolicyInv'
<1> SUFFICES ASSUME PolicyInv, [PolicyNext]_policyVars PROVE PolicyInv'
  OBVIOUS
<1>1. ASSUME NEW a \in Actions, Cool(a) PROVE PolicyInv'
  BY <1>1, TrimPolicy DEF Cool
<1>2. ASSUME NEW a \in Actions, Exhaust(a) PROVE PolicyInv'
  BY <1>2, TrimPolicy DEF Exhaust
<1>3. ASSUME NEW a \in Actions, Apply(a) PROVE PolicyInv'
  BY <1>3, ApplyPolicy
<1>4. CASE Elapse
  BY <1>4, ElapsePolicy
<1>5. CASE UNCHANGED policyVars
  BY <1>5 DEF policyVars, PolicyInv, PolicyTypeOK, Spaced
<1> QED
  BY <1>1, <1>2, <1>3, <1>4, <1>5 DEF PolicyNext

(* However decisions and time interleave, no window of length Cooldown     *)
(* sees more than Budget applied actions (policy.py, action_budget).       *)
THEOREM BudgetHeldAlways == PolicySpec => []BudgetHeld
<1>1. PolicyInv => BudgetHeld
  <2> SUFFICES ASSUME PolicyInv PROVE Len(log) <= Budget
    BY DEF BudgetHeld
  <2>1. Len(log) \in Nat /\ Len(applied) \in Nat
    BY DEF PolicyInv, PolicyTypeOK
  <2> QED
    BY <2>1, BudgetAssumption DEF PolicyInv
<1> QED
  BY <1>1, InitPolicy, NextPolicy, PTL DEF PolicySpec

(* ... nor the same action twice (policy.py, cooldown_us).                 *)
THEOREM SpacedAlways == PolicySpec => []Spaced
<1>1. PolicyInv => Spaced
  BY DEF PolicyInv
<1> QED
  BY <1>1, InitPolicy, NextPolicy, PTL DEF PolicySpec

-----------------------------------------------------------------------------
(* The scores: what is counted, fused, adjusted and remembered.              *)

Quality == {"FULL", "KBD_ONLY", "MOUSE_ONLY", "INSUFFICIENT_DATA"}

(* The range of a modality's risk, and when it is there.                     *)
LEMMA ModalityScored ==
  ASSUME NEW quality \in Quality, NEW m \in Modalities, NEW answer \in Answers
  PROVE  /\ ScoreModality(quality, m, answer).status = "SCORED"
              <=> Has(quality, m) /\ answer \in Percentiles
         /\ answer \in Percentiles /\ Has(quality, m)
              => ScoreModality(quality, m, answer).risk = 100 - answer
  BY DEF ScoreModality, ScoreWindow, Answers, Percentiles, NoModel, Mismatch, Raises, NoScore

(* The fusion, modality by modality.                                         *)
LEMMA FusionParts ==
  ASSUME NEW score
  PROVE  Fusion(score) =
           [sum |-> Part(score["keyboard"].status = "SCORED", score["keyboard"].risk, KeyboardWeight)
                      + Part(score["mouse"].status = "SCORED", score["mouse"].risk, MouseWeight),
            weight |-> Part(score["keyboard"].status = "SCORED", 1, KeyboardWeight)
                         + Part(score["mouse"].status = "SCORED", 1, MouseWeight)]
  <1> DEFINE there == [m \in Modalities |-> score[m].status = "SCORED"]
             value == [m \in Modalities |-> score[m].risk]
  <1>1. /\ there["keyboard"] = (score["keyboard"].status = "SCORED")
        /\ there["mouse"] = (score["mouse"].status = "SCORED")
        /\ value["keyboard"] = score["keyboard"].risk /\ value["mouse"] = score["mouse"].risk
    BY DEF Modalities
  <1> HIDE DEF there, value
  <1>2. Mean(there, value) =
           [sum |-> Part(score["keyboard"].status = "SCORED", score["keyboard"].risk, KeyboardWeight)
                      + Part(score["mouse"].status = "SCORED", score["mouse"].risk, MouseWeight),
            weight |-> Part(score["keyboard"].status = "SCORED", 1, KeyboardWeight)
                         + Part(score["mouse"].status = "SCORED", 1, MouseWeight)]
    BY <1>1, Zenon DEF Mean
  <1> QED BY <1>2 DEF Fusion, there, value

(* A window of both models loaded counts in an activation's measurement      *)
(* exactly when the engine would judge it: the rate is measured over the     *)
(* windows the deployed system thresholds (enrollment/activate.py).          *)
THEOREM CountedAsJudgedAlways ==
  ASSUME NEW quality \in Quality,
         NEW answers \in [Modalities -> Percentiles \cup {Raises}]
  PROVE  Counts(Ranks(quality, answers)) <=> Judged(quality, Score(quality, answers))
  <1> DEFINE score == Score(quality, answers)
             ranks == Ranks(quality, answers)
             There(m) == Has(quality, m) /\ answers[m] \in Percentiles
  <1>1. \A m \in Modalities : answers[m] \in Answers /\ answers[m] \in Percentiles \cup {Raises}
    BY DEF Answers
  <1>2. \A m \in Modalities : score[m].status = "SCORED" <=> There(m)
    BY <1>1, ModalityScored DEF Score
  <1>3. \A m \in Modalities :
          /\ ranks[m] = Raises <=> Has(quality, m) /\ answers[m] \notin Percentiles
          /\ ranks[m] = NoScore <=> ~Has(quality, m)
    BY <1>1 DEF Ranks, ScoreWindow, Percentiles, NoModel, Mismatch, Raises, NoScore
  <1>4. Counts(ranks) <=> /\ \A m \in Modalities : Has(quality, m) => answers[m] \in Percentiles
                          /\ \E m \in Modalities : Has(quality, m)
    BY <1>3 DEF Counts
  <1>5. Fusion(score).weight > 0 <=> \E m \in Modalities : There(m)
    <2>1. /\ score["keyboard"].status = "SCORED" <=> There("keyboard")
          /\ score["mouse"].status = "SCORED" <=> There("mouse")
      BY <1>2 DEF Modalities
    <2> HIDE DEF score, There
    <2>2. Fusion(score).weight = Part(score["keyboard"].status = "SCORED", 1, KeyboardWeight)
                                   + Part(score["mouse"].status = "SCORED", 1, MouseWeight)
      BY FusionParts
    <2>3. Fusion(score).weight > 0 <=> There("keyboard") \/ There("mouse")
      BY <2>1, <2>2, ScoringAssumption DEF Part
    <2> QED BY <2>3 DEF Modalities
  <1>6. RequiredFailure(quality, score)
          <=> \E m \in Modalities : Has(quality, m) /\ answers[m] \notin Percentiles
    BY <1>2 DEF RequiredFailure
  <1>7. quality = "INSUFFICIENT_DATA" => ~ \E m \in Modalities : Has(quality, m)
    BY DEF Has
  <1> QED
    BY <1>4, <1>5, <1>6, <1>7 DEF Judged

(* The rejections an activation counts are the scores the engine finds from  *)
(* medium up, for all weights and thresholds, the boundary included: "the    *)
(* two can never drift apart" (models/service.py).                           *)
THEOREM MeasuredAsBreachedAlways ==
  ASSUME NEW quality \in Quality, NEW answers \in [Modalities -> Answers],
         ~Refused(Ranks(quality, answers)), Counts(Ranks(quality, answers)),
         Judged(quality, Score(quality, answers))
  PROVE  Rejected(FusePercentiles(Ranks(quality, answers)))
           <=> Breaches(Fusion(Score(quality, answers)))
  <1> DEFINE score == Score(quality, answers)
             ranks == Ranks(quality, answers)
             k == "keyboard"
             p == "mouse"
  <1>1. k \in Modalities /\ p \in Modalities /\ Modalities = {k, p}
    BY DEF Modalities
  <1>2. \A m \in Modalities :
          \/ /\ ranks[m] \in Percentiles /\ score[m].status = "SCORED"
             /\ score[m].risk = 100 - ranks[m]
          \/ ranks[m] = NoScore /\ score[m].status # "SCORED"
    <2> TAKE m \in Modalities
    <2>1. ranks[m] # Mismatch /\ ranks[m] # Raises
      BY DEF Refused, Counts
    <2>2. answers[m] \in Answers
      OBVIOUS
    <2>3. /\ score[m].status = "SCORED" <=> Has(quality, m) /\ answers[m] \in Percentiles
          /\ answers[m] \in Percentiles /\ Has(quality, m) => score[m].risk = 100 - answers[m]
      BY <2>2, ModalityScored DEF Score
    <2>4. ranks[m] = IF answers[m] = NoModel THEN NoScore
                     ELSE IF answers[m] = Mismatch \/ Has(quality, m) THEN answers[m] ELSE NoScore
      BY DEF Ranks, ScoreWindow
    <2> QED
      BY <2>1, <2>2, <2>3, <2>4 DEF Answers, Percentiles, NoModel, Mismatch, Raises, NoScore
  <1>3. KeyboardWeight \in Nat /\ MouseWeight \in Nat /\ Medium \in 1 .. 100
    BY ScoringAssumption
  <1>4. Fusion(score).weight > 0
    BY DEF Judged
  <1>5. CASE ranks[k] # NoScore /\ ranks[p] # NoScore
    <2> DEFINE x == ranks[k]
               y == ranks[p]
    <2>1. x \in 0 .. 100 /\ y \in 0 .. 100
      BY <1>1, <1>2, <1>5 DEF Percentiles
    <2>2. /\ Fusion(score).sum = (100 - x) * KeyboardWeight + (100 - y) * MouseWeight
          /\ Fusion(score).weight = KeyboardWeight + MouseWeight
      <3>1. /\ score[k].status = "SCORED" /\ score[k].risk = 100 - x
            /\ score[p].status = "SCORED" /\ score[p].risk = 100 - y
        BY <1>1, <1>2, <1>5
      <3> HIDE DEF score, x, y
      <3>2. Part(TRUE, 1, KeyboardWeight) = KeyboardWeight /\ Part(TRUE, 1, MouseWeight) = MouseWeight
        BY <1>3 DEF Part
      <3> QED BY <3>1, <3>2, FusionParts DEF Part
    <2>3. /\ FusePercentiles(ranks).sum = x * KeyboardWeight + y * MouseWeight
          /\ FusePercentiles(ranks).weight = KeyboardWeight + MouseWeight
      <3> DEFINE all == [m \in Modalities |-> TRUE]
      <3>1. FusePercentiles(ranks) = Mean(all, ranks)
        BY <1>1, <1>5 DEF FusePercentiles
      <3>2. all["keyboard"] /\ all["mouse"]
        BY DEF Modalities
      <3> HIDE DEF all, ranks
      <3>3. Part(TRUE, 1, KeyboardWeight) = KeyboardWeight /\ Part(TRUE, 1, MouseWeight) = MouseWeight
        BY <1>3 DEF Part
      <3> QED BY <3>1, <3>2, <3>3 DEF Mean, Part
    <2> HIDE DEF x, y, score, ranks
    <2>4. (100 - x) * KeyboardWeight + (100 - y) * MouseWeight
            = 100 * (KeyboardWeight + MouseWeight) - (x * KeyboardWeight + y * MouseWeight)
      BY <2>1, <1>3
    <2>5. (100 - Medium) * (KeyboardWeight + MouseWeight)
            = 100 * (KeyboardWeight + MouseWeight) - Medium * (KeyboardWeight + MouseWeight)
      BY <1>3
    <2>6. x * KeyboardWeight + y * MouseWeight \in Int
          /\ Medium * (KeyboardWeight + MouseWeight) \in Int
      BY <2>1, <1>3
    <2>7. (x * KeyboardWeight + y * MouseWeight <= (100 - Medium) * (KeyboardWeight + MouseWeight))
            <=> ((100 - x) * KeyboardWeight + (100 - y) * MouseWeight
                   >= Medium * (KeyboardWeight + MouseWeight))
      BY <2>4, <2>5, <2>6, <1>3
    <2> QED
      BY <2>2, <2>3, <2>7 DEF Rejected, Breaches, score, ranks
  <1>6. ASSUME NEW m \in Modalities, NEW w \in Nat, ranks[m] # NoScore,
               \A o \in Modalities \ {m} : ranks[o] = NoScore,
               Fusion(score) = [sum |-> (100 - ranks[m]) * w, weight |-> w]
        PROVE  Rejected(FusePercentiles(ranks)) <=> Breaches(Fusion(score))
    <2> DEFINE x == ranks[m]
    <2>1. x \in 0 .. 100
      BY <1>2, <1>6 DEF Percentiles
    <2>2. m = CHOOSE o \in Modalities : ranks[o] # NoScore
      BY <1>6
    <2>3. ~ \A o \in Modalities : ranks[o] # NoScore
      BY <1>1, <1>6
    <2>4. FusePercentiles(ranks) = [sum |-> x, weight |-> 1]
      BY <2>2, <2>3 DEF FusePercentiles
    <2>5. w > 0
      BY <1>4, <1>6
    <2> HIDE DEF x, score, ranks
    <2>6. (100 - x) * w >= Medium * w <=> 100 - x >= Medium
      <3>1. CASE 100 - x >= Medium
        BY <3>1, <2>1, <2>5, <1>3
      <3>2. CASE 100 - x < Medium
        <4>1. Medium - (100 - x) >= 1
          BY <3>2, <2>1, <1>3
        <4>2. (Medium - (100 - x)) * w >= w
          BY <4>1, <2>1, <2>5, <1>3
        <4> QED BY <4>2, <3>2, <2>1, <2>5, <1>3
      <3> QED BY <3>1, <3>2, <2>1, <1>3
    <2>7. (x <= (100 - Medium) * 1) <=> (100 - x >= Medium)
      BY <2>1, <1>3
    <2> QED
      BY <2>4, <2>6, <2>7, <1>6 DEF Rejected, Breaches, x
  <1>7. CASE ranks[k] # NoScore /\ ranks[p] = NoScore
    <2>1. Fusion(score) = [sum |-> (100 - ranks[k]) * KeyboardWeight, weight |-> KeyboardWeight]
      <3>1. /\ score[k].status = "SCORED" /\ score[k].risk = 100 - ranks[k]
            /\ score[p].status # "SCORED" /\ ranks[k] \in 0 .. 100
        BY <1>1, <1>2, <1>7 DEF Percentiles, NoScore
      <3> HIDE DEF score, ranks
      <3>2. /\ Part(score[p].status = "SCORED", score[p].risk, MouseWeight) = 0
            /\ Part(score[p].status = "SCORED", 1, MouseWeight) = 0
            /\ Part(score[k].status = "SCORED", score[k].risk, KeyboardWeight) = (100 - ranks[k]) * KeyboardWeight
            /\ Part(score[k].status = "SCORED", 1, KeyboardWeight) = KeyboardWeight
        BY <3>1, <1>3 DEF Part
      <3>3. (100 - ranks[k]) * KeyboardWeight \in Int
        BY <3>1, <1>3
      <3> QED BY <3>2, <3>3, <1>3, FusionParts
    <2> QED BY <2>1, <1>1, <1>3, <1>6, <1>7
  <1>8. CASE ranks[k] = NoScore /\ ranks[p] # NoScore
    <2>1. Fusion(score) = [sum |-> (100 - ranks[p]) * MouseWeight, weight |-> MouseWeight]
      <3>1. /\ score[p].status = "SCORED" /\ score[p].risk = 100 - ranks[p]
            /\ score[k].status # "SCORED" /\ ranks[p] \in 0 .. 100
        BY <1>1, <1>2, <1>8 DEF Percentiles, NoScore
      <3> HIDE DEF score, ranks
      <3>2. /\ Part(score[k].status = "SCORED", score[k].risk, KeyboardWeight) = 0
            /\ Part(score[k].status = "SCORED", 1, KeyboardWeight) = 0
            /\ Part(score[p].status = "SCORED", score[p].risk, MouseWeight) = (100 - ranks[p]) * MouseWeight
            /\ Part(score[p].status = "SCORED", 1, MouseWeight) = MouseWeight
        BY <3>1, <1>3 DEF Part
      <3>3. (100 - ranks[p]) * MouseWeight \in Int
        BY <3>1, <1>3
      <3> QED BY <3>2, <3>3, <1>3, FusionParts
    <2> QED BY <2>1, <1>1, <1>3, <1>6, <1>8
  <1>9. ranks[k] # NoScore \/ ranks[p] # NoScore
    BY <1>1 DEF Counts
  <1> QED BY <1>5, <1>7, <1>8, <1>9

(* Damping, the way of every context that has learned too little, can only   *)
(* lower a score, and no way of adjusting takes it out of the range of C3    *)
(* (risk/types.py).                                                          *)
THEOREM AdjustBounded ==
  ASSUME NEW assessment, NEW fused \in 0 .. 100,
         assessment.normal \in BOOLEAN,
         ~assessment.normal => assessment.confidence \in Floor .. 100,
         assessment.normal => /\ assessment.baseLocation \in 0 .. 100
                              /\ assessment.location \in 0 .. 100
                              /\ assessment.baseScale \in 1 .. 100
                              /\ assessment.scale \in 1 .. 100
  PROVE  /\ Adjust(assessment, fused) \in 0 .. 100
         /\ ~assessment.normal => Adjust(assessment, fused) <= fused
  <1>1. CASE assessment.normal
    <2> DEFINE offset == (fused - assessment.location) * assessment.baseScale
               z == assessment.baseLocation + offset \div assessment.scale
    <2>1. offset \in Int
      <3> DEFINE d == fused - assessment.location
      <3>1. d \in Int /\ assessment.baseScale \in Int
        BY <1>1
      <3> HIDE DEF d
      <3>2. d * assessment.baseScale \in Int
        BY <3>1
      <3> QED BY <3>2 DEF d
    <2>2. assessment.scale \in 1 .. 100 /\ assessment.baseLocation \in Int
      BY <1>1
    <2>3. Adjust(assessment, fused) = Clamp(0, z, 100)
      BY <1>1, Zenon DEF Adjust
    <2> HIDE DEF offset
    <2>4. z \in Int
      BY <2>1, <2>2
    <2> HIDE DEF z
    <2>5. Clamp(0, z, 100) \in 0 .. 100
      BY <2>4 DEF Clamp
    <2> QED BY <1>1, <2>3, <2>5
  <1>2. CASE ~assessment.normal
    <2> DEFINE c == assessment.confidence
    <2>1. c \in 1 .. 100
      BY <1>2, ScoringAssumption
    <2> HIDE DEF c
    <2>2. fused * c >= 0 /\ fused * c <= fused * 100
      BY <2>1
    <2>3. (fused * c) \div 100 \in 0 .. fused
      BY <2>2, <2>1
    <2> QED BY <1>2, <2>3 DEF Adjust, c
  <1> QED BY <1>1, <1>2

(* The running moments of bounded scores: what keeps the variance of an      *)
(* application inside the range its scale was chosen for.                    *)
MomentsOK(s) ==
  /\ s \in Moments
  /\ s.sum <= 100 * s.weight /\ s.squares <= 100 * s.sum
  /\ s.sum * s.sum <= s.squares * s.weight

(* An application that was never seen.                                     *)
LEMMA NoMomentsOK == MomentsOK(NoMoments)
  BY DEF MomentsOK, Moments, NoMoments

(* A new score never takes the spread below nought.                          *)
LEMMA SpreadGrows ==
  ASSUME NEW W \in Nat, NEW S \in Nat, NEW Q \in Nat, NEW x \in Nat,
         S <= 100 * W, Q <= 100 * S, S * S <= Q * W
  PROVE  Q + W * x * x - 2 * S * x >= 0
  <1> DEFINE e == Q + W * x * x - 2 * S * x
             f == x * W - S
  <1>1. CASE W = 0
    BY <1>1
  <1>2. CASE W > 0
    <2>1. e \in Int /\ f \in Int
      OBVIOUS
    <2>2. f * f >= 0
      BY <2>1
    <2>3. W * e = (Q * W - S * S) + f * f
      OBVIOUS
    <2>4. W * e >= 0
      BY <2>1, <2>2, <2>3
    <2> HIDE DEF e, f
    <2>5. e >= 0
      <3>1. SUFFICES ASSUME e < 0 PROVE FALSE
        BY <2>1
      <3>2. W * (-e) >= -e
        BY <1>2, <2>1, <3>1
      <3>3. W * (-e) = -(W * e)
        BY <2>1
      <3> QED BY <2>1, <2>4, <3>1, <3>2, <3>3
    <2> QED BY <2>5 DEF e
  <1> QED BY <1>1, <1>2

(* One observation more: the moments stay those of scores in range         *)
(* (ContextConfidenceLayer.observe).                                       *)
LEMMA UpdateKeepsMoments ==
  ASSUME NEW s, MomentsOK(s), NEW risk \in 0 .. 100, NEW w \in Nat
  PROVE  MomentsOK(Update(s, risk, w))
  <1> DEFINE W == s.weight
             S == s.sum
             Q == s.squares
  <1>1. /\ W \in Nat /\ S \in Nat /\ Q \in Nat
        /\ S <= 100 * W /\ Q <= 100 * S /\ S * S <= Q * W
    BY DEF MomentsOK, Moments
  <1>2. Update(s, risk, w) =
          [weight |-> W + w, sum |-> S + w * risk, squares |-> Q + w * risk * risk]
    BY DEF Update
  <1> HIDE DEF W, S, Q
  <1> DEFINE a == w * risk
             b == w * risk * risk
  <1>3. a \in Nat /\ b \in Nat /\ a <= 100 * w /\ b <= 100 * a
    <2>1. a \in Nat /\ b \in Nat /\ b = a * risk
      OBVIOUS
    <2>2. a <= 100 * w
      OBVIOUS
    <2> HIDE DEF a, b
    <2>3. a * risk <= 100 * a
      BY <2>1
    <2> QED BY <2>1, <2>2, <2>3
  <1>4. Q + W * risk * risk - 2 * S * risk >= 0
    BY <1>1, SpreadGrows
  <1>5. w * (Q + W * risk * risk - 2 * S * risk) >= 0
    BY <1>1, <1>4
  <1>6. (Q + b) * (W + w) - (S + a) * (S + a)
          = (Q * W - S * S) + w * (Q + W * risk * risk - 2 * S * risk)
    BY <1>1
  <1>7. (S + a) * (S + a) <= (Q + b) * (W + w)
    <2>1. (Q + b) * (W + w) \in Int /\ (S + a) * (S + a) \in Int
      BY <1>1, <1>3
    <2> QED BY <1>1, <1>5, <1>6, <2>1
  <1>8. /\ W + w \in Nat /\ S + a \in Nat /\ Q + b \in Nat
        /\ S + a <= 100 * (W + w) /\ Q + b <= 100 * (S + a)
    BY <1>1, <1>3
  <1> QED BY <1>2, <1>7, <1>8 DEF MomentsOK, Moments

(* "The maximum population variance is 0.25" (risk/context.py), for whatever *)
(* was observed: the confidence it is scaled to is never below nought.       *)
THEOREM VarianceBounded ==
  ASSUME NEW s, MomentsOK(s), s.weight > 0
  PROVE  Variance(s) \in 0 .. 2500
  <1> DEFINE W == s.weight
             S == s.sum
             Q == s.squares
             D == Q * W - S * S
             V == W * W
  <1>1. /\ W \in Nat /\ S \in Nat /\ Q \in Nat /\ W > 0
        /\ Q <= 100 * S /\ S * S <= Q * W
    BY DEF MomentsOK, Moments
  <1>2. Variance(s) = D \div V
    BY DEF Variance, Spread
  <1> HIDE DEF W, S, Q
  <1>3. D \in Nat /\ V \in Nat /\ V > 0
    BY <1>1
  <1>4. D <= 2500 * V
    <2>1. Q * W <= 100 * S * W
      BY <1>1
    <2>2. (50 * W - S) * (50 * W - S) >= 0
      BY <1>1
    <2>3. (50 * W - S) * (50 * W - S) = 2500 * (W * W) - 100 * S * W + S * S
      BY <1>1
    <2> QED BY <1>1, <2>1, <2>2, <2>3
  <1> HIDE DEF D, V
  <1>5. D \div V \in Int /\ D \div V >= 0 /\ V * (D \div V) <= D
    BY <1>3
  <1>6. D \div V <= 2500
    <2>1. SUFFICES ASSUME D \div V >= 2501 PROVE FALSE
      BY <1>5
    <2>2. V * (D \div V) >= V * 2501
      BY <1>3, <1>5, <2>1
    <2> QED BY <1>3, <1>4, <1>5, <2>2
  <1> QED BY <1>2, <1>5, <1>6

-----------------------------------------------------------------------------
(* A frozen version and the profiles made from it, for any participants,   *)
(* bounds, fractions and minima: what is stored, deleted, edited or frozen *)
(* between the reads of a tool changes nothing of what it uses.            *)


NoDrillWindow == {w \in Window : ~w.drill}
Frozen == {ManifestDocument(ws) : ws \in SUBSET NoDrillWindow}

Todo == {<<"COHORT", "TRAIN", "VALIDATION">>, <<"TRAIN", "VALIDATION">>, <<"VALIDATION">>, <<>>}
Job == [todo : Todo, user : Participants, version : DOMAIN manifests, update : BOOLEAN,
        promoted : SUBSET Day, verified : BOOLEAN, train : SUBSET Window,
        validation : SUBSET Window, admitted : BOOLEAN]
Profile == [version : DOMAIN manifests, update : BOOLEAN, promoted : SUBSET Day,
            trained : SUBSET Window, genuine : SUBSET Window, impostor : SUBSET Window,
            base : SUBSET Window]

StoredTypes ==
  /\ today \in Day
  /\ session = NoSession \/ session \in [user : Participants, day : Day, drill : BOOLEAN]
  /\ rows \subseteq Window

FrozenTypes ==
  /\ manifests \in Seq(Frozen)
  /\ job = NoJob \/ job \in Job
  /\ profiles \in [Participants -> Profile \cup {NoProfile}]

\* What a tool has loaded so far is all that its version reserved.
LoadedAsFrozen ==
  job # NoJob =>
    /\ job.todo \in {<<"VALIDATION">>, <<>>} => job.train = InPartition(Manifest, "TRAIN")
    /\ job.todo = <<>> => job.validation = InPartition(Manifest, "VALIDATION")
    /\ job.admitted => job.todo = <<>>
    /\ job.verified => job.todo # <<>>

\* The windows of the user itself are what a profile measures rejections on.
GenuineIsOwn ==
  \A p \in Participants : profiles[p] # NoProfile =>
    profiles[p].genuine = Of(InPartition(manifests[profiles[p].version], "VALIDATION"), p)

CorpusInv == StoredTypes /\ FrozenTypes /\ LoadedAsFrozen /\ UsedAsFrozen /\ GenuineIsOwn

-----------------------------------------------------------------------------
\* A version holds no window of a drill.
LEMMA FrozenHasNoDrill ==
  ASSUME NEW m \in Frozen
  PROVE  /\ m.records \subseteq NoDrillWindow
         /\ \A partition : InPartition(m, partition) \subseteq NoDrillWindow
<1>1. PICK ws \in SUBSET NoDrillWindow : m = ManifestDocument(ws)
  BY DEF Frozen
<1>2. m.records = ws
  BY <1>1 DEF ManifestDocument
<1> QED BY <1>2 DEF InPartition

\* A participant's training days come before the validation days.
LEMMA SplitInOrder ==
  ASSUME NEW days \in SUBSET Day, NEW a \in days, NEW b \in days,
         PartitionDays(days)[a] = "TRAIN", PartitionDays(days)[b] = "VALIDATION"
  PROVE  a < b
<1> DEFINE earlier(d) == {e \in days : e < d}
           index(d) == Cardinality(earlier(d))
<1>1. IsFiniteSet(days) /\ MaxDay \in Nat
  <2>1. MaxDay \in Nat
    BY CorpusAssumption
  <2>2. IsFiniteSet(1 .. MaxDay)
    BY <2>1, FS_Interval
  <2> QED BY <2>1, <2>2, FS_Subset DEF Day
<1>2. \A d \in days : IsFiniteSet(earlier(d)) /\ index(d) \in Nat
  <2> TAKE d \in days
  <2>1. earlier(d) \in SUBSET days
    OBVIOUS
  <2>2. IsFiniteSet(earlier(d))
    BY <1>1, <2>1, FS_Subset
  <2> QED BY <2>2, FS_CardinalityType
<1>3. a \in Int /\ b \in Int
  BY <1>1 DEF Day
<1>4. ASSUME b <= a PROVE index(b) <= index(a)
  <2>1. earlier(b) \in SUBSET earlier(a)
    <3>1. \A e \in days : e \in Int
      BY <1>1 DEF Day
    <3>2. ASSUME NEW e \in days, e < b PROVE e < a
      BY <1>3, <1>4, <3>1, <3>2
    <3> QED BY <3>2
  <2> QED BY <1>2, <2>1, FS_Subset
<1>5. PICK trainEnd \in Int : index(a) < trainEnd /\ ~(index(b) < trainEnd)
  <2> DEFINE extras == ExtraDays(Cardinality(days) - 3)
  <2>1. extras[1] \in Int
    <3>1. Cardinality(days) \in Nat
      BY <1>1, FS_CardinalityType
    <3>2. \A i \in 1 .. 3 : Fractions[i] \in Int
      BY CorpusAssumption DEF Fractions
    <3> DEFINE quota == [i \in 1 .. 3 |-> (Cardinality(days) - 3) * Fractions[i]]
               whole == [i \in 1 .. 3 |-> quota[i] \div 10]
               left == Cardinality(days) - 3 - (whole[1] + whole[2] + whole[3])
               before(i, j) == \/ quota[i] % 10 > quota[j] % 10
                               \/ /\ quota[i] % 10 = quota[j] % 10
                                  /\ \/ Fractions[i] > Fractions[j]
                                     \/ Fractions[i] = Fractions[j] /\ i < j
               ahead == Cardinality({j \in 1 .. 3 : before(j, 1)})
    <3>3. quota[1] \in Int
      BY <3>1, <3>2
    <3>4. whole[1] \in Int
      BY <3>3
    <3>5. extras[1] = whole[1] + (IF ahead < left THEN 1 ELSE 0)
      BY DEF ExtraDays
    <3> HIDE DEF whole, left, ahead
    <3> QED BY <3>4, <3>5
  <2>2. PartitionDays(days) =
          [d \in days |-> IF index(d) < 1 + extras[1] THEN "TRAIN"
             ELSE IF index(d) < 1 + extras[1] + 1 + extras[2] THEN "VALIDATION" ELSE "EVALUATION"]
    BY DEF PartitionDays
  <2> HIDE DEF extras, index
  <2>3. index(a) < 1 + extras[1] /\ ~(index(b) < 1 + extras[1])
    BY <2>2
  <2> QED BY <2>1, <2>3
<1> HIDE DEF index
<1>6. ~(index(b) <= index(a))
  <2>1. index(a) \in Nat /\ index(b) \in Nat
    BY <1>2
  <2> QED BY <1>5, <2>1
<1>7. ~(b <= a)
  BY <1>4, <1>6
<1> QED BY <1>3, <1>7

(* What a version trains on comes before what it is measured on.           *)
LEMMA TrainedBeforeMeasured ==
  ASSUME NEW m \in Frozen, NEW p \in Participants,
         NEW t \in Of(InPartition(m, "TRAIN"), p), NEW g \in Of(InPartition(m, "VALIDATION"), p)
  PROVE  t.day < g.day
<1>1. PICK ws \in SUBSET NoDrillWindow : m = ManifestDocument(ws)
  BY DEF Frozen
<1> DEFINE days == DaysOf(Of(ws, p))
<1>2. t \in ws /\ g \in ws /\ t.user = p /\ g.user = p
  BY <1>1 DEF ManifestDocument, InPartition, Of
<1>3. days \in SUBSET Day /\ t.day \in days /\ g.day \in days
  BY <1>2 DEF DaysOf, Of, NoDrillWindow, Window
<1>4. m.assignments[p] = PartitionDays(days)
  BY <1>1, <1>2 DEF ManifestDocument
<1>5. PartitionDays(days)[t.day] = "TRAIN" /\ PartitionDays(days)[g.day] = "VALIDATION"
  BY <1>2, <1>4 DEF InPartition, Of, PartitionOf
<1> HIDE DEF days
<1> QED BY <1>3, <1>5, SplitInOrder
-----------------------------------------------------------------------------
(* The invariant before anything is stored.                                *)
LEMMA CorpusInit == Init => CorpusInv
<1> SUFFICES ASSUME Init PROVE CorpusInv
  OBVIOUS
<1>1. StoredTypes
  <2>1. MaxDay \in Nat /\ MaxDay >= 1
    BY CorpusAssumption
  <2>2. today \in Day
    BY <2>1 DEF Init, Day
  <2> QED BY <2>2 DEF Init, StoredTypes
<1>2. FrozenTypes
  BY DEF Init, FrozenTypes
<1>3. LoadedAsFrozen /\ UsedAsFrozen /\ GenuineIsOwn
  BY DEF Init, LoadedAsFrozen, UsedAsFrozen, GenuineIsOwn
<1> QED BY <1>1, <1>2, <1>3 DEF CorpusInv

\* What the backend and the administrator do changes nothing that is frozen.
LEMMA FrozenStays ==
  ASSUME CorpusInv, StoredTypes', UNCHANGED <<manifests, job, profiles>>
  PROVE  CorpusInv'
<1>1. FrozenTypes' /\ LoadedAsFrozen'
  BY DEF CorpusInv, FrozenTypes, LoadedAsFrozen, Job, Profile, Manifest
<1>2. UsedAsFrozen' /\ GenuineIsOwn'
  BY DEF CorpusInv, UsedAsFrozen, GenuineIsOwn
<1> QED BY <1>1, <1>2 DEF CorpusInv

\* What a tool loads and decides changes no profile.
LEMMA ProfilesStay ==
  ASSUME CorpusInv, UNCHANGED <<today, session, rows, manifests, profiles>>,
         job' = NoJob \/ job' \in Job, LoadedAsFrozen'
  PROVE  CorpusInv'
<1>1. StoredTypes'
  BY DEF CorpusInv, StoredTypes
<1>2. FrozenTypes'
  BY DEF CorpusInv, FrozenTypes, Job, Profile
<1>3. UsedAsFrozen' /\ GenuineIsOwn'
  BY DEF CorpusInv, UsedAsFrozen, GenuineIsOwn
<1> QED BY <1>1, <1>2, <1>3 DEF CorpusInv

(* Windows and sessions stored, consent and administration changed.        *)
LEMMA BackendKeeps ==
  ASSUME CorpusInv, Backend \/ \E p \in Participants : EditAdministration(p)
  PROVE  CorpusInv'
<1>1. StoredTypes
  BY DEF CorpusInv
<1>2. CASE NextDay
  <2>1. StoredTypes'
    BY <1>1, <1>2, CorpusAssumption DEF NextDay, StoredTypes, Day
  <2> QED BY <1>2, <2>1, FrozenStays DEF NextDay
<1>3. ASSUME NEW p \in Participants, NEW d \in BOOLEAN, BeginSession(p, d) PROVE CorpusInv'
  <2>1. StoredTypes'
    BY <1>1, <1>3 DEF BeginSession, StoredTypes
  <2> QED BY <1>3, <2>1, FrozenStays DEF BeginSession
<1>4. CASE StoreWindow
  <2>1. StoredTypes'
    BY <1>1, <1>4 DEF StoreWindow, StoredTypes, Window
  <2> QED BY <1>4, <2>1, FrozenStays DEF StoreWindow
<1>5. CASE Retain
  <2>1. StoredTypes'
    BY <1>1, <1>5 DEF Retain, StoredTypes
  <2> QED BY <1>5, <2>1, FrozenStays DEF Retain
<1>6. ASSUME NEW p \in Participants, EditAdministration(p) PROVE CorpusInv'
  <2>1. StoredTypes'
    BY <1>1, <1>6 DEF EditAdministration, StoredTypes
  <2> QED BY <1>6, <2>1, FrozenStays DEF EditAdministration
<1> QED BY <1>2, <1>3, <1>4, <1>5, <1>6 DEF Backend

(* A version is frozen.                                                    *)
LEMMA FreezeKeeps ==
  ASSUME CorpusInv, BuildFreeze
  PROVE  CorpusInv'
<1>1. StoredTypes'
  BY DEF CorpusInv, StoredTypes, BuildFreeze
<1>2. LoadSummaries(rows) \in SUBSET NoDrillWindow
  BY DEF LoadSummaries, OfNoDrill, NoDrillWindow, CorpusInv, StoredTypes
<1>3. ManifestDocument(LoadSummaries(rows)) \in Frozen
  BY <1>2 DEF Frozen
<1>4. /\ manifests' \in Seq(Frozen)
      /\ DOMAIN manifests \subseteq DOMAIN manifests'
      /\ \A v \in DOMAIN manifests : manifests'[v] = manifests[v]
  BY <1>3 DEF BuildFreeze, CorpusInv, FrozenTypes
<1>5. job' = job /\ profiles' = profiles
  BY DEF BuildFreeze
<1>6. FrozenTypes'
  BY <1>4, <1>5 DEF CorpusInv, FrozenTypes, Job, Profile
<1>7. LoadedAsFrozen'
  BY <1>4, <1>5 DEF CorpusInv, FrozenTypes, LoadedAsFrozen, Job, Manifest
<1>8. \A p \in Participants : profiles[p] # NoProfile => profiles[p].version \in DOMAIN manifests
  BY DEF CorpusInv, FrozenTypes, Profile
<1>9. UsedAsFrozen' /\ GenuineIsOwn'
  BY <1>4, <1>5, <1>8 DEF CorpusInv, UsedAsFrozen, GenuineIsOwn
<1> QED BY <1>1, <1>6, <1>7, <1>9 DEF CorpusInv

\* Nothing below here writes to the database or to a manifest.
LEMMA ToolKeeps ==
  ASSUME CorpusInv, Tool
  PROVE  CorpusInv'
<1>1. /\ manifests \in Seq(Frozen) /\ rows \subseteq Window
      /\ job = NoJob \/ job \in Job
      /\ profiles \in [Participants -> Profile \cup {NoProfile}]
  BY DEF CorpusInv, StoredTypes, FrozenTypes
<1>2. Job' = Job \/ manifests' # manifests
  BY DEF Job
<1>3. ASSUME UNCHANGED <<today, session, rows, manifests, profiles>>, End PROVE CorpusInv'
  BY <1>3, ProfilesStay DEF End, LoadedAsFrozen
<1>4. ASSUME NEW p \in Participants, NEW v \in DOMAIN manifests, NEW update \in BOOLEAN,
             Start(p, v, update)
      PROVE  CorpusInv'
  <2>1. job' = [todo |-> IF update THEN <<"COHORT", "TRAIN", "VALIDATION">> ELSE <<"TRAIN", "VALIDATION">>,
                user |-> p, version |-> v, update |-> update, promoted |-> {},
                verified |-> FALSE, train |-> {}, validation |-> {}, admitted |-> FALSE]
    BY <1>4 DEF Start, NoJob
  <2>2. job'.todo \in {<<"COHORT", "TRAIN", "VALIDATION">>, <<"TRAIN", "VALIDATION">>}
    BY <2>1
  <2>3. job' \in Job
    BY <2>1, <2>2 DEF Job, Todo
  <2>4. job'.todo \notin {<<"VALIDATION">>, <<>>}
    BY <2>2
  <2>5. LoadedAsFrozen'
    BY <2>1, <2>4 DEF LoadedAsFrozen
  <2> QED BY <1>4, <2>3, <2>5, ProfilesStay DEF Start
<1>5. CASE Stop
  BY <1>3, <1>5 DEF Stop
<1>6. CASE Verify
  <2>1. CASE End
    BY <1>3, <1>6, <2>1 DEF Verify
  <2>2. CASE job' = [job EXCEPT !.verified = TRUE]
    <3>1. job \in Job /\ job # NoJob
      BY <1>1, <1>6 DEF Verify, Busy
    <3>2. job' \in Job
      BY <2>2, <3>1 DEF Job
    <3>3. /\ job'.todo = job.todo /\ job'.version = job.version /\ job'.train = job.train
          /\ job'.validation = job.validation /\ job'.admitted = job.admitted
          /\ job.todo # <<>>
          /\ manifests' = manifests
      BY <1>6, <2>2, <3>1 DEF Verify, Job
    <3>4. LoadedAsFrozen'
      BY <3>1, <3>3 DEF CorpusInv, LoadedAsFrozen, Manifest
    <3> QED BY <1>6, <3>2, <3>4, ProfilesStay DEF Verify
  <2> QED BY <1>6, <2>1, <2>2 DEF Verify
<1>7. CASE LoadPartition
  <2> DEFINE step == Head(job.todo)
             found == OfNoDrill(rows) \cap Wanted(step)
  <2>1. CASE End
    BY <1>3, <1>7, <2>1 DEF LoadPartition
  <2>2. CASE found = Wanted(step) /\ job' = Loaded(step, found)
    <3>1. job \in Job /\ job # NoJob
      BY <1>1, <1>7 DEF LoadPartition, Busy
    <3>2. found \subseteq Window
      BY <1>1 DEF OfNoDrill
    <3>3. job.todo # <<>> /\ ~job.admitted
      BY <1>7, <3>1 DEF LoadPartition, CorpusInv, LoadedAsFrozen
    <3>4. /\ job'.todo = Tail(job.todo) /\ job'.verified = FALSE /\ job'.admitted = FALSE
          /\ job'.version = job.version /\ manifests' = manifests
          /\ job'.train = IF step = "TRAIN" THEN found ELSE job.train
          /\ job'.validation = IF step = "VALIDATION" THEN found ELSE job.validation
      BY <1>7, <2>2, <3>1, <3>3 DEF Loaded, Job, LoadPartition
    <3>5. Manifest' = Manifest
      BY <3>4 DEF Manifest
    <3>6. CASE job.todo = <<"COHORT", "TRAIN", "VALIDATION">>
      <4>1. job'.todo = <<"TRAIN", "VALIDATION">>
            /\ job'.todo \notin {<<"VALIDATION">>, <<>>}
        BY <3>4, <3>6
      <4>2. job' \in Job
        BY <2>2, <3>1, <3>2, <4>1 DEF Loaded, Job, Todo
      <4>3. LoadedAsFrozen'
        BY <3>4, <4>1 DEF LoadedAsFrozen
      <4> QED BY <1>7, <4>2, <4>3, ProfilesStay DEF LoadPartition
    <3>7. CASE job.todo = <<"TRAIN", "VALIDATION">>
      <4>1. job'.todo = <<"VALIDATION">> /\ job'.todo # <<>> /\ step = "TRAIN"
        BY <3>4, <3>7
      <4>2. job' \in Job
        BY <2>2, <3>1, <3>2, <4>1 DEF Loaded, Job, Todo
      <4>3. job'.train = InPartition(Manifest, "TRAIN")
        BY <2>2, <3>4, <4>1 DEF Wanted
      <4>4. LoadedAsFrozen'
        BY <3>4, <3>5, <4>1, <4>3 DEF LoadedAsFrozen
      <4> QED BY <1>7, <4>2, <4>4, ProfilesStay DEF LoadPartition
    <3>8. CASE job.todo = <<"VALIDATION">>
      <4>1. job'.todo = <<>> /\ step = "VALIDATION"
        BY <3>4, <3>8
      <4>2. job' \in Job
        BY <2>2, <3>1, <3>2, <4>1 DEF Loaded, Job, Todo
      <4>3. job'.validation = InPartition(Manifest, "VALIDATION")
        BY <2>2, <3>4, <4>1 DEF Wanted
      <4>4. job'.train = InPartition(Manifest, "TRAIN")
        BY <3>1, <3>4, <3>8, <4>1 DEF CorpusInv, LoadedAsFrozen
      <4>5. LoadedAsFrozen'
        BY <3>4, <3>5, <4>1, <4>3, <4>4 DEF LoadedAsFrozen
      <4> QED BY <1>7, <4>2, <4>5, ProfilesStay DEF LoadPartition
    <3> QED BY <3>1, <3>3, <3>6, <3>7, <3>8 DEF Job, Todo
  <2> QED BY <1>7, <2>1, <2>2 DEF LoadPartition
<1>8. ASSUME NEW promoted \in SUBSET Day, AllLoaded, Admit(promoted) PROVE CorpusInv'
  <2>1. job \in Job /\ job # NoJob /\ job.todo = <<>>
    BY <1>1, <1>8 DEF AllLoaded, Busy
  <2>2. job' \in Job
    BY <1>8, <2>1 DEF Admit, Job
  <2>3. /\ job'.todo = job.todo /\ job'.version = job.version /\ job'.train = job.train
        /\ job'.validation = job.validation /\ job'.verified = job.verified
        /\ manifests' = manifests
    BY <1>8, <2>1 DEF Admit, Job
  <2>4. LoadedAsFrozen'
    BY <2>1, <2>3 DEF CorpusInv, LoadedAsFrozen, Manifest
  <2> QED BY <1>8, <2>2, <2>4, ProfilesStay DEF Admit
<1>9. CASE AdmitFirst
  BY <1>8, <1>9 DEF AdmitFirst
<1>10. CASE AdmitUpdate
  BY <1>8, <1>10 DEF AdmitUpdate
<1>11. CASE Activate
  <2>1. job \in Job /\ job # NoJob /\ job.todo = <<>>
    BY <1>1, <1>11 DEF Activate, Busy, CorpusInv, LoadedAsFrozen
  <2>2. /\ job.train = InPartition(Manifest, "TRAIN")
        /\ job.validation = InPartition(Manifest, "VALIDATION")
    BY <2>1 DEF CorpusInv, LoadedAsFrozen
  <2> DEFINE u == job.user
             f == [version |-> job.version, update |-> job.update, promoted |-> job.promoted,
                   trained |-> IF job.update THEN Promoted(Of(job.train, u), job.promoted)
                               ELSE Of(job.train, u),
                   genuine |-> Genuine, impostor |-> Impostor,
                   base |-> IF job.update THEN profiles[u].trained ELSE {}]
  <2>3. profiles' = [profiles EXCEPT ![u] = f] /\ manifests' = manifests /\ job' = NoJob
    BY <1>11 DEF Activate, End
  <2>4. u \in Participants /\ job.train \subseteq Window /\ job.validation \subseteq Window
    BY <2>1 DEF Job
  <2>5. profiles[u].trained \subseteq Window
    BY <1>1, <2>4 DEF Profile, NoProfile
  <2>6. f \in Profile
    BY <2>1, <2>4, <2>5 DEF Job, Profile, Of, Promoted, Genuine, Impostor
  <2>7. /\ f.genuine \cup f.impostor = InPartition(manifests[f.version], "VALIDATION")
        /\ f.genuine = Of(InPartition(manifests[f.version], "VALIDATION"), u)
    BY <2>2 DEF Genuine, Impostor, Of, Manifest
  <2>8. f.trained = {w \in Of(InPartition(manifests[f.version], "TRAIN"), u) :
                       f.update => w.day \in f.promoted}
    BY <2>1, <2>2 DEF Promoted, Manifest, Job
  <2> HIDE DEF f, u
  <2>9. StoredTypes'
    BY <1>11 DEF Activate, CorpusInv, StoredTypes
  <2>10. profiles'[u] = f /\ \A p \in Participants : p # u => profiles'[p] = profiles[p]
    BY <1>1, <2>3, <2>4
  <2>11. FrozenTypes'
    BY <1>1, <2>3, <2>4, <2>6 DEF FrozenTypes, Profile
  <2>12. LoadedAsFrozen'
    BY <2>3 DEF LoadedAsFrozen
  <2>13. GenuineIsOwn'
    BY <2>3, <2>7, <2>10 DEF CorpusInv, GenuineIsOwn
  <2>14. UsedAsFrozen'
    BY <2>3, <2>7, <2>8, <2>10 DEF CorpusInv, UsedAsFrozen
  <2> QED BY <2>9, <2>11, <2>12, <2>13, <2>14 DEF CorpusInv
<1> QED
  BY <1>4, <1>5, <1>6, <1>7, <1>9, <1>10, <1>11 DEF Tool, StartActivation, StartUpdate

(* Every step keeps the invariant.                                         *)
LEMMA CorpusStep == CorpusInv /\ [Next]_vars => CorpusInv'
<1> SUFFICES ASSUME CorpusInv, [Next]_vars PROVE CorpusInv'
  OBVIOUS
<1>1. CASE UNCHANGED vars
  <2>1. StoredTypes'
    BY <1>1 DEF vars, CorpusInv, StoredTypes
  <2> QED BY <1>1, <2>1, FrozenStays DEF vars
<1> QED BY <1>1, BackendKeeps, FreezeKeeps, ToolKeeps DEF Next, People

(* The invariant always holds.                                             *)
LEMMA CorpusInvariant == Spec => []CorpusInv
BY CorpusInit, CorpusStep, PTL DEF Spec

(* "A corpus that no longer matches its manifest is never loaded"          *)
(* (corpus.py:5): whatever retention deletes, people edit and others       *)
(* freeze between the reads of a tool, a profile uses what its version     *)
(* reserved for it.                                                        *)
THEOREM UsedAsFrozenAlways == Spec => []UsedAsFrozen
<1>1. CorpusInv => UsedAsFrozen
  BY DEF CorpusInv
<1> QED BY <1>1, CorpusInvariant, PTL

(* A profile is measured on days later than every day it was trained on    *)
(* ("day-disjoint", freeze.py:1), for any fractions and number of days.    *)
THEOREM HeldOutAlways == Spec => []HeldOut
<1>1. CorpusInv => HeldOut
  <2> SUFFICES ASSUME CorpusInv, NEW p \in Participants,
                      NEW t \in profiles[p].trained, NEW g \in profiles[p].genuine
               PROVE  t.day < g.day
    BY DEF HeldOut
  <2>1. profiles[p] # NoProfile
    BY DEF NoProfile
  <2> DEFINE m == manifests[profiles[p].version]
  <2>2. m \in Frozen
    BY <2>1 DEF CorpusInv, FrozenTypes, Profile
  <2>3. t \in Of(InPartition(m, "TRAIN"), p) /\ g \in Of(InPartition(m, "VALIDATION"), p)
    BY <2>1 DEF CorpusInv, UsedAsFrozen, GenuineIsOwn
  <2> QED BY <2>2, <2>3, TrainedBeforeMeasured
<1> QED BY <1>1, CorpusInvariant, PTL

(* The attacker of a declared drill is in no frozen version, in no model   *)
(* and in no measurement ("may never become training data", drill.py:5).   *)
THEOREM DrillStaysOutAlways == Spec => []DrillStaysOut
<1>1. CorpusInv => DrillStaysOut
  <2> SUFFICES ASSUME CorpusInv PROVE DrillStaysOut
    OBVIOUS
  <2>1. \A i \in DOMAIN manifests : manifests[i] \in Frozen
    BY DEF CorpusInv, FrozenTypes
  <2>2. \A i \in DOMAIN manifests : \A w \in manifests[i].records : ~w.drill
    BY <2>1, FrozenHasNoDrill DEF NoDrillWindow
  <2>3. ASSUME NEW p \in Participants,
               NEW w \in profiles[p].trained \cup profiles[p].genuine \cup profiles[p].impostor
        PROVE  ~w.drill
    <3>1. profiles[p] # NoProfile
      BY <2>3 DEF NoProfile
    <3> DEFINE m == manifests[profiles[p].version]
    <3>2. m \in Frozen
      BY <2>1, <3>1 DEF CorpusInv, FrozenTypes, Profile
    <3>3. w \in InPartition(m, "TRAIN") \/ w \in InPartition(m, "VALIDATION")
      BY <3>1 DEF CorpusInv, UsedAsFrozen, Of
    <3> QED BY <3>2, <3>3, FrozenHasNoDrill DEF NoDrillWindow
  <2> QED BY <2>2, <2>3 DEF DrillStaysOut
<1> QED BY <1>1, CorpusInvariant, PTL
-----------------------------------------------------------------------------
\* Tenths of a number of days that make ten make that number, and their whole parts
\* fall short of it by two days at most.
LEMMA TenthsAdd ==
  ASSUME NEW r \in Nat, NEW a \in Nat, NEW b \in Nat, NEW c \in Nat, a + b + c = 10
  PROVE  LET left == r - ((r * a) \div 10 + (r * b) \div 10 + (r * c) \div 10)
         IN /\ (r * a) \div 10 \in Nat /\ (r * b) \div 10 \in Nat /\ (r * c) \div 10 \in Nat
            /\ (r * a) % 10 \in Nat /\ (r * b) % 10 \in Nat /\ (r * c) % 10 \in Nat
            /\ left \in 0 .. 2
<1>1. \A x \in Nat : /\ x \div 10 \in Nat /\ x % 10 \in Nat
                     /\ x = 10 * (x \div 10) + (x % 10) /\ x % 10 <= 9
  OBVIOUS
<1>2. r * a \in Nat /\ r * b \in Nat /\ r * c \in Nat
  OBVIOUS
<1>3. r * a + r * b + r * c = 10 * r
  <2>1. c = 10 - a - b
    OBVIOUS
  <2> QED BY <2>1
<1> DEFINE x == r * a
           y == r * b
           z == r * c
<1> HIDE DEF x, y, z
<1>4. /\ x \in Nat /\ y \in Nat /\ z \in Nat /\ x + y + z = 10 * r
  BY <1>2, <1>3 DEF x, y, z
<1>5. /\ x \div 10 \in Nat /\ y \div 10 \in Nat /\ z \div 10 \in Nat
      /\ x % 10 \in Nat /\ y % 10 \in Nat /\ z % 10 \in Nat
      /\ r - (x \div 10 + y \div 10 + z \div 10) \in 0 .. 2
  BY <1>1, <1>4
<1> QED BY <1>5 DEF x, y, z

(* What is handed out beyond the one day of each partition leaves the      *)
(* evaluation its own: the largest remainders never get more than is left. *)
LEMMA ExtrasFit ==
  ASSUME NEW r \in Nat
  PROVE  /\ ExtraDays(r)[1] \in Nat /\ ExtraDays(r)[2] \in Nat
         /\ ExtraDays(r)[1] + ExtraDays(r)[2] <= r
<1> DEFINE quota == [i \in 1 .. 3 |-> r * Fractions[i]]
           whole == [i \in 1 .. 3 |-> quota[i] \div 10]
           left == r - (whole[1] + whole[2] + whole[3])
           before(i, j) == \/ quota[i] % 10 > quota[j] % 10
                           \/ /\ quota[i] % 10 = quota[j] % 10
                              /\ Fractions[i] > Fractions[j] \/ (Fractions[i] = Fractions[j] /\ i < j)
           ahead(i) == {j \in 1 .. 3 : before(j, i)}
<1>1. \A i \in 1 .. 3 : ExtraDays(r)[i] = whole[i] + (IF Cardinality(ahead(i)) < left THEN 1 ELSE 0)
  BY DEF ExtraDays
<1>2. /\ Fractions[1] \in Nat /\ Fractions[2] \in Nat /\ Fractions[3] \in Nat
      /\ Fractions[1] + Fractions[2] + Fractions[3] = 10
  <2>1. /\ Fractions[1] = TrainTenths /\ Fractions[2] = ValidTenths
        /\ Fractions[3] = 10 - TrainTenths - ValidTenths
    BY DEF Fractions
  <2>2. TrainTenths \in Nat /\ ValidTenths \in Nat /\ TrainTenths + ValidTenths < 10
    BY CorpusAssumption
  <2> HIDE DEF Fractions
  <2> QED BY <2>1, <2>2
<1>3. /\ whole[1] \in Nat /\ whole[2] \in Nat /\ whole[3] \in Nat /\ left \in 0 .. 2
      /\ quota[1] % 10 \in Nat /\ quota[2] % 10 \in Nat
  <2> DEFINE a == Fractions[1]
             b == Fractions[2]
             c == Fractions[3]
             x == r * a
             y == r * b
             z == r * c
  <2>1. a \in Nat /\ b \in Nat /\ c \in Nat /\ a + b + c = 10
    BY <1>2
  <2>2. quota[1] = x /\ quota[2] = y /\ quota[3] = z
    OBVIOUS
  <2>3. whole[1] = x \div 10 /\ whole[2] = y \div 10 /\ whole[3] = z \div 10
    OBVIOUS
  <2> HIDE DEF a, b, c, quota, whole
  <2>4. /\ x \div 10 \in Nat /\ y \div 10 \in Nat /\ z \div 10 \in Nat
        /\ x % 10 \in Nat /\ y % 10 \in Nat
        /\ r - (x \div 10 + y \div 10 + z \div 10) \in 0 .. 2
    BY <2>1, TenthsAdd
  <2> HIDE DEF x, y, z
  <2> QED BY <2>2, <2>3, <2>4
<1>4. \A i \in 1 .. 3 : IsFiniteSet(ahead(i)) /\ Cardinality(ahead(i)) \in Nat
  <2> TAKE i \in 1 .. 3
  <2>1. IsFiniteSet(1 .. 3)
    <3>1. \A n \in Int : IsFiniteSet(1 .. n)
      BY FS_Interval
    <3>2. 3 \in Int
      OBVIOUS
    <3> QED BY <3>1, <3>2, Zenon
  <2>2. ahead(i) \in SUBSET (1 .. 3)
    OBVIOUS
  <2> HIDE DEF ahead
  <2> QED BY <2>1, <2>2, FS_Subset, FS_CardinalityType
<1>5. ~(Cardinality(ahead(1)) < 1 /\ Cardinality(ahead(2)) < 1)
  <2> SUFFICES ASSUME Cardinality(ahead(1)) < 1, Cardinality(ahead(2)) < 1 PROVE FALSE
    OBVIOUS
  <2>1. ahead(1) = {} /\ ahead(2) = {}
    <3>1. Cardinality(ahead(1)) = 0 /\ Cardinality(ahead(2)) = 0
      <4> HIDE DEF ahead
      <4> QED BY <1>4
    <3> HIDE DEF ahead
    <3> QED BY <1>4, <3>1, FS_EmptySet
  <2>2. ~before(2, 1) /\ ~before(1, 2)
    <3> HIDE DEF before
    <3> QED BY <2>1
  <2> DEFINE a == quota[1] % 10
             b == quota[2] % 10
  <2>3. /\ ~(a > b) /\ ~(b > a)
        /\ a = b => ~(Fractions[1] > Fractions[2]) /\ Fractions[1] # Fractions[2]
        /\ a = b => ~(Fractions[2] > Fractions[1])
    BY <2>2
  <2>4. a \in Nat /\ b \in Nat
    BY <1>3
  <2> HIDE DEF a, b
  <2> QED BY <1>2, <2>3, <2>4
<1> DEFINE one == IF Cardinality(ahead(1)) < left THEN 1 ELSE 0
           two == IF Cardinality(ahead(2)) < left THEN 1 ELSE 0
<1>6. one \in {0, 1} /\ two \in {0, 1} /\ one + two <= left
  <2> DEFINE c == Cardinality(ahead(1))
             d == Cardinality(ahead(2))
  <2>1. c \in Nat /\ d \in Nat /\ left \in 0 .. 2 /\ ~(c < 1 /\ d < 1)
    BY <1>3, <1>4, <1>5
  <2> HIDE DEF ahead, left, c, d
  <2>2. one = (IF c < left THEN 1 ELSE 0) /\ two = (IF d < left THEN 1 ELSE 0)
    BY DEF c, d
  <2> HIDE DEF one, two
  <2> QED BY <2>1, <2>2
<1>7. ExtraDays(r)[1] = whole[1] + one /\ ExtraDays(r)[2] = whole[2] + two
  BY <1>1
<1>8. left = r - (whole[1] + whole[2] + whole[3])
  OBVIOUS
<1> HIDE DEF quota, whole, left, ahead, one, two
<1> QED BY <1>3, <1>6, <1>7, <1>8

\* Among some days there is one with any given number of days before it.
LEMMA IndexIsMet ==
  ASSUME NEW days \in SUBSET Day, NEW k \in 0 .. (Cardinality(days) - 1)
  PROVE  \E d \in days : Cardinality({e \in days : e < d}) = k
<1> DEFINE n == Cardinality(days)
           earlier(d) == {e \in days : e < d}
           index == [d \in days |-> Cardinality(earlier(d))]
<1>1. MaxDay \in Nat /\ IsFiniteSet(1 .. MaxDay)
  BY CorpusAssumption, FS_Interval
<1>2. IsFiniteSet(days) /\ n \in Nat
  BY <1>1, FS_Subset, FS_CardinalityType DEF Day
<1>3. \A d \in days : d \in Int
  BY <1>1 DEF Day
<1>4. ASSUME NEW d \in days
      PROVE  IsFiniteSet(earlier(d)) /\ index[d] = Cardinality(earlier(d)) /\ index[d] \in 0 .. n - 1
  <2>1. earlier(d) \in SUBSET days /\ earlier(d) # days
    BY <1>3
  <2>2. index[d] = Cardinality(earlier(d))
    OBVIOUS
  <2> HIDE DEF earlier
  <2>3. IsFiniteSet(earlier(d)) /\ Cardinality(earlier(d)) <= n /\ Cardinality(earlier(d)) # n
    BY <1>2, <2>1, FS_Subset
  <2>4. Cardinality(earlier(d)) \in Nat
    BY <2>3, FS_CardinalityType
  <2> HIDE DEF n, index
  <2> QED BY <1>2, <2>2, <2>3, <2>4
<1>5. ASSUME NEW c \in days, NEW d \in days, c < d PROVE index[c] # index[d]
  <2>1. earlier(c) \in SUBSET earlier(d)
    BY <1>3, <1>5
  <2>2. c \in earlier(d) /\ c \notin earlier(c)
    BY <1>3, <1>5
  <2> HIDE DEF earlier, index
  <2> QED BY <1>4, <2>1, <2>2, FS_Subset
<1>6. index \in Injection(days, 0 .. n - 1)
  <2>1. index \in [days -> 0 .. n - 1]
    BY <1>4
  <2>2. \A c, d \in days : index[c] = index[d] => c = d
    <3> HIDE DEF index
    <3> QED BY <1>3, <1>5
  <2> HIDE DEF index
  <2> QED BY <2>1, <2>2 DEF Injection, IsInjective
<1>7. IsFiniteSet(0 .. n - 1) /\ Cardinality(0 .. n - 1) = n
  <2>1. n - 1 \in Int /\ 0 \in Int
    BY <1>2
  <2>2. IsFiniteSet(0 .. n - 1) /\ Cardinality(0 .. n - 1) = (IF 0 > n - 1 THEN 0 ELSE ((n - 1) - 0) + 1)
    <3> HIDE DEF n
    <3> QED BY <2>1, FS_Interval
  <2> HIDE DEF n
  <2> QED BY <1>2, <2>2
<1>8. index \in Surjection(days, 0 .. n - 1)
  <2> HIDE DEF index
  <2> QED BY <1>6, <1>7, FS_Injection
<1>9. \E d \in days : index[d] = k
  <2> HIDE DEF index
  <2> QED BY <1>8 DEF Surjection
<1> QED BY <1>4, <1>9

(* Three days or more of a participant make three partitions.              *)
LEMMA ThreePartitions ==
  ASSUME NEW days \in SUBSET Day, Cardinality(days) >= 3, Cardinality(days) \in Nat
  PROVE  {PartitionDays(days)[d] : d \in days} = ToSet(Partitions)
<1> DEFINE n == Cardinality(days)
           first == ExtraDays(n - 3)[1]
           second == ExtraDays(n - 3)[2]
           trainEnd == 1 + first
           validationEnd == trainEnd + 1 + second
           index(d) == Cardinality({e \in days : e < d})
<1>1. PartitionDays(days) =
        [d \in days |-> IF index(d) < trainEnd THEN "TRAIN"
                        ELSE IF index(d) < validationEnd THEN "VALIDATION" ELSE "EVALUATION"]
  BY DEF PartitionDays
<1>2. first \in Nat /\ second \in Nat /\ first + second <= n - 3
  <2>1. n - 3 \in Nat
    OBVIOUS
  <2> QED BY <2>1, ExtrasFit
<1>3. ToSet(Partitions) = {"TRAIN", "VALIDATION", "EVALUATION"}
  BY DEF ToSet, Partitions
<1>4. /\ 0 \in 0 .. n - 1 /\ trainEnd \in 0 .. n - 1 /\ n - 1 \in 0 .. n - 1
      /\ 0 < trainEnd /\ ~(trainEnd < trainEnd) /\ trainEnd < validationEnd
      /\ ~(n - 1 < trainEnd) /\ ~(n - 1 < validationEnd)
  <2>1. n \in Nat /\ n >= 3
    OBVIOUS
  <2> HIDE DEF n, first, second
  <2> QED BY <1>2, <2>1
<1>5. \A k \in 0 .. n - 1 : \E d \in days : index(d) = k
  BY IndexIsMet
<1> HIDE DEF n, trainEnd, validationEnd, index
<1>6. \E d \in days : PartitionDays(days)[d] = "TRAIN"
  <2>1. PICK d \in days : index(d) = 0
    BY <1>4, <1>5
  <2> QED BY <1>1, <1>4, <2>1
<1>7. \E d \in days : PartitionDays(days)[d] = "VALIDATION"
  <2>1. PICK d \in days : index(d) = trainEnd
    BY <1>4, <1>5
  <2> QED BY <1>1, <1>4, <2>1
<1>8. \E d \in days : PartitionDays(days)[d] = "EVALUATION"
  <2>1. PICK d \in days : index(d) = n - 1
    BY <1>4, <1>5
  <2> QED BY <1>1, <1>4, <2>1
<1>9. \A d \in days : PartitionDays(days)[d] \in {"TRAIN", "VALIDATION", "EVALUATION"}
  BY <1>1
<1> QED BY <1>3, <1>6, <1>7, <1>8, <1>9

(* What can be frozen has windows of each of its participants in each      *)
(* partition.                                                              *)
LEMMA FreezeInThree ==
  ASSUME NEW ws \in SUBSET Window, Freezable(ws), NEW p \in {w.user : w \in ws}
  PROVE  {PartitionOf(ManifestDocument(ws), w) : w \in Of(ws, p)} = ToSet(Partitions)
<1> DEFINE days == DaysOf(Of(ws, p))
<1>1. days \in SUBSET Day
  BY DEF DaysOf, Of, Window
<1>2. IsFiniteSet(days)
  <2>1. MaxDay \in Nat /\ IsFiniteSet(1 .. MaxDay)
    BY CorpusAssumption, FS_Interval
  <2> HIDE DEF days
  <2> QED BY <1>1, <2>1, FS_Subset DEF Day
<1>3. Cardinality(days) >= 3
  BY DEF Freezable
<1>4. {PartitionDays(days)[d] : d \in days} = ToSet(Partitions)
  <2> HIDE DEF days
  <2> QED BY <1>1, <1>2, <1>3, FS_CardinalityType, ThreePartitions
<1>5. \A w \in Of(ws, p) : PartitionOf(ManifestDocument(ws), w) = PartitionDays(days)[w.day]
  BY DEF PartitionOf, ManifestDocument, Of
<1>6. days = {w.day : w \in Of(ws, p)}
  BY DEF DaysOf
<1> DEFINE parts == PartitionDays(days)
           met == {PartitionOf(ManifestDocument(ws), w) : w \in Of(ws, p)}
<1> HIDE DEF days
<1>7. met \subseteq {parts[d] : d \in days}
  BY <1>5, <1>6
<1>8. ASSUME NEW d \in days PROVE parts[d] \in met
  <2>1. PICK w \in Of(ws, p) : d = w.day
    BY <1>6
  <2>2. PartitionOf(ManifestDocument(ws), w) = parts[d]
    BY <1>5, <2>1
  <2> HIDE DEF parts
  <2> QED BY <2>2
<1>9. met = {parts[d] : d \in days}
  <2> HIDE DEF parts, met
  <2> QED BY <1>7, <1>8
<1> HIDE DEF met
<1>10. met = ToSet(Partitions)
  BY <1>4, <1>9
<1> QED BY <1>10 DEF met

(* Every step keeps the versions in three.                                 *)
LEMMA InThreeStep == CorpusInv /\ FrozenInThree /\ [Next]_vars => FrozenInThree'
<1> SUFFICES ASSUME CorpusInv, FrozenInThree, [Next]_vars PROVE FrozenInThree'
  OBVIOUS
<1>1. CASE UNCHANGED manifests
  BY <1>1 DEF FrozenInThree
<1>2. CASE BuildFreeze
  <2> DEFINE ws == LoadSummaries(rows)
  <2>1. manifests' = Append(manifests, ManifestDocument(ws)) /\ Freezable(ws)
    BY <1>2 DEF BuildFreeze
  <2>2. ws \in SUBSET Window
    BY DEF LoadSummaries, OfNoDrill, CorpusInv, StoredTypes
  <2> HIDE DEF ws
  <2>3. manifests \in Seq(Frozen)
    BY DEF CorpusInv, FrozenTypes
  <2>4. ASSUME NEW i \in DOMAIN manifests', NEW p \in DOMAIN manifests'[i].assignments
        PROVE  {PartitionOf(manifests'[i], w) : w \in Of(manifests'[i].records, p)} = ToSet(Partitions)
    <3>1. CASE i \in DOMAIN manifests
      <4>1. manifests'[i] = manifests[i]
        BY <2>1, <2>3, <3>1
      <4> QED BY <2>4, <3>1, <4>1 DEF FrozenInThree
    <3>2. CASE i \notin DOMAIN manifests
      <4>1. manifests'[i] = ManifestDocument(ws)
        BY <2>1, <2>3, <3>2
      <4>2. /\ ManifestDocument(ws).records = ws
            /\ DOMAIN ManifestDocument(ws).assignments = {w.user : w \in ws}
        BY DEF ManifestDocument
      <4>3. p \in {w.user : w \in ws}
        BY <2>4, <4>1, <4>2
      <4>4. {PartitionOf(ManifestDocument(ws), w) : w \in Of(ws, p)} = ToSet(Partitions)
        BY <2>1, <2>2, <4>3, FreezeInThree
      <4> QED BY <4>1, <4>2, <4>4
    <3> QED BY <3>1, <3>2
  <2> QED BY <2>4 DEF FrozenInThree
<1>3. UNCHANGED manifests \/ BuildFreeze
  BY DEF Next, Backend, People, Tool, vars, NextDay, BeginSession, StoreWindow, Retain,
     EditAdministration, StartActivation, StartUpdate, Start, Stop, Verify, LoadPartition,
     AdmitFirst, AdmitUpdate, Admit, Activate
<1> QED BY <1>1, <1>2, <1>3

(* "Reserve one whole day for every partition" (freeze.py:43): whatever    *)
(* the fractions, the number of days and the settings, each participant of *)
(* a frozen version has windows in each of the three partitions. Nothing   *)
(* is assumed of min_distinct_days.                                        *)
THEOREM FrozenInThreeAlways == Spec => []FrozenInThree
<1>1. Init => FrozenInThree
  BY DEF Init, FrozenInThree
<1> QED BY <1>1, InThreeStep, CorpusInvariant, PTL DEF Spec
-----------------------------------------------------------------------------
(* Calibration, and the replay against the engine.                         *)

\* A quotient lies where its product with the divisor says.
LEMMA QuotientOf ==
  ASSUME NEW a \in Int, NEW n \in Nat, n > 0
  PROVE  /\ a \div n \in Int /\ n * (a \div n) <= a /\ a < n * (a \div n) + n
         /\ a >= 0 => a \div n \in Nat
OBVIOUS

\* A greater dividend has no smaller a quotient.
LEMMA QuotientKeepsOrder ==
  ASSUME NEW a \in Int, NEW b \in Int, a <= b, NEW n \in Nat, n > 0
  PROVE  a \div n <= b \div n
<1> DEFINE p == a \div n
           q == b \div n
<1>1. p \in Int /\ n * p <= a
  BY QuotientOf
<1>2. q \in Int /\ b < n * q + n
  BY QuotientOf
<1> HIDE DEF p, q
<1>3. SUFFICES ASSUME p >= q + 1 PROVE FALSE
  BY <1>1, <1>2 DEF p, q
<1>4. n * p >= n * (q + 1)
  <2>1. \A x, y \in Int, z \in Nat : x >= y => z * x >= z * y
    OBVIOUS
  <2> QED BY <1>1, <1>2, <1>3, <2>1
<1>5. n * (q + 1) = n * q + n
  BY <1>2
<1>6. n * p \in Int /\ n * q \in Int
  BY <1>1, <1>2
<1> QED BY <1>1, <1>2, <1>4, <1>5, <1>6

(* Whatever the context, a window of more risk is never adjusted to less   *)
(* (ContextAssessment.adjust).                                             *)
THEOREM AdjustKeepsOrder ==
  ASSUME NEW assessment, NEW fused \in 0 .. 100, NEW more \in 0 .. 100, fused <= more,
         assessment.normal \in BOOLEAN,
         ~assessment.normal => assessment.confidence \in Floor .. 100,
         assessment.normal => /\ assessment.baseLocation \in 0 .. 100
                              /\ assessment.location \in 0 .. 100
                              /\ assessment.baseScale \in 1 .. 100
                              /\ assessment.scale \in 1 .. 100
  PROVE  Adjust(assessment, fused) <= Adjust(assessment, more)
<1>1. \A x, y \in Int, z \in Nat : x <= y => x * z \in Int /\ y * z \in Int /\ x * z <= y * z
  OBVIOUS
<1>2. CASE assessment.normal
  <2> DEFINE at(x) == ((x - assessment.location) * assessment.baseScale) \div assessment.scale
             base == assessment.baseLocation
  <2>1. /\ assessment.scale \in Nat /\ assessment.scale > 0 /\ assessment.baseScale \in Nat
        /\ assessment.location \in Int /\ base \in Int
    BY <1>2
  <2>2. /\ (fused - assessment.location) * assessment.baseScale \in Int
        /\ (more - assessment.location) * assessment.baseScale \in Int
        /\ (fused - assessment.location) * assessment.baseScale
             <= (more - assessment.location) * assessment.baseScale
    <3>1. /\ fused - assessment.location \in Int /\ more - assessment.location \in Int
          /\ fused - assessment.location <= more - assessment.location
      BY <2>1
    <3> QED BY <1>1, <2>1, <3>1
  <2>3. at(fused) \in Int /\ at(more) \in Int /\ at(fused) <= at(more)
    BY <2>1, <2>2, QuotientOf, QuotientKeepsOrder
  <2>4. /\ Adjust(assessment, fused) = Clamp(0, base + at(fused), 100)
        /\ Adjust(assessment, more) = Clamp(0, base + at(more), 100)
    BY <1>2, Zenon DEF Adjust
  <2> HIDE DEF at, base
  <2>5. \A v, w \in Int : v <= w => Clamp(0, v, 100) <= Clamp(0, w, 100)
    BY DEF Clamp
  <2> QED BY <2>1, <2>3, <2>4, <2>5
<1>3. CASE ~assessment.normal
  <2> DEFINE c == assessment.confidence
  <2>1. c \in Nat
    BY <1>3, ScoringAssumption
  <2> HIDE DEF c
  <2>2. fused * c \in Int /\ more * c \in Int /\ fused * c <= more * c
    BY <1>1, <2>1
  <2>3. (fused * c) \div 100 <= (more * c) \div 100
    BY <2>2, QuotientKeepsOrder
  <2> QED BY <1>3, <2>3 DEF Adjust, c
<1> QED BY <1>2, <1>3

(* Calibration keeps the order of raw scores, and gives a score the whole  *)
(* training set reaches the whole scale (PercentileCalibrator.transform).  *)
THEOREM CalibrationKeepsOrderAlways ==
  ASSUME NEW reference \in Seq(Int), reference # <<>>, NEW raw \in Int, NEW more \in Int, raw <= more
  PROVE  /\ Percentile(reference, raw) \in Percentiles
         /\ Percentile(reference, raw) <= Percentile(reference, more)
         /\ (\A i \in 1 .. Len(reference) : reference[i] <= raw) => Percentile(reference, raw) = 100
<1> DEFINE n == Len(reference)
           Reached(x) == {i \in 1 .. n : reference[i] <= x}
<1>1. n \in Nat /\ n > 0 /\ DOMAIN reference = 1 .. n /\ \A i \in 1 .. n : reference[i] \in Int
  OBVIOUS
<1> HIDE DEF n
<1>2. IsFiniteSet(1 .. n) /\ Cardinality(1 .. n) = n
  <2>1. /\ IsFiniteSet(1 .. n) /\ Cardinality(1 .. n) = IF 1 > n THEN 0 ELSE n - 1 + 1
    BY <1>1, FS_Interval
  <2> QED BY <1>1, <2>1
<1>3. \A x : IsFiniteSet(Reached(x)) /\ Cardinality(Reached(x)) \in Nat /\ Cardinality(Reached(x)) <= n
  BY <1>2, FS_Subset, FS_CardinalityType
<1>4. Cardinality(Reached(raw)) <= Cardinality(Reached(more))
  <2>1. \A i \in 1 .. n : reference[i] <= raw => reference[i] <= more
    BY <1>1
  <2>2. Reached(raw) \in SUBSET Reached(more)
    BY <2>1
  <2> QED BY <1>3, <2>2, FS_Subset
<1>5. (\A i \in 1 .. n : reference[i] <= raw) => Cardinality(Reached(raw)) = n
  <2> SUFFICES ASSUME \A i \in 1 .. n : reference[i] <= raw PROVE Cardinality(Reached(raw)) = n
    OBVIOUS
  <2>1. Reached(raw) = 1 .. n
    OBVIOUS
  <2> HIDE DEF Reached
  <2> QED BY <1>2, <2>1
<1>6. \A x : Percentile(reference, x) = (100 * Cardinality(Reached(x))) \div n
  BY <1>1, Zenon DEF Percentile, n
<1> DEFINE c == Cardinality(Reached(raw))
           d == Cardinality(Reached(more))
<1>7. c \in Nat /\ d \in Nat /\ c <= d /\ c <= n /\ d <= n
  BY <1>3, <1>4
<1> HIDE DEF c, d
<1>8. 100 * c \in Nat /\ 100 * d \in Nat /\ 100 * c <= 100 * d /\ 100 * c <= 100 * n /\ 100 * n \in Nat
  BY <1>1, <1>7
<1>9. (100 * n) \div n = 100
  <2> DEFINE q == (100 * n) \div n
  <2>1. q \in Nat /\ n * q <= 100 * n /\ 100 * n < n * q + n
    BY <1>1, <1>8, QuotientOf
  <2> HIDE DEF q
  <2>2. \A x, y, z \in Nat : x >= y => z * x >= z * y
    OBVIOUS
  <2>3. CASE q >= 101
    <3>1. n * q >= n * 101
      BY <1>1, <2>1, <2>2, <2>3
    <3> QED BY <1>1, <2>1, <3>1
  <2>4. CASE q <= 99
    <3>1. n * 99 >= n * q
      BY <1>1, <2>1, <2>2, <2>4
    <3> QED BY <1>1, <2>1, <3>1
  <2>5. CASE q = 100
    BY <2>5 DEF q
  <2> QED BY <2>1, <2>3, <2>4, <2>5
<1>10. /\ (100 * c) \div n \in Nat /\ (100 * c) \div n <= (100 * d) \div n
       /\ (100 * c) \div n <= 100
  <2>1. /\ (100 * c) \div n \in Nat /\ (100 * c) \div n <= (100 * d) \div n
        /\ (100 * c) \div n <= (100 * n) \div n
    <3> DEFINE u == 100 * c
               v == 100 * d
               w == 100 * n
    <3>1. u \in Nat /\ v \in Nat /\ w \in Nat /\ u <= v /\ u <= w
      BY <1>8
    <3> HIDE DEF u, v, w
    <3>2. u \div n \in Nat /\ u \div n <= v \div n /\ u \div n <= w \div n
      BY <1>1, <3>1, QuotientOf, QuotientKeepsOrder
    <3> QED BY <3>2 DEF u, v, w
  <2> QED BY <1>9, <2>1
<1>11. c = n => (100 * c) \div n = 100
  BY <1>9
<1>12. \A x \in Nat : x <= 100 => x \in Percentiles
  BY DEF Percentiles
<1> HIDE DEF Reached
<1>13. /\ Percentile(reference, raw) = (100 * c) \div n /\ Percentile(reference, more) = (100 * d) \div n
       /\ (\A i \in 1 .. n : reference[i] <= raw) => c = n
  BY <1>5, <1>6 DEF c, d
<1> QED BY <1>10, <1>11, <1>12, <1>13 DEF n

\* The states of a replay: the window of the last scores, and a level.
ReplayStates ==
  {s \in [history : Seq(Int), smoothed : Int, level : 0 .. 2, levels : Seq(Int)] :
     Len(s.history) <= BreachN}

\* What the engine keeps of scores.
Band(score) == IF score >= High THEN 2 ELSE IF score >= Medium THEN 1 ELSE 0
BandsOf(h) == [i \in 1 .. Len(h) |-> Band(h[i])]

\* A score reaches a threshold as its band reaches the threshold's.
LEMMA BandReaches ==
  ASSUME NEW x \in Int
  PROVE  /\ Band(x) \in Bands
         /\ Band(x) >= 2 <=> x >= High
         /\ Band(x) >= 1 <=> x >= Medium
<1>1. High \in Int /\ Medium \in Int /\ Medium <= High
  BY ScoringAssumption, EvaluationAssumption
<1> QED BY <1>1 DEF Band, Bands

\* A window of the latest m: what is appended drops the oldest beyond them.
Sliding(o, x, m) == LET all == Append(o, x) IN IF Len(all) > m THEN Tail(all) ELSE all

\* It holds the latest, and before it what was there, shifted if it was full.
LEMMA DequeSlides ==
  ASSUME NEW o \in Seq(Int), NEW m \in Nat, m > 0, Len(o) <= m, NEW x \in Int
  PROVE  LET g == Sliding(o, x, m) IN
         /\ g \in Seq(Int) /\ Len(g) <= m /\ Len(g) > 0
         /\ Len(g) = IF Len(o) < m THEN Len(o) + 1 ELSE m
         /\ g[Len(g)] = x
         /\ \A i \in 1 .. Len(g) - 1 : g[i] = o[i + Len(o) + 1 - Len(g)]
<1> DEFINE all == Append(o, x)
           g == Sliding(o, x, m)
<1>1. /\ all \in Seq(Int) /\ Len(all) = Len(o) + 1 /\ all[Len(o) + 1] = x /\ Len(o) \in Nat
      /\ \A i \in 1 .. Len(o) : all[i] = o[i]
  OBVIOUS
<1>2. g = IF Len(all) > m THEN Tail(all) ELSE all
  BY Zenon DEF Sliding
<1> HIDE DEF all, g
<1>3. CASE Len(o) < m
  <2>1. g = all /\ Len(g) = Len(o) + 1
    BY <1>1, <1>2, <1>3
  <2>2. \A i \in 1 .. Len(o) : i + Len(o) + 1 - (Len(o) + 1) = i /\ g[i] = o[i]
    BY <1>1, <2>1
  <2>3. g \in Seq(Int) /\ Len(g) <= m /\ Len(g) > 0 /\ g[Len(g)] = x
    BY <1>1, <1>3, <2>1
  <2>4. \A i \in 1 .. Len(g) - 1 : g[i] = o[i + Len(o) + 1 - Len(g)]
    <3>1. Len(g) - 1 = Len(o)
      BY <1>1, <2>1
    <3> SUFFICES ASSUME NEW i \in 1 .. Len(o)
                 PROVE  g[i] = o[i + Len(o) + 1 - (Len(o) + 1)]
      BY <2>1, <3>1, Zenon
    <3> QED BY <2>2, Zenon
  <2>5. Len(g) = IF Len(o) < m THEN Len(o) + 1 ELSE m
    BY <1>3, <2>1
  <2> QED BY <2>3, <2>4, <2>5, Zenon DEF g
<1>4. CASE Len(o) = m
  <2>1. g = Tail(all)
    BY <1>1, <1>2, <1>4
  <2>2. g \in Seq(Int) /\ Len(g) = m /\ \A i \in 1 .. m : g[i] = all[i + 1]
    BY <1>1, <1>4, <2>1
  <2>3. g[m] = x
    BY <1>1, <1>4, <2>2
  <2>4. \A i \in 1 .. m - 1 : g[i] = o[i + 1] /\ i + Len(o) + 1 - m = i + 1
    BY <1>1, <1>4, <2>2
  <2>5. \A i \in 1 .. Len(g) - 1 : g[i] = o[i + Len(o) + 1 - Len(g)]
    <3> SUFFICES ASSUME NEW i \in 1 .. m - 1
                 PROVE  g[i] = o[i + Len(o) + 1 - m]
      BY <2>2, Zenon
    <3> QED BY <2>4, Zenon
  <2>6. Len(g) <= m /\ Len(g) > 0 /\ g[Len(g)] = x
    BY <2>2, <2>3
  <2>7. Len(g) = IF Len(o) < m THEN Len(o) + 1 ELSE m
    BY <1>4, <2>2
  <2> QED BY <2>2, <2>5, <2>6, <2>7, Zenon DEF g
<1>5. Len(o) < m \/ Len(o) = m
  BY <1>1
<1> QED BY <1>3, <1>4, <1>5, Zenon DEF g

(* The replay of a series thresholds it as the engine does: of the same    *)
(* scores the same history of bands, candidate and hysteresis, so that     *)
(* from agreeing states they agree after every reading, and a window       *)
(* without one moves nothing but the list of levels ("675/675",            *)
(* tools/evaluation/replay_state_machine.py against risk/engine.py).       *)
THEOREM ReplayStepsAsEngine ==
  ASSUME K = BreachK, N = BreachN, NEW s \in ReplayStates, NEW reading \in Int
  PROVE  LET t == ReplayStep(s, reading)
             x == Smooth(s.smoothed, reading)
             h == Appended(BandsOf(s.history), Band(x))
         IN /\ t \in ReplayStates
            /\ reading # NoScore =>
                 /\ BandsOf(t.history) = h
                 /\ t.level = WithHysteresis(s.level, h, Candidate(h))
                 /\ t.smoothed = x /\ t.levels = Append(s.levels, t.level)
            /\ reading = NoScore =>
                 /\ t.history = s.history /\ t.level = s.level /\ t.smoothed = s.smoothed
                 /\ t.levels = Append(s.levels, Unavailable)
<1> DEFINE x == Smooth(s.smoothed, reading)
           all == Append(s.history, x)
           g == IF Len(all) > BreachN THEN Tail(all) ELSE all
           h == Appended(BandsOf(s.history), Band(x))
           lvl == ReplayLevel(g, s.level)
<1>1. s.history \in Seq(Int) /\ s.smoothed \in Int /\ s.level \in 0 .. 2 /\ s.levels \in Seq(Int)
      /\ Len(s.history) <= BreachN
      /\ s = [history |-> s.history, smoothed |-> s.smoothed, level |-> s.level, levels |-> s.levels]
  BY DEF ReplayStates
<1>2. BreachN \in Nat /\ BreachN > 0 /\ BreachK \in Nat /\ Alpha \in 1 .. 100
  BY EvaluationAssumption
<1>3. x \in Int
  <2>1. \A p, r \in Int : Alpha * r + (100 - Alpha) * p \in Int
    BY <1>2
  <2>2. \A v \in Int : v \div 100 \in Int
    OBVIOUS
  <2>3. (Alpha * reading + (100 - Alpha) * s.smoothed) \div 100 \in Int
    BY <1>1, <2>1, <2>2
  <2> QED BY <2>3 DEF Smooth
<1> HIDE DEF x
<1>4. /\ g \in Seq(Int) /\ Len(g) <= BreachN /\ Len(g) > 0
      /\ Len(g) = IF Len(s.history) < BreachN THEN Len(s.history) + 1 ELSE BreachN
      /\ g[Len(g)] = x
      /\ \A i \in 1 .. Len(g) - 1 : g[i] = s.history[i + Len(s.history) + 1 - Len(g)]
  <2> DEFINE o == s.history
  <2>1. o \in Seq(Int) /\ Len(o) <= BreachN
    BY <1>1
  <2>2. g = Sliding(o, x, BreachN)
    BY DEF Sliding
  <2> HIDE DEF g, o
  <2>3. /\ g \in Seq(Int) /\ Len(g) <= BreachN /\ Len(g) > 0
        /\ Len(g) = IF Len(o) < BreachN THEN Len(o) + 1 ELSE BreachN
        /\ g[Len(g)] = x
        /\ \A i \in 1 .. Len(g) - 1 : g[i] = o[i + Len(o) + 1 - Len(g)]
    <3>1. o \in Seq(Int) /\ BreachN \in Nat /\ BreachN > 0 /\ Len(o) <= BreachN /\ x \in Int
      BY <1>2, <1>3, <2>1
    <3> DEFINE k == Sliding(o, x, BreachN)
    <3>2. /\ k \in Seq(Int) /\ Len(k) <= BreachN /\ Len(k) > 0
          /\ Len(k) = IF Len(o) < BreachN THEN Len(o) + 1 ELSE BreachN
          /\ k[Len(k)] = x
          /\ \A i \in 1 .. Len(k) - 1 : k[i] = o[i + Len(o) + 1 - Len(k)]
      BY <3>1, DequeSlides
    <3>3. g = k
      BY <2>2
    <3> HIDE DEF k
    <3> QED BY <3>2, <3>3
  <2> QED BY <2>3 DEF o
<1> HIDE DEF g
<1>5. BandsOf(g) = h
  <2> DEFINE b == BandsOf(s.history)
  <2>1. b \in Seq(Bands) /\ Len(b) = Len(s.history) /\ \A i \in 1 .. Len(s.history) : b[i] = Band(s.history[i])
    <3>1. \A i \in 1 .. Len(s.history) : s.history[i] \in Int
      BY <1>1
    <3>2. \A i \in 1 .. Len(s.history) : Band(s.history[i]) \in Bands
      BY <3>1, BandReaches
    <3>3. Len(s.history) \in Nat
      BY <1>1
    <3> QED BY <3>2, <3>3 DEF BandsOf
  <2>2. Band(x) \in Bands
    BY <1>3, BandReaches
  <2> HIDE DEF b
  <2>3. /\ h \in Seq(Bands) /\ Len(h) = Len(g) /\ h[Len(h)] = Band(x)
        /\ \A i \in 1 .. Len(h) - 1 : h[i] = b[i + Len(b) + 1 - Len(h)]
    <3>1. h = Appended(b, Band(x)) /\ Len(b) <= N
      BY <1>1, <2>1 DEF b
    <3> HIDE DEF h
    <3>2. /\ h \in Seq(Bands) /\ Len(h) = IF Len(b) < N THEN Len(b) + 1 ELSE N
          /\ h[Len(h)] = Band(x)
          /\ \A i \in 1 .. Len(h) - 1 : h[i] = b[i + Len(b) + 1 - Len(h)]
      BY <2>1, <2>2, <3>1, AppendedShifts
    <3>3. Len(h) = Len(g)
      BY <1>4, <2>1, <3>2
    <3> QED BY <3>2, <3>3
  <2> HIDE DEF h
  <2>4. \A i \in 1 .. Len(g) : h[i] = Band(g[i])
    <3> TAKE i \in 1 .. Len(g)
    <3>1. CASE i = Len(g)
      BY <1>4, <2>3, <3>1
    <3>2. CASE i # Len(g)
      <4>1. i \in 1 .. Len(g) - 1 /\ Len(g) \in Nat
        BY <1>4, <3>2
      <4>2. i + Len(s.history) + 1 - Len(g) \in 1 .. Len(s.history)
        <5>1. Len(s.history) \in Nat /\ Len(g) <= Len(s.history) + 1 /\ Len(g) \in Nat
          BY <1>1, <1>2, <1>4
        <5> QED BY <4>1, <5>1
      <4>3. g[i] = s.history[i + Len(s.history) + 1 - Len(g)]
        BY <1>4, <4>1
      <4>4. h[i] = b[i + Len(s.history) + 1 - Len(g)]
        BY <2>1, <2>3, <4>1
      <4> QED BY <2>1, <4>2, <4>3, <4>4
    <3> QED BY <3>1, <3>2
  <2> HIDE DEF h
  <2>5. Len(g) \in Nat
    BY <1>4
  <2> QED BY <2>3, <2>4, <2>5 DEF BandsOf
<1> HIDE DEF h
<1>6. Len(h) = Len(g) /\ \A i \in 1 .. Len(g) : h[i] = Band(g[i]) /\ g[i] \in Int
  BY <1>4, <1>5 DEF BandsOf
<1>7. lvl = WithHysteresis(s.level, h, Candidate(h))
  <2> DEFINE Count(threshold) == Cardinality({i \in DOMAIN g : g[i] >= threshold})
             candidate == IF Count(High) >= BreachK THEN 2 ELSE IF Count(Medium) >= BreachK THEN 1 ELSE 0
             boundary == IF s.level = 2 THEN High ELSE Medium
  <2>1. DOMAIN g = 1 .. Len(g) /\ Len(g) \in Nat
    BY <1>4
  <2>2. Count(High) = Reaching(h, 2) /\ Count(Medium) = Reaching(h, 1)
    <3>1. /\ {i \in DOMAIN g : g[i] >= High} = {i \in 1 .. Len(h) : h[i] >= 2}
          /\ {i \in DOMAIN g : g[i] >= Medium} = {i \in 1 .. Len(h) : h[i] >= 1}
      BY <1>6, <2>1, BandReaches
    <3> QED BY <3>1 DEF Reaching
  <2>3. Candidate(h) = candidate
    BY <2>2 DEF Candidate
  <2>4. s.level \in {1, 2} => (Count(boundary) = 0 <=> \A i \in 1 .. Len(h) : h[i] < s.level)
    <3> SUFFICES ASSUME s.level \in {1, 2}
                 PROVE  Count(boundary) = 0 <=> \A i \in 1 .. Len(h) : h[i] < s.level
      OBVIOUS
    <3> DEFINE B == {i \in DOMAIN g : g[i] >= boundary}
    <3>1. IsFiniteSet(DOMAIN g)
      BY <2>1, FS_Interval
    <3>2. B \in SUBSET DOMAIN g
      OBVIOUS
    <3>3. IsFiniteSet(B)
      <4> HIDE DEF B
      <4> QED BY <3>1, <3>2, FS_Subset
    <3>4. Count(boundary) = 0 <=> B = {}
      BY <3>3, FS_EmptySet
    <3>5. \A i \in 1 .. Len(g) : g[i] >= boundary <=> h[i] >= s.level
      BY <1>6, BandReaches
    <3>6. \A i \in 1 .. Len(g) : h[i] \in Bands
      BY <1>6, BandReaches
    <3>7. B = {} <=> \A i \in 1 .. Len(g) : ~(h[i] >= s.level)
      BY <2>1, <3>5
    <3>8. \A v \in Bands, w \in {1, 2} : ~(v >= w) <=> v < w
      BY DEF Bands
    <3> HIDE DEF B
    <3> QED BY <1>6, <3>4, <3>6, <3>7, <3>8
  <2>5. candidate \in 0 .. 2
    OBVIOUS
  <2>6. lvl = IF candidate >= s.level \/ (Len(g) >= BreachN /\ Count(boundary) = 0)
                THEN candidate ELSE s.level
    BY DEF ReplayLevel
  <2> HIDE DEF candidate, Count, boundary, lvl
  <2>7. s.level = 0 => candidate >= s.level
    BY <2>5
  <2>8. Len(g) >= BreachN <=> ~(Len(h) < N)
    BY <1>2, <1>6, <2>1
  <2> QED BY <1>1, <2>3, <2>4, <2>6, <2>7, <2>8 DEF WithHysteresis
<1>8. lvl \in 0 .. 2
  BY <1>1 DEF ReplayLevel
<1>9. CASE reading # NoScore
  <2> DEFINE t == [history |-> g, smoothed |-> x, level |-> lvl, levels |-> Append(s.levels, lvl)]
  <2>1. ReplayStep(s, reading) = t
    BY <1>9, Zenon DEF ReplayStep, x, g
  <2>2. t \in ReplayStates
    <3>1. Append(s.levels, lvl) \in Seq(Int)
      <4> HIDE DEF lvl
      <4> QED BY <1>1, <1>8
    <3> HIDE DEF lvl
    <3> QED BY <1>3, <1>4, <1>8, <3>1 DEF ReplayStates
  <2> QED BY <1>5, <1>7, <1>9, <2>1, <2>2 DEF x, h
<1>10. CASE reading = NoScore
  <2>1. ReplayStep(s, reading) = [s EXCEPT !.levels = Append(@, Unavailable)]
    BY <1>10, Zenon DEF ReplayStep
  <2>2. Append(s.levels, Unavailable) \in Seq(Int)
    BY <1>1 DEF Unavailable
  <2> QED BY <1>1, <1>10, <2>1, <2>2 DEF ReplayStates
<1> QED BY <1>9, <1>10
-----------------------------------------------------------------------------
(* Splits and training sets.                                               *)

\* Of a finite set of days, as many come first as are asked for.
LEMMA FirstDaysCounted ==
  ASSUME NEW R \in SUBSET Nat, IsFiniteSet(R), NEW n \in Nat, n <= Cardinality(R)
  PROVE  Cardinality({d \in R : Cardinality({e \in R : e < d}) < n}) = n
<1> DEFINE Below(d) == {e \in R : e < d}
           size == Cardinality(R)
           rank == [d \in R |-> Cardinality(Below(d))]
           First == {d \in R : Cardinality(Below(d)) < n}
           first == [d \in First |-> Cardinality(Below(d))]
<1>1. size \in Nat
  BY FS_CardinalityType
<1>2. ASSUME NEW d \in R
      PROVE  /\ IsFiniteSet(Below(d)) /\ Cardinality(Below(d)) \in Nat
             /\ Cardinality(Below(d)) < size
             /\ IsFiniteSet(Below(d) \cup {d}) /\ Cardinality(Below(d) \cup {d}) = Cardinality(Below(d)) + 1
  <2>1. Below(d) \in SUBSET R /\ d \notin Below(d)
    OBVIOUS
  <2>2. IsFiniteSet(Below(d)) /\ Cardinality(Below(d)) \in Nat
    BY <2>1, FS_Subset, FS_CardinalityType
  <2>3. IsFiniteSet(Below(d) \cup {d}) /\ Cardinality(Below(d) \cup {d}) = Cardinality(Below(d)) + 1
    BY <2>1, <2>2, FS_AddElement
  <2>4. Below(d) \cup {d} \in SUBSET R
    BY <2>1
  <2>5. Cardinality(Below(d) \cup {d}) <= size
    BY <2>4, FS_Subset
  <2> DEFINE c == Cardinality(Below(d))
             t == Cardinality(Below(d) \cup {d})
  <2>6. c < size
    <3>1. c \in Nat /\ size \in Nat /\ t = c + 1 /\ t <= size
      BY <1>1, <2>2, <2>3, <2>5
    <3> HIDE DEF c, t, size
    <3> QED BY <3>1
  <2> HIDE DEF Below, size
  <2> QED BY <2>2, <2>3, <2>6
<1>3. ASSUME NEW a \in R, NEW b \in R, a < b
      PROVE  Cardinality(Below(a)) < Cardinality(Below(b))
  <2>1. a \in Nat /\ b \in Nat /\ \A e \in R : e \in Nat
    OBVIOUS
  <2>2. \A e \in R : e < a => e < b
    BY <1>3, <2>1
  <2>3. Below(a) \cup {a} \in SUBSET Below(b)
    BY <1>3, <2>2
  <2>4. Cardinality(Below(a) \cup {a}) <= Cardinality(Below(b))
    BY <1>2, <2>3, FS_Subset
  <2>5. /\ Cardinality(Below(a)) \in Nat /\ Cardinality(Below(b)) \in Nat
        /\ Cardinality(Below(a) \cup {a}) = Cardinality(Below(a)) + 1
    BY <1>2
  <2> HIDE DEF Below
  <2> QED BY <2>4, <2>5
<1>4. \A a, b \in R : Cardinality(Below(a)) = Cardinality(Below(b)) => a = b
  <2> SUFFICES ASSUME NEW a \in R, NEW b \in R, Cardinality(Below(a)) = Cardinality(Below(b)), a # b
               PROVE  FALSE
    OBVIOUS
  <2>1. a \in Nat /\ b \in Nat
    OBVIOUS
  <2>2. a < b \/ b < a
    BY <2>1
  <2>3. Cardinality(Below(a)) \in Nat
    BY <1>2
  <2> HIDE DEF Below
  <2> QED BY <1>3, <2>2, <2>3
<1> HIDE DEF Below
<1>5. rank \in Injection(R, 0 .. size - 1)
  <2>1. \A d \in R : Cardinality(Below(d)) \in 0 .. size - 1
    <3>1. \A c, t \in Nat : c < t => c \in 0 .. t - 1
      OBVIOUS
    <3> HIDE DEF size
    <3> QED BY <1>1, <1>2, <3>1
  <2>2. rank \in [R -> 0 .. size - 1]
    <3> HIDE DEF size
    <3> QED BY <2>1
  <2>3. \A a, b \in R : rank[a] = rank[b] => a = b
    BY <1>4
  <2> HIDE DEF rank, size
  <2> QED BY <2>2, <2>3 DEF Injection, IsInjective
<1>6. IsFiniteSet(0 .. size - 1) /\ Cardinality(0 .. size - 1) = size
  <2>1. 0 \in Int /\ size - 1 \in Int
    BY <1>1
  <2>2. /\ IsFiniteSet(0 .. size - 1)
        /\ Cardinality(0 .. size - 1) = IF 0 > size - 1 THEN 0 ELSE size - 1 - 0 + 1
    BY <2>1, FS_Interval
  <2> HIDE DEF size
  <2> QED BY <1>1, <2>2
<1>7. rank \in Surjection(R, 0 .. size - 1)
  BY <1>5, <1>6, FS_Injection
<1>8. first \in Injection(First, 0 .. n - 1)
  <2>1. \A d \in First : d \in R /\ Cardinality(Below(d)) \in 0 .. n - 1
    <3>1. \A c \in Nat : c < n => c \in 0 .. n - 1
      OBVIOUS
    <3> QED BY <1>2, <3>1
  <2>2. first \in [First -> 0 .. n - 1]
    <3> HIDE DEF First
    <3> QED BY <2>1
  <2>3. \A a, b \in First : first[a] = first[b] => a = b
    BY <1>4
  <2> HIDE DEF first, First
  <2> QED BY <2>2, <2>3 DEF Injection, IsInjective
<1>9. first \in Surjection(First, 0 .. n - 1)
  <2>1. ASSUME NEW i \in 0 .. n - 1
        PROVE  \E d \in First : first[d] = i
    <3>1. i \in 0 .. size - 1 /\ i < n
      BY <1>1
    <3>2. PICK d \in R : rank[d] = i
      BY <1>7, <3>1 DEF Surjection
    <3>3. d \in First /\ first[d] = i
      BY <3>1, <3>2
    <3> QED BY <3>3
  <2>2. first \in [First -> 0 .. n - 1]
    BY <1>8 DEF Injection
  <2> HIDE DEF first, First
  <2> QED BY <2>1, <2>2 DEF Surjection
<1>10. IsFiniteSet(0 .. n - 1) /\ Cardinality(0 .. n - 1) = n
  <2>1. 0 \in Int /\ n - 1 \in Int
    OBVIOUS
  <2>2. /\ IsFiniteSet(0 .. n - 1)
        /\ Cardinality(0 .. n - 1) = IF 0 > n - 1 THEN 0 ELSE n - 1 - 0 + 1
    BY <2>1, FS_Interval
  <2> QED BY <2>2
<1>11. Cardinality(First) = n
  BY <1>8, <1>9, <1>10, FS_Injection
<1> QED BY <1>11 DEF Below

\* The days of a finite set of windows are finitely many.
LEMMA DaysAreFinite ==
  ASSUME NEW ws, IsFiniteSet(ws)
  PROVE  IsFiniteSet(DistinctDays(ws))
<1> DEFINE f == [w \in ws |-> w.day]
<1>1. f \in Surjection(ws, DistinctDays(ws))
  BY DEF Surjection, DistinctDays
<1> QED BY <1>1, FS_Surjection

(* Of a split, nothing is lost and no day is on both sides; left out in    *)
(* turn, every day is tested once; an enrollment of n days has the n       *)
(* earliest that are not held out, and a longer one takes nothing back     *)
(* (ml/evaluation/splitting.py).                                           *)
THEOREM SplitsAreDisjointAlways ==
  ASSUME NEW ws, IsFiniteSet(ws), \A w \in ws : w.day \in Nat
  PROVE  /\ \A days : \A s \in DayDisjointSplit(ws, days) :
              /\ s.train \cup s.test = ws /\ s.train # {} /\ s.test # {}
              /\ DistinctDays(s.train) \cap DistinctDays(s.test) = {}
         /\ LeaveOneDayOut(ws) # {} =>
              \A w \in ws : \E s \in LeaveOneDayOut(ws) :
                {t \in LeaveOneDayOut(ws) : w \in t.test} = {s}
         /\ \A n \in Nat : \A holdout : \A s \in EnrollmentLengthSubset(ws, n, holdout) :
              /\ Cardinality(DistinctDays(s)) = n /\ DistinctDays(s) \cap holdout = {}
              /\ \A k \in 0 .. n : \A less \in EnrollmentLengthSubset(ws, k, holdout) : less \subseteq s
<1>1. ASSUME NEW days, NEW s \in DayDisjointSplit(ws, days)
      PROVE  /\ s.train \cup s.test = ws /\ s.train # {} /\ s.test # {}
             /\ DistinctDays(s.train) \cap DistinctDays(s.test) = {}
  <2>1. /\ days # {} /\ days \subseteq DistinctDays(ws) /\ days # DistinctDays(ws)
        /\ s = [train |-> {w \in ws : w.day \notin days}, test |-> {w \in ws : w.day \in days}]
    BY <1>1 DEF DayDisjointSplit
  <2>2. s.train = {w \in ws : w.day \notin days} /\ s.test = {w \in ws : w.day \in days}
    BY <2>1
  <2>3. (\E w \in ws : w.day \in days) /\ (\E w \in ws : w.day \notin days)
    BY <2>1 DEF DistinctDays
  <2> QED BY <2>2, <2>3 DEF DistinctDays
<1>2. ASSUME LeaveOneDayOut(ws) # {}, NEW w \in ws
      PROVE  \E s \in LeaveOneDayOut(ws) : {t \in LeaveOneDayOut(ws) : w \in t.test} = {s}
  <2> DEFINE Left(d) == [train |-> {x \in ws : x.day \notin {d}}, test |-> {x \in ws : x.day \in {d}}]
  <2>1. LeaveOneDayOut(ws) = UNION {DayDisjointSplit(ws, {d}) : d \in DistinctDays(ws)}
        /\ ~(Cardinality(DistinctDays(ws)) < 2)
    BY <1>2 DEF LeaveOneDayOut
  <2>2. \A d : {d} # DistinctDays(ws)
    <3>1. \A d : Cardinality({d}) = 1
      BY FS_Singleton
    <3>2. ~(1 < 2) => FALSE
      OBVIOUS
    <3> QED BY <2>1, <3>1, <3>2
  <2>3. \A d \in DistinctDays(ws) : DayDisjointSplit(ws, {d}) = {Left(d)}
    <3> SUFFICES ASSUME NEW d \in DistinctDays(ws) PROVE DayDisjointSplit(ws, {d}) = {Left(d)}
      OBVIOUS
    <3>1. ~({d} = {} \/ ~({d} \subseteq DistinctDays(ws)) \/ {d} = DistinctDays(ws))
      BY <2>2
    <3> QED BY <3>1, Zenon DEF DayDisjointSplit
  <2>4. LeaveOneDayOut(ws) = {Left(d) : d \in DistinctDays(ws)}
    <3> HIDE DEF Left
    <3>1. \A s : s \in LeaveOneDayOut(ws) <=> \E d \in DistinctDays(ws) : s \in DayDisjointSplit(ws, {d})
      BY <2>1, Zenon
    <3>2. \A s : s \in LeaveOneDayOut(ws) <=> \E d \in DistinctDays(ws) : s = Left(d)
      <4>1. \A d \in DistinctDays(ws) : \A s : s \in DayDisjointSplit(ws, {d}) <=> s = Left(d)
        BY <2>3
      <4> QED BY <3>1, <4>1, Zenon
    <3> QED BY <3>2
  <2>5. w.day \in DistinctDays(ws)
    BY DEF DistinctDays
  <2>6. \A d \in DistinctDays(ws) : w \in Left(d).test <=> d = w.day
    OBVIOUS
  <2> HIDE DEF Left
  <2>7. {t \in LeaveOneDayOut(ws) : w \in t.test} = {Left(w.day)} /\ Left(w.day) \in LeaveOneDayOut(ws)
    BY <2>4, <2>5, <2>6
  <2> QED BY <2>7
<1>3. ASSUME NEW n \in Nat, NEW holdout, NEW s \in EnrollmentLengthSubset(ws, n, holdout)
      PROVE  /\ Cardinality(DistinctDays(s)) = n /\ DistinctDays(s) \cap holdout = {}
             /\ \A k \in 0 .. n : \A less \in EnrollmentLengthSubset(ws, k, holdout) : less \subseteq s
  <2> DEFINE R == DistinctDays(ws) \ holdout
             Rank(d) == Cardinality({e \in R : e < d})
             First == {d \in R : Rank(d) < n}
  <2>1. ~(n > Cardinality(R)) /\ s = {w \in ws : w.day \in R /\ Rank(w.day) < n}
    BY <1>3 DEF EnrollmentLengthSubset
  <2>2. R \in SUBSET Nat /\ R \in SUBSET DistinctDays(ws)
    BY DEF DistinctDays
  <2>3. IsFiniteSet(R) /\ Cardinality(R) \in Nat
    BY <2>2, DaysAreFinite, FS_Subset, FS_CardinalityType
  <2>4. DistinctDays(s) = First
    BY <2>1 DEF DistinctDays
  <2>5. Cardinality(First) = n
    <3> HIDE DEF R
    <3>1. n <= Cardinality(R)
      BY <2>1, <2>3
    <3>2. Cardinality({d \in R : Cardinality({e \in R : e < d}) < n}) = n
      BY <2>2, <2>3, <3>1, FirstDaysCounted, Zenon
    <3> QED BY <3>2, Zenon
  <2>6. ASSUME NEW k \in 0 .. n, NEW less \in EnrollmentLengthSubset(ws, k, holdout)
        PROVE  less \subseteq s
    <3>1. less = {w \in ws : w.day \in R /\ Rank(w.day) < k}
      BY <2>6 DEF EnrollmentLengthSubset
    <3>2. \A d \in R : Rank(d) \in Nat
      <4> SUFFICES ASSUME NEW d \in R PROVE Rank(d) \in Nat
        OBVIOUS
      <4>1. {e \in R : e < d} \in SUBSET R
        OBVIOUS
      <4> HIDE DEF R
      <4> QED BY <2>3, <4>1, FS_Subset, FS_CardinalityType
    <3> HIDE DEF R, Rank
    <3>3. \A d \in R : Rank(d) < k => Rank(d) < n
      BY <3>2
    <3> QED BY <2>1, <3>1, <3>3
  <2>7. First \cap holdout = {}
    OBVIOUS
  <2> HIDE DEF First, R
  <2> QED BY <2>4, <2>5, <2>6, <2>7
<1> QED BY <1>1, <1>2, <1>3

(* A model is trained of one person's windows only, each real one with     *)
(* evidence of its own and all of one kind; and the model of one vector,   *)
(* which trains on full windows, never trains where one of the two models  *)
(* of a profile cannot (ml/training/common.py, single_fused_model.py).     *)
THEOREM TrainedAsAdmittedAlways ==
  ASSUME NEW user, NEW ws, IsFiniteSet(ws), NEW promotion, NEW enrollment
  PROVE  /\ TrainUserProfile(user, ws, promotion, enrollment) # {} =>
              /\ promotion = {} \/ enrollment = {}
              /\ \A w \in ws : w.user = user
              /\ \A w \in ws : w.real =>
                   \/ \E c \in UNION promotion : c.segment = w.segment /\ c.user = user /\ c.complete
                   \/ \E a \in enrollment : a.participant = user /\ ~a.active /\ w.segment \in a.eligible
         /\ TrainOneClass(user, "combined", ws, promotion, enrollment) = "TRAINED"
              => TrainUserProfile(user, ws, promotion, enrollment) = Modalities
<1>1. ASSUME NEW m, TrainOneClass(user, m, ws, promotion, enrollment) = "TRAINED"
      PROVE  /\ Admits(user, ws, promotion, enrollment)
             /\ ~(Cardinality({w.user : w \in ws}) > 1)
             /\ ~(Cardinality(Rows(ws, m)) < MinBaselineWindows)
  BY <1>1 DEF TrainOneClass
<1>2. ASSUME Admits(user, ws, promotion, enrollment)
      PROVE  /\ promotion = {} \/ enrollment = {}
             /\ \A w \in ws : w.user = user
             /\ \A w \in ws : w.real =>
                  \/ \E c \in UNION promotion : c.segment = w.segment /\ c.user = user /\ c.complete
                  \/ \E a \in enrollment : a.participant = user /\ ~a.active /\ w.segment \in a.eligible
  <2>1. CASE enrollment = {} /\ RequirePromotionGate(user, ws, UNION promotion)
    BY <2>1 DEF RequirePromotionGate
  <2>2. CASE promotion = {} /\ \E a \in enrollment : EnrollmentGate(user, ws, a)
    BY <2>2 DEF EnrollmentGate
  <2> QED BY <1>2, <2>1, <2>2 DEF Admits
<1>3. ASSUME TrainOneClass(user, "combined", ws, promotion, enrollment) = "TRAINED",
             NEW m \in Modalities
      PROVE  TrainOneClass(user, m, ws, promotion, enrollment) = "TRAINED"
  <2>1. m # "combined" /\ Rows(ws, "combined") \in SUBSET Rows(ws, m) /\ Rows(ws, m) \in SUBSET ws
    BY DEF Rows, Has, Modalities
  <2>2. IsFiniteSet(Rows(ws, m)) /\ Cardinality(Rows(ws, m)) \in Nat
    BY <2>1, FS_Subset, FS_CardinalityType
  <2>3. /\ Cardinality(Rows(ws, "combined")) <= Cardinality(Rows(ws, m))
        /\ Cardinality(Rows(ws, "combined")) \in Nat
    BY <2>1, <2>2, FS_Subset, FS_CardinalityType
  <2>4. MinBaselineWindows \in Nat
    BY EvaluationAssumption
  <2>5. ~(Cardinality(Rows(ws, m)) < MinBaselineWindows)
    <3>1. ~(Cardinality(Rows(ws, "combined")) < MinBaselineWindows)
      BY <1>1, <1>3
    <3>2. \A a, b, c \in Nat : a <= b /\ ~(a < c) => ~(b < c)
      OBVIOUS
    <3> QED BY <2>2, <2>3, <2>4, <3>1, <3>2
  <2> QED BY <1>1, <1>3, <2>5 DEF TrainOneClass
<1> QED BY <1>1, <1>2, <1>3 DEF TrainUserProfile
-----------------------------------------------------------------------------
(* Comparisons, and the rates of an activation.                            *)

\* What a comparison reports, part by part.
LEMMA ComparisonParts ==
  ASSUME NEW corpus, NEW testDays, NEW enrollment
  PROVE  LET c == Comparison(corpus, testDays, enrollment)
             both == DOMAIN c.tests
             split(u) == DayDisjointSplit(corpus[u], testDays[u])
         IN /\ both \subseteq DOMAIN corpus /\ c.excluded = DOMAIN corpus \ both
            /\ c.trained = [u \in both |-> UNION {s.train : s \in split(u)}]
            /\ c.tests = [u \in both |-> UNION {s.test : s \in split(u)}]
            /\ c.owners["single"] \subseteq both
            /\ \A arm \in Arms : \A u \in c.owners[arm], v \in both :
                 ~c.ended => ~Aborted(arm, u, c.tests[v])
<1> DEFINE users == DOMAIN corpus
           split(u) == DayDisjointSplit(corpus[u], testDays[u])
           train(u) == UNION {s.train : s \in split(u)}
           outcome(u, model) == TrainOneClass(u, model, train(u), {}, enrollment)
           tried == {u \in users : split(u) # {}}
           typed == {u \in tried : outcome(u, "keyboard") = "TRAINED"}
           both == {u \in typed : outcome(u, "mouse") = "TRAINED"}
           owners == [arm \in Arms |->
                        CASE arm = "keyboard" -> typed
                          [] arm \in {"mouse", "dual"} -> both
                          [] arm = "single" -> {u \in both : outcome(u, "combined") = "TRAINED"}]
           tests == [u \in both |-> UNION {s.test : s \in split(u)}]
           ended == \/ \E u \in tried : outcome(u, "keyboard") = "REFUSED"
                    \/ \E arm \in Arms : \E u \in owners[arm], v \in both : Aborted(arm, u, tests[v])
                    \/ \E arm \in {"dual", "single"}, q \in {"KBD_ONLY", "MOUSE_ONLY"} :
                         MissingModalityHandling(arm, owners[arm], tests, q).ended
           trained == [u \in both |-> train(u)]
           c == Comparison(corpus, testDays, enrollment)
<1>1. c = [ended |-> ended, excluded |-> users \ both, owners |-> owners, trained |-> trained,
           tests |-> tests]
  BY Zenon DEF Comparison
<1>2. both \subseteq users /\ DOMAIN tests = both
  OBVIOUS
<1>3. owners["single"] = {u \in both : outcome(u, "combined") = "TRAINED"}
  <2> HIDE DEF typed, both, outcome
  <2>1. "single" \in Arms
    BY DEF Arms
  <2> QED BY <2>1
<1>4. owners["single"] \subseteq both
  <2> HIDE DEF both, owners, outcome
  <2> QED BY <1>3
<1>5. \A arm \in Arms : \A u \in owners[arm], v \in both : ~ended => ~Aborted(arm, u, tests[v])
  <2> HIDE DEF both, owners, outcome, tests, tried
  <2> QED BY Zenon
<1>6. /\ trained = [u \in both |-> UNION {s.train : s \in split(u)}]
      /\ tests = [u \in both |-> UNION {s.test : s \in split(u)}]
  BY Zenon
<1> HIDE DEF ended, users, both, owners, trained, tests, c
<1>7. /\ c.ended = ended /\ c.excluded = users \ both /\ c.owners = owners
      /\ c.trained = trained /\ c.tests = tests
  BY <1>1
<1>8. /\ DOMAIN c.tests \subseteq users /\ c.excluded = users \ DOMAIN c.tests
      /\ c.owners["single"] \subseteq DOMAIN c.tests
  BY <1>2, <1>4, <1>7
<1>9. \A arm \in Arms : \A u \in c.owners[arm], v \in DOMAIN c.tests :
        ~c.ended => ~Aborted(arm, u, c.tests[v])
  BY <1>2, <1>5, <1>7
<1>10. /\ c.trained = [u \in DOMAIN c.tests |-> UNION {s.train : s \in split(u)}]
       /\ c.tests = [u \in DOMAIN c.tests |-> UNION {s.test : s \in split(u)}]
  <2> HIDE DEF split
  <2> QED BY <1>2, <1>6, <1>7
<1> QED BY <1>8, <1>9, <1>10, Zenon DEF c, users

\* The days of a split are on one side only, however its sides are collected.
LEMMA SplitSides ==
  ASSUME NEW ws, NEW days
  PROVE  LET split == DayDisjointSplit(ws, days) IN
         DistinctDays(UNION {s.train : s \in split}) \cap DistinctDays(UNION {s.test : s \in split}) = {}
<1> DEFINE split == DayDisjointSplit(ws, days)
           one == [train |-> {w \in ws : w.day \notin days}, test |-> {w \in ws : w.day \in days}]
<1>1. split = {} \/ split = {one}
  BY Zenon DEF DayDisjointSplit
<1>2. \A s \in split : (\A w \in s.train : w.day \notin days) /\ (\A w \in s.test : w.day \in days)
  <2>1. (\A w \in one.train : w.day \notin days) /\ (\A w \in one.test : w.day \in days)
    OBVIOUS
  <2> HIDE DEF split, one
  <2> QED BY <1>1, <2>1
<1> HIDE DEF split
<1>3. /\ \A d \in DistinctDays(UNION {s.train : s \in split}) : d \notin days
      /\ \A d \in DistinctDays(UNION {s.test : s \in split}) : d \in days
  BY <1>2 DEF DistinctDays
<1> QED BY <1>3 DEF split

(* A user that is excluded has no rate in any arm and is nobody's          *)
(* impostor, although its keyboard model was kept; nobody is tested on a   *)
(* day of training; and what both models score, the model of one vector    *)
(* scores too (run_fusion_vs_single_model_comparison).                     *)
THEOREM ComparedAlikeAlways ==
  ASSUME NEW corpus, NEW testDays, NEW enrollment,
         \A v \in DOMAIN corpus : \A w \in corpus[v] : \A u \in DOMAIN corpus :
            w.answers[u]["combined"] \in Answers
  PROVE  LET c == Comparison(corpus, testDays, enrollment)
             cross(arm) == CrossEvaluation(arm, c.owners[arm], c.tests)
         IN /\ DOMAIN c.tests = DOMAIN corpus \ c.excluded /\ DOMAIN c.trained = DOMAIN c.tests
            /\ \A u \in DOMAIN c.tests : DistinctDays(c.trained[u]) \cap DistinctDays(c.tests[u]) = {}
            /\ \A arm \in Arms :
                 /\ Measured(cross(arm)) \cap c.excluded = {}
                 /\ \A u \in DOMAIN cross(arm) : DOMAIN cross(arm)[u].impostor \cap (c.excluded \cup {u}) = {}
            /\ ~c.ended => \A u \in c.owners["single"] : \A w \in c.tests[u] :
                 w \in Scored("dual", u, c.tests[u]) => w \in Scored("single", u, c.tests[u])
<1> DEFINE c == Comparison(corpus, testDays, enrollment)
           cross(arm) == CrossEvaluation(arm, c.owners[arm], c.tests)
           split(u) == DayDisjointSplit(corpus[u], testDays[u])
           both == DOMAIN c.tests
<1>1. /\ both \subseteq DOMAIN corpus /\ c.excluded = DOMAIN corpus \ both
      /\ c.trained = [u \in both |-> UNION {s.train : s \in split(u)}]
      /\ c.tests = [u \in both |-> UNION {s.test : s \in split(u)}]
      /\ c.owners["single"] \subseteq both
      /\ \A arm \in Arms : \A u \in c.owners[arm], v \in both : ~c.ended => ~Aborted(arm, u, c.tests[v])
  BY ComparisonParts, Zenon
<1> HIDE DEF c
<1>2. DOMAIN c.tests = DOMAIN corpus \ c.excluded /\ DOMAIN c.trained = DOMAIN c.tests
  <2> HIDE DEF split
  <2> QED BY <1>1
<1>3. ASSUME NEW u \in both
      PROVE  DistinctDays(c.trained[u]) \cap DistinctDays(c.tests[u]) = {}
  <2>1. /\ c.trained[u] = UNION {s.train : s \in split(u)}
        /\ c.tests[u] = UNION {s.test : s \in split(u)}
    <3> HIDE DEF split
    <3> QED BY <1>1, <1>3
  <2>2. DistinctDays(UNION {s.train : s \in split(u)}) \cap DistinctDays(UNION {s.test : s \in split(u)}) = {}
    BY SplitSides
  <2> QED BY <2>1, <2>2, Zenon
<1>4. ASSUME NEW arm \in Arms
      PROVE  /\ Measured(cross(arm)) \cap c.excluded = {}
             /\ \A u \in DOMAIN cross(arm) : DOMAIN cross(arm)[u].impostor \cap (c.excluded \cup {u}) = {}
  <2> DEFINE x == cross(arm)
             owners == c.owners[arm]
             far(u) == {v \in DOMAIN c.tests \ {u} : Scored(arm, u, c.tests[v]) # {}}
             heard(u) == Scores(arm, u, IF u \in DOMAIN c.tests THEN c.tests[u] ELSE {})
             faced(u) == [o \in far(u) |-> Scores(arm, u, c.tests[o])]
  <2>1. x = [u \in owners |-> [genuine |-> heard(u), impostor |-> faced(u)]]
    BY Zenon DEF CrossEvaluation
  <2>2. \A u : DOMAIN faced(u) = far(u)
    OBVIOUS
  <2>3. \A u : far(u) \cap (c.excluded \cup {u}) = {}
    <3> HIDE DEF c
    <3> QED BY <1>1
  <2>4. \A u : u \in c.excluded => DOMAIN heard(u) = {}
    <3> SUFFICES ASSUME NEW u \in c.excluded PROVE DOMAIN heard(u) = {}
      OBVIOUS
    <3>1. u \notin DOMAIN c.tests
      BY <1>1
    <3>2. heard(u) = Scores(arm, u, {})
      BY <3>1
    <3> QED BY <3>2 DEF Scores, Scored
  <2> HIDE DEF x, owners, far, heard, faced
  <2>5. DOMAIN x = owners /\ \A u \in owners : x[u].genuine = heard(u) /\ x[u].impostor = faced(u)
    BY <2>1
  <2>6. \A u \in DOMAIN x : DOMAIN x[u].impostor \cap (c.excluded \cup {u}) = {}
    BY <2>2, <2>3, <2>5
  <2>7. Measured(x) \cap c.excluded = {}
    BY <2>4, <2>5 DEF Measured
  <2> QED BY <2>6, <2>7, Zenon DEF x
<1>5. ASSUME ~c.ended, NEW u \in c.owners["single"], NEW w \in c.tests[u], w \in Scored("dual", u, c.tests[u])
      PROVE  w \in Scored("single", u, c.tests[u])
  <2> DEFINE ranks == DualRanks(w, u)
             answer == w.answers[u]["combined"]
  <2>1. u \in both /\ ~Aborted("single", u, c.tests[u])
    BY <1>1, <1>5 DEF Arms
  <2>2. w \in corpus[u]
    <3>1. c.tests[u] = UNION {s.test : s \in split(u)}
      <4> HIDE DEF split
      <4> QED BY <1>1, <2>1
    <3>2. \A s \in split(u) : s.test \subseteq corpus[u]
      BY DEF DayDisjointSplit
    <3> HIDE DEF split
    <3> QED BY <1>5, <3>1, <3>2
  <2>3. answer \in Answers
    BY <1>1, <2>1, <2>2
  <2>4. ArmScore("single", u, w) = ScoreSingleFused(w.quality, answer)
    BY DEF ArmScore, Modalities
  <2>5. ArmScore("single", u, w) # Mismatch /\ ArmScore("single", u, w) # Raises
    BY <1>5, <2>1 DEF Aborted
  <2>6. \E m \in Modalities : Has(w.quality, m)
    <3>1. ArmScore("dual", u, w) = IF Refused(ranks) THEN Mismatch
                                   ELSE IF Counts(ranks) THEN Whole(FusePercentiles(ranks)) ELSE NoScore
      <4> HIDE DEF ranks
      <4> QED BY DEF ArmScore, Modalities, ranks
    <3>2. ArmScore("dual", u, w) \notin {NoScore, Mismatch, Raises}
      BY <1>5 DEF Scored
    <3>3. ~Refused(ranks) /\ Counts(ranks)
      <4> HIDE DEF ranks
      <4> QED BY <3>1, <3>2
    <3>4. PICK m \in Modalities : ranks[m] # NoScore /\ ranks[m] # Mismatch
      <4> HIDE DEF ranks
      <4> QED BY <3>3 DEF Counts, Refused
    <3>5. ranks[m] = IF w.answers[u][m] = Mismatch \/ Has(w.quality, m) THEN w.answers[u][m] ELSE NoScore
      BY DEF DualRanks, ScoreWindow
    <3> QED BY <3>4, <3>5
  <2>7. ScoreSingleFused(w.quality, answer) = answer
    BY <2>6 DEF ScoreSingleFused
  <2>8. ArmScore("single", u, w) \notin {NoScore, Mismatch, Raises}
    BY <2>3, <2>4, <2>5, <2>7 DEF Answers, Percentiles, NoModel, Mismatch, Raises, NoScore
  <2> QED BY <1>5, <2>8 DEF Scored
<1> QED BY <1>2, <1>3, <1>4, <1>5, Zenon DEF c

\* A set of naturals that is not empty has a least member.
LEMMA LeastExists ==
  ASSUME NEW T \in SUBSET Nat, T # {}
  PROVE  \E x \in T : \A y \in T : x <= y
<1> DEFINE R == OpToRel(<, Nat)
<1>1. IsWellFoundedOn(R, Nat)
  BY NatLessThanWellFounded, Zenon
<1>2. \A x, y \in Nat : y < x => <<y, x>> \in R
  BY DEF OpToRel
<1> HIDE DEF R
<1>3. PICK x \in T : \A y \in T : ~ (<<y, x>> \in R)
  BY <1>1, WFMin
<1>4. \A y \in T : ~(y < x)
  BY <1>2, <1>3
<1>5. \A y \in T : x \in Nat /\ y \in Nat /\ ~(y < x) => x <= y
  OBVIOUS
<1> QED BY <1>4, <1>5

\* A finite set of integers that is not empty has a greatest member.
LEMMA GreatestExists ==
  ASSUME NEW S \in SUBSET Int, IsFiniteSet(S), S # {}
  PROVE  \E x \in S : \A y \in S : x >= y
<1> DEFINE From(x) == {e \in S : e >= x}
           T == {Cardinality(From(x)) : x \in S}
<1>1. \A x \in S : IsFiniteSet(From(x)) /\ Cardinality(From(x)) \in Nat
  BY FS_Subset, FS_CardinalityType
<1>2. T \in SUBSET Nat /\ T # {}
  <2> HIDE DEF From
  <2> QED BY <1>1
<1>3. PICK x \in S : \A y \in S : Cardinality(From(x)) <= Cardinality(From(y))
  <2>1. PICK c \in T : \A d \in T : c <= d
    BY <1>2, LeastExists
  <2> HIDE DEF From
  <2> QED BY <2>1
<1>4. ASSUME NEW y \in S, y > x
      PROVE  FALSE
  <2>1. x \in Int /\ y \in Int /\ \A e \in S : e \in Int
    OBVIOUS
  <2>2. From(y) \in SUBSET (From(x) \ {x})
    <3>1. \A e \in S : e >= y => e >= x /\ e # x
      BY <1>4, <2>1
    <3> QED BY <3>1
  <2>3. x \in From(x)
    BY <2>1
  <2>4. Cardinality(From(x) \ {x}) = Cardinality(From(x)) - 1 /\ IsFiniteSet(From(x) \ {x})
    BY <1>1, <2>3, FS_RemoveElement
  <2>5. Cardinality(From(y)) <= Cardinality(From(x) \ {x})
    BY <2>2, <2>4, FS_Subset
  <2>6. \A c, d \in Nat : c <= d /\ d <= c - 1 => FALSE
    OBVIOUS
  <2> HIDE DEF From
  <2> QED BY <1>1, <1>3, <2>4, <2>5, <2>6
<1>5. \A y \in S : x \in Int /\ y \in Int /\ ~(y > x) => x >= y
  OBVIOUS
<1> QED BY <1>4, <1>5

\* And a least one.
LEMMA LeastOfFinite ==
  ASSUME NEW S \in SUBSET Int, IsFiniteSet(S), S # {}
  PROVE  \E x \in S : \A y \in S : x <= y
<1> DEFINE f == [x \in S |-> -x]
           M == {-x : x \in S}
<1>1. IsFiniteSet(M)
  <2>1. (\A x \in S : -x \in M) /\ \A m \in M : \E x \in S : m = -x
    OBVIOUS
  <2>2. f \in [S -> M]
    <3> HIDE DEF M
    <3> QED BY <2>1
  <2>3. \A m \in M : \E x \in S : f[x] = m
    <3> HIDE DEF M
    <3> QED BY <2>1
  <2> HIDE DEF f, M
  <2>4. f \in Surjection(S, M)
    BY <2>2, <2>3 DEF Surjection
  <2> QED BY <2>4, FS_Surjection
<1>2. M \in SUBSET Int /\ M # {}
  <2>1. \A x \in S : -x \in Int
    OBVIOUS
  <2>2. PICK x \in S : TRUE
    OBVIOUS
  <2>3. -x \in M
    OBVIOUS
  <2>4. \A m \in M : m \in Int
    BY <2>1
  <2> HIDE DEF M
  <2> QED BY <2>3, <2>4
<1>3. PICK m \in M : \A n \in M : m >= n
  BY <1>1, <1>2, GreatestExists
<1>4. PICK x \in S : m = -x
  OBVIOUS
<1>5. \A y \in S : -x >= -y
  BY <1>3, <1>4
<1>6. \A y \in S : x \in Int /\ y \in Int /\ -x >= -y => x <= y
  OBVIOUS
<1> QED BY <1>5, <1>6

\* A rate is a part of the scores it is of, and zero when none of them errs.
LEMMA RatesAreParts ==
  ASSUME NEW f, IsFiniteSet(DOMAIN f), NEW t
  PROVE  /\ FalseRejections(f, t) \in 0 .. Cardinality(DOMAIN f)
         /\ FalseAcceptances(f, t) \in 0 .. Cardinality(DOMAIN f)
         /\ Cardinality(DOMAIN f) \in Nat
         /\ FalseRejections(f, t) = 0 <=> \A i \in DOMAIN f : ~(f[i] < t)
         /\ FalseAcceptances(f, t) = 0 <=> \A i \in DOMAIN f : ~(f[i] >= t)
<1> DEFINE low == {i \in DOMAIN f : f[i] < t}
           high == {i \in DOMAIN f : f[i] >= t}
<1>1. Cardinality(DOMAIN f) \in Nat
  BY FS_CardinalityType
<1>2. /\ IsFiniteSet(low) /\ Cardinality(low) \in Nat /\ Cardinality(low) <= Cardinality(DOMAIN f)
      /\ IsFiniteSet(high) /\ Cardinality(high) \in Nat /\ Cardinality(high) <= Cardinality(DOMAIN f)
  <2>1. low \in SUBSET DOMAIN f /\ high \in SUBSET DOMAIN f
    OBVIOUS
  <2> HIDE DEF low, high
  <2> QED BY <2>1, FS_Subset, FS_CardinalityType
<1>3. (Cardinality(low) = 0 <=> low = {}) /\ (Cardinality(high) = 0 <=> high = {})
  BY <1>2, FS_EmptySet
<1>4. /\ low = {} <=> \A i \in DOMAIN f : ~(f[i] < t)
      /\ high = {} <=> \A i \in DOMAIN f : ~(f[i] >= t)
  OBVIOUS
<1>5. FalseRejections(f, t) = Cardinality(low) /\ FalseAcceptances(f, t) = Cardinality(high)
  BY DEF FalseRejections, FalseAcceptances
<1>6. \A c, n \in Nat : c <= n => c \in 0 .. n
  OBVIOUS
<1> HIDE DEF low, high
<1> QED BY <1>1, <1>2, <1>3, <1>4, <1>5, <1>6

\* A difference without its sign.
LEMMA MagnitudeIsNat ==
  \A a, b, c, d \in Nat :
    LET x == a * b - c * d IN
    /\ (IF x < 0 THEN -x ELSE x) \in Nat
    /\ (IF x < 0 THEN -x ELSE x) = 0 <=> a * b = c * d
<1> TAKE a, b, c, d \in Nat
<1> DEFINE p == a * b
           q == c * d
<1>1. p \in Int /\ q \in Int
  OBVIOUS
<1> HIDE DEF p, q
<1>2. /\ (IF p - q < 0 THEN -(p - q) ELSE p - q) \in Nat
      /\ (IF p - q < 0 THEN -(p - q) ELSE p - q) = 0 <=> p = q
  BY <1>1
<1> QED BY <1>2 DEF p, q

\* The imbalance of the rates is a natural, zero where they are equal.
LEMMA ImbalanceIsNat ==
  ASSUME NEW g, NEW i, IsFiniteSet(DOMAIN g), IsFiniteSet(DOMAIN i), NEW t
  PROVE  /\ Imbalance(g, i, t) \in Nat
         /\ Imbalance(g, i, t) = 0 <=>
              FalseAcceptances(i, t) * Cardinality(DOMAIN g) = FalseRejections(g, t) * Cardinality(DOMAIN i)
<1>1. /\ FalseAcceptances(i, t) \in Nat /\ FalseRejections(g, t) \in Nat
      /\ Cardinality(DOMAIN g) \in Nat /\ Cardinality(DOMAIN i) \in Nat
  BY RatesAreParts
<1> DEFINE x == FalseAcceptances(i, t) * Cardinality(DOMAIN g) - FalseRejections(g, t) * Cardinality(DOMAIN i)
<1>2. Imbalance(g, i, t) = IF x < 0 THEN -x ELSE x
  BY DEF Imbalance
<1> QED BY <1>1, <1>2, MagnitudeIsNat

\* The threshold of compute_eer is there, balances best, and is the first.
LEMMA BestOfGrid ==
  ASSUME NEW g, NEW i, IsFiniteSet(DOMAIN g), IsFiniteSet(DOMAIN i),
         NEW grid \in SUBSET Int, IsFiniteSet(grid), grid # {}
  PROVE  LET t == EqualErrorThreshold(g, i, grid) IN
         /\ t \in grid
         /\ \A u \in grid : /\ Imbalance(g, i, t) <= Imbalance(g, i, u)
                            /\ Imbalance(g, i, u) = Imbalance(g, i, t) => t <= u
<1> DEFINE f(u) == Imbalance(g, i, u)
           best == {t \in grid : \A u \in grid : f(t) <= f(u)}
           t == EqualErrorThreshold(g, i, grid)
<1>1. \A u \in grid : f(u) \in Nat
  BY ImbalanceIsNat
<1> HIDE DEF f
<1>2. best # {}
  <2> DEFINE T == {f(u) : u \in grid}
  <2>1. T \in SUBSET Nat /\ T # {}
    BY <1>1
  <2>2. PICK c \in T : \A d \in T : c <= d
    BY <2>1, LeastExists
  <2>3. PICK u \in grid : c = f(u)
    OBVIOUS
  <2>4. \A v \in grid : f(u) <= f(v)
    BY <2>2, <2>3
  <2>5. u \in best
    BY <2>4
  <2> QED BY <2>5
<1>3. best \in SUBSET Int /\ IsFiniteSet(best)
  <2>1. best \in SUBSET grid
    OBVIOUS
  <2> HIDE DEF best
  <2> QED BY <2>1, FS_Subset
<1>4. \E x \in best : \A y \in best : x <= y
  <2> HIDE DEF best
  <2> QED BY <1>2, <1>3, LeastOfFinite
<1>5. t = CHOOSE x \in best : \A y \in best : x <= y
  BY DEF EqualErrorThreshold, f
<1>6. t \in best /\ \A y \in best : t <= y
  <2> HIDE DEF best, t
  <2> QED BY <1>4, <1>5
<1> HIDE DEF t
<1>7. t \in grid /\ \A u \in grid : f(t) <= f(u)
  BY <1>6
<1>8. \A u \in grid : f(u) = f(t) => u \in best
  BY <1>7
<1> HIDE DEF best
<1> QED BY <1>6, <1>7, <1>8 DEF f, t

(* A higher threshold accepts no more and rejects no fewer, so that the    *)
(* rates cross; at an equal-error threshold of any grid no other threshold *)
(* does better; and where a threshold of the grid tells the two apart, it  *)
(* does so without error (compute_far_frr and compute_eer).                *)
THEOREM RatesCrossAlways ==
  ASSUME NEW g, NEW i, IsFiniteSet(DOMAIN g), IsFiniteSet(DOMAIN i), DOMAIN g # {}, DOMAIN i # {},
         \A x \in DOMAIN g : g[x] \in Int, \A x \in DOMAIN i : i[x] \in Int
  PROVE  /\ \A t, u \in Int : t <= u =>
              /\ FalseAcceptances(i, u) <= FalseAcceptances(i, t)
              /\ FalseRejections(g, t) <= FalseRejections(g, u)
         /\ \A grid \in SUBSET Int : IsFiniteSet(grid) /\ grid # {} =>
              LET t == EqualErrorThreshold(g, i, grid) IN
              /\ t \in grid
              /\ \A u \in grid : Imbalance(g, i, t) <= Imbalance(g, i, u)
              /\ (\E u \in grid : /\ \A x \in DOMAIN g : g[x] >= u
                                  /\ \A x \in DOMAIN i : i[x] < u)
                   => FalseAcceptances(i, t) = 0 /\ FalseRejections(g, t) = 0
<1>1. ASSUME NEW t \in Int, NEW u \in Int, t <= u
      PROVE  /\ FalseAcceptances(i, u) <= FalseAcceptances(i, t)
             /\ FalseRejections(g, t) <= FalseRejections(g, u)
  <2>1. {x \in DOMAIN i : i[x] >= u} \in SUBSET {x \in DOMAIN i : i[x] >= t}
    <3>1. \A x \in DOMAIN i : i[x] >= u => i[x] >= t
      BY <1>1
    <3> QED BY <3>1
  <2>2. {x \in DOMAIN g : g[x] < t} \in SUBSET {x \in DOMAIN g : g[x] < u}
    <3>1. \A x \in DOMAIN g : g[x] < t => g[x] < u
      BY <1>1
    <3> QED BY <3>1
  <2>3. IsFiniteSet({x \in DOMAIN i : i[x] >= t}) /\ IsFiniteSet({x \in DOMAIN g : g[x] < u})
    BY FS_Subset
  <2> QED BY <2>1, <2>2, <2>3, FS_Subset DEF FalseAcceptances, FalseRejections
<1>2. ASSUME NEW grid \in SUBSET Int, IsFiniteSet(grid), grid # {}
      PROVE  LET t == EqualErrorThreshold(g, i, grid) IN
             /\ t \in grid
             /\ \A u \in grid : Imbalance(g, i, t) <= Imbalance(g, i, u)
             /\ (\E u \in grid : /\ \A x \in DOMAIN g : g[x] >= u
                                 /\ \A x \in DOMAIN i : i[x] < u)
                  => FalseAcceptances(i, t) = 0 /\ FalseRejections(g, t) = 0
  <2> DEFINE t == EqualErrorThreshold(g, i, grid)
  <2>1. t \in grid /\ \A u \in grid : Imbalance(g, i, t) <= Imbalance(g, i, u)
    BY <1>2, BestOfGrid
  <2> HIDE DEF t
  <2>2. ASSUME NEW u \in grid, \A x \in DOMAIN g : g[x] >= u, \A x \in DOMAIN i : i[x] < u
        PROVE  FalseAcceptances(i, t) = 0 /\ FalseRejections(g, t) = 0
    <3> DEFINE a == FalseAcceptances(i, t)
               r == FalseRejections(g, t)
               m == Cardinality(DOMAIN g)
               n == Cardinality(DOMAIN i)
    <3>1. /\ a \in Nat /\ r \in Nat /\ m \in Nat /\ n \in Nat
          /\ a = 0 <=> \A x \in DOMAIN i : ~(i[x] >= t)
          /\ r = 0 <=> \A x \in DOMAIN g : ~(g[x] < t)
      BY RatesAreParts
    <3>2. FalseAcceptances(i, u) = 0 /\ FalseRejections(g, u) = 0
      <4>1. (\A x \in DOMAIN i : ~(i[x] >= u)) /\ (\A x \in DOMAIN g : ~(g[x] < u))
        BY <2>2
      <4> QED BY <4>1, RatesAreParts
    <3>3. Imbalance(g, i, u) = 0
      BY <3>1, <3>2, ImbalanceIsNat
    <3>4. Imbalance(g, i, t) \in Nat /\ Imbalance(g, i, t) <= 0
      BY <2>1, <3>3, ImbalanceIsNat
    <3>5. a * m = r * n
      BY <3>4, ImbalanceIsNat
    <3>6. ~(a # 0 /\ r # 0)
      <4> SUFFICES ASSUME a # 0, r # 0 PROVE FALSE
        OBVIOUS
      <4>1. PICK x \in DOMAIN i : i[x] >= t
        BY <3>1
      <4>2. PICK y \in DOMAIN g : g[y] < t
        BY <3>1
      <4>3. i[x] < u /\ g[y] >= u
        BY <2>2
      <4>4. i[x] \in Int /\ g[y] \in Int /\ t \in Int /\ u \in Int
        BY <2>1
      <4> HIDE DEF a, r, m, n
      <4> QED BY <4>1, <4>2, <4>3, <4>4
    <3>7. m # 0 /\ n # 0
      BY FS_EmptySet
    <3> HIDE DEF a, r, m, n
    <3>8. \A v, w \in Nat : v * w = 0 => v = 0 \/ w = 0
      OBVIOUS
    <3>9. a = 0 /\ r = 0
      <4>1. CASE a = 0
        <5>1. r * n = 0
          BY <3>1, <3>5, <4>1
        <5> QED BY <3>1, <3>7, <3>8, <4>1, <5>1
      <4>2. CASE r = 0
        <5>1. a * m = 0
          BY <3>1, <3>5, <4>2
        <5> QED BY <3>1, <3>7, <3>8, <4>2, <5>1
      <4> QED BY <3>6, <4>1, <4>2
    <3> QED BY <3>9 DEF a, r
  <2> QED BY <2>1, <2>2 DEF t
<1> QED BY <1>1, <1>2

\* The fused score of a window two models looked at is a natural, if any.
LEMMA DualScoreIsNat ==
  ASSUME NEW w, NEW owner,
         \A m \in Modalities : w.answers[owner][m] \in Percentiles \cup {Mismatch, Raises},
         ArmScore("dual", owner, w) \notin {NoScore, Mismatch, Raises}
  PROVE  ArmScore("dual", owner, w) \in Nat
<1> DEFINE ranks == DualRanks(w, owner)
           p == FusePercentiles(ranks)
           total == KeyboardWeight + MouseWeight
<1>1. Counts(ranks) /\ ~Refused(ranks) /\ ArmScore("dual", owner, w) = Whole(p)
  <2>1. ArmScore("dual", owner, w) = IF Refused(ranks) THEN Mismatch
                                     ELSE IF Counts(ranks) THEN Whole(p) ELSE NoScore
    BY DEF ArmScore, Modalities
  <2> HIDE DEF ranks, p
  <2> QED BY <2>1
<1>2. \A m \in Modalities : ranks[m] \in Percentiles \cup {NoScore}
  <2> TAKE m \in Modalities
  <2>1. ranks[m] = w.answers[owner][m] \/ ranks[m] = NoScore
    BY DEF DualRanks, ScoreWindow
  <2>2. ranks[m] # Raises /\ ranks[m] # Mismatch
    BY <1>1 DEF Counts, Refused
  <2> QED BY <2>1, <2>2
<1>3. KeyboardWeight \in Nat /\ MouseWeight \in Nat /\ total \in Nat /\ total > 0
  BY ScoringAssumption
<1> HIDE DEF ranks
<1>4. p.sum \in Nat /\ p.weight \in {1, total}
  <2>1. CASE \A m \in Modalities : ranks[m] # NoScore
    <3> DEFINE all == [m \in Modalities |-> TRUE]
    <3>1. p = Mean(all, ranks)
      BY <2>1 DEF FusePercentiles
    <3>2. all["keyboard"] /\ all["mouse"] /\ "keyboard" \in Modalities /\ "mouse" \in Modalities
      BY DEF Modalities
    <3>3. ranks["keyboard"] \in Nat /\ ranks["mouse"] \in Nat
      BY <1>2, <2>1, <3>2 DEF Percentiles
    <3> HIDE DEF all, p
    <3>4. p.sum = ranks["keyboard"] * KeyboardWeight + ranks["mouse"] * MouseWeight
          /\ p.weight = 1 * KeyboardWeight + 1 * MouseWeight
      BY <3>1, <3>2 DEF Mean, Part
    <3> QED BY <1>3, <3>3, <3>4
  <2>2. CASE ~ \A m \in Modalities : ranks[m] # NoScore
    <3> DEFINE one == CHOOSE m \in Modalities : ranks[m] # NoScore
    <3>1. one \in Modalities /\ ranks[one] # NoScore
      BY <1>1 DEF Counts
    <3>2. p = [sum |-> ranks[one], weight |-> 1]
      BY <2>2 DEF FusePercentiles
    <3> HIDE DEF one, p
    <3> QED BY <1>2, <3>1, <3>2 DEF Percentiles
  <2> QED BY <2>1, <2>2
<1>5. Whole(p) = p.sum * (total \div p.weight)
  BY DEF Whole
<1> HIDE DEF p, total
<1>6. total \div p.weight \in Nat
  <2>1. \A n \in Nat : n > 0 => n \div 1 = n /\ n \div n = 1
    OBVIOUS
  <2> QED BY <1>3, <1>4, <2>1
<1>7. \A a, b \in Nat : a * b \in Nat
  OBVIOUS
<1> QED BY <1>1, <1>4, <1>5, <1>6, <1>7

\* Scores are a function on a part of the windows.
LEMMA ScoresOfSome ==
  ASSUME NEW owner, NEW ws, IsFiniteSet(ws),
         \A w \in ws : \A m \in Modalities : w.answers[owner][m] \in Percentiles \cup {Mismatch, Raises}
  PROVE  LET f == Scores("dual", owner, ws) IN
         /\ IsFiniteSet(DOMAIN f) /\ DOMAIN f \subseteq ws
         /\ \A w \in DOMAIN f : f[w] \in Nat
<1> DEFINE f == Scores("dual", owner, ws)
           some == Scored("dual", owner, ws)
<1>1. some \in SUBSET ws /\ \A w \in some : ArmScore("dual", owner, w) \notin {NoScore, Mismatch, Raises}
  BY DEF Scored
<1>2. DOMAIN f = some /\ \A w \in some : f[w] = ArmScore("dual", owner, w)
  BY DEF Scores
<1> HIDE DEF f, some
<1>3. \A w \in some : ArmScore("dual", owner, w) \in Nat
  BY <1>1, DualScoreIsNat
<1>4. IsFiniteSet(some)
  BY <1>1, FS_Subset
<1> QED BY <1>1, <1>2, <1>3, <1>4 DEF f

\* A function of finitely many arguments has finitely many values.
LEMMA RangeIsFinite ==
  ASSUME NEW f, IsFiniteSet(DOMAIN f)
  PROVE  IsFiniteSet(Range(f))
<1> DEFINE g == [x \in DOMAIN f |-> f[x]]
<1>1. g \in Surjection(DOMAIN f, Range(f))
  BY DEF Surjection, Range
<1> QED BY <1>1, FS_Surjection

\* The grid runs over all the scores.
LEMMA GridSpans ==
  ASSUME NEW S \in SUBSET Nat, IsFiniteSet(S), S # {}
  PROVE  /\ Grid(S) \in SUBSET Int /\ IsFiniteSet(Grid(S)) /\ Grid(S) # {}
         /\ \A a, b \in S : \A t \in Int : a <= t /\ t <= b => t \in Grid(S)
<1> DEFINE low == Min(S)
           high == Max(S)
           top == IF low = high THEN high + 1 ELSE high
<1>1. low \in S /\ \A y \in S : low <= y
  <2>1. \E x \in S : \A y \in S : x <= y
    BY LeastOfFinite
  <2> QED BY <2>1, Zenon DEF Min
<1>2. high \in S /\ \A y \in S : high >= y
  <2>1. \E x \in S : \A y \in S : x >= y
    BY GreatestExists
  <2> QED BY <2>1, Zenon DEF Max
<1>3. Grid(S) = low .. top
  BY DEF Grid
<1> HIDE DEF low, high
<1>4. low \in Int /\ top \in Int /\ low <= top /\ high <= top
  BY <1>1, <1>2
<1> HIDE DEF top
<1>5. IsFiniteSet(low .. top)
  BY <1>4, FS_Interval
<1>6. \A a, b \in S : \A t \in Int : a <= t /\ t <= b => t \in low .. top
  <2> TAKE a, b \in S
  <2> TAKE t \in Int
  <2>1. low <= a /\ b <= high /\ a \in Int /\ b \in Int /\ high \in Int
    BY <1>1, <1>2
  <2> QED BY <1>4, <2>1
<1>7. low .. top # {} /\ low .. top \in SUBSET Int
  BY <1>4
<1> QED BY <1>3, <1>5, <1>6, <1>7

(* What an activation measures: nothing without a genuine window that has  *)
(* a score, an acceptance rate exactly when there is a cohort besides, no  *)
(* rate above the whole it is a part of; and a cohort that scores below    *)
(* every genuine window is told apart without error (ADR-014, and          *)
(* tools/enrollment/activate.py).                                          *)
THEOREM FarNeedsCohortAlways ==
  ASSUME NEW user, NEW tests, user \in DOMAIN tests,
         IsFiniteSet(UNION {tests[o] : o \in DOMAIN tests}),
         \A o \in DOMAIN tests : \A w \in tests[o] : \A m \in Modalities :
            w.answers[user][m] \in Percentiles \cup {Mismatch, Raises}
  PROVE  LET metrics == ValidationMetrics(user, tests)
             genuine == Scores("dual", user, tests[user])
             cohort == Scores("dual", user, UNION {tests[o] : o \in DOMAIN tests \ {user}})
         IN /\ metrics.known = {} <=> DOMAIN genuine = {}
            /\ "far" \in metrics.known <=> DOMAIN genuine # {} /\ DOMAIN cohort # {}
            /\ metrics.frr <= Cardinality(DOMAIN genuine) /\ metrics.far <= Cardinality(DOMAIN cohort)
            /\ "far" \in metrics.known
                 /\ (\A g \in DOMAIN genuine, i \in DOMAIN cohort : cohort[i] < genuine[g])
                 => metrics.frr = 0 /\ metrics.far = 0
<1> DEFINE others == UNION {tests[o] : o \in DOMAIN tests \ {user}}
           metrics == ValidationMetrics(user, tests)
           genuine == Scores("dual", user, tests[user])
           cohort == Scores("dual", user, others)
           weight == KeyboardWeight + MouseWeight
           missed == {w \in DOMAIN genuine : Rejected([sum |-> genuine[w], weight |-> weight])}
           scores == Range(genuine) \cup Range(cohort)
           t == EqualErrorThreshold(genuine, cohort, Grid(scores))
<1>1. /\ IsFiniteSet(DOMAIN genuine) /\ \A w \in DOMAIN genuine : genuine[w] \in Nat
      /\ IsFiniteSet(DOMAIN cohort) /\ \A w \in DOMAIN cohort : cohort[w] \in Nat
  <2>1. /\ tests[user] \in SUBSET UNION {tests[o] : o \in DOMAIN tests}
        /\ others \in SUBSET UNION {tests[o] : o \in DOMAIN tests}
    OBVIOUS
  <2>2. IsFiniteSet(tests[user]) /\ IsFiniteSet(others)
    <3> HIDE DEF others
    <3> QED BY <2>1, FS_Subset
  <2>3. \A w \in others : \A m \in Modalities : w.answers[user][m] \in Percentiles \cup {Mismatch, Raises}
    OBVIOUS
  <2> HIDE DEF others
  <2> QED BY <2>2, <2>3, ScoresOfSome
<1>2. metrics = IF DOMAIN genuine = {} THEN [known |-> {}, frr |-> 0, far |-> 0]
                ELSE IF DOMAIN cohort = {} THEN [known |-> {"frr"}, frr |-> Cardinality(missed), far |-> 0]
                ELSE [known |-> {"frr", "far"},
                      frr |-> FalseRejections(genuine, t), far |-> FalseAcceptances(cohort, t)]
  BY Zenon DEF ValidationMetrics
<1>3. Cardinality(missed) <= Cardinality(DOMAIN genuine)
  <2>1. missed \in SUBSET DOMAIN genuine
    OBVIOUS
  <2> HIDE DEF missed, genuine
  <2> QED BY <1>1, <2>1, FS_Subset
<1>4. /\ FalseRejections(genuine, t) <= Cardinality(DOMAIN genuine)
      /\ FalseAcceptances(cohort, t) <= Cardinality(DOMAIN cohort)
      /\ Cardinality(DOMAIN genuine) \in Nat /\ Cardinality(DOMAIN cohort) \in Nat
  <2>1. \A c, n \in Nat : c \in 0 .. n => c <= n
    OBVIOUS
  <2> HIDE DEF genuine, cohort, t
  <2> QED BY <1>1, <2>1, RatesAreParts
<1>5. ASSUME DOMAIN genuine # {}, DOMAIN cohort # {},
             \A g \in DOMAIN genuine, i \in DOMAIN cohort : cohort[i] < genuine[g]
      PROVE  FalseRejections(genuine, t) = 0 /\ FalseAcceptances(cohort, t) = 0
  <2> HIDE DEF genuine, cohort
  <2>1. scores \in SUBSET Nat /\ IsFiniteSet(scores) /\ scores # {}
    <3>1. IsFiniteSet(Range(genuine)) /\ IsFiniteSet(Range(cohort))
      BY <1>1, RangeIsFinite
    <3>2. Range(genuine) \in SUBSET Nat /\ Range(cohort) \in SUBSET Nat /\ Range(genuine) # {}
      BY <1>1, <1>5 DEF Range
    <3> QED BY <3>1, <3>2, FS_Union
  <2>2. PICK b \in DOMAIN cohort : \A i \in DOMAIN cohort : cohort[b] >= cohort[i]
    <3>1. /\ Range(cohort) \in SUBSET Int /\ IsFiniteSet(Range(cohort)) /\ Range(cohort) # {}
      BY <1>1, <1>5, RangeIsFinite DEF Range
    <3>2. PICK x \in Range(cohort) : \A y \in Range(cohort) : x >= y
      BY <3>1, GreatestExists
    <3> QED BY <3>2 DEF Range
  <2>3. PICK a \in DOMAIN genuine : TRUE
    BY <1>5
  <2> DEFINE u == cohort[b] + 1
  <2>4. /\ u \in Int /\ cohort[b] <= u /\ u <= genuine[a]
        /\ \A x \in DOMAIN genuine : genuine[x] >= u
        /\ \A x \in DOMAIN cohort : cohort[x] < u
    <3>1. \A x \in DOMAIN genuine : genuine[x] >= u
      BY <1>1, <1>5, <2>2
    <3>2. \A x \in DOMAIN cohort : cohort[x] < u
      BY <1>1, <2>2
    <3> QED BY <1>1, <2>2, <2>3, <3>1, <3>2
  <2>5. cohort[b] \in scores /\ genuine[a] \in scores
    BY <2>2, <2>3 DEF Range
  <2> HIDE DEF scores, u
  <2>6. u \in Grid(scores)
    BY <2>1, <2>4, <2>5, GridSpans
  <2>7. Grid(scores) \in SUBSET Int /\ IsFiniteSet(Grid(scores)) /\ Grid(scores) # {}
    BY <2>1, GridSpans
  <2>8. (\A x \in DOMAIN genuine : genuine[x] \in Int) /\ \A x \in DOMAIN cohort : cohort[x] \in Int
    BY <1>1
  <2> QED BY <1>1, <1>5, <2>4, <2>6, <2>7, <2>8, RatesCrossAlways
<1> HIDE DEF metrics, genuine, cohort, missed, t
<1>6. CASE DOMAIN genuine = {}
  <2>1. metrics = [known |-> {}, frr |-> 0, far |-> 0]
    BY <1>2, <1>6
  <2> QED BY <1>4, <1>6, <2>1 DEF metrics, genuine, cohort
<1>7. CASE DOMAIN genuine # {} /\ DOMAIN cohort = {}
  <2>1. metrics = [known |-> {"frr"}, frr |-> Cardinality(missed), far |-> 0]
    BY <1>2, <1>7
  <2> QED BY <1>3, <1>4, <1>7, <2>1 DEF metrics, genuine, cohort
<1>8. CASE DOMAIN genuine # {} /\ DOMAIN cohort # {}
  <2>1. metrics = [known |-> {"frr", "far"},
                   frr |-> FalseRejections(genuine, t), far |-> FalseAcceptances(cohort, t)]
    BY <1>2, <1>8
  <2>2. /\ metrics.known = {"frr", "far"} /\ metrics.frr = FalseRejections(genuine, t)
        /\ metrics.far = FalseAcceptances(cohort, t)
    BY <2>1
  <2>3. /\ metrics.known # {} /\ "far" \in metrics.known
        /\ metrics.frr <= Cardinality(DOMAIN genuine) /\ metrics.far <= Cardinality(DOMAIN cohort)
    BY <1>4, <2>2
  <2>4. (\A g \in DOMAIN genuine, i \in DOMAIN cohort : cohort[i] < genuine[g])
           => metrics.frr = 0 /\ metrics.far = 0
    BY <1>5, <1>8, <2>2
  <2> QED BY <1>8, <2>3, <2>4, Zenon DEF metrics, genuine, cohort
<1> QED BY <1>6, <1>7, <1>8
=============================================================================
