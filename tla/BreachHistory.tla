----------------------------- MODULE BreachHistory -----------------------------
(***************************************************************************)
(* The K-of-N breach counter and the hysteresis of RiskEngine              *)
(* (risk/engine.py).  A smoothed score matters only through the thresholds *)
(* it reaches, so a score and a level share one scale: 0 below medium, 1   *)
(* from medium, 2 from high; LOW, MEDIUM, HIGH.  The EWMA may put the next *)
(* score in any band.                                                      *)
(***************************************************************************)
EXTENDS Integers, Sequences, FiniteSets

CONSTANTS
  K,          \* breach_k
  N           \* breach_n

ASSUME BreachAssumption == K \in Nat \ {0} /\ N \in Nat \ {0} /\ K <= N

VARIABLES
  history,    \* _history, oldest first
  level,      \* _risk_level
  quiet,      \* ghost: consecutive latest scores below each threshold, up to N
  peak,       \* ghost: consecutive latest scores from high up, up to N
  strikes     \* ghost: scores from medium up since the last N quiet ones, up to K

breachVars == <<history, level, quiet, peak, strikes>>

Bands  == 0 .. 2
Raised == {1, 2}

BreachTypeOK ==
  /\ history \in Seq(Bands) /\ Len(history) <= N
  /\ level \in Bands
  /\ quiet \in [Raised -> 0 .. N]
  /\ peak \in 0 .. N
  /\ strikes \in 0 .. K

BreachInit ==
  /\ history = <<>>
  /\ level = 0
  /\ quiet = [b \in Raised |-> 0]
  /\ peak = 0
  /\ strikes = 0

Reaching(h, b) == Cardinality({i \in 1 .. Len(h) : h[i] >= b})

(* deque(maxlen=breach_n).                                                 *)
Appended(h, x) == IF Len(h) < N THEN Append(h, x) ELSE Append(Tail(h), x)

Candidate(h) == IF Reaching(h, 2) >= K THEN 2 ELSE IF Reaching(h, 1) >= K THEN 1 ELSE 0

WithHysteresis(current, h, candidate) ==
  IF candidate >= current THEN candidate
  ELSE IF Len(h) < N THEN current
  ELSE IF \A i \in 1 .. Len(h) : h[i] < current THEN candidate ELSE current

Counted(n, limit) == IF n < limit THEN n + 1 ELSE n

(* Mutant: the level is taken from the history before the score joins it.  *)
Observe_before(x) ==
  /\ history' = Appended(history, x)
  /\ level' = WithHysteresis(level, history, Candidate(history))
  /\ quiet' = [b \in Raised |-> IF x < b THEN Counted(quiet[b], N) ELSE 0]
  /\ peak' = IF x = 2 THEN Counted(peak, N) ELSE 0
  /\ strikes' = IF x > 0 THEN Counted(strikes, K) ELSE IF quiet'[1] = N THEN 0 ELSE strikes

(* A window with a fused score.                                            *)
Observe(x) ==
  /\ history' = Appended(history, x)
  /\ level' = WithHysteresis(level, history', Candidate(history'))
  /\ quiet' = [b \in Raised |-> IF x < b THEN Counted(quiet[b], N) ELSE 0]
  /\ peak' = IF x = 2 THEN Counted(peak, N) ELSE 0
  /\ strikes' = IF x > 0 THEN Counted(strikes, K) ELSE IF quiet'[1] = N THEN 0 ELSE strikes

BreachSpec == BreachInit /\ [][\E x \in Bands : Observe(x)]_breachVars
-----------------------------------------------------------------------------
(* "De-escalation requires a longer sustained period of normal behavior    *)
(* than escalation required" (PLAN.md 11.3): the level falls only after a  *)
(* full history below the threshold it falls from.                         *)
FallsOnlyWhenQuiet == [][level' < level => quiet'[level] = N]_breachVars

(* "Recovery on return to normal" (PLAN.md 13.6): after a full history     *)
(* below a threshold the level is below it too.                            *)
QuietMeansBelow == \A b \in Raised : quiet[b] = N => level < b
=============================================================================
