------------------------------ MODULE RiskEngine ------------------------------
(***************************************************************************)
(* RiskEngine.process for a window whose required modalities were scored   *)
(* (risk/engine.py): breach history, hysteresis and DecisionPolicy         *)
(* composed.  UserLifecycle models the states of the user around it; here  *)
(* "enforcing" is what they amount to, state == ACTIVE and not shadow      *)
(* mode.  A window without evidence holds everything, and so takes no step.*)
(***************************************************************************)
EXTENDS BreachHistory, DecisionPolicy

VARIABLES
  enforcing,  \* enforcement_enabled
  decision    \* action and enforcement_applied of the last RiskDecision

engineVars == <<history, level, quiet, peak, strikes, last, applied, log, enforcing, decision>>

EngineTypeOK ==
  /\ BreachTypeOK
  /\ PolicyTypeOK
  /\ enforcing \in BOOLEAN
  /\ decision \in [action : Actions \cup {"CONTINUE", "NONE"}, applied : BOOLEAN]

EngineInit ==
  /\ BreachInit
  /\ PolicyInit
  /\ enforcing \in BOOLEAN
  /\ decision = [action |-> "NONE", applied |-> FALSE]

(* Mutant: K high scores are enough to terminate.                          *)
Requested_hasty(lvl, highs) ==
  CASE lvl = 0 -> "CONTINUE"
    [] lvl = 1 -> "SOFT_CHALLENGE"
    [] lvl = 2 -> IF highs >= K THEN "TERMINATE" ELSE "REAUTH"

Requested(lvl, highs) ==
  CASE lvl = 0 -> "CONTINUE"
    [] lvl = 1 -> "SOFT_CHALLENGE"
    [] lvl = 2 -> IF highs >= N THEN "TERMINATE" ELSE "REAUTH"

Emit(action, isApplied) == decision' = [action |-> action, applied |-> isApplied]

Decide(a) ==
  \/ (~enforcing \/ a = "CONTINUE") /\ Skip /\ Emit(a, FALSE)
  \/ enforcing /\ a \in Actions /\ Cool(a) /\ Emit("NONE", FALSE)
  \/ enforcing /\ a \in Actions /\ Exhaust(a) /\ Emit("NONE", FALSE)
  \/ enforcing /\ a \in Actions /\ Apply(a) /\ Emit(a, TRUE)

Process(x) ==
  /\ Observe(x)
  /\ Decide(Requested(level', Reaching(history', 2)))
  /\ UNCHANGED enforcing

(* The user's state or the administrator's shadow mode changes.            *)
Gate ==
  /\ enforcing' = ~enforcing
  /\ UNCHANGED <<history, level, quiet, peak, strikes, last, applied, log, decision>>

Pass ==
  /\ Elapse
  /\ UNCHANGED <<history, level, quiet, peak, strikes, enforcing, decision>>

EngineNext == (\E x \in Bands : Process(x)) \/ Gate \/ Pass

EngineSpec == EngineInit /\ [][EngineNext]_engineVars

(* Windows keep closing while input arrives, and capture time passes.      *)
FairEngineSpec ==
  EngineSpec /\ WF_engineVars(\E x \in Bands : Process(x)) /\ WF_engineVars(Pass)
-----------------------------------------------------------------------------
(* "A single anomalous window must never trigger enforcement" (PLAN.md     *)
(* P6): nothing is enforced on fewer than K raised scores since the user   *)
(* was last quiet, whatever hysteresis, cooldown and gating held back      *)
(* meanwhile.                                                              *)
NoSnapJudgement == decision.applied => strikes = K

(* TERMINATE answers only a full history of high scores (PLAN.md 11.3,     *)
(* "sustained beyond escalation window").                                  *)
TerminateIsSustained == decision.action = "TERMINATE" => peak = N

(* Cooldown and budget delay the answer to a sustained anomaly and never   *)
(* starve it.                                                              *)
Answered == <>[](level > 0 /\ enforcing) => []<>decision.applied
=============================================================================
