---------------------------- MODULE DecisionPolicy ----------------------------
(***************************************************************************)
(* DecisionPolicy (decisions/policy.py): the cooldown of each action and   *)
(* the budget of all of them.  Timestamps are kept as ages, t_decision_us  *)
(* minus the stored time, in units of the capture clock; an age stops at   *)
(* Cooldown, from where every comparison of the code gives the same        *)
(* answer, and an action never applied has that age.                       *)
(***************************************************************************)
EXTENDS Integers, Sequences

CONSTANTS
  Cooldown,   \* cooldown_us
  Budget      \* action_budget

ASSUME CooldownAssumption == Cooldown \in Nat \ {0}
ASSUME BudgetAssumption   == Budget \in Nat \ {0}

VARIABLES
  last,       \* _last_by_action
  applied,    \* _applied_times, oldest first
  log         \* ghost: what was applied less than Cooldown ago, oldest first

policyVars == <<last, applied, log>>

Actions == {"SOFT_CHALLENGE", "REAUTH", "TERMINATE"}
Ages    == 0 .. Cooldown
Entry   == [action : Actions, age : 0 .. Cooldown - 1]

PolicyTypeOK ==
  /\ last \in [Actions -> Ages]
  /\ applied \in Seq(Ages)
  /\ log \in Seq(Entry)

PolicyInit ==
  /\ last = [a \in Actions |-> Cooldown]
  /\ applied = <<>>
  /\ log = <<>>

(* The popleft loop takes the first n times: those at or before the start  *)
(* of the sliding window, up to the first later one.                       *)
Expired(n) ==
  /\ \A i \in 1 .. n : applied[i] >= Cooldown
  /\ n < Len(applied) => applied[n + 1] < Cooldown
Kept(n) == SubSeq(applied, n + 1, Len(applied))

(* Not enforcing, or nothing to enforce: an early return before any        *)
(* bookkeeping.                                                            *)
Skip == UNCHANGED policyVars

(* Mutant: a suppressed action starts its cooldown anew.                   *)
Cool_restamps(a) ==
  /\ last[a] < Cooldown
  /\ \E n \in 0 .. Len(applied) : Expired(n) /\ applied' = Kept(n)
  /\ last' = [last EXCEPT ![a] = 0]
  /\ UNCHANGED log

Cool(a) ==
  /\ last[a] < Cooldown
  /\ \E n \in 0 .. Len(applied) : Expired(n) /\ applied' = Kept(n)
  /\ UNCHANGED <<last, log>>

Exhaust(a) ==
  /\ last[a] >= Cooldown
  /\ \E n \in 0 .. Len(applied) :
       Expired(n) /\ Len(Kept(n)) >= Budget /\ applied' = Kept(n)
  /\ UNCHANGED <<last, log>>

(* Mutants: the budget tested before the window slides is harmless, but    *)
(* not an off-by-one in it ...                                             *)
Apply_overBudget(a) ==
  /\ last[a] >= Cooldown
  /\ \E n \in 0 .. Len(applied) :
       Expired(n) /\ Len(Kept(n)) <= Budget /\ applied' = Append(Kept(n), 0)
  /\ last' = [last EXCEPT ![a] = 0]
  /\ log' = Append(log, [action |-> a, age |-> 0])

(* ... nor an action that forgets when it was applied.                     *)
Apply_unstamped(a) ==
  /\ last[a] >= Cooldown
  /\ \E n \in 0 .. Len(applied) :
       Expired(n) /\ Len(Kept(n)) < Budget /\ applied' = Append(Kept(n), 0)
  /\ last' = last
  /\ log' = Append(log, [action |-> a, age |-> 0])

Apply(a) ==
  /\ last[a] >= Cooldown
  /\ \E n \in 0 .. Len(applied) :
       Expired(n) /\ Len(Kept(n)) < Budget /\ applied' = Append(Kept(n), 0)
  /\ last' = [last EXCEPT ![a] = 0]
  /\ log' = Append(log, [action |-> a, age |-> 0])

Older(n) == IF n = Cooldown THEN n ELSE n + 1

(* One unit of capture time between two decisions.                         *)
Elapse ==
  /\ last' = [a \in Actions |-> Older(last[a])]
  /\ applied' = [i \in 1 .. Len(applied) |-> Older(applied[i])]
  /\ \E m \in 0 .. Len(log) :
       /\ \A i \in 1 .. m : log[i].age + 1 >= Cooldown
       /\ m < Len(log) => log[m + 1].age + 1 < Cooldown
       /\ log' = [i \in 1 .. Len(log) - m |->
                    [action |-> log[i + m].action, age |-> log[i + m].age + 1]]

PolicyNext ==
  \/ \E a \in Actions : Cool(a) \/ Exhaust(a) \/ Apply(a)
  \/ Elapse

PolicySpec == PolicyInit /\ [][PolicyNext]_policyVars
-----------------------------------------------------------------------------
(* "At most 2 enforcement actions of any type may apply within any rolling *)
(* 60s window" (docs/pilot/final-attacker-drill-guide.md): the lazily      *)
(* trimmed deque never lets more than Budget through.                      *)
BudgetHeld == Len(log) <= Budget

(* "The same action cannot both apply within 60s of each other" (the same  *)
(* table): per-action cooldown.                                            *)
Spaced == \A i, j \in 1 .. Len(log) : log[i].action = log[j].action => i = j

(* The inductive invariant behind them: the log is the recent end of the   *)
(* deque, whose other times have left the window, and no logged action is  *)
(* older than its stamp.                                                   *)
PolicyInv ==
  /\ PolicyTypeOK
  /\ Len(applied) <= Budget
  /\ Len(log) <= Len(applied)
  /\ \A i \in 1 .. Len(log) : log[i].age = applied[i + (Len(applied) - Len(log))]
  /\ \A i \in 1 .. Len(applied) - Len(log) : applied[i] = Cooldown
  /\ \A i \in 1 .. Len(log) : last[log[i].action] <= log[i].age
  /\ \A i, j \in 1 .. Len(log) : i < j => log[i].age >= log[j].age
  /\ Spaced
=============================================================================
