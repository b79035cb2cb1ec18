----------------------------- MODULE UserLifecycle -----------------------------
(***************************************************************************)
(* The state of a monitored user and who moves it: UserStateMachine        *)
(* (risk/state.py) driven by the orchestrator's windows, heartbeats and    *)
(* watchdog (runtime/orchestrator.py) and by RiskEngine.process            *)
(* (risk/engine.py), written through to the users table, which is what a   *)
(* restarted process starts from.                                          *)
(*                                                                         *)
(* Everything but the administrator's requests runs on one event loop, so  *)
(* a window is processed to its end before a heartbeat or the watchdog is: *)
(* they wait for stage "idle".  The stages of a window are the writes at   *)
(* which it may fail and the reads an API thread may come between.  What   *)
(* a decision enforces is RiskEngine's and Enforcement's matter: here it   *)
(* is a free choice, where enforcement is enabled at all.                  *)
(*                                                                         *)
(* suspend, restart_enrollment and component_failed have no caller in the  *)
(* program: SUSPENDED is never entered.                                    *)
(***************************************************************************)
EXTENDS Integers

CONSTANTS
  Versions,     \* profile versions
  NoProfile,    \* profile_version "unavailable"
  Admins,       \* API threads serving PUT /v1/admin/shadow-mode
  MinWindows,   \* enrollment.min_windows, min_distinct_days counted in
  Calibration,  \* enrollment.calibration_windows
  Drills,       \* BOOLEAN, or {FALSE}: no attacker drill is run
  Faults        \* BOOLEAN, or {FALSE}: no storage write ever raises

ASSUME LifecycleAssumption ==
  /\ NoProfile \notin Versions
  /\ MinWindows \in Nat \ {0}
  /\ Calibration \in Nat \ {0}
  /\ Drills \in SUBSET BOOLEAN
  /\ Faults \in SUBSET BOOLEAN

VARIABLES
  state,      \* UserStateMachine._state; "DOWN" when no process runs
  before,     \* _pre_degraded, or "NONE"
  stored,     \* users.state
  drill,      \* whether this process has a drill label
  faulty,     \* whether storage writes may raise
  profile,    \* the profile version the provider would load
  scoring,    \* the one this window is scored with
  stage,      \* how far the current window has come
  window,     \* its evidence: see Kinds
  gathered,   \* feature windows of the user outside drills, up to MinWindows
  credit,     \* available scores of the user per version, up to Calibration
  own,        \* ghost: those of them scored outside drills
  beat,       \* the last heartbeat: "none" since the start, "fresh" or "late"
  failed,     \* _heartbeat_failed
  shadow,     \* the engine's _shadow_mode
  saved,      \* the persisted admin_shadow_mode
  request,    \* request[a]: the mode administrator a has saved and not applied
  enforces,   \* what policy.decide allowed for the decision being built
  decision,   \* the last RiskDecision
  health,     \* ghost: the last state other than DEGRADED the user was in
  down,       \* ghost: which of "model", "collector" has failed since it last worked
  signalled   \* ghost: the tamper alert of the current outage is stored

vars == <<state, before, stored, drill, faulty, profile, scoring, stage, window, gathered, credit,
          own, beat, failed, shadow, saved, request, enforces, decision, health, down, signalled>>
stateVars  == <<state, before, health>>
countVars  == <<gathered, credit, own>>
beatVars   == <<beat, failed, signalled>>
shadowVars == <<shadow, saved, request>>
windowVars == <<scoring, window, enforces>>

Live   == {"ENROLLING", "CALIBRATING", "ACTIVE"}
Users  == Live \cup {"DEGRADED"}
Kinds  == {"insufficient",  \* INSUFFICIENT_DATA
           "failed",        \* no required modality scored
           "partial",       \* one of two required modalities scored
           "scored"}        \* every required modality scored
Stages == {"idle", "enrol", "score", "calibrate", "process", "decide", "stamp"}
Modes  == {"on", "off"}

TypeOK ==
  /\ state \in Users \cup {"DOWN"} /\ stored \in Users
  /\ before \in Live \cup {"NONE"} /\ health \in Live
  /\ drill \in BOOLEAN /\ faulty \in BOOLEAN
  /\ profile \in Versions \cup {NoProfile} /\ scoring \in Versions \cup {NoProfile}
  /\ stage \in Stages /\ window \in Kinds
  /\ gathered \in 0 .. MinWindows
  /\ credit \in [Versions -> 0 .. Calibration] /\ own \in [Versions -> 0 .. Calibration]
  /\ beat \in {"none", "fresh", "late"} /\ failed \in BOOLEAN /\ signalled \in BOOLEAN
  /\ shadow \in Modes /\ saved \in Modes /\ request \in [Admins -> Modes \cup {"none"}]
  /\ enforces \in BOOLEAN
  /\ decision \in [state : Users \cup {"NONE"}, applied : BOOLEAN, shadow : BOOLEAN]
  /\ down \in SUBSET {"model", "collector"}

Init ==
  /\ state = "DOWN" /\ before = "NONE" /\ stored = "ENROLLING" /\ health = "ENROLLING"
  /\ drill = FALSE /\ faulty \in Faults
  /\ profile = NoProfile /\ scoring = NoProfile
  /\ stage = "idle" /\ window = "failed"
  /\ gathered = 0
  /\ credit = [v \in Versions |-> 0] /\ own = [v \in Versions |-> 0]
  /\ beat = "none" /\ failed = FALSE /\ signalled = FALSE
  /\ shadow = "off" /\ saved = "off" /\ request = [a \in Admins |-> "none"]
  /\ enforces = FALSE
  /\ decision = [state |-> "NONE", applied |-> FALSE, shadow |-> FALSE]
  /\ down = {}

Up == state # "DOWN"

(* The state machine has moved to s already when it is written.  A write   *)
(* that raises may have committed: the audit flush follows the commit.     *)
Persist(s, ok) == IF ok THEN stored' = s ELSE faulty /\ stored' \in {stored, s}

Raise == faulty /\ stage' = "idle"

(* Mutant: the transition stays in memory.                                 *)
Degrade_unwritten(ok) ==
  IF state = "DEGRADED" THEN ok /\ UNCHANGED <<stateVars, stored>>
  ELSE before' = state /\ state' = "DEGRADED" /\ ok /\ UNCHANGED <<stored, health>>

Degrade(ok) ==
  IF state = "DEGRADED" THEN ok /\ UNCHANGED <<stateVars, stored>>
  ELSE before' = state /\ state' = "DEGRADED" /\ Persist("DEGRADED", ok) /\ UNCHANGED health

Recover_active(ok) ==
  /\ state' = "ACTIVE" /\ health' = "ACTIVE" /\ before' = "NONE"
  /\ Persist("ACTIVE", ok)

Recover_stuck(ok) == ok /\ UNCHANGED <<stateVars, stored>>

Recover(ok) ==
  /\ state' = IF before = "NONE" THEN "ENROLLING" ELSE before
  /\ health' = state'
  /\ before' = "NONE"
  /\ Persist(state', ok)

Advance(s, ok) ==
  /\ state' = s /\ health' = s
  /\ Persist(s, ok)
  /\ UNCHANGED before

Decision(isApplied) ==
  decision' = [state |-> state', applied |-> isApplied,
               shadow |-> state' = "CALIBRATING" \/ shadow = "on"]
-----------------------------------------------------------------------------
(* Processes and profiles.                                                 *)

Start(isDrill) ==
  /\ ~Up
  /\ state' = stored
  /\ health' = IF stored = "DEGRADED" THEN health ELSE stored
  /\ before' = "NONE"
  /\ drill' = isDrill
  /\ beat' = "none" /\ failed' = FALSE /\ signalled' = FALSE
  /\ shadow' = saved
  /\ down' = {}
  /\ UNCHANGED <<stored, faulty, profile, windowVars, stage, countVars, saved, request,
                 decision>>

(* The process ends, in an orderly way or in the middle of a window.       *)
Stop ==
  /\ Up
  /\ state' = "DOWN"
  /\ stage' = "idle"
  /\ request' = [a \in Admins |-> "none"]
  /\ UNCHANGED <<before, stored, drill, faulty, profile, windowVars, countVars, beatVars, shadow,
                 saved, decision, health, down>>

(* Activation, promotion, rollback, or an artifact that no longer loads.   *)
ChangeProfile ==
  /\ profile' \in (Versions \cup {NoProfile}) \ {profile}
  /\ UNCHANGED <<stateVars, stored, drill, faulty, windowVars, stage, countVars, beatVars, shadowVars,
                 decision, down>>
-----------------------------------------------------------------------------
(* _process_window_inner, stage by stage.                                  *)

Counted(n, limit) == IF n < limit THEN n + 1 ELSE n

(* store_feature_window, then _refresh_profile.  Without a profile nothing *)
(* is scored; a window that adds no distinct day may add no evidence; the  *)
(* alert of a profile that fails to load may raise as well.                *)
StoreWindow(k) ==
  /\ Up /\ stage = "idle"
  /\ profile = NoProfile => k \in {"insufficient", "failed"}
  /\ window' = k
  /\ scoring' = profile
  /\ gathered' \in {gathered, IF drill THEN gathered ELSE Counted(gathered, MinWindows)}
  /\ (stage' = "enrol" \/ Raise)
  /\ UNCHANGED <<stateVars, stored, drill, faulty, profile, credit, own, beatVars, shadowVars, enforces,
                 decision, down>>

(* Mutant: any window ends enrollment.                                     *)
Target_early(count) ==
  IF state = "ENROLLING" THEN "CALIBRATING"
  ELSE IF state = "CALIBRATING" /\ count >= Calibration THEN "ACTIVE" ELSE state

(* observe_progress                                                        *)
Target(count) ==
  IF state = "ENROLLING" /\ gathered >= MinWindows THEN "CALIBRATING"
  ELSE IF state = "CALIBRATING" /\ count >= Calibration THEN "ACTIVE" ELSE state

(* _progress_enrollment_and_calibration                                    *)
Progress(count, next) ==
  IF scoring = NoProfile \/ drill \/ Target(count) = state
  THEN UNCHANGED <<stateVars, stored>> /\ stage' = next
  ELSE \E ok \in BOOLEAN :
         Advance(Target(count), ok) /\ stage' = IF ok THEN next ELSE "idle"

ProgressEnrollment ==
  /\ Up /\ stage = "enrol"
  /\ Progress(0, "score")
  /\ UNCHANGED <<drill, faulty, profile, windowVars, countVars, beatVars, shadowVars, decision, down>>

(* Rows with an available modality are what calibration counts.            *)
StoreScore ==
  /\ Up /\ stage = "score"
  /\ LET counts == window \in {"partial", "scored"}
         More(f) == IF counts THEN [f EXCEPT ![scoring] = Counted(@, Calibration)] ELSE f
     IN \/ /\ credit' = More(credit)
           /\ own' = IF drill THEN own ELSE More(own)
           /\ stage' = "calibrate"
        \/ Raise /\ UNCHANGED <<credit, own>>
  /\ UNCHANGED <<stateVars, stored, drill, faulty, profile, windowVars, gathered, beatVars, shadowVars,
                 decision, down>>

ProgressCalibration ==
  /\ Up /\ stage = "calibrate"
  /\ Progress(IF scoring = NoProfile THEN 0 ELSE credit[scoring], "process")
  /\ UNCHANGED <<drill, faulty, profile, windowVars, countVars, beatVars, shadowVars, decision, down>>

(* RiskEngine.process up to the policy's answer.                           *)
Ignore ==
  /\ state = "ENROLLING"
  /\ stage' = "idle"
  /\ UNCHANGED <<stateVars, stored, decision, down, enforces>>

Hold ==
  /\ state # "ENROLLING" /\ window = "insufficient"
  /\ stage' = "idle"
  /\ UNCHANGED <<stateVars, stored, down, enforces>>
  /\ Decision(FALSE)

FailOpen ==
  /\ state # "ENROLLING" /\ window \in {"failed", "partial"}
  /\ stage' = "idle"
  /\ down' = down \cup {"model"}
  /\ \E ok \in BOOLEAN :
       Degrade(ok) /\ IF ok THEN Decision(FALSE) ELSE UNCHANGED decision
  /\ UNCHANGED enforces

Fuse ==
  /\ state # "ENROLLING" /\ window = "scored"
  /\ down' = down \ {"model"}
  /\ IF state = "DEGRADED"
     THEN \E ok \in BOOLEAN : Recover(ok) /\ stage' = IF ok THEN "decide" ELSE "idle"
     ELSE UNCHANGED <<stateVars, stored>> /\ stage' = "decide"
  /\ UNCHANGED <<decision, enforces>>

Process ==
  /\ Up /\ stage = "process"
  /\ (Ignore \/ Hold \/ FailOpen \/ Fuse)
  /\ UNCHANGED <<drill, faulty, profile, scoring, window, countVars, beatVars, shadowVars>>

(* Mutant: shadow mode alone decides what is enforced.                     *)
Decide_anyState ==
  /\ Up /\ stage = "decide"
  /\ enforces' \in {FALSE, shadow = "off"}
  /\ stage' = "stamp"
  /\ UNCHANGED <<stateVars, stored, drill, faulty, profile, scoring, window, countVars, beatVars,
                 shadowVars, decision, down>>

Decide ==
  /\ Up /\ stage = "decide"
  /\ enforces' \in {FALSE, state = "ACTIVE" /\ shadow = "off"}
  /\ stage' = "stamp"
  /\ UNCHANGED <<stateVars, stored, drill, faulty, profile, scoring, window, countVars, beatVars,
                 shadowVars, decision, down>>

(* The RiskDecision is built, with a second look at the shadow mode.       *)
Stamp ==
  /\ Up /\ stage = "stamp"
  /\ stage' = "idle"
  /\ UNCHANGED <<stateVars, stored, drill, faulty, profile, windowVars, countVars, beatVars, shadowVars,
                 down>>
  /\ Decision(enforces)
-----------------------------------------------------------------------------
(* Heartbeats.                                                             *)

(* _handle_heartbeat: the flag is cleared after a recovery that may raise. *)
Heartbeat ==
  /\ Up /\ stage = "idle"
  /\ beat' = "fresh"
  /\ down' = down \ {"collector"}
  /\ IF failed /\ state = "DEGRADED"
     THEN \E ok \in BOOLEAN : Recover(ok) /\ failed' = ~ok
     ELSE UNCHANGED <<stateVars, stored>> /\ failed' = FALSE
  /\ signalled' = (signalled /\ failed')
  /\ UNCHANGED <<drill, faulty, profile, windowVars, stage, countVars, shadowVars, decision>>

(* The heartbeat's age passes heartbeat_timeout_seconds.                   *)
Age ==
  /\ Up /\ beat = "fresh"
  /\ beat' = "late"
  /\ UNCHANGED <<stateVars, stored, drill, faulty, profile, windowVars, stage, countVars, failed,
                 signalled, shadowVars, decision, down>>

(* Mutant: the alert is left to the next tick.                             *)
Watchdog_quiet ==
  /\ Up /\ stage = "idle"
  /\ beat = "late" /\ ~failed
  /\ failed' = TRUE
  /\ down' = down \cup {"collector"}
  /\ Degrade(TRUE)
  /\ UNCHANGED <<drill, faulty, profile, windowVars, stage, countVars, beat, signalled, shadowVars,
                 decision>>

(* check_heartbeat: the flag is set before the writes that may raise.      *)
Watchdog ==
  /\ Up /\ stage = "idle"
  /\ beat = "late" /\ ~failed
  /\ failed' = TRUE
  /\ down' = down \cup {"collector"}
  /\ \E ok \in BOOLEAN : Degrade(ok) /\ signalled' \in {ok, ok /\ ~faulty}
  /\ UNCHANGED <<drill, faulty, profile, windowVars, stage, countVars, beat, shadowVars, decision>>
-----------------------------------------------------------------------------
(* SQLiteApiBackend.set_shadow_mode, on an API thread: persist, then apply.*)
(* A request whose save raises after its commit never gets to apply.       *)

SaveShadow(a, mode) ==
  /\ Up
  /\ request[a] = "none"
  /\ saved' = mode
  /\ request' = [request EXCEPT ![a] = mode]
  /\ UNCHANGED <<stateVars, stored, drill, faulty, profile, windowVars, stage, countVars, beatVars,
                 shadow, decision, down>>

ApplyShadow(a) ==
  /\ Up
  /\ request[a] # "none"
  /\ shadow' = request[a]
  /\ request' = [request EXCEPT ![a] = "none"]
  /\ UNCHANGED <<stateVars, stored, drill, faulty, profile, windowVars, stage, countVars, beatVars,
                 saved, decision, down>>

Windows ==
  \/ ProgressEnrollment \/ StoreScore \/ ProgressCalibration \/ Process \/ Decide \/ Stamp

Next ==
  \/ \E d \in Drills : Start(d)
  \/ Stop \/ ChangeProfile
  \/ \E k \in Kinds : StoreWindow(k)
  \/ Windows
  \/ Heartbeat \/ Age \/ Watchdog
  \/ \E a \in Admins : (\E mode \in Modes : SaveShadow(a, mode)) \/ ApplyShadow(a)

Spec == Init /\ [][Next]_vars

(* A started window is processed to its end, and while windows can be      *)
(* scored, some are.                                                       *)
FairSpec == Spec /\ WF_vars(Windows) /\ SF_vars(StoreWindow("scored"))
-----------------------------------------------------------------------------
(* "The users table stops contradicting the decision records it sits       *)
(* beside" (risk/engine.py:58): a running process and the table agree.     *)
StoredAgrees == Up /\ ~faulty => stored = state

(* The evidence behind every state, in memory, held for recovery or        *)
(* stored, whatever is degraded, recovered, lost or restarted.             *)
Earned ==
  /\ "CALIBRATING" \in {state, before, stored} => gathered = MinWindows
  /\ "ACTIVE" \in {state, before, stored} =>
       gathered = MinWindows /\ \E v \in Versions : credit[v] = Calibration

(* "Enforcement is applied only in the ACTIVE state" (PLAN.md 11.5): what  *)
(* is enforced has a finished enrollment and a finished calibration behind *)
(* it.                                                                     *)
EnforcementEarned ==
  decision.applied =>
    /\ decision.state = "ACTIVE"
    /\ gathered = MinWindows /\ \E v \in Versions : credit[v] = Calibration

(* Enforcement decided on is stamped before anything else moves the state. *)
Sealed ==
  /\ ~Up => stage = "idle"
  /\ stage = "stamp" /\ enforces => state = "ACTIVE"

(* The inductive invariant behind both.                                    *)
LifecycleInv == TypeOK /\ Earned /\ EnforcementEarned /\ Sealed

(* "Heartbeat loss -> tamper signal" (PLAN.md 13.6): an outage the         *)
(* watchdog has dealt with has its alert stored.                           *)
LossIsSignalled == failed /\ beat = "late" /\ ~faulty => signalled

(* "Apply the already-persisted administrative mode" (set_shadow_mode):    *)
(* with no request under way the engine is in the mode that was saved.     *)
AppliesLastSaved == Up /\ (\A a \in Admins : request[a] = "none") => shadow = saved

(* "Without this, DEGRADED is a one-way door" (risk/engine.py:219): a      *)
(* process that keeps running, with a profile to score by, leaves it.      *)
NotAOneWayDoor ==
  ~faulty /\ <>[]Up /\ []<>(stage = "idle" /\ profile # NoProfile)
    => (state = "DEGRADED" ~> state \in Live)

(* "A user who degraded while ACTIVE returns to ACTIVE and one who         *)
(* degraded while CALIBRATING returns to CALIBRATING" (component_recovered).*)
RestoresPrior == [][state = "DEGRADED" /\ state' \in Live => state' = health]_vars

(* "Leave DEGRADED once the unavailable component is back"                 *)
(* (component_recovered): and not while another is still failing.          *)
RecoversWhenBack == [][state = "DEGRADED" /\ state' \in Live => down' = {}]_vars

(* "In ENROLLING no decisions are computed" (PLAN.md 11.5).                *)
NoDecisionWhileEnrolling == decision.state # "ENROLLING"

(* "Nor can any window from a declared attacker-drill session" count       *)
(* toward calibration (PLAN.md 5.3).                                       *)
CreditIsGenuine == state = "ACTIVE" => \E v \in Versions : own[v] = Calibration

(* "A superseded profile version restarts the shadow period rather than    *)
(* inheriting the previous one's credit" (PLAN.md 5.3).                    *)
FreshProfileShadowed ==
  [][stage = "stamp" /\ decision' # decision /\ decision'.applied
       => credit[scoring] = Calibration]_vars

(* The same as LossIsSignalled and StoredAgrees, for what a decision says, *)
(* when writes may raise.                                                  *)
LossSignalledDespiteFaults == failed /\ beat = "late" => signalled
WrittenDespiteFaults == [][decision' # decision => decision'.state = stored']_vars

(* Shadow mode: "decisions computed and logged but not enforced" (PLAN.md, *)
(* glossary).                                                              *)
NeverEnforcedInShadow == ~(decision.applied /\ decision.shadow)
=============================================================================
