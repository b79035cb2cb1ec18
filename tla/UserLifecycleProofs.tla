-------------------------- MODULE UserLifecycleProofs --------------------------
(***************************************************************************)
(* Enforcement is earned: for any number of profile versions, windows and  *)
(* administrators, and whichever writes raise, what is enforced has a      *)
(* finished enrollment and calibration behind it.                          *)
(***************************************************************************)
EXTENDS UserLifecycle, TLAPS

(* What Earned and EnforcementEarned ask of the evidence, by rung.         *)
Enrolled   == gathered = MinWindows
Calibrated == Enrolled /\ \E v \in Versions : credit[v] = Calibration

(* Counting stays within its limit and never goes back.                    *)
LEMMA CountedBounds ==
  ASSUME NEW limit \in Nat, NEW n \in 0 .. limit
  PROVE  /\ Counted(n, limit) \in 0 .. limit
         /\ n = limit => Counted(n, limit) = limit
BY SMT DEF Counted

(* Evidence that only grows keeps Earned, as long as the state moves       *)
(* nowhere.                                                                *)
LEMMA EvidenceGrows ==
  ASSUME Earned, EnforcementEarned, UNCHANGED <<stateVars, stored, decision>>,
         Enrolled => Enrolled',
         Calibrated => Calibrated'
  PROVE  Earned' /\ EnforcementEarned'
BY DEF Earned, EnforcementEarned, Enrolled, Calibrated, stateVars

(* The evidence being what it was, Earned follows the three variables.     *)
LEMMA StateMoves ==
  ASSUME Earned, UNCHANGED <<gathered, credit>>,
         \A s \in {state', before', stored'} :
            \/ s \in {state, before, stored}
            \/ s \notin {"CALIBRATING", "ACTIVE"}
            \/ s = "CALIBRATING" /\ Enrolled
            \/ s = "ACTIVE" /\ Calibrated
  PROVE  Earned'
BY DEF Earned, Enrolled, Calibrated

(* A move to DEGRADED keeps what was earned.                               *)
LEMMA DegradeStep ==
  ASSUME TypeOK, Earned, Up, NEW ok \in BOOLEAN, Degrade(ok), UNCHANGED <<gathered, credit>>
  PROVE  /\ Earned'
         /\ state' \in Users /\ stored' \in Users /\ before' \in Live \cup {"NONE"}
         /\ health' \in Live
         /\ state' = "DEGRADED"
<1>1. /\ state' = "DEGRADED"
      /\ before' \in {before, state} /\ stored' \in {stored, "DEGRADED"} /\ health' = health
      /\ before' = before \/ state # "DEGRADED"
  BY DEF Degrade, Persist, stateVars
<1>2. Earned'
  BY <1>1, StateMoves
<1> QED BY <1>1, <1>2 DEF TypeOK, Up, Users

(* So does recovery.                                                       *)
LEMMA RecoverStep ==
  ASSUME TypeOK, Earned, NEW ok \in BOOLEAN, Recover(ok), UNCHANGED <<gathered, credit>>
  PROVE  /\ Earned'
         /\ state' \in Users /\ stored' \in Users /\ before' \in Live \cup {"NONE"}
         /\ health' \in Live
<1>1. /\ state' \in Live /\ state' \in {before, "ENROLLING"} /\ health' = state'
      /\ before' = "NONE" /\ stored' \in {stored, state'}
  BY DEF Recover, Persist, TypeOK, Live
<1>2. Earned'
  BY <1>1, StateMoves
<1> QED BY <1>1, <1>2 DEF TypeOK, Users

(* So does a move by evidence.                                             *)
LEMMA ProgressStep ==
  ASSUME TypeOK, Earned, Up, NEW count, NEW next \in Stages, Progress(count, next),
         count = Calibration => \E v \in Versions : credit[v] = Calibration,
         count \in 0 .. Calibration,
         UNCHANGED <<gathered, credit>>
  PROVE  /\ Earned'
         /\ state' \in Users /\ stored' \in Users /\ before' \in Live \cup {"NONE"}
         /\ health' \in Live
         /\ stage' \in {next, "idle"}
<1>1. CASE UNCHANGED <<stateVars, stored>> /\ stage' = next
  BY <1>1, StateMoves DEF TypeOK, stateVars, Up, Users
<1>2. ASSUME NEW ok \in BOOLEAN, Target(count) # state, Advance(Target(count), ok),
             stage' = IF ok THEN next ELSE "idle"
      PROVE  /\ Earned'
             /\ state' \in Users /\ stored' \in Users /\ before' \in Live \cup {"NONE"}
             /\ health' \in Live
             /\ stage' \in {next, "idle"}
  <2>1. /\ state' = Target(count) /\ health' = state' /\ before' = before
        /\ stored' \in {stored, state'}
    BY <1>2 DEF Advance, Persist
  <2>2. \/ state' = "CALIBRATING" /\ Enrolled
        \/ state' = "ACTIVE" /\ Calibrated
    BY <2>1, <1>2, LifecycleAssumption DEF Target, Enrolled, Calibrated, TypeOK, Earned
  <2>3. Earned'
    BY <2>1, <2>2, StateMoves
  <2> QED BY <2>1, <2>2, <2>3, <1>2 DEF TypeOK, Users, Live
<1> QED BY <1>1, <1>2 DEF Progress

(* The initial state.                                                      *)
LEMMA InitInv == Init => LifecycleInv
<1> SUFFICES ASSUME Init PROVE LifecycleInv
  OBVIOUS
<1> USE LifecycleAssumption DEF Init
<1>1. decision \in [state : Users \cup {"NONE"}, applied : BOOLEAN, shadow : BOOLEAN]
  OBVIOUS
<1>2. credit \in [Versions -> 0 .. Calibration] /\ own \in [Versions -> 0 .. Calibration]
  OBVIOUS
<1>3. request \in [Admins -> Modes \cup {"none"}] /\ down \in SUBSET {"model", "collector"}
  OBVIOUS
<1>4. /\ state \in Users \cup {"DOWN"} /\ stored \in Users
      /\ before \in Live \cup {"NONE"} /\ health \in Live
      /\ stage \in Stages /\ window \in Kinds /\ gathered \in 0 .. MinWindows
      /\ shadow \in Modes /\ saved \in Modes
  BY DEF Users, Live, Kinds, Stages, Modes
<1>5. TypeOK
  BY <1>1, <1>2, <1>3, <1>4 DEF TypeOK
<1>6. Earned /\ EnforcementEarned /\ Sealed
  BY DEF Earned, EnforcementEarned, Sealed, Up
<1> QED BY <1>5, <1>6 DEF LifecycleInv

(* A process starts from what is stored, and stops in any stage.           *)
LEMMA StartStop ==
  ASSUME LifecycleInv, Stop \/ \E d \in Drills : Start(d)
  PROVE  LifecycleInv'
<1> USE LifecycleAssumption
<1>1. CASE Stop
  <2>1. Earned'
    BY <1>1, StateMoves DEF Stop, LifecycleInv, countVars
  <2>2. TypeOK'
    BY <1>1 DEF Stop, LifecycleInv, TypeOK, windowVars, countVars, beatVars, Stages
  <2> QED BY <1>1, <2>1, <2>2 DEF Stop, LifecycleInv, EnforcementEarned, Sealed, countVars
<1>2. ASSUME NEW d \in Drills, Start(d)
      PROVE  LifecycleInv'
  <2>1. Earned'
    BY <1>2, StateMoves DEF Start, LifecycleInv, countVars
  <2>2. TypeOK'
    <3>1. d \in BOOLEAN
      BY <1>2
    <3>2. /\ state' \in Users \cup {"DOWN"} /\ stored' \in Users
          /\ before' \in Live \cup {"NONE"} /\ health' \in Live
      BY <1>2 DEF Start, LifecycleInv, TypeOK, Users, Live
    <3> QED
      BY <1>2, <3>1, <3>2 DEF Start, LifecycleInv, TypeOK, windowVars, countVars
  <2> QED BY <1>2, <2>1, <2>2
          DEF Start, LifecycleInv, EnforcementEarned, Sealed, Up, countVars, windowVars
<1> QED BY <1>1, <1>2

(* Actions that touch neither the evidence nor the state.                  *)
LEMMA AsideSteps ==
  ASSUME LifecycleInv,
         \/ ChangeProfile \/ Age
         \/ \E a \in Admins : (\E mode \in Modes : SaveShadow(a, mode)) \/ ApplyShadow(a)
  PROVE  LifecycleInv'
<1>1. UNCHANGED <<stateVars, stored, gathered, credit, stage, enforces, decision>>
  BY DEF ChangeProfile, Age, SaveShadow, ApplyShadow, windowVars, countVars
<1>2. TypeOK'
  <2>1. CASE ChangeProfile
    BY <2>1 DEF ChangeProfile, LifecycleInv, TypeOK, stateVars, windowVars, countVars, beatVars,
                shadowVars
  <2>2. CASE Age
    BY <2>2 DEF Age, LifecycleInv, TypeOK, stateVars, windowVars, countVars, shadowVars
  <2>3. ASSUME NEW a \in Admins, NEW mode \in Modes, SaveShadow(a, mode)
        PROVE  TypeOK'
    BY <2>3 DEF SaveShadow, LifecycleInv, TypeOK, stateVars, windowVars, countVars, beatVars
  <2>4. ASSUME NEW a \in Admins, ApplyShadow(a)
        PROVE  TypeOK'
    BY <2>4 DEF ApplyShadow, LifecycleInv, TypeOK, stateVars, windowVars, countVars, beatVars,
                Modes
  <2> QED BY <2>1, <2>2, <2>3, <2>4
<1> QED BY <1>1, <1>2
        DEF LifecycleInv, Earned, EnforcementEarned, Sealed, Up, stateVars

(* A window is stored.                                                     *)
LEMMA StoreWindowStep ==
  ASSUME LifecycleInv, NEW k \in Kinds, StoreWindow(k)
  PROVE  LifecycleInv'
<1> USE LifecycleAssumption
<1>1. /\ gathered' \in 0 .. MinWindows
      /\ Enrolled => Enrolled'
  BY CountedBounds DEF StoreWindow, LifecycleInv, TypeOK, Enrolled
<1>2. Earned' /\ EnforcementEarned'
  BY <1>1, EvidenceGrows DEF StoreWindow, LifecycleInv, Calibrated
<1>3. TypeOK'
  BY <1>1 DEF StoreWindow, Raise, LifecycleInv, TypeOK, stateVars, beatVars, shadowVars, Stages
<1> QED BY <1>2, <1>3 DEF StoreWindow, Raise, LifecycleInv, Sealed, Up, stateVars

(* Its score is stored.                                                    *)
LEMMA StoreScoreStep ==
  ASSUME LifecycleInv, StoreScore
  PROVE  LifecycleInv'
<1> USE LifecycleAssumption
<1> DEFINE More(f) ==
      IF window \in {"partial", "scored"}
      THEN [f EXCEPT ![scoring] = Counted(@, Calibration)] ELSE f
<1>1. ASSUME NEW f \in [Versions -> 0 .. Calibration]
      PROVE  /\ More(f) \in [Versions -> 0 .. Calibration]
             /\ \A v \in Versions : f[v] = Calibration => More(f)[v] = Calibration
  BY <1>1, CountedBounds
<1>2. credit' \in {credit, More(credit)} /\ own' \in {own, More(own)}
  BY DEF StoreScore
<1>3. /\ credit' \in [Versions -> 0 .. Calibration] /\ own' \in [Versions -> 0 .. Calibration]
      /\ \A v \in Versions : credit[v] = Calibration => credit'[v] = Calibration
  <2> HIDE DEF More
  <2> QED BY <1>1, <1>2 DEF LifecycleInv, TypeOK
<1>4. gathered' = gathered /\ UNCHANGED <<stateVars, stored, decision>>
  BY DEF StoreScore
<1>5. Earned' /\ EnforcementEarned'
  BY <1>3, <1>4, EvidenceGrows DEF LifecycleInv, Calibrated, Enrolled
<1>6. stage' \in {"calibrate", "idle"}
  BY DEF StoreScore, Raise
<1>7. TypeOK'
  BY <1>3, <1>4, <1>6
     DEF StoreScore, LifecycleInv, TypeOK, stateVars, beatVars, shadowVars, windowVars, Stages
<1> QED BY <1>4, <1>5, <1>6, <1>7 DEF StoreScore, LifecycleInv, Sealed, Up, stateVars

(* Enrollment or calibration progresses.                                   *)
LEMMA ProgressSteps ==
  ASSUME LifecycleInv, ProgressEnrollment \/ ProgressCalibration
  PROVE  LifecycleInv'
<1> USE LifecycleAssumption
<1> DEFINE Reached ==
      /\ Earned'
      /\ state' \in Users /\ stored' \in Users /\ before' \in Live \cup {"NONE"}
      /\ health' \in Live
      /\ stage' \in {"score", "process", "idle"}
<1>1. UNCHANGED <<gathered, credit>> /\ Up
  BY DEF ProgressEnrollment, ProgressCalibration, countVars
<1>2. CASE ProgressEnrollment
  <2>1. Progress(0, "score")
    BY <1>2 DEF ProgressEnrollment
  <2>2. Reached
    BY <1>1, <2>1, ProgressStep DEF LifecycleInv, Stages
  <2> QED BY <1>2, <2>2
          DEF ProgressEnrollment, LifecycleInv, TypeOK, EnforcementEarned, Sealed, Up, Users,
              Live, Stages, windowVars, countVars, beatVars, shadowVars
<1>3. CASE ProgressCalibration
  <2> DEFINE count == IF scoring = NoProfile THEN 0 ELSE credit[scoring]
  <2>1. Progress(count, "process")
    BY <1>3 DEF ProgressCalibration
  <2>2. /\ count \in 0 .. Calibration
        /\ count = Calibration => \E v \in Versions : credit[v] = Calibration
    BY DEF LifecycleInv, TypeOK
  <2> HIDE DEF count
  <2>3. Reached
    BY <1>1, <2>1, <2>2, ProgressStep DEF LifecycleInv, Stages
  <2> QED BY <1>3, <2>3
          DEF ProgressCalibration, LifecycleInv, TypeOK, EnforcementEarned, Sealed, Up, Users,
              Live, Stages, windowVars, countVars, beatVars, shadowVars
<1> QED BY <1>2, <1>3

(* What the two ways a recovery or a degradation is called have in common. *)
LEMMA Moved ==
  ASSUME LifecycleInv, Earned', UNCHANGED <<gathered, credit>>,
         state' \in Users, stored' \in Users, before' \in Live \cup {"NONE"}, health' \in Live,
         stage' \in {"idle", "decide"},
         UNCHANGED <<drill, faulty, profile, scoring, window, countVars, shadowVars, enforces>>,
         UNCHANGED beat \/ beat' = "fresh", failed' \in BOOLEAN, signalled' \in BOOLEAN,
         down' \in SUBSET {"model", "collector"},
         decision' = decision \/
           decision' \in [state : Users, applied : {FALSE}, shadow : BOOLEAN]
  PROVE  LifecycleInv'
<1>1. TypeOK'
  BY DEF LifecycleInv, TypeOK, countVars, shadowVars, Stages
<1>2. EnforcementEarned'
  BY DEF LifecycleInv, EnforcementEarned
<1> QED BY <1>1, <1>2 DEF LifecycleInv, Sealed, Up, Users, Live

(* The engine processes the score.                                         *)
LEMMA ProcessStep ==
  ASSUME LifecycleInv, Process
  PROVE  LifecycleInv'
<1>1. /\ Up /\ TypeOK /\ Earned
      /\ UNCHANGED <<gathered, credit>>
      /\ UNCHANGED <<drill, faulty, profile, scoring, window, countVars, shadowVars>>
      /\ UNCHANGED beat /\ failed' \in BOOLEAN /\ signalled' \in BOOLEAN
  BY DEF Process, LifecycleInv, TypeOK, countVars, beatVars
<1>2. CASE UNCHANGED <<stateVars, stored, enforces>> /\ stage' \in {"idle", "decide"}
           /\ down' \in SUBSET {"model", "collector"}
           /\ (decision' = decision \/
                 decision' \in [state : Users, applied : {FALSE}, shadow : BOOLEAN])
  <2>1. Earned'
    BY <1>1, <1>2, StateMoves DEF stateVars
  <2>2. /\ state' \in Users /\ stored' \in Users /\ before' \in Live \cup {"NONE"}
        /\ health' \in Live
    BY <1>1, <1>2 DEF stateVars, TypeOK, Up
  <2> QED BY <1>1, <1>2, <2>1, <2>2, Moved
<1>3. CASE Ignore
  BY <1>1, <1>2, <1>3 DEF Ignore, TypeOK
<1>4. CASE Hold
  <2>1. decision' \in [state : Users, applied : {FALSE}, shadow : BOOLEAN]
    BY <1>1, <1>4 DEF Hold, Decision, TypeOK, Up, stateVars
  <2> QED BY <1>1, <1>2, <1>4, <2>1 DEF Hold, TypeOK
<1>5. CASE FailOpen
  <2>1. PICK ok \in BOOLEAN : Degrade(ok) /\ IF ok THEN Decision(FALSE) ELSE UNCHANGED decision
    BY <1>5 DEF FailOpen
  <2>2. /\ Earned'
        /\ state' \in Users /\ stored' \in Users /\ before' \in Live \cup {"NONE"}
        /\ health' \in Live
    BY <1>1, <2>1, DegradeStep
  <2>3. decision' = decision \/
          decision' \in [state : Users, applied : {FALSE}, shadow : BOOLEAN]
    <3>1. CASE Decision(FALSE)
      <4> DEFINE seen == state' = "CALIBRATING" \/ shadow = "on"
      <4>1. seen \in BOOLEAN
        OBVIOUS
      <4>2. decision' = [state |-> state', applied |-> FALSE, shadow |-> seen]
        BY <3>1 DEF Decision
      <4> HIDE DEF seen
      <4> QED BY <2>2, <4>1, <4>2
    <3> QED BY <2>1, <3>1
  <2>4. stage' = "idle" /\ UNCHANGED enforces /\ down' \in SUBSET {"model", "collector"}
    BY <1>1, <1>5 DEF FailOpen, TypeOK
  <2> QED BY <1>1, <2>2, <2>3, <2>4, Moved
<1>6. CASE Fuse
  <2>1. UNCHANGED <<decision, enforces>> /\ down' \in SUBSET {"model", "collector"}
    BY <1>1, <1>6 DEF Fuse, TypeOK
  <2>2. CASE UNCHANGED <<stateVars, stored>> /\ stage' = "decide"
    BY <1>1, <1>2, <2>1, <2>2
  <2>3. ASSUME NEW ok \in BOOLEAN, Recover(ok), stage' = IF ok THEN "decide" ELSE "idle"
        PROVE  LifecycleInv'
    <3>1. /\ Earned'
          /\ state' \in Users /\ stored' \in Users /\ before' \in Live \cup {"NONE"}
          /\ health' \in Live
      BY <1>1, <2>3, RecoverStep
    <3>2. stage' \in {"idle", "decide"}
      BY <2>3
    <3> QED BY <1>1, <2>1, <3>1, <3>2, Moved
  <2> QED BY <1>6, <2>2, <2>3 DEF Fuse
<1> QED BY <1>3, <1>4, <1>5, <1>6 DEF Process

(* A decision is made.                                                     *)
LEMMA DecideStep ==
  ASSUME LifecycleInv, Decide
  PROVE  LifecycleInv'
<1>0. enforces' \in BOOLEAN /\ (enforces' => state = "ACTIVE")
  BY Zenon DEF Decide
<1>1. TypeOK'
  BY <1>0 DEF Decide, LifecycleInv, TypeOK, stateVars, countVars, beatVars, shadowVars, Stages
<1> QED BY <1>0, <1>1 DEF Decide, LifecycleInv, Earned, EnforcementEarned, Sealed, Up, stateVars,
                    countVars

(* The one action that may announce an enforcement.                        *)
LEMMA StampStep ==
  ASSUME LifecycleInv, Stamp
  PROVE  LifecycleInv'
<1>1. /\ UNCHANGED <<stateVars, stored, gathered, credit>> /\ state \in Users
      /\ stage' = "idle"
      /\ decision' = [state |-> state, applied |-> enforces,
                      shadow |-> state = "CALIBRATING" \/ shadow = "on"]
  BY DEF Stamp, Decision, LifecycleInv, TypeOK, Up, stateVars, countVars
<1>2. TypeOK'
  BY <1>1 DEF Stamp, LifecycleInv, TypeOK, stateVars, countVars, windowVars, beatVars,
              shadowVars, Stages
<1>3. EnforcementEarned'
  BY <1>1 DEF Stamp, LifecycleInv, Sealed, Earned, EnforcementEarned
<1> QED BY <1>1, <1>2, <1>3 DEF LifecycleInv, Earned, Sealed, Up, Users, Live, stateVars

(* A heartbeat, or the watchdog.                                           *)
LEMMA HeartbeatSteps ==
  ASSUME LifecycleInv, Heartbeat \/ Watchdog
  PROVE  LifecycleInv'
<1> DEFINE Reached ==
      /\ Earned'
      /\ state' \in Users /\ stored' \in Users /\ before' \in Live \cup {"NONE"}
      /\ health' \in Live
<1>1. /\ Up /\ TypeOK /\ Earned /\ stage' = "idle"
      /\ UNCHANGED <<gathered, credit, decision>>
      /\ UNCHANGED <<drill, faulty, profile, scoring, window, countVars, shadowVars, enforces>>
      /\ down' \in SUBSET {"model", "collector"}
  BY DEF Heartbeat, Watchdog, LifecycleInv, TypeOK, countVars, windowVars
<1>2. CASE Heartbeat
  <2>1. ASSUME UNCHANGED <<stateVars, stored>>
        PROVE  Reached
    BY <1>1, <2>1, StateMoves DEF stateVars, TypeOK, Up
  <2>2. Reached
    BY <1>1, <1>2, <2>1, RecoverStep DEF Heartbeat
  <2>3. beat' = "fresh" /\ failed' \in BOOLEAN /\ signalled' \in BOOLEAN
    BY <1>1, <1>2 DEF Heartbeat, TypeOK
  <2> QED BY <1>1, <2>2, <2>3, Moved
<1>3. CASE Watchdog
  <2>1. Reached
    BY <1>1, <1>3, DegradeStep DEF Watchdog
  <2>2. UNCHANGED beat /\ failed' \in BOOLEAN /\ signalled' \in BOOLEAN
    BY <1>3 DEF Watchdog
  <2> QED BY <1>1, <2>1, <2>2, Moved
<1> QED BY <1>2, <1>3

(* Every step keeps the invariant.                                         *)
LEMMA NextInv == LifecycleInv /\ [Next]_vars => LifecycleInv'
<1> SUFFICES ASSUME LifecycleInv, [Next]_vars PROVE LifecycleInv'
  OBVIOUS
<1>1. CASE Next
  BY <1>1, StartStop, AsideSteps, StoreWindowStep, StoreScoreStep, ProgressSteps, ProcessStep,
     DecideStep, StampStep, HeartbeatSteps
     DEF Next, Windows
<1>2. CASE UNCHANGED vars
  BY <1>2 DEF vars, LifecycleInv, TypeOK, Earned, EnforcementEarned, Sealed, Up
<1> QED BY <1>1, <1>2

(* The inductive invariant holds, storage faults or not.                   *)
THEOREM LifecycleInvariant == Spec => []LifecycleInv
BY InitInv, NextInv, PTL DEF Spec

(* Only what a finished enrollment and a finished calibration entitle to   *)
(* is ever enforced (PLAN.md 11.5): through degradations, recoveries,      *)
(* restarts and lost writes.                                               *)
THEOREM EnforcementIsEarned == Spec => []EnforcementEarned
<1>1. LifecycleInv => EnforcementEarned
  BY DEF LifecycleInv
<1> QED BY <1>1, LifecycleInvariant, PTL

(* No state is reached, remembered or stored without its evidence.         *)
THEOREM StatesAreEarned == Spec => []Earned
<1>1. LifecycleInv => Earned
  BY DEF LifecycleInv
<1> QED BY <1>1, LifecycleInvariant, PTL
-----------------------------------------------------------------------------
(* While no write raises, the table and the alerts are never behind what   *)
(* they report: what a write that may raise is behind is in the findings.  *)
AgreesInv ==
  ~faulty => /\ Up => stored = state
             /\ beat = "fresh" => ~failed
             /\ failed /\ beat = "late" => signalled

(* Where no write raises, a move is stored with it.                        *)
LEMMA WrittenAtOnce ==
  ASSUME ~faulty, NEW ok \in BOOLEAN
  PROVE  /\ Degrade(ok) => /\ ok /\ state' = "DEGRADED"
                           /\ stored = state \/ state # "DEGRADED" => stored' = state'
         /\ Recover(ok) => ok /\ stored' = state'
         /\ \A s : Advance(s, ok) => ok /\ stored' = state'
BY DEF Degrade, Recover, Advance, Persist, stateVars

(* Every step keeps table and alert up to date.                            *)
LEMMA AgreesStep ==
  ASSUME AgreesInv, [Next]_vars, ~faulty
  PROVE  AgreesInv'
<1> USE DEF AgreesInv
<1>1. CASE Stop \/ \E d \in Drills : Start(d)
  BY <1>1 DEF Stop, Start, Up, beatVars
<1>2. CASE \/ ChangeProfile \/ StoreScore \/ Decide \/ Stamp
           \/ \E k \in Kinds : StoreWindow(k)
           \/ \E a \in Admins : (\E mode \in Modes : SaveShadow(a, mode)) \/ ApplyShadow(a)
  <2>1. UNCHANGED <<state, stored, faulty, beat, failed, signalled>>
    BY <1>2 DEF ChangeProfile, StoreScore, Decide, Stamp, StoreWindow, SaveShadow, ApplyShadow,
                stateVars, beatVars
  <2> QED BY <2>1 DEF Up
<1>3. CASE Age
  BY <1>3 DEF Age, Up, stateVars
<1>4. CASE ProgressEnrollment \/ ProgressCalibration \/ Process
  <2>1. Up /\ UNCHANGED <<faulty, beat, failed, signalled>>
    BY <1>4 DEF ProgressEnrollment, ProgressCalibration, Process, beatVars
  <2>2. stored' = state'
    <3>1. ASSUME NEW count, NEW next, Progress(count, next) PROVE stored' = state'
      BY <2>1, <3>1, WrittenAtOnce DEF Progress, stateVars
    <3>2. CASE Process
      BY <2>1, <3>2, WrittenAtOnce DEF Process, Ignore, Hold, FailOpen, Fuse, stateVars
    <3> QED BY <1>4, <3>1, <3>2 DEF ProgressEnrollment, ProgressCalibration
  <2> QED BY <2>1, <2>2
<1>5. CASE Heartbeat
  BY <1>5, WrittenAtOnce DEF Heartbeat, Up, stateVars
<1>6. CASE Watchdog
  BY <1>6, WrittenAtOnce DEF Watchdog, Up
<1>7. CASE UNCHANGED vars
  BY <1>7 DEF vars, Up
<1> QED BY <1>1, <1>2, <1>3, <1>4, <1>5, <1>6, <1>7 DEF Next, Windows

(* While no write raises, table and state agree, and an outage that was    *)
(* noticed has its alert.                                                  *)
THEOREM AgreesAlways == Spec => []AgreesInv
<1>1. Init => AgreesInv
  BY DEF Init, AgreesInv, Up
<1>2. AgreesInv /\ [Next]_vars => AgreesInv'
  <2> SUFFICES ASSUME AgreesInv, [Next]_vars PROVE AgreesInv'
    OBVIOUS
  <2>1. faulty' = faulty
    BY DEF Next, Stop, Start, ChangeProfile, StoreWindow, Windows, ProgressEnrollment, StoreScore,
       ProgressCalibration, Process, Decide, Stamp, Heartbeat, Age, Watchdog, SaveShadow,
       ApplyShadow, vars
  <2>2. CASE faulty
    BY <2>1, <2>2 DEF AgreesInv
  <2> QED BY <2>2, AgreesStep
<1> QED BY <1>1, <1>2, PTL DEF Spec

(* UserStateMachine writes every move through: while no write raises, a    *)
(* running process and the users table agree at every await.               *)
THEOREM StoredAgreesAlways == Spec => []StoredAgrees
<1>1. AgreesInv => StoredAgrees
  BY DEF AgreesInv, StoredAgrees
<1> QED BY <1>1, AgreesAlways, PTL

(* check_heartbeat: an outage the watchdog has dealt with has its alert    *)
(* stored, whatever came between the loss and the alert.                   *)
THEOREM LossIsSignalledAlways == Spec => []LossIsSignalled
<1>1. AgreesInv => LossIsSignalled
  BY DEF AgreesInv, LossIsSignalled
<1> QED BY <1>1, AgreesAlways, PTL
=============================================================================
