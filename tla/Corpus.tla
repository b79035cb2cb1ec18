------------------------------- MODULE Corpus -------------------------------
(***************************************************************************)
(* The frozen corpus (tools/collection) and what is trained and measured   *)
(* on it: a first activation (tools/enrollment) or a scheduled update      *)
(* (tools/updates).  The tools open the database of a running backend: it  *)
(* stores windows, its retention deletes them and people edit the          *)
(* administration file between any two of their reads.  ModelUpdates       *)
(* models how a profile is persisted; here a profile is the windows it was *)
(* trained and measured on.  Time passes in days.                          *)
(***************************************************************************)
EXTENDS Integers, Sequences, FiniteSets, FiniteSetsExt, Functions, SequencesExt

CONSTANTS
  Participants,
  NoUser,        \* of no session and no job
  MaxDay,        \* bound: the last day
  MaxRows,       \* bound: windows stored
  MaxManifests,  \* bound: versions frozen
  MaxEdits,      \* bound: edits of the administration file
  MaxJobs,       \* bound: activations and updates begun
  Drills,        \* bound: sessions declared an attacker drill
  Keep,          \* retention.feature_window_days
  Target,        \* collection.target_collection_days
  PerDay,        \* collection.min_windows_per_day
  MaxGap,        \* collection.max_observed_gap_hours, in days
  MinDays,       \* freeze.min_distinct_days
  TrainTenths,   \* freeze.training_fraction, in tenths
  ValidTenths,   \* freeze.validation_fraction, in tenths: evaluation has the rest
  MinBaseline,   \* per_user_normalization.min_baseline_windows
  MinTrain,      \* enrollment.min_train_windows
  MinTrainDays   \* enrollment.min_train_distinct_days

Partitions == <<"TRAIN", "VALIDATION", "EVALUATION">>
Fractions == <<TrainTenths, ValidTenths, 10 - TrainTenths - ValidTenths>>

ASSUME CorpusAssumption ==
  /\ NoUser \notin Participants
  /\ {MaxDay, Keep, Target, PerDay, MinBaseline, MinTrain, MinTrainDays} \subseteq Nat \ {0}
  /\ {MaxRows, MaxManifests, MaxEdits, MaxJobs, Drills, MaxGap, MinDays} \subseteq Nat
  /\ {TrainTenths, ValidTenths} \subseteq 1 .. 8 /\ TrainTenths + ValidTenths < 10

Day == 1 .. MaxDay
Never == MaxDay + 1
Window == [user : Participants, day : Day, at : Day, drill : BOOLEAN]

VARIABLES
  today,
  session,    \* the running session: its user, the day it began, whether it is a drill
  rows,       \* feature_windows: collection_day, the day of stored_at_utc, drill_sessions
  admin,      \* of each participant, consent, withdrawal and enrollment in the file
  manifests,  \* the frozen versions
  job,        \* the tool that is running
  profiles,   \* of each participant, the ACTIVE profile, if any
  spent       \* of each bound, how much is used

vars == <<today, session, rows, admin, manifests, job, profiles, spent>>

NoSession == [user |-> NoUser, day |-> 0, drill |-> FALSE]
NoRecord == [consented |-> Never, withdrawn |-> Never, enrolled |-> Never]
Given == [NoRecord EXCEPT !.consented = 1, !.enrolled = 1]
NoJob == [todo |-> <<>>, user |-> NoUser, version |-> 0, update |-> FALSE, promoted |-> {},
          verified |-> FALSE, train |-> {}, validation |-> {}, admitted |-> FALSE]
NoProfile == [version |-> 0, update |-> FALSE, promoted |-> {}, trained |-> {}, genuine |-> {},
              impostor |-> {}, base |-> {}]

Init ==
  /\ today = 1 /\ session = NoSession /\ rows = {}
  /\ admin \in [Participants -> {NoRecord, Given}]
  /\ manifests = <<>> /\ job = NoJob
  /\ profiles = [p \in Participants |-> NoProfile]
  /\ spent = [edits |-> 0, jobs |-> 0, drills |-> 0]

Spend(what, bound) == spent[what] < bound /\ spent' = [spent EXCEPT ![what] = @ + 1]
-----------------------------------------------------------------------------
(* The backend and the people around it.                                   *)

NextDay ==
  /\ today < MaxDay /\ today' = today + 1
  /\ UNCHANGED <<session, rows, admin, manifests, job, profiles, spent>>

BeginSession(p, isDrill) ==
  /\ session' = [user |-> p, day |-> today, drill |-> isDrill] /\ session' # session
  /\ IF isDrill THEN Spend("drills", Drills) ELSE UNCHANGED spent
  /\ UNCHANGED <<today, rows, admin, manifests, job, profiles>>

(* Every window of a session carries the day its session began.            *)
StoreWindow ==
  /\ session # NoSession
  /\ LET w == [user |-> session.user, day |-> session.day, at |-> today,
               drill |-> session.drill]
     IN /\ w \notin rows /\ Cardinality(rows) < MaxRows
        /\ rows' = rows \cup {w}
  /\ UNCHANGED <<today, session, admin, manifests, job, profiles, spent>>

(* run_retention: the time of day decides about the day of the cutoff.     *)
Retain ==
  /\ \E cutoff \in {today - Keep, today - Keep + 1} : rows' = {w \in rows : w.at >= cutoff}
  /\ rows' # rows
  /\ UNCHANGED <<today, session, admin, manifests, job, profiles, spent>>

EditAdministration(p) ==
  /\ admin' \in {[admin EXCEPT ![p] = r] : r \in {NoRecord, Given, [Given EXCEPT !.withdrawn = today]}}
  /\ admin' # admin /\ Spend("edits", MaxEdits)
  /\ UNCHANGED <<today, session, rows, manifests, job, profiles>>
-----------------------------------------------------------------------------
(* Eligibility, health and the frozen versions.                            *)

ActiveAt(consent, instant) == consent.consented <= instant /\ instant < consent.withdrawn

(* eligibility_reasons of a window is empty.                               *)
Eligible(w) == ActiveAt(admin[w.user], w.at) /\ admin[w.user].enrolled <= w.at

OfNoDrill(db) == {w \in db : ~w.drill}

(* Mutant: the windows of drills are read with the others.                 *)
LoadSummaries_all(db) == db
LoadSummaries(db) == OfNoDrill(db)

Of(ws, p) == {w \in ws : w.user = p}
DaysOf(ws) == {w.day : w \in ws}

(* health.py: what the report finds missing.                               *)
Shortfalls(p, ws) ==
  LET mine == Of(ws, p)
      apart(w) == w.at < Max({v.at : v \in mine}) /\ \A v \in mine : v.at \notin w.at + 1 .. w.at + MaxGap
  IN {code \in {"DAYS", "PER_DAY", "GAP", "INELIGIBLE"} :
        CASE code = "DAYS" -> Cardinality(DaysOf(mine)) < Target
          [] code = "PER_DAY" -> \E d \in DaysOf(mine) : Cardinality({w \in mine : w.day = d}) < PerDay
          [] code = "GAP" -> \E w \in mine : apart(w)
          [] code = "INELIGIBLE" -> \E w \in mine : ~Eligible(w)}

(* Whole days beyond the one each partition has: the integer part of its   *)
(* share, and one more for the largest remainders.                         *)
ExtraDays(remaining) ==
  LET quota == [i \in 1 .. 3 |-> remaining * Fractions[i]]
      whole == [i \in 1 .. 3 |-> quota[i] \div 10]
      left == remaining - (whole[1] + whole[2] + whole[3])
      before(i, j) == \/ quota[i] % 10 > quota[j] % 10
                      \/ /\ quota[i] % 10 = quota[j] % 10
                         /\ Fractions[i] > Fractions[j] \/ (Fractions[i] = Fractions[j] /\ i < j)
  IN [i \in 1 .. 3 |->
        whole[i] + (IF Cardinality({j \in 1 .. 3 : before(j, i)}) < left THEN 1 ELSE 0)]

(* Mutant: the fractions are rounded, without a day kept for each.         *)
PartitionDays_rounded(days) ==
  LET trainEnd == (Cardinality(days) * Fractions[1] + 5) \div 10
      validationEnd == trainEnd + (Cardinality(days) * Fractions[2] + 5) \div 10
      index(d) == Cardinality({e \in days : e < d})
  IN [d \in days |-> IF index(d) < trainEnd THEN "TRAIN"
                     ELSE IF index(d) < validationEnd THEN "VALIDATION" ELSE "EVALUATION"]

(* Mutant: the newest days are trained on.                                 *)
PartitionDays_newest(days) ==
  LET extras == ExtraDays(Cardinality(days) - 3)
      trainEnd == 1 + extras[1]
      validationEnd == trainEnd + 1 + extras[2]
      index(d) == Cardinality({e \in days : e > d})
  IN [d \in days |-> IF index(d) < trainEnd THEN "TRAIN"
                     ELSE IF index(d) < validationEnd THEN "VALIDATION" ELSE "EVALUATION"]

PartitionDays(days) ==
  LET extras == ExtraDays(Cardinality(days) - 3)
      trainEnd == 1 + extras[1]
      validationEnd == trainEnd + 1 + extras[2]
      index(d) == Cardinality({e \in days : e < d})
  IN [d \in days |-> IF index(d) < trainEnd THEN "TRAIN"
                     ELSE IF index(d) < validationEnd THEN "VALIDATION" ELSE "EVALUATION"]

Freezable(ws) ==
  /\ ws # {} /\ \A w \in ws : Eligible(w)
  /\ \A p \in {w.user : w \in ws} :
       Cardinality(DaysOf(Of(ws, p))) >= MinDays /\ Cardinality(DaysOf(Of(ws, p))) >= 3

ManifestDocument(ws) ==
  [records |-> ws,
   assignments |-> [p \in {w.user : w \in ws} |-> PartitionDays(DaysOf(Of(ws, p)))]]

PartitionOf(m, w) == m.assignments[w.user][w.day]
InPartition(m, partition) == {w \in m.records : PartitionOf(m, w) = partition}

(* build_freeze, to a destination that does not exist yet.                 *)
BuildFreeze ==
  /\ Len(manifests) < MaxManifests
  /\ Freezable(LoadSummaries(rows))
  /\ manifests' = Append(manifests, ManifestDocument(LoadSummaries(rows)))
  /\ UNCHANGED <<today, session, rows, admin, job, profiles, spent>>
-----------------------------------------------------------------------------
(* Loading one partition: the manifest is verified against one read of the *)
(* database, and the windows come from another.                            *)

Busy == job # NoJob
End == job' = NoJob
Manifest == manifests[job.version]

(* A tool stops at any step: it is killed, a read fails, a model does not  *)
(* train or nothing can be scored.                                         *)
Stop ==
  /\ Busy /\ End
  /\ UNCHANGED <<today, session, rows, admin, manifests, profiles, spent>>

VerifyFreeze(m, db) ==
  /\ m.records \subseteq LoadSummaries(db)
  /\ {PartitionOf(m, w) : w \in m.records} = ToSet(Partitions)

Verify ==
  /\ Busy /\ job.todo # <<>> /\ ~job.verified
  /\ IF VerifyFreeze(Manifest, rows) THEN job' = [job EXCEPT !.verified = TRUE] ELSE End
  /\ UNCHANGED <<today, session, rows, admin, manifests, profiles, spent>>

Wanted(step) == InPartition(Manifest, IF step = "TRAIN" THEN "TRAIN" ELSE "VALIDATION")

Loaded(step, ws) ==
  [job EXCEPT !.todo = Tail(@), !.verified = FALSE,
              !.train = IF step = "TRAIN" THEN ws ELSE @,
              !.validation = IF step = "VALIDATION" THEN ws ELSE @]

(* Mutant: a window of the manifest that is gone is left out.              *)
LoadPartition_partial ==
  /\ Busy /\ job.verified
  /\ LET step == Head(job.todo)
         found == OfNoDrill(rows) \cap Wanted(step)
     IN IF step = "COHORT" /\ Cardinality({w.user : w \in found}) < 2 THEN End
        ELSE job' = Loaded(step, found)
  /\ UNCHANGED <<today, session, rows, admin, manifests, profiles, spent>>

LoadPartition ==
  /\ Busy /\ job.verified
  /\ LET step == Head(job.todo)
         found == OfNoDrill(rows) \cap Wanted(step)
     IN IF found # Wanted(step) \/ (step = "COHORT" /\ Cardinality({w.user : w \in found}) < 2)
        THEN End
        ELSE job' = Loaded(step, found)
  /\ UNCHANGED <<today, session, rows, admin, manifests, profiles, spent>>
-----------------------------------------------------------------------------
(* The two tools. Both are given the version to use.                       *)

Start(p, v, update) ==
  /\ ~Busy /\ Spend("jobs", MaxJobs)
  /\ job' = [NoJob EXCEPT !.user = p, !.version = v, !.update = update,
               !.todo = IF update THEN <<"COHORT", "TRAIN", "VALIDATION">> ELSE <<"TRAIN", "VALIDATION">>]
  /\ UNCHANGED <<today, session, rows, admin, manifests, profiles>>

StartActivation(p, v) == Start(p, v, FALSE)
StartUpdate(p, v) == Start(p, v, TRUE)

AllLoaded == Busy /\ job.todo = <<>> /\ ~job.admitted

Admit(promoted) ==
  /\ job' = [job EXCEPT !.admitted = TRUE, !.promoted = promoted]
  /\ UNCHANGED <<today, session, rows, admin, manifests, profiles, spent>>

Genuine == Of(job.validation, job.user)
Impostor == job.validation \ Genuine

(* require_enrollment_admission, for a first profile.                      *)
EnrollmentAdmission(p, ws) ==
  /\ profiles[p] = NoProfile
  /\ \A w \in ws : w.user = p /\ w \in Manifest.records /\ Eligible(w)
  /\ Cardinality(ws) >= MinTrain /\ Cardinality(DaysOf(ws)) >= MinTrainDays

(* require_promotion_gate, for every other: the promoted segments are here *)
(* those of the sessions begun on some days.                               *)
PromotionGate(p, ws, days) == \A w \in ws : w.user = p /\ w.day \in days

Trains(ws) == Cardinality(ws) >= MinBaseline

AdmitFirst ==
  /\ AllLoaded /\ ~job.update
  /\ EnrollmentAdmission(job.user, Of(job.train, job.user)) /\ Trains(Of(job.train, job.user))
  /\ Genuine # {}
  /\ Admit({})

Promoted(ws, days) == {w \in ws : w.day \in days}

(* build_candidate: it needs a profile and a cohort to compare with.       *)
AdmitUpdate ==
  /\ AllLoaded /\ job.update
  /\ profiles[job.user] # NoProfile
  /\ Genuine # {} /\ Impostor # {}
  /\ \E days \in SUBSET Day :
       LET ws == Promoted(Of(job.train, job.user), days) IN
         /\ ws # {} /\ days = DaysOf(ws)
         /\ PromotionGate(job.user, ws, days) /\ Trains(ws)
         /\ Admit(days)

(* activate_profile.                                                       *)
Activate ==
  /\ Busy /\ job.admitted
  /\ profiles' = [profiles EXCEPT ![job.user] =
       [version |-> job.version, update |-> job.update, promoted |-> job.promoted,
        trained |-> IF job.update THEN Promoted(Of(job.train, job.user), job.promoted)
                    ELSE Of(job.train, job.user),
        genuine |-> Genuine, impostor |-> Impostor,
        base |-> IF job.update THEN profiles[job.user].trained ELSE {}]]
  /\ End
  /\ UNCHANGED <<today, session, rows, admin, manifests, spent>>

Backend == NextDay \/ (\E p \in Participants, d \in BOOLEAN : BeginSession(p, d)) \/ StoreWindow \/ Retain
People == (\E p \in Participants : EditAdministration(p)) \/ BuildFreeze
Tool ==
  \/ \E p \in Participants, v \in DOMAIN manifests : StartActivation(p, v) \/ StartUpdate(p, v)
  \/ Stop \/ Verify \/ LoadPartition \/ AdmitFirst \/ AdmitUpdate \/ Activate

Next == Backend \/ People \/ Tool

Spec == Init /\ [][Next]_vars
-----------------------------------------------------------------------------
TypeOK ==
  /\ today \in Day /\ rows \subseteq Window
  /\ session \in [user : Participants, day : Day, drill : BOOLEAN] \cup {NoSession}
  /\ \A i \in DOMAIN manifests : manifests[i].records \subseteq Window
  /\ job.version \in {0} \cup DOMAIN manifests
  /\ \A p \in Participants : profiles[p].trained \subseteq Window

(* A profile is measured on days later than every day it was trained on    *)
(* ("day-disjoint", freeze.py:1; "TRAIN partition only", activate.py:458): *)
(* whatever was stored, deleted or frozen between the reads.               *)
HeldOut ==
  \A p \in Participants : \A t \in profiles[p].trained, g \in profiles[p].genuine : t.day < g.day

(* What a profile was trained and measured on is what its version reserved *)
(* for it, all of it or what was promoted of it, although retention may    *)
(* delete windows after the version was verified ("a corpus that no longer *)
(* matches its manifest is never loaded", corpus.py:5).                    *)
UsedAsFrozen ==
  \A p \in Participants : LET f == profiles[p]  m == manifests[f.version] IN f # NoProfile =>
    /\ f.genuine \cup f.impostor = InPartition(m, "VALIDATION")
    /\ f.trained = {w \in Of(InPartition(m, "TRAIN"), p) : f.update => w.day \in f.promoted}

(* The attacker of a declared drill is in no frozen version, in no model   *)
(* and in no measurement ("may never become training data", drill.py:5).   *)
DrillStaysOut ==
  /\ \A i \in DOMAIN manifests : \A w \in manifests[i].records : ~w.drill
  /\ \A p \in Participants :
       \A w \in profiles[p].trained \cup profiles[p].genuine \cup profiles[p].impostor : ~w.drill

(* A frozen version reserves whole days of each participant for each of    *)
(* the three partitions ("Reserve one whole day for every partition",      *)
(* freeze.py:43), so nobody is trained or measured on nothing.             *)
FrozenInThree ==
  \A i \in DOMAIN manifests : \A p \in DOMAIN manifests[i].assignments :
    {PartitionOf(manifests[i], w) : w \in Of(manifests[i].records, p)} = ToSet(Partitions)

-----------------------------------------------------------------------------
(* Not so: properties of README section 6, with what disagrees.            *)

(* What the health report finds nothing missing in can be frozen (the      *)
(* checklist, docs/pilot/pre-drill-checklist.md:46, asks for the one before *)
(* the other): the target of days may be set below what a freeze takes.     *)
HealthyFreezes ==
  LET ws == LoadSummaries(rows) IN
    (ws # {} /\ \A p \in {w.user : w \in ws} : Shortfalls(p, ws) = {}) => Freezable(ws)

(* A day some version holds out for evaluation is never trained on.        *)
EvaluationKept ==
  \A p \in Participants, i \in DOMAIN manifests :
    profiles[p].trained \cap InPartition(manifests[i], "EVALUATION") = {}

(* The baseline of an update is measured on windows it was not trained on. *)
BaselineHeldOut == \A p \in Participants : profiles[p].base \cap profiles[p].genuine = {}

(* No profile is activated on windows consent does not cover at the time.  *)
WithdrawnStaysOut ==
  [][\A p \in Participants :
       profiles'[p] # profiles[p] => \A w \in profiles'[p].trained : Eligible(w)]_vars

(* The collection day of a window is the day it was stored on.             *)
LabelledByDay == \A w \in rows : w.day = w.at
=============================================================================
