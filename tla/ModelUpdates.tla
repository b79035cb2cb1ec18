---------------------------- MODULE ModelUpdates ----------------------------
(***************************************************************************)
(* From candidates to profiles, for one user. The scheduled update and the *)
(* first activation are processes an operator starts; each works step by   *)
(* step on the store and may stop at any of them. The API rolls back, and  *)
(* sessions go on submitting candidates, while they run. A row of          *)
(* model_profiles names .joblib files the runtime loads the profile from.  *)
(***************************************************************************)
EXTENDS Naturals, Sequences, FiniteSets

CONSTANTS Operators,     \* the processes that may run at once
          MaxCandidates, \* bound: candidates submitted
          MaxDay,        \* bound: the last day
          Quarantine,    \* quarantine_days
          Cadence,       \* retraining_cadence_days
          Retained,      \* retained_model_versions
          MaxVersion,    \* bound: profiles built
          MaxRuns,       \* bound: update runs begun
          MaxRollbacks,  \* bound: rollbacks
          Faults         \* whether writes fail and processes are killed

ASSUME UpdateAssumption ==
    /\ {MaxCandidates, MaxDay, MaxVersion, MaxRuns, MaxRollbacks} \subseteq Nat
    /\ {Quarantine, Cadence, Retained} \subseteq Nat \ {0}
    /\ Faults \in BOOLEAN

VARIABLES today,
          cands,     \* update_candidates, a sequence of [disp, gates, at, aged]
          runs,      \* update_runs, a sequence of [day, status]
          profiles,  \* model_profiles
          artifacts, \* the versions whose .joblib files are on disk
          models,    \* the versions whose files have their rows in the models table
          clock,     \* orders retirements; rollbacks done so far
          version,   \* the last version built
          job        \* of each operator, its process

store == <<cands, runs, profiles, artifacts, models, clock, version>>
vars == <<today, store, job>>

Day == 0 .. MaxDay
Candidate == 1 .. MaxCandidates
Disposition == {"REJECTED", "QUARANTINED", "ELIGIBLE", "PROMOTED"}
RunStatus == {"RUNNING", "ACTIVATED", "REJECTED", "FAILED"}
Idle == [pc |-> "idle", run |-> 0, day |-> 0, todo |-> {}, chosen |-> {}, corpus |-> {},
         trained |-> {}, far |-> "unmeasured", built |-> 0]

Active == {p \in profiles : p.status = "ACTIVE"}
Older == {p \in profiles : p.status = "RETAINED"}

Init ==
    /\ today = 0 /\ cands = <<>> /\ runs = <<>> /\ profiles = {} /\ artifacts = {}
    /\ models = {}
    /\ clock = [retired |-> 0, rollbacks |-> 0] /\ version = 0
    /\ job = [o \in Operators |-> Idle]

At(o, pc) == job[o].pc = pc
Go(o, pc) == job' = [job EXCEPT ![o].pc = pc]
End(o) == job' = [job EXCEPT ![o] = Idle]

NextDay == today < MaxDay /\ today' = today + 1 /\ UNCHANGED <<store, job>>

\* submit_segment, from a running session: all of G1 to G4, or not.
Submit ==
    /\ Len(cands) < MaxCandidates
    /\ \E gates \in BOOLEAN :
         cands' = Append(cands, [disp |-> IF gates THEN "QUARANTINED" ELSE "REJECTED",
                                 gates |-> gates, at |-> today, aged |-> FALSE])
    /\ UNCHANGED <<today, runs, profiles, artifacts, models, clock, version, job>>

-----------------------------------------------------------------------------
\* The scheduled update.

\* Mutant: any day is due.
Due_always(day) == TRUE
\* schedule_due: only activations count.
Due(day) == \A r \in DOMAIN runs : runs[r].status = "ACTIVATED" => day >= runs[r].day + Cadence

\* begin_run is outside the try of run_scheduled: its failure ends the process.
\* The frozen corpus named by the operator holds the windows of some segments.
BeginRun(o, day) ==
    /\ At(o, "idle") /\ Len(runs) < MaxRuns /\ Due(day)
    /\ runs' = Append(runs, [day |-> day, status |-> "RUNNING"])
    /\ \/ \E corpus \in SUBSET DOMAIN cands :
            job' = [job EXCEPT ![o] = [Idle EXCEPT !.pc = "read", !.run = Len(runs'),
                                                   !.day = day, !.corpus = corpus]]
       \/ Faults /\ UNCHANGED job
    /\ UNCHANGED <<today, cands, profiles, artifacts, models, clock, version>>

\* candidates_for_user: one SELECT.
ReadCandidates(o) ==
    /\ At(o, "read")
    /\ job' = [job EXCEPT ![o].pc = "reassess", ![o].todo = DOMAIN cands]
    /\ UNCHANGED <<today, store>>

\* Mutant: the quarantine is over a day early.
Aged_early(c, day) == day + 1 >= c.at + Quarantine
\* G5, by the date the run is scheduled for.
Aged(c, day) == day >= c.at + Quarantine

Terminal == {"REJECTED", "PROMOTED"}

Reassessed(c, day) ==
    IF c.disp \in Terminal THEN c
    ELSE [c EXCEPT !.disp = IF Aged(c, day) THEN "ELIGIBLE" ELSE "QUARANTINED",
                   !.aged = Aged(c, day)]

Reassess(o) ==
    /\ At(o, "reassess")
    /\ \E c \in job[o].todo :
         LET new == Reassessed(cands[c], job[o].day)
         IN /\ cands' = [cands EXCEPT ![c] = new]
            /\ job' = [job EXCEPT
                 ![o].todo = @ \ {c},
                 ![o].chosen = IF new.disp \in {"ELIGIBLE", "PROMOTED"} THEN @ \cup {c} ELSE @]
    /\ UNCHANGED <<today, runs, profiles, artifacts, models, clock, version>>

Assessed(o) ==
    /\ At(o, "reassess") /\ job[o].todo = {}
    /\ IF job[o].chosen = {} THEN Go(o, "rejected")
       ELSE job' = [job EXCEPT ![o].pc = "promote", ![o].todo = job[o].chosen]
    /\ UNCHANGED <<today, store>>

\* One save_candidate of a loop over those chosen, then on to the next step.
SaveChosen(o, at, disp, next) ==
    /\ At(o, at)
    /\ \E c \in job[o].todo :
         /\ cands' = [cands EXCEPT ![c].disp = disp]
         /\ job' = [job EXCEPT ![o].todo = @ \ {c},
                               ![o].pc = IF job[o].todo = {c} THEN next ELSE at]
    /\ UNCHANGED <<today, runs, profiles, artifacts, models, clock, version>>

Promote(o) == SaveChosen(o, "promote", "PROMOTED", "build")

\* The windows TRAIN has of the segments promoted.
Trainable(o) == job[o].chosen \cap job[o].corpus

\* DirectoryProfileProvider: what the runtime and an update load as the active profile.
Provided == {p \in Active : p.v \in artifacts}

\* build_candidate: train on the windows the corpus has of those promoted; save the
\* artifacts; measure against the active profile. It raises when nothing trains,
\* and after saving when there is no active profile or a score is missing on
\* either side, which is why far is measured whenever it returns.
Build(o) ==
    /\ At(o, "build")
    /\ LET trained == Trainable(o)
       IN \/ Go(o, "failing") /\ UNCHANGED <<artifacts, version>>
          \/ /\ trained # {} /\ version < MaxVersion
             /\ version' = version + 1
             /\ artifacts' = artifacts \cup {version + 1}
             /\ \/ Go(o, "failing")
                \/ /\ Provided # {}
                   /\ \E far \in {"within", "beyond"} :
                        job' = [job EXCEPT ![o].pc = "validate", ![o].far = far,
                                           ![o].trained = trained, ![o].built = version + 1]
    /\ UNCHANGED <<today, cands, runs, profiles, models, clock>>

\* _validate: no rate may be beyond the tolerance.
Accepted(o) == job[o].far = "within"

Validate(o) ==
    /\ At(o, "validate")
    /\ IF Accepted(o) THEN Go(o, "activate")
       ELSE job' = [job EXCEPT ![o].pc = "reject", ![o].todo = job[o].chosen]
    /\ UNCHANGED <<today, store>>

RejectChosen(o) == SaveChosen(o, "reject", "REJECTED", "rejected")
-----------------------------------------------------------------------------
\* activate_profile.

Newest(set) == {p \in set : \A q \in set : q.retired <= p.retired}

\* What a new profile pushes out: all but the last retired.
Surplus(older) == {p \in older : Cardinality({q \in older : q.retired > p.retired}) >= Retained}

\* Mutant: the active one is not retired.
Retire_none(p) == p
Retire(p) == [p EXCEPT !.status = "RETAINED", !.retired = clock.retired + 1]

Activated(o, first) ==
    LET older == Older \cup {Retire(p) : p \in Active}
        new == [v |-> job[o].built, status |-> "ACTIVE", retired |-> 0, day |-> job[o].day,
                trained |-> job[o].trained, far |-> job[o].far, first |-> first]
    IN /\ profiles' = (older \ Surplus(older)) \cup {new}
       /\ clock' = [clock EXCEPT !.retired = @ + 1]

\* One transaction, then flush_audit, which may still raise.
Activate(o) ==
    /\ At(o, "activate")
    /\ \/ Activated(o, FALSE) /\ Go(o, "activated")
       \/ Faults /\ Activated(o, FALSE) /\ Go(o, "failing")
       \/ Faults /\ Go(o, "failing") /\ UNCHANGED <<profiles, clock>>
    /\ UNCHANGED <<today, cands, runs, artifacts, models, version>>

\* finish_run. Raised before its commit, the error is caught and leads to finish_run
\* once more; raised by flush_audit after it, the second finish_run finds no RUNNING
\* row, raises out of the except, and the process ends as if it had not.
Finish(o, at, status) ==
    /\ At(o, at)
    /\ \/ runs' = [runs EXCEPT ![job[o].run].status = status] /\ End(o)
       \/ Faults /\ UNCHANGED runs /\ Go(o, "failing")
    /\ UNCHANGED <<today, cands, profiles, artifacts, models, clock, version>>

FinishFailed(o) ==
    /\ At(o, "failing")
    /\ End(o)
    /\ \/ runs' = [runs EXCEPT ![job[o].run].status = "FAILED"]
       \/ Faults /\ UNCHANGED runs
    /\ UNCHANGED <<today, cands, profiles, artifacts, models, clock, version>>

-----------------------------------------------------------------------------
\* The first activation.

\* Its admission: no active profile, and a corpus of an enrolled participant.
BeginFirst(o) ==
    /\ At(o, "idle") /\ Active = {} /\ version < MaxVersion
    /\ job' = [job EXCEPT ![o] = [Idle EXCEPT !.pc = "first_save", !.day = today]]
    /\ UNCHANGED <<today, store>>

\* Mutant: the profile is activated before its files are written.
FirstSave_later(o) ==
    /\ At(o, "first_save")
    /\ version' = version + 1
    /\ job' = [job EXCEPT ![o].pc = "first_register", ![o].built = version + 1]
    /\ UNCHANGED <<today, cands, runs, profiles, artifacts, models, clock>>

\* Trained and measured, with FAR or without; then a file is written.
FirstSave(o) ==
    /\ At(o, "first_save")
    /\ version' = version + 1
    /\ artifacts' = artifacts \cup {version + 1}
    /\ \E far \in {"unmeasured", "within"} :
         job' = [job EXCEPT ![o].pc = "first_register", ![o].far = far,
                            ![o].built = version + 1]
    /\ UNCHANGED <<today, cands, runs, profiles, models, clock>>

\* store_model, after each file: one transaction, then flush_audit.
FirstRegister(o) ==
    /\ At(o, "first_register")
    /\ \/ models' = models \cup {job[o].built} /\ Go(o, "first_activate")
       \/ Faults /\ End(o) /\ models' \in {models, models \cup {job[o].built}}
    /\ UNCHANGED <<today, cands, runs, profiles, artifacts, clock, version>>

FirstActivate(o) ==
    /\ At(o, "first_activate")
    /\ End(o)
    /\ \/ Activated(o, TRUE)
       \/ Faults /\ UNCHANGED <<profiles, clock>>
    /\ UNCHANGED <<today, cands, runs, artifacts, models, version>>

\* A save or a read inside the try raises.
Raise(o) ==
    /\ Faults /\ job[o].pc \in {"read", "reassess", "promote", "reject"}
    /\ Go(o, "failing")
    /\ UNCHANGED <<today, store>>

Crash(o) == Faults /\ ~At(o, "idle") /\ End(o) /\ UNCHANGED <<today, store>>
-----------------------------------------------------------------------------
\* rollback: the active profile and the last retired one change places.
Rollback ==
    /\ clock.rollbacks < MaxRollbacks
    /\ \E p \in Active, q \in Newest(Older) :
         profiles' = (profiles \ {p, q}) \cup
           {Retire(p), [q EXCEPT !.status = "ACTIVE", !.retired = 0]}
    /\ clock' = [retired |-> clock.retired + 1, rollbacks |-> clock.rollbacks + 1]
    /\ UNCHANGED <<today, cands, runs, artifacts, models, version, job>>

Operator(o) ==
    \/ \E day \in Day : BeginRun(o, day)
    \/ ReadCandidates(o) \/ Reassess(o) \/ Assessed(o) \/ Promote(o) \/ Build(o)
    \/ Validate(o) \/ RejectChosen(o) \/ Activate(o) \/ FinishFailed(o)
    \/ Finish(o, "rejected", "REJECTED") \/ Finish(o, "activated", "ACTIVATED")
    \/ BeginFirst(o) \/ FirstSave(o) \/ FirstRegister(o) \/ FirstActivate(o)
    \/ Raise(o) \/ Crash(o)

Next == NextDay \/ Submit \/ Rollback \/ \E o \in Operators : Operator(o)

Spec == Init /\ [][Next]_vars
-----------------------------------------------------------------------------
TypeOK ==
    /\ today \in Day /\ version \in 0 .. MaxVersion /\ artifacts \subseteq 1 .. MaxVersion
    /\ models \subseteq 1 .. MaxVersion
    /\ cands \in Seq([disp : Disposition, gates : BOOLEAN, at : Day, aged : BOOLEAN])
    /\ runs \in Seq([day : Day, status : RunStatus])
    /\ clock \in [retired : Nat, rollbacks : 0 .. MaxRollbacks]
    /\ profiles \subseteq [v : artifacts, status : {"ACTIVE", "RETAINED"}, retired : Nat,
                           day : Day, trained : SUBSET DOMAIN cands,
                           far : {"unmeasured", "within"}, first : BOOLEAN]

\* From the first activation on the user has one active profile, whatever fails in
\* an update (the transactions of activate_profile and rollback).
OneActive == profiles # {} => \E p \in profiles : Active = {p}

\* Each profile that is active, or that a rollback may make active, has the files it
\* names, and no other names them: a row comes after its files, in an update as in a
\* first activation ("immediately before the profile row that references them",
\* activate.py:511), whatever failed in between. The other way round is NoOrphanFiles.
RowsAreLoadable ==
    /\ \A p \in profiles : p.v \in artifacts
    /\ \A p, q \in profiles : p.v = q.v => p = q

\* An update learns only from segments that passed G1 to G4 and were quarantined by
\* the date of a run, and only when FAR was measured and had not risen.
UpdateIsEarned ==
    \A p \in profiles : p.first \/
      /\ p.trained # {} /\ p.far = "within"
      /\ \A c \in p.trained :
           cands[c].gates /\ \E r \in DOMAIN runs : runs[r].day >= cands[c].at + Quarantine

\* G6: the dates of the runs that activated are a cadence apart, with failed and
\* interrupted runs between them.
CadenceHeld ==
    \A r, s \in DOMAIN runs :
      r < s /\ runs[r].status = "ACTIVATED" /\ runs[s].status = "ACTIVATED"
        => runs[s].day >= runs[r].day + Cadence

-----------------------------------------------------------------------------
(* Contradicted by the code.                                               *)

\* activate.py:50: "a failed activation leaves no orphaned .joblib with no database
\* row pointing at it": one that ends between the file and its row does.
NoOrphanFiles ==
    [][\A o \in Operators :
         job[o].pc \in {"first_register", "first_activate"} /\ job'[o] = Idle
           => job[o].built \in models' \/ \E p \in profiles' : p.v = job[o].built]_vars

\* activate.py:52: in the models table "the database records the checksum ... of every
\* model that was ever deployed": an update registers none.
DeployedIsRegistered == \A p \in profiles : p.v \in models

\* PLAN.md 12.1, G5: "The segment has aged at least quarantine_days": a run is
\* scheduled for whatever date the operator gives.
QuarantineElapses ==
    \A p \in profiles, c \in Candidate : ~p.first /\ c \in p.trained
      => today >= cands[c].at + Quarantine

\* PLAN.md 12.1, G6: "Retraining occurs on a fixed cadence": an activation whose
\* run is finished as FAILED does not count.
RetrainedOnCadence ==
    \A p, q \in profiles : ~p.first /\ ~q.first /\ p.v < q.v => q.day >= p.day + Cadence

\* The active profile was learned from segments that are promoted.
ActiveStandsOnPromoted ==
    \A p \in Active, c \in Candidate : c \in p.trained => cands[c].disp = "PROMOTED"

\* PLAN.md 12.3: "rollback to a previous profile is always possible".
EveryVersionRetained == [][{p.v : p \in profiles} \subseteq {p.v : p \in profiles'}]_vars

\* A user has one first activation ("PROFILE_ALREADY_ACTIVE"); false of two operators.
FirstIsFirst == \A p, q \in profiles : p.first /\ q.first => p = q
=============================================================================
