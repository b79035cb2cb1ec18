------------------------- MODULE ModelUpdatesProofs -------------------------
(***************************************************************************)
(* What is in model_profiles, for any number of operators at once, any     *)
(* quarantine and number of retained versions, with and without faults;    *)
(* and what lets a segment become a candidate for it.                      *)
(***************************************************************************)
EXTENDS ModelUpdates, SegmentEvidence, TLAPS

Pc == {"idle", "read", "reassess", "promote", "build", "validate", "activate", "activated",
       "reject", "rejected", "failing", "first_save", "first_register", "first_activate"}
CandidateRow == [disp : Disposition, gates : BOOLEAN, at : Day, aged : BOOLEAN]
RunRow == [day : Day, status : RunStatus]
Job == [pc : Pc, run : Nat, day : Day, todo : SUBSET Nat, chosen : SUBSET Nat,
        corpus : SUBSET Nat, trained : SUBSET Nat, far : {"unmeasured", "within", "beyond"},
        built : Nat]
ProfileRow == [v : Nat, status : {"ACTIVE", "RETAINED"}, retired : Nat, day : Day,
               trained : SUBSET Nat, far : {"unmeasured", "within", "beyond"}, first : BOOLEAN]

StoreTypes ==
    /\ today \in Day /\ version \in Nat /\ artifacts \in SUBSET (0 .. version)
    /\ cands \in Seq(CandidateRow) /\ runs \in Seq(RunRow)
    /\ clock \in [retired : Nat, rollbacks : Nat]
ProfileTypes == profiles \in SUBSET ProfileRow
JobTypes == job \in [Operators -> Job]

\* Gates G1 to G4 let the segment in, and its quarantine was over by the date of a run.
Earned(c) ==
    /\ c \in DOMAIN cands /\ cands[c].gates
    /\ \E r \in DOMAIN runs : runs[r].day >= cands[c].at + Quarantine

CandsEarned ==
    \A c \in DOMAIN cands :
      /\ cands[c].disp \in {"ELIGIBLE", "PROMOTED"} => Earned(c)
      /\ ~cands[c].gates => cands[c].disp = "REJECTED"

\* A process works on segments that were earned, by the date of its own run.
JobEarned(j) ==
    /\ j.todo \subseteq DOMAIN cands
    /\ \A c \in j.chosen : Earned(c)
    /\ j.pc \in {"read", "reassess"} => j.run \in DOMAIN runs /\ runs[j.run].day = j.day
    /\ j.pc \in {"promote", "reject"} => j.todo \subseteq j.chosen
    /\ j.trained \subseteq j.chosen
    /\ j.pc \in {"validate", "activate"} => j.trained # {}
    /\ j.pc = "activate" => j.far = "within"

\* It has written the files of a version that no row names yet.
Holds(j) == j.pc \in {"validate", "activate", "first_register", "first_activate"}
JobHolds(j) == Holds(j) => j.built \in artifacts /\ \A p \in profiles : p.v # j.built

JobsInv ==
    /\ \A o \in Operators : JobEarned(job[o]) /\ JobHolds(job[o])
    /\ \A o, q \in Operators :
         o # q /\ Holds(job[o]) /\ Holds(job[q]) => job[o].built # job[q].built

\* What a profile was updated on was earned.
ProfilesEarned ==
    \A p \in profiles : p.first \/
      (p.trained # {} /\ p.far = "within" /\ \A c \in p.trained : Earned(c))

UpdatesInv ==
    StoreTypes /\ ProfileTypes /\ JobTypes /\ CandsEarned /\ JobsInv
      /\ ProfilesEarned /\ RowsAreLoadable /\ OneActive

\* Rows are added and dispositions change; what a row says of its segment does not.
Grows ==
    /\ \A c \in DOMAIN cands : /\ c \in DOMAIN cands'
                               /\ cands'[c].gates = cands[c].gates
                               /\ cands'[c].at = cands[c].at
    /\ \A r \in DOMAIN runs : r \in DOMAIN runs' /\ runs'[r].day = runs[r].day
    /\ artifacts \subseteq artifacts'
-----------------------------------------------------------------------------
(* An idle process holds and claims nothing.                               *)
LEMMA IdleJob == Idle \in Job /\ ~Holds(Idle) /\ JobEarned(Idle)
<1>1. 0 \in Day
  BY UpdateAssumption DEF Day
<1> QED BY <1>1 DEF Idle, Job, Pc, Holds, JobEarned

(* What a segment has earned stays earned.                                 *)
LEMMA EarnedStays ==
    ASSUME Grows, NEW c, Earned(c)
    PROVE  Earned(c)'
BY DEF Grows, Earned

(* So does what a process stands on.                                       *)
LEMMA JobEarnedStays ==
    ASSUME Grows, NEW j, JobEarned(j)
    PROVE  /\ j.todo \subseteq DOMAIN cands'
           /\ \A c \in j.chosen : Earned(c)'
           /\ j.pc \in {"read", "reassess"} => j.run \in DOMAIN runs' /\ runs'[j.run].day = j.day
           /\ j.pc \in {"promote", "reject"} => j.todo \subseteq j.chosen
           /\ j.trained \subseteq j.chosen
           /\ j.pc \in {"validate", "activate"} => j.trained # {}
           /\ j.pc = "activate" => j.far = "within"
<1>1. \A c \in j.chosen : Earned(c)'
  BY EarnedStays DEF JobEarned
<1> QED BY <1>1 DEF Grows, JobEarned

\* A process takes a step that leaves the profiles alone.
LEMMA ProfilesAlone ==
    ASSUME UpdatesInv, UNCHANGED profiles, StoreTypes', Grows, CandsEarned',
           NEW o \in Operators, NEW j \in Job, job' = [job EXCEPT ![o] = j],
           JobEarned(j)',
           Holds(j) => /\ j.built \in artifacts'
                       /\ \/ Holds(job[o]) /\ j.built = job[o].built
                          \/ j.built \notin artifacts
    PROVE  UpdatesInv'
<1>1. /\ job' \in [Operators -> Job] /\ job'[o] = j
      /\ \A q \in Operators : q # o => job'[q] = job[q]
  BY DEF UpdatesInv, JobTypes
<1>2. ASSUME NEW q \in Operators PROVE JobEarned(job[q])'
  <2>1. CASE q = o
    BY <1>1, <2>1 DEF JobEarned
  <2>2. CASE q # o
    <3>1. JobEarned(job[q]) /\ job'[q] = job[q]
      BY <1>1, <2>2 DEF UpdatesInv, JobsInv
    <3> QED BY <3>1, JobEarnedStays DEF JobEarned
  <2> QED BY <2>1, <2>2
<1>3. \A p \in profiles : p.v \in artifacts
  BY DEF UpdatesInv, RowsAreLoadable
<1>4. ASSUME NEW q \in Operators PROVE JobHolds(job[q])'
  <2>1. JobHolds(job[q]) /\ JobHolds(job[o])
    BY DEF UpdatesInv, JobsInv
  <2> QED BY <1>1, <1>3, <2>1 DEF JobHolds, Holds, Grows
<1>5. ASSUME NEW q \in Operators, NEW r \in Operators, q # r,
             Holds(job'[q]), Holds(job'[r])
      PROVE  job'[q].built # job'[r].built
  <2>1. JobHolds(job[q]) /\ JobHolds(job[r]) /\ JobHolds(job[o])
    BY DEF UpdatesInv, JobsInv
  <2>2. ASSUME NEW s \in Operators, s # o, Holds(job[s]), Holds(j) PROVE job[s].built # j.built
    BY <2>2 DEF UpdatesInv, JobsInv, JobHolds
  <2>3. CASE q = o
    BY <1>1, <1>5, <2>2, <2>3
  <2>4. CASE r = o
    BY <1>1, <1>5, <2>2, <2>4
  <2>5. CASE q # o /\ r # o
    BY <1>1, <1>5, <2>5 DEF UpdatesInv, JobsInv
  <2> QED BY <2>3, <2>4, <2>5
<1>6. JobsInv'
  BY <1>2, <1>4, <1>5 DEF JobsInv, Holds
<1>7. ProfilesEarned'
  BY EarnedStays DEF UpdatesInv, ProfilesEarned
<1>8. RowsAreLoadable' /\ OneActive' /\ ProfileTypes'
  BY DEF UpdatesInv, RowsAreLoadable, OneActive, Active, ProfileTypes, Grows
<1> QED BY <1>1, <1>6, <1>7, <1>8 DEF UpdatesInv, JobTypes

\* A process replaces the profiles by those with the one it built, and drops some.
LEMMA ProfileAdded ==
    ASSUME UpdatesInv, UNCHANGED <<today, cands, runs, artifacts, version>>,
           NEW o \in Operators, NEW j \in Job, job' = [job EXCEPT ![o] = j],
           ~Holds(j), JobEarned(j), Holds(job[o]), NEW first \in BOOLEAN, Activated(o, first),
           first \/ (job[o].trained # {} /\ job[o].far = "within")
    PROVE  UpdatesInv'
<1> DEFINE new == [v |-> job[o].built, status |-> "ACTIVE", retired |-> 0, day |-> job[o].day,
                   trained |-> job[o].trained, far |-> job[o].far, first |-> first]
           older == Older \cup {Retire(p) : p \in Active}
<1>1. /\ job' \in [Operators -> Job] /\ job'[o] = j
      /\ \A q \in Operators : q # o => job'[q] = job[q]
  BY DEF UpdatesInv, JobTypes
<1>2. job[o] \in Job /\ JobEarned(job[o]) /\ JobHolds(job[o])
  BY DEF UpdatesInv, JobTypes, JobsInv
<1>3. new \in ProfileRow
  BY <1>2, UpdateAssumption DEF Job, ProfileRow, Day
<1>4. profiles' \subseteq older \cup {new} /\ new \in profiles'
  BY DEF Activated
<1>5. clock' \in [retired : Nat, rollbacks : Nat]
  BY DEF Activated, UpdatesInv, StoreTypes
<1>6. clock.retired + 1 \in Nat
  BY DEF UpdatesInv, StoreTypes
<1>7. ASSUME NEW p \in older
      PROVE  /\ p \in ProfileRow /\ p.status = "RETAINED"
             /\ \E q \in profiles : p.v = q.v /\ p.trained = q.trained /\ p.far = q.far /\ p.first = q.first
  <2>1. CASE p \in Older
    BY <2>1 DEF Older, UpdatesInv, ProfileTypes
  <2>2. CASE p \notin Older
    <3>1. PICK q \in Active : p = Retire(q)
      BY <1>7, <2>2
    <3>2. q \in profiles /\ q \in ProfileRow
      BY <3>1 DEF Active, UpdatesInv, ProfileTypes
    <3> QED BY <1>6, <3>1, <3>2 DEF Retire, ProfileRow
  <2> QED BY <2>1, <2>2
<1>8. ASSUME NEW p \in older, NEW q \in older, p.v = q.v PROVE p = q
  <2>1. \A a, b \in profiles : a.v = b.v => a = b
    BY DEF UpdatesInv, RowsAreLoadable
  <2>2. ASSUME NEW a \in older
        PROVE  \E b \in profiles : a.v = b.v /\ a = (IF b.status = "ACTIVE" THEN Retire(b) ELSE b)
    <3>1. CASE a \in Older
      BY <3>1 DEF Older
    <3>2. CASE a \notin Older
      <4>1. PICK b \in Active : a = Retire(b)
        BY <2>2, <3>2
      <4>2. b \in profiles /\ b \in ProfileRow /\ b.status = "ACTIVE"
        BY <4>1 DEF Active, UpdatesInv, ProfileTypes
      <4>3. a.v = b.v
        BY <4>1, <4>2 DEF Retire, ProfileRow
      <4> QED BY <4>1, <4>2, <4>3
    <3> QED BY <3>1, <3>2
  <2>3. PICK a \in profiles : p.v = a.v /\ p = (IF a.status = "ACTIVE" THEN Retire(a) ELSE a)
    BY <2>2
  <2>4. PICK b \in profiles : q.v = b.v /\ q = (IF b.status = "ACTIVE" THEN Retire(b) ELSE b)
    BY <2>2
  <2> QED BY <1>8, <2>1, <2>3, <2>4
<1>9. /\ new.v = job[o].built /\ new.status = "ACTIVE" /\ new.first = first
      /\ new.trained = job[o].trained /\ new.far = job[o].far
  OBVIOUS
<1> HIDE DEF new, older
<1>10. \A p \in profiles : p.v \in artifacts /\ p.v # new.v
  BY <1>2, <1>9 DEF UpdatesInv, RowsAreLoadable, JobHolds
<1>11. RowsAreLoadable'
  <2>1. \A p \in older : p.v \in artifacts /\ p.v # new.v
    BY <1>7, <1>10
  <2>2. new.v \in artifacts
    BY <1>2, <1>9 DEF JobHolds
  <2> QED BY <1>4, <1>8, <2>1, <2>2 DEF RowsAreLoadable
<1>12. OneActive'
  <2>1. \A p \in profiles' : p.status = "ACTIVE" <=> p = new
    BY <1>4, <1>7, <1>9
  <2>2. Active' = {new}
    BY <1>4, <2>1 DEF Active
  <2> QED BY <1>4, <2>2 DEF OneActive
<1>13. ProfilesEarned'
  <2>1. \A c : Earned(c) => Earned(c)'
    BY DEF Earned
  <2>2. first \/ (new.trained # {} /\ new.far = "within" /\ \A c \in new.trained : Earned(c))
    BY <1>2, <1>9 DEF JobEarned
  <2>3. \A p \in older : p.first \/ (p.trained # {} /\ p.far = "within" /\ \A c \in p.trained : Earned(c))
    BY <1>7 DEF UpdatesInv, ProfilesEarned
  <2> QED BY <1>4, <1>9, <2>1, <2>2, <2>3 DEF ProfilesEarned
<1>14. JobsInv'
  <2>1. \A q \in Operators : JobEarned(job[q]) /\ JobHolds(job[q])
    BY DEF UpdatesInv, JobsInv
  <2>2. ASSUME NEW q \in Operators, q # o, Holds(job[q]) PROVE \A p \in profiles' : p.v # job[q].built
    <3>1. job[q].built # new.v
      BY <1>9, <2>2 DEF UpdatesInv, JobsInv
    <3>2. \A p \in profiles : p.v # job[q].built
      BY <2>1, <2>2 DEF JobHolds
    <3> QED BY <1>4, <1>7, <3>1, <3>2
  <2>3. \A q \in Operators : JobEarned(job'[q])
    BY <1>1, <2>1
  <2>4. \A q \in Operators : JobEarned(job[q])'
    BY <2>3 DEF JobEarned, Earned
  <2>5. \A q \in Operators : JobHolds(job[q])'
    BY <1>1, <2>1, <2>2 DEF JobHolds, Holds
  <2>6. \A q, r \in Operators :
          q # r /\ Holds(job'[q]) /\ Holds(job'[r]) => job'[q].built # job'[r].built
    BY <1>1 DEF UpdatesInv, JobsInv
  <2> QED BY <2>4, <2>5, <2>6 DEF JobsInv, Holds
<1>15. StoreTypes' /\ CandsEarned'
  BY <1>5 DEF UpdatesInv, StoreTypes, CandsEarned, Earned
<1>16. ProfileTypes'
  BY <1>3, <1>4, <1>7 DEF ProfileTypes
<1> QED BY <1>1, <1>11, <1>12, <1>13, <1>14, <1>15, <1>16 DEF UpdatesInv, JobTypes
-----------------------------------------------------------------------------
\* A process takes a step that changes no more of the store than the models table.
LEMMA RestAlone ==
    ASSUME UpdatesInv, UNCHANGED <<today, cands, runs, profiles, artifacts, clock, version>>,
           NEW o \in Operators, NEW j \in Job, job' = [job EXCEPT ![o] = j], JobEarned(j),
           Holds(j) => Holds(job[o]) /\ j.built = job[o].built
    PROVE  UpdatesInv'
<1>1. Grows
  BY DEF Grows
<1>2. StoreTypes' /\ CandsEarned' /\ UNCHANGED profiles
  BY DEF UpdatesInv, StoreTypes, CandsEarned, Earned
<1>3. JobEarned(j)'
  BY DEF JobEarned, Earned
<1>4. Holds(j) => j.built \in artifacts'
  BY <1>1 DEF UpdatesInv, JobsInv, JobHolds, Grows
<1> QED BY <1>1, <1>2, <1>3, <1>4, ProfilesAlone

\* The store stays as it is.
LEMMA StoreAlone ==
    ASSUME UpdatesInv, UNCHANGED <<today, store>>,
           NEW o \in Operators, NEW j \in Job, job' = [job EXCEPT ![o] = j], JobEarned(j),
           Holds(j) => Holds(job[o]) /\ j.built = job[o].built
    PROVE  UpdatesInv'
BY RestAlone DEF store

(* The parts of the invariant for one process.                             *)
LEMMA JobOf ==
    ASSUME UpdatesInv, NEW o \in Operators
    PROVE  job[o] \in Job /\ JobEarned(job[o]) /\ JobHolds(job[o])
BY DEF UpdatesInv, JobTypes, JobsInv

(* A step that only moves its process on.                                  *)
LEMMA GoAlone ==
    ASSUME UpdatesInv, UNCHANGED <<today, store>>, NEW o \in Operators, NEW pc \in Pc,
           Go(o, pc), pc \notin {"read", "reassess", "promote", "reject", "validate"},
           pc = "activate" => job[o].pc = "validate" /\ job[o].far = "within",
           pc \notin {"first_register", "first_activate"}
    PROVE  UpdatesInv'
<1> DEFINE j == [job[o] EXCEPT !.pc = pc]
<1>1. job[o] \in Job /\ JobEarned(job[o])
  BY JobOf
<1>2. job' = [job EXCEPT ![o] = j]
  BY DEF Go, UpdatesInv, JobTypes
<1>3. j \in Job /\ j.pc = pc /\ j.todo = job[o].todo /\ j.chosen = job[o].chosen
      /\ j.trained = job[o].trained /\ j.far = job[o].far /\ j.built = job[o].built
  BY <1>1 DEF Job
<1> HIDE DEF j
<1>4. JobEarned(j)
  BY <1>1, <1>3 DEF JobEarned
<1>5. Holds(j) => Holds(job[o]) /\ j.built = job[o].built
  BY <1>3 DEF Holds
<1> QED BY <1>2, <1>3, <1>4, <1>5, StoreAlone

(* A process that ends, or is killed.                                      *)
LEMMA EndAlone ==
    ASSUME UpdatesInv, NEW o \in Operators, End(o), UNCHANGED <<today, store>>
    PROVE  UpdatesInv'
BY IdleJob, StoreAlone DEF End

(* A run begins.                                                           *)
LEMMA KeepsBeginRun ==
    ASSUME UpdatesInv, NEW o \in Operators, NEW day \in Day, BeginRun(o, day)
    PROVE  UpdatesInv'
<1>1. [day |-> day, status |-> "RUNNING"] \in RunRow
  BY DEF RunRow, RunStatus
<1>2. /\ runs' \in Seq(RunRow) /\ Len(runs') \in DOMAIN runs' /\ runs'[Len(runs')].day = day
      /\ Len(runs') \in Nat
      /\ \A r \in DOMAIN runs : r \in DOMAIN runs' /\ runs'[r].day = runs[r].day
  <2>1. runs \in Seq(RunRow) /\ runs' = Append(runs, [day |-> day, status |-> "RUNNING"])
    BY DEF BeginRun, UpdatesInv, StoreTypes
  <2> DEFINE row == [day |-> day, status |-> "RUNNING"]
  <2>2. row \in RunRow /\ row.day = day /\ runs' = Append(runs, row)
    BY <1>1, <2>1
  <2> HIDE DEF row
  <2> QED BY <2>1, <2>2
<1>3. Grows
  BY <1>2 DEF BeginRun, Grows
<1>4. StoreTypes'
  BY <1>2 DEF BeginRun, UpdatesInv, StoreTypes
<1>5. CandsEarned'
  BY <1>3, EarnedStays DEF BeginRun, UpdatesInv, CandsEarned
<1>6. ASSUME NEW corpus \in SUBSET DOMAIN cands,
             job' = [job EXCEPT ![o] = [Idle EXCEPT !.pc = "read", !.run = Len(runs'),
                                                    !.day = day, !.corpus = corpus]]
      PROVE  UpdatesInv'
  <2> DEFINE e == [Idle EXCEPT !.pc = "read", !.run = Len(runs'), !.day = day, !.corpus = corpus]
  <2>1. e \in Job
    <3>1. corpus \in SUBSET Nat
      BY DEF UpdatesInv, StoreTypes
    <3> QED BY <1>2, <3>1, IdleJob DEF Job, Pc
  <2>2. /\ e.pc = "read" /\ e.run = Len(runs') /\ e.day = day
        /\ e.todo = {} /\ e.chosen = {} /\ e.trained = {}
    BY DEF Idle
  <2>3. job' = [job EXCEPT ![o] = e]
    BY <1>6
  <2> HIDE DEF e
  <2>4. PICK j \in Job : j = e
    BY <2>1
  <2>5. JobEarned(j)' /\ ~Holds(j)
    BY <1>2, <2>2, <2>4 DEF JobEarned, Holds
  <2> QED BY <1>3, <1>4, <1>5, <2>3, <2>4, <2>5, ProfilesAlone DEF BeginRun
<1>7. CASE UNCHANGED job
  <2>1. PICK j \in Job : j = job[o]
    BY JobOf
  <2>2. job' = [job EXCEPT ![o] = j]
    BY <1>7, <2>1 DEF UpdatesInv, JobTypes
  <2>3. JobEarned(j)'
    BY <1>3, <2>1, JobOf, JobEarnedStays DEF JobEarned
  <2>4. Holds(j) => j.built \in artifacts'
    BY <1>3, <2>1, JobOf DEF JobHolds, Grows
  <2> QED BY <1>3, <1>4, <1>5, <2>1, <2>2, <2>3, <2>4, ProfilesAlone DEF BeginRun
<1> QED BY <1>6, <1>7 DEF BeginRun

(* It reads the candidates.                                                *)
LEMMA KeepsRead ==
    ASSUME UpdatesInv, NEW o \in Operators, ReadCandidates(o)
    PROVE  UpdatesInv'
<1> DEFINE j == [job[o] EXCEPT !.pc = "reassess", !.todo = DOMAIN cands]
<1>1. job[o] \in Job /\ JobEarned(job[o]) /\ job[o].pc = "read"
  BY JobOf DEF ReadCandidates, At
<1>2. job' = [job EXCEPT ![o] = j]
  BY DEF ReadCandidates, UpdatesInv, JobTypes
<1>3. DOMAIN cands \in SUBSET Nat
  BY DEF UpdatesInv, StoreTypes
<1>4. /\ j \in Job /\ j.pc = "reassess" /\ j.todo = DOMAIN cands /\ j.chosen = job[o].chosen
      /\ j.trained = job[o].trained /\ j.run = job[o].run /\ j.day = job[o].day
  BY <1>1, <1>3 DEF Job, Pc
<1> HIDE DEF j
<1>5. JobEarned(j) /\ ~Holds(j)
  BY <1>1, <1>4 DEF JobEarned, Holds
<1> QED BY <1>2, <1>4, <1>5, StoreAlone DEF ReadCandidates

(* It reassesses one.                                                      *)
LEMMA KeepsReassess ==
    ASSUME UpdatesInv, NEW o \in Operators, Reassess(o)
    PROVE  UpdatesInv'
<1>1. PICK c \in job[o].todo :
        LET new == Reassessed(cands[c], job[o].day)
        IN /\ cands' = [cands EXCEPT ![c] = new]
           /\ job' = [job EXCEPT
                ![o].todo = @ \ {c},
                ![o].chosen = IF new.disp \in {"ELIGIBLE", "PROMOTED"} THEN @ \cup {c} ELSE @]
  BY DEF Reassess
<1> DEFINE new == Reassessed(cands[c], job[o].day)
           chosen == IF new.disp \in {"ELIGIBLE", "PROMOTED"} THEN job[o].chosen \cup {c}
                     ELSE job[o].chosen
           j == [job[o] EXCEPT !.todo = @ \ {c}, !.chosen = chosen]
<1>2. job[o] \in Job /\ JobEarned(job[o]) /\ job[o].pc = "reassess"
  BY JobOf DEF Reassess, At
<1>3. c \in DOMAIN cands /\ c \in Nat /\ cands[c] \in CandidateRow
  BY <1>2 DEF JobEarned, UpdatesInv, StoreTypes
<1>4. /\ job[o].run \in DOMAIN runs /\ runs[job[o].run].day = job[o].day
  BY <1>2 DEF JobEarned
<1>5. /\ new \in CandidateRow /\ new.gates = cands[c].gates /\ new.at = cands[c].at
      /\ ~new.gates => new.disp = "REJECTED"
  <2>1. CASE cands[c].disp \in Terminal
    BY <1>3, <2>1 DEF Reassessed, UpdatesInv, CandsEarned
  <2>2. CASE cands[c].disp \notin Terminal
    <3>1. cands[c].gates
      BY <1>3, <2>2 DEF UpdatesInv, CandsEarned, Terminal, CandidateRow
    <3>2. Aged(cands[c], job[o].day) \in BOOLEAN
      BY DEF Aged
    <3>3. new = [cands[c] EXCEPT
                   !.disp = IF Aged(cands[c], job[o].day) THEN "ELIGIBLE" ELSE "QUARANTINED",
                   !.aged = Aged(cands[c], job[o].day)]
      BY <2>2 DEF Reassessed
    <3> HIDE DEF new
    <3> QED BY <1>3, <3>1, <3>2, <3>3 DEF CandidateRow, Disposition
  <2> QED BY <2>1, <2>2
<1>6. new.disp \in {"ELIGIBLE", "PROMOTED"} => Earned(c)
  <2>1. CASE cands[c].disp \in Terminal
    BY <1>3, <2>1 DEF Reassessed, UpdatesInv, CandsEarned
  <2>2. CASE cands[c].disp \notin Terminal
    <3>1. new.disp = IF Aged(cands[c], job[o].day) THEN "ELIGIBLE" ELSE "QUARANTINED"
      BY <1>3, <2>2 DEF Reassessed, CandidateRow
    <3>2. cands[c].gates
      BY <1>3, <2>2 DEF UpdatesInv, CandsEarned, Terminal, CandidateRow
    <3> QED BY <1>3, <1>4, <3>1, <3>2 DEF Aged, Earned
  <2> QED BY <2>1, <2>2
<1>7. cands' = [cands EXCEPT ![c] = new] /\ job' = [job EXCEPT ![o] = j]
  BY <1>1 DEF UpdatesInv, JobTypes
<1>8. chosen \in SUBSET Nat /\ \A d \in chosen : Earned(d)
  BY <1>2, <1>3, <1>6 DEF Job, JobEarned
<1> HIDE DEF new, chosen
<1>9. /\ j \in Job /\ j.pc = "reassess" /\ j.todo = job[o].todo \ {c} /\ j.chosen = chosen
      /\ j.trained = job[o].trained /\ j.run = job[o].run /\ j.day = job[o].day
  BY <1>2, <1>8 DEF Job, Pc
<1> HIDE DEF j
<1>10. cands' \in Seq(CandidateRow) /\ DOMAIN cands' = DOMAIN cands /\ cands'[c] = new
       /\ \A d \in DOMAIN cands : d # c => cands'[d] = cands[d]
  BY <1>3, <1>5, <1>7 DEF UpdatesInv, StoreTypes
<1>11. Grows
  BY <1>5, <1>10 DEF Reassess, Grows
<1>12. StoreTypes'
  BY <1>10 DEF Reassess, UpdatesInv, StoreTypes
<1>13. CandsEarned'
  BY <1>5, <1>6, <1>10, <1>11, EarnedStays DEF UpdatesInv, CandsEarned
<1>14. job[o].trained \subseteq chosen
  BY <1>2 DEF JobEarned, chosen
<1>15. PICK i \in Job : i = j
  BY <1>9
<1>16. JobEarned(i)' /\ ~Holds(i)
  <2>1. \A d \in i.chosen : Earned(d)'
    BY <1>8, <1>9, <1>11, <1>15, EarnedStays
  <2>2. i.trained \subseteq i.chosen /\ i.todo \subseteq DOMAIN cands'
    BY <1>2, <1>9, <1>10, <1>14, <1>15 DEF JobEarned
  <2>3. i.run \in DOMAIN runs' /\ runs'[i.run].day = i.day
    BY <1>4, <1>9, <1>15 DEF Reassess
  <2> QED BY <1>9, <1>15, <2>1, <2>2, <2>3 DEF JobEarned, Holds
<1> QED BY <1>7, <1>11, <1>12, <1>13, <1>15, <1>16, ProfilesAlone DEF Reassess

(* It has reassessed them all.                                             *)
LEMMA KeepsAssessed ==
    ASSUME UpdatesInv, NEW o \in Operators, Assessed(o)
    PROVE  UpdatesInv'
<1>1. CASE job[o].chosen = {}
  BY <1>1, GoAlone DEF Assessed, Pc
<1>2. CASE job[o].chosen # {}
  <2> DEFINE j == [job[o] EXCEPT !.pc = "promote", !.todo = job[o].chosen]
  <2>1. job[o] \in Job /\ JobEarned(job[o])
    BY JobOf
  <2>2. job' = [job EXCEPT ![o] = j]
    BY <1>2 DEF Assessed, UpdatesInv, JobTypes
  <2>3. /\ j \in Job /\ j.pc = "promote" /\ j.todo = job[o].chosen /\ j.chosen = job[o].chosen
        /\ j.trained = job[o].trained
    BY <2>1 DEF Job, Pc
  <2> HIDE DEF j
  <2>4. JobEarned(j) /\ ~Holds(j)
    BY <2>1, <2>3 DEF JobEarned, Earned, Holds
  <2> QED BY <2>2, <2>3, <2>4, StoreAlone DEF Assessed
<1> QED BY <1>1, <1>2

(* It saves what was chosen.                                               *)
LEMMA KeepsSaveChosen ==
    ASSUME UpdatesInv, NEW o \in Operators, NEW at \in {"promote", "reject"},
           NEW disp \in {"PROMOTED", "REJECTED"}, NEW next \in {"build", "rejected"},
           SaveChosen(o, at, disp, next)
    PROVE  UpdatesInv'
<1>1. PICK c \in job[o].todo :
        /\ cands' = [cands EXCEPT ![c].disp = disp]
        /\ job' = [job EXCEPT ![o].todo = @ \ {c},
                              ![o].pc = IF job[o].todo = {c} THEN next ELSE at]
  BY DEF SaveChosen
<1> DEFINE pc == IF job[o].todo = {c} THEN next ELSE at
           j == [job[o] EXCEPT !.todo = @ \ {c}, !.pc = pc]
<1>2. job[o] \in Job /\ JobEarned(job[o]) /\ job[o].pc = at
  BY JobOf DEF SaveChosen, At
<1>3. job[o].todo \subseteq job[o].chosen /\ Earned(c)
  BY <1>1, <1>2 DEF JobEarned
<1>4. job' = [job EXCEPT ![o] = j]
  BY <1>1 DEF UpdatesInv, JobTypes
<1>5. pc \in {"promote", "reject", "build", "rejected"} /\ pc \in Pc
  BY DEF Pc
<1> HIDE DEF pc
<1>6. /\ j \in Job /\ j.pc = pc /\ j.todo = job[o].todo \ {c} /\ j.chosen = job[o].chosen
      /\ j.trained = job[o].trained
  BY <1>2, <1>5 DEF Job
<1> HIDE DEF j
<1>7. c \in DOMAIN cands /\ cands[c] \in CandidateRow /\ cands[c].gates
  BY <1>3 DEF Earned, UpdatesInv, StoreTypes
<1>8. [cands[c] EXCEPT !.disp = disp] \in CandidateRow
  BY <1>7 DEF CandidateRow, Disposition
<1>9. /\ cands' \in Seq(CandidateRow) /\ DOMAIN cands' = DOMAIN cands
      /\ cands'[c].gates = cands[c].gates /\ cands'[c].at = cands[c].at
      /\ \A d \in DOMAIN cands : d # c => cands'[d] = cands[d]
  <2> DEFINE row == [cands[c] EXCEPT !.disp = disp]
  <2>1. cands' = [cands EXCEPT ![c] = row] /\ row.gates = cands[c].gates /\ row.at = cands[c].at
    BY <1>1, <1>7 DEF CandidateRow
  <2>2. row \in CandidateRow
    BY <1>8
  <2> HIDE DEF row
  <2>3. cands \in Seq(CandidateRow) /\ c \in DOMAIN cands
    BY <1>7 DEF UpdatesInv, StoreTypes
  <2>4. /\ DOMAIN cands' = DOMAIN cands /\ cands'[c] = row
        /\ \A d \in DOMAIN cands : d # c => cands'[d] = cands[d]
    BY <2>1, <2>3
  <2>5. cands' \in Seq(CandidateRow)
    BY <2>1, <2>2, <2>3
  <2> QED BY <2>1, <2>4, <2>5
<1>10. Grows
  BY <1>9 DEF SaveChosen, Grows
<1>11. StoreTypes'
  BY <1>9 DEF SaveChosen, UpdatesInv, StoreTypes
<1>12. CandsEarned'
  BY <1>3, <1>7, <1>9, <1>10, EarnedStays DEF UpdatesInv, CandsEarned
<1>13. PICK i \in Job : i = j
  BY <1>6
<1>14. JobEarned(i)' /\ ~Holds(i)
  <2>1. \A d \in i.chosen : Earned(d)'
    BY <1>2, <1>6, <1>10, <1>13, EarnedStays DEF JobEarned
  <2>2. i.todo \subseteq i.chosen /\ i.trained \subseteq i.chosen /\ i.todo \subseteq DOMAIN cands'
    BY <1>2, <1>3, <1>6, <1>9, <1>13 DEF JobEarned
  <2> QED BY <1>5, <1>6, <1>13, <2>1, <2>2 DEF JobEarned, Holds
<1> QED BY <1>4, <1>10, <1>11, <1>12, <1>13, <1>14, ProfilesAlone DEF SaveChosen

\* A new version is saved: its files are on disk before anything can name it.
LEMMA VersionSaved ==
    ASSUME UpdatesInv, UNCHANGED <<today, cands, runs, clock, profiles>>,
           version' = version + 1, artifacts' = artifacts \cup {version + 1},
           NEW o \in Operators, NEW j \in Job, job' = [job EXCEPT ![o] = j], JobEarned(j),
           Holds(j) => j.built = version + 1
    PROVE  UpdatesInv'
<1>1. Grows
  BY DEF Grows
<1>2. StoreTypes' /\ version + 1 \notin artifacts
  BY DEF UpdatesInv, StoreTypes
<1>3. CandsEarned' /\ JobEarned(j)'
  BY DEF UpdatesInv, CandsEarned, Earned, JobEarned
<1> QED BY <1>1, <1>2, <1>3, ProfilesAlone

(* It trains and saves a version.                                          *)
LEMMA KeepsBuild ==
    ASSUME UpdatesInv, NEW o \in Operators, Build(o)
    PROVE  UpdatesInv'
<1>1. job[o] \in Job /\ JobEarned(job[o]) /\ version + 1 \in Nat
  BY JobOf DEF UpdatesInv, StoreTypes
<1>2. CASE Go(o, "failing") /\ UNCHANGED <<artifacts, version>>
  BY <1>2, GoAlone DEF Build, Pc, store
<1>3. CASE /\ version' = version + 1 /\ artifacts' = artifacts \cup {version + 1}
           /\ Go(o, "failing")
  <2> DEFINE j == [job[o] EXCEPT !.pc = "failing"]
  <2>1. job' = [job EXCEPT ![o] = j]
    BY <1>3 DEF Go, UpdatesInv, JobTypes
  <2>2. /\ j \in Job /\ j.pc = "failing" /\ j.todo = job[o].todo /\ j.chosen = job[o].chosen
        /\ j.trained = job[o].trained
    BY <1>1 DEF Job, Pc
  <2> HIDE DEF j
  <2>3. JobEarned(j) /\ ~Holds(j)
    BY <1>1, <2>2 DEF JobEarned, Holds
  <2> QED BY <1>3, <2>1, <2>2, <2>3, VersionSaved DEF Build
<1>4. ASSUME NEW far \in {"within", "beyond"}, Trainable(o) # {},
             version' = version + 1, artifacts' = artifacts \cup {version + 1},
             job' = [job EXCEPT ![o].pc = "validate", ![o].far = far,
                                ![o].trained = Trainable(o), ![o].built = version + 1]
      PROVE  UpdatesInv'
  <2> DEFINE j == [job[o] EXCEPT !.pc = "validate", !.far = far, !.trained = Trainable(o),
                                 !.built = version + 1]
  <2>1. job' = [job EXCEPT ![o] = j]
    BY <1>4 DEF UpdatesInv, JobTypes
  <2>2. Trainable(o) \subseteq job[o].chosen
    BY DEF Trainable
  <2>3. Trainable(o) \in SUBSET Nat
    BY <1>1, <2>2 DEF Job
  <2>4. /\ j \in Job /\ j.pc = "validate" /\ j.todo = job[o].todo /\ j.chosen = job[o].chosen
        /\ j.trained = Trainable(o) /\ j.built = version + 1
    BY <1>1, <2>3 DEF Job, Pc
  <2> HIDE DEF j
  <2>5. JobEarned(j)
    BY <1>1, <1>4, <2>2, <2>4 DEF JobEarned
  <2> QED BY <1>4, <2>1, <2>4, <2>5, VersionSaved DEF Build
<1> QED BY <1>2, <1>3, <1>4 DEF Build

(* It validates the version.                                               *)
LEMMA KeepsValidate ==
    ASSUME UpdatesInv, NEW o \in Operators, Validate(o)
    PROVE  UpdatesInv'
<1>1. CASE Accepted(o)
  BY <1>1, GoAlone DEF Validate, At, Accepted, Pc
<1>2. CASE ~Accepted(o)
  <2> DEFINE j == [job[o] EXCEPT !.pc = "reject", !.todo = job[o].chosen]
  <2>1. job[o] \in Job /\ JobEarned(job[o])
    BY JobOf
  <2>2. job' = [job EXCEPT ![o] = j]
    BY <1>2 DEF Validate, UpdatesInv, JobTypes
  <2>3. /\ j \in Job /\ j.pc = "reject" /\ j.todo = job[o].chosen /\ j.chosen = job[o].chosen
        /\ j.trained = job[o].trained
    BY <2>1 DEF Job, Pc
  <2> HIDE DEF j
  <2>4. JobEarned(j) /\ ~Holds(j)
    BY <2>1, <2>3 DEF JobEarned, Earned, Holds
  <2> QED BY <2>2, <2>3, <2>4, StoreAlone DEF Validate
<1> QED BY <1>1, <1>2

(* It activates the version.                                               *)
LEMMA KeepsActivate ==
    ASSUME UpdatesInv, NEW o \in Operators, Activate(o)
    PROVE  UpdatesInv'
<1>1. job[o] \in Job /\ JobEarned(job[o]) /\ job[o].pc = "activate" /\ Holds(job[o])
  BY JobOf DEF Activate, At, Holds
<1>2. ASSUME NEW pc \in {"activated", "failing"}, Go(o, pc), Activated(o, FALSE) PROVE UpdatesInv'
  <2> DEFINE j == [job[o] EXCEPT !.pc = pc]
  <2>1. job' = [job EXCEPT ![o] = j]
    BY <1>2 DEF Go, UpdatesInv, JobTypes
  <2>2. /\ j \in Job /\ j.pc = pc /\ j.todo = job[o].todo /\ j.chosen = job[o].chosen
        /\ j.trained = job[o].trained
    BY <1>1 DEF Job, Pc
  <2> HIDE DEF j
  <2>3. JobEarned(j) /\ ~Holds(j)
    BY <1>1, <2>2 DEF JobEarned, Holds
  <2>4. job[o].trained # {} /\ job[o].far = "within"
    BY <1>1 DEF JobEarned
  <2> QED BY <1>1, <1>2, <2>1, <2>2, <2>3, <2>4, ProfileAdded DEF Activate
<1>3. CASE Go(o, "failing") /\ UNCHANGED <<profiles, clock>>
  BY <1>3, GoAlone DEF Activate, Pc, store
<1> QED BY <1>2, <1>3 DEF Activate

\* The row of the process's own run is finished, and the process ends.
LEMMA RunFinished ==
    ASSUME UpdatesInv, UNCHANGED <<today, cands, profiles, artifacts, clock, version>>,
           NEW o \in Operators, End(o), NEW status \in RunStatus,
           runs' = [runs EXCEPT ![job[o].run].status = status]
    PROVE  UpdatesInv'
<1>1. /\ runs' \in Seq(RunRow) /\ DOMAIN runs' = DOMAIN runs
      /\ \A r \in DOMAIN runs : runs'[r].day = runs[r].day
  <2>1. runs \in Seq(RunRow)
    BY DEF UpdatesInv, StoreTypes
  <2>2. CASE job[o].run \in DOMAIN runs
    <3> DEFINE row == [runs[job[o].run] EXCEPT !.status = status]
    <3>1. runs' = [runs EXCEPT ![job[o].run] = row]
      <4> DEFINE k == job[o].run
      <4>1. runs' = [runs EXCEPT ![k].status = status]
        OBVIOUS
      <4>2. row = [runs[k] EXCEPT !.status = status]
        OBVIOUS
      <4> HIDE DEF k, row
      <4>3. runs' = [runs EXCEPT ![k] = row]
        BY <4>1, <4>2
      <4> QED BY <4>3 DEF k
    <3>2. row \in RunRow /\ row.day = runs[job[o].run].day
      <4>1. \A x \in RunRow : LET y == [x EXCEPT !.status = status]
                             IN y \in RunRow /\ y.day = x.day
        BY DEF RunRow
      <4>2. runs[job[o].run] \in RunRow
        BY <2>1, <2>2
      <4> QED BY <4>1, <4>2
    <3> HIDE DEF row
    <3> QED BY <2>1, <2>2, <3>1, <3>2
  <2>3. CASE job[o].run \notin DOMAIN runs
    <3>1. runs' = runs
      BY <2>1, <2>3
    <3> QED BY <2>1, <3>1
  <2> QED BY <2>2, <2>3
<1>2. Grows /\ StoreTypes'
  BY <1>1 DEF Grows, UpdatesInv, StoreTypes
<1>3. CandsEarned'
  BY <1>2, EarnedStays DEF UpdatesInv, CandsEarned
<1>4. PICK i \in Job : i = Idle
  BY IdleJob
<1>5. job' = [job EXCEPT ![o] = i] /\ ~Holds(i)
  BY <1>4, IdleJob DEF End
<1>6. JobEarned(i)'
  BY <1>4 DEF JobEarned, Idle
<1> QED BY <1>2, <1>3, <1>4, <1>5, <1>6, ProfilesAlone

(* It ends its run.                                                        *)
LEMMA KeepsFinish ==
    ASSUME UpdatesInv, NEW o \in Operators, NEW status \in RunStatus,
           NEW at, Finish(o, at, status)
    PROVE  UpdatesInv'
<1>1. CASE runs' = [runs EXCEPT ![job[o].run].status = status] /\ End(o)
  BY <1>1, RunFinished DEF Finish
<1>2. CASE UNCHANGED runs /\ Go(o, "failing")
  BY <1>2, GoAlone DEF Finish, Pc, store
<1> QED BY <1>1, <1>2 DEF Finish

(* It ends its run as failed.                                              *)
LEMMA KeepsFinishFailed ==
    ASSUME UpdatesInv, NEW o \in Operators, FinishFailed(o)
    PROVE  UpdatesInv'
<1>1. CASE runs' = [runs EXCEPT ![job[o].run].status = "FAILED"]
  <2>1. "FAILED" \in RunStatus
    BY DEF RunStatus
  <2> QED BY <1>1, <2>1, RunFinished DEF FinishFailed
<1>2. CASE UNCHANGED runs
  BY <1>2, EndAlone DEF FinishFailed, store
<1> QED BY <1>1, <1>2 DEF FinishFailed

(* A first activation.                                                     *)
LEMMA KeepsFirst ==
    ASSUME UpdatesInv, NEW o \in Operators,
           BeginFirst(o) \/ FirstSave(o) \/ FirstRegister(o) \/ FirstActivate(o)
    PROVE  UpdatesInv'
<1>1. CASE BeginFirst(o)
  <2> DEFINE j == [Idle EXCEPT !.pc = "first_save", !.day = today]
  <2>1. job' = [job EXCEPT ![o] = j]
    BY <1>1 DEF BeginFirst
  <2>2. today \in Day
    BY DEF UpdatesInv, StoreTypes
  <2>3. j \in Job /\ j.pc = "first_save" /\ j.todo = {} /\ j.chosen = {} /\ j.trained = {}
    <3>1. j.pc = "first_save" /\ j.todo = {} /\ j.chosen = {} /\ j.trained = {}
      BY DEF Idle
    <3> QED BY <2>2, <3>1, IdleJob DEF Job, Pc
  <2> HIDE DEF j
  <2>4. JobEarned(j) /\ ~Holds(j)
    BY <2>3 DEF JobEarned, Holds
  <2> QED BY <1>1, <2>1, <2>3, <2>4, StoreAlone DEF BeginFirst
<1>2. CASE FirstSave(o)
  <2>1. PICK far \in {"unmeasured", "within"} :
          job' = [job EXCEPT ![o].pc = "first_register", ![o].far = far,
                             ![o].built = version + 1]
    BY <1>2 DEF FirstSave
  <2> DEFINE j == [job[o] EXCEPT !.pc = "first_register", !.far = far, !.built = version + 1]
  <2>2. job[o] \in Job /\ JobEarned(job[o]) /\ version + 1 \in Nat
    BY JobOf DEF UpdatesInv, StoreTypes
  <2>3. job' = [job EXCEPT ![o] = j]
    BY <2>1 DEF UpdatesInv, JobTypes
  <2>4. /\ j \in Job /\ j.pc = "first_register" /\ j.todo = job[o].todo /\ j.chosen = job[o].chosen
        /\ j.trained = job[o].trained /\ j.built = version + 1
    BY <2>2 DEF Job, Pc
  <2> HIDE DEF j
  <2>5. JobEarned(j)
    BY <2>2, <2>4 DEF JobEarned
  <2> QED BY <1>2, <2>3, <2>4, <2>5, VersionSaved DEF FirstSave
<1>3. CASE FirstActivate(o)
  <2>1. CASE Activated(o, TRUE)
    <3>1. Holds(job[o])
      BY <1>3 DEF FirstActivate, At, Holds
    <3> QED BY <1>3, <2>1, <3>1, IdleJob, ProfileAdded DEF FirstActivate, End
  <2>2. CASE UNCHANGED <<profiles, clock>>
    BY <1>3, <2>2, EndAlone DEF FirstActivate, store
  <2> QED BY <1>3, <2>1, <2>2 DEF FirstActivate
<1>4. CASE FirstRegister(o)
  <2>1. /\ job[o] \in Job /\ JobEarned(job[o]) /\ job[o].pc = "first_register"
        /\ UNCHANGED <<today, cands, runs, profiles, artifacts, clock, version>>
    BY <1>4, JobOf DEF FirstRegister, At
  <2>2. CASE End(o)
    BY <2>1, <2>2, IdleJob, RestAlone DEF End
  <2>3. CASE Go(o, "first_activate")
    <3> DEFINE j == [job[o] EXCEPT !.pc = "first_activate"]
    <3>1. job' = [job EXCEPT ![o] = j]
      BY <2>3 DEF Go, UpdatesInv, JobTypes
    <3>2. /\ j \in Job /\ j.pc = "first_activate" /\ j.todo = job[o].todo
          /\ j.chosen = job[o].chosen /\ j.trained = job[o].trained /\ j.built = job[o].built
      BY <2>1 DEF Job, Pc
    <3> HIDE DEF j
    <3>3. JobEarned(j) /\ Holds(job[o])
      BY <2>1, <3>2 DEF JobEarned, Holds
    <3> QED BY <2>1, <3>1, <3>2, <3>3, RestAlone
  <2> QED BY <1>4, <2>2, <2>3 DEF FirstRegister
<1> QED BY <1>1, <1>2, <1>3, <1>4

(* Every step of a process.                                                *)
LEMMA OperatorKeeps ==
    ASSUME UpdatesInv, NEW o \in Operators, Operator(o)
    PROVE  UpdatesInv'
<1>1. CASE Raise(o)
  BY <1>1, GoAlone DEF Raise, Pc
<1>2. CASE Crash(o)
  BY <1>2, EndAlone DEF Crash
<1>3. CASE Promote(o) \/ RejectChosen(o)
  BY <1>3, KeepsSaveChosen DEF Promote, RejectChosen
<1>4. CASE Finish(o, "rejected", "REJECTED") \/ Finish(o, "activated", "ACTIVATED")
  BY <1>4, KeepsFinish DEF RunStatus
<1>5. CASE BeginFirst(o) \/ FirstSave(o) \/ FirstRegister(o) \/ FirstActivate(o)
  BY <1>5, KeepsFirst
<1>6. CASE \E day \in Day : BeginRun(o, day)
  BY <1>6, KeepsBeginRun
<1> QED
  BY <1>1, <1>2, <1>3, <1>4, <1>5, <1>6, KeepsRead, KeepsReassess, KeepsAssessed, KeepsBuild,
     KeepsValidate, KeepsActivate, KeepsFinishFailed
     DEF Operator

\* The jobs of the processes, when a step is none of theirs.
LEMMA JobsAlone ==
    ASSUME UpdatesInv, Grows, UNCHANGED job,
           \A p \in profiles' : \E q \in profiles : p.v = q.v
    PROVE  JobsInv' /\ JobTypes'
<1>1. ASSUME NEW q \in Operators PROVE JobEarned(job[q])' /\ JobHolds(job[q])'
  <2>1. JobEarned(job[q]) /\ JobHolds(job[q])
    BY JobOf
  <2>2. JobEarned(job[q])'
    BY <2>1, JobEarnedStays DEF JobEarned
  <2>3. JobHolds(job[q])'
    BY <2>1 DEF JobHolds, Holds, Grows
  <2> QED BY <2>2, <2>3
<1>2. JobTypes'
  BY DEF UpdatesInv, JobTypes
<1> QED BY <1>1, <1>2 DEF UpdatesInv, JobsInv, Holds

(* A day passes.                                                           *)
LEMMA KeepsNextDay ==
    ASSUME UpdatesInv, NextDay
    PROVE  UpdatesInv'
<1>1. Grows
  BY DEF NextDay, store, Grows
<1>2. JobsInv' /\ JobTypes'
  BY <1>1, JobsAlone DEF NextDay, store
<1>3. today' \in Day
  <2>1. MaxDay \in Nat
    BY UpdateAssumption
  <2> QED BY <2>1 DEF NextDay, Day, UpdatesInv, StoreTypes
<1>4. StoreTypes' /\ ProfileTypes'
  BY <1>3 DEF NextDay, store, UpdatesInv, StoreTypes, ProfileTypes
<1>5. CandsEarned' /\ ProfilesEarned'
  BY DEF NextDay, store, UpdatesInv, CandsEarned, ProfilesEarned, Earned
<1>6. RowsAreLoadable' /\ OneActive'
  BY DEF NextDay, store, UpdatesInv, RowsAreLoadable, OneActive, Active
<1> QED BY <1>2, <1>4, <1>5, <1>6 DEF UpdatesInv

(* A candidate is submitted.                                               *)
LEMMA KeepsSubmit ==
    ASSUME UpdatesInv, Submit
    PROVE  UpdatesInv'
<1>1. PICK gates \in BOOLEAN :
        cands' = Append(cands, [disp |-> IF gates THEN "QUARANTINED" ELSE "REJECTED",
                                gates |-> gates, at |-> today, aged |-> FALSE])
  BY DEF Submit
<1> DEFINE row == [disp |-> IF gates THEN "QUARANTINED" ELSE "REJECTED",
                   gates |-> gates, at |-> today, aged |-> FALSE]
<1>2. /\ row \in CandidateRow /\ row.disp \notin {"ELIGIBLE", "PROMOTED"}
      /\ ~row.gates => row.disp = "REJECTED"
  BY DEF CandidateRow, Disposition, UpdatesInv, StoreTypes
<1>3. cands' = Append(cands, row)
  BY <1>1
<1> HIDE DEF row
<1>4. /\ cands' \in Seq(CandidateRow)
      /\ \A c \in DOMAIN cands : c \in DOMAIN cands' /\ cands'[c] = cands[c]
      /\ \A c \in DOMAIN cands' : c \in DOMAIN cands \/ cands'[c] = row
  BY <1>2, <1>3 DEF UpdatesInv, StoreTypes
<1>5. Grows
  BY <1>4 DEF Submit, Grows
<1>6. JobsInv' /\ JobTypes'
  BY <1>5, JobsAlone DEF Submit
<1>7. StoreTypes' /\ ProfileTypes'
  BY <1>4 DEF Submit, UpdatesInv, StoreTypes, ProfileTypes
<1>8. CandsEarned'
  BY <1>2, <1>4, <1>5, EarnedStays DEF UpdatesInv, CandsEarned
<1>9. ProfilesEarned'
  BY <1>5, EarnedStays DEF Submit, UpdatesInv, ProfilesEarned
<1>10. RowsAreLoadable' /\ OneActive'
  BY DEF Submit, UpdatesInv, RowsAreLoadable, OneActive, Active
<1> QED BY <1>6, <1>7, <1>8, <1>9, <1>10 DEF UpdatesInv

(* A version is rolled back to.                                            *)
LEMMA KeepsRollback ==
    ASSUME UpdatesInv, Rollback
    PROVE  UpdatesInv'
<1>1. PICK p \in Active, q \in Newest(Older) :
        profiles' = (profiles \ {p, q}) \cup
          {Retire(p), [q EXCEPT !.status = "ACTIVE", !.retired = 0]}
  BY DEF Rollback
<1> DEFINE old == Retire(p)
           new == [q EXCEPT !.status = "ACTIVE", !.retired = 0]
<1>2. /\ p \in profiles /\ p \in ProfileRow /\ p.status = "ACTIVE"
      /\ q \in profiles /\ q \in ProfileRow /\ q.status = "RETAINED"
  BY DEF Active, Newest, Older, UpdatesInv, ProfileTypes
<1>3. clock.retired + 1 \in Nat /\ clock' \in [retired : Nat, rollbacks : Nat]
  BY DEF Rollback, UpdatesInv, StoreTypes
<1>4. /\ old \in ProfileRow /\ old.status = "RETAINED" /\ old.v = p.v /\ old.first = p.first
      /\ old.trained = p.trained /\ old.far = p.far
  BY <1>2, <1>3 DEF Retire, ProfileRow
<1>5. /\ new \in ProfileRow /\ new.status = "ACTIVE" /\ new.v = q.v /\ new.first = q.first
      /\ new.trained = q.trained /\ new.far = q.far
  BY <1>2 DEF ProfileRow
<1>6. profiles' = (profiles \ {p, q}) \cup {old, new}
  BY <1>1
<1> HIDE DEF old, new
<1>7. Grows
  BY DEF Rollback, Grows
<1>8. JobsInv' /\ JobTypes'
  <2>1. \A r \in profiles' : \E s \in profiles : r.v = s.v
    BY <1>2, <1>4, <1>5, <1>6
  <2> QED BY <1>7, <2>1, JobsAlone DEF Rollback
<1>9. StoreTypes' /\ ProfileTypes'
  BY <1>3, <1>4, <1>5, <1>6 DEF Rollback, UpdatesInv, StoreTypes, ProfileTypes
<1>10. CandsEarned'
  BY DEF Rollback, UpdatesInv, CandsEarned, Earned
<1>11. ProfilesEarned'
  <2>1. \A c : Earned(c) => Earned(c)'
    BY <1>7, EarnedStays
  <2> QED BY <1>2, <1>4, <1>5, <1>6, <2>1 DEF UpdatesInv, ProfilesEarned
<1>12. RowsAreLoadable'
  BY <1>2, <1>4, <1>5, <1>6 DEF Rollback, UpdatesInv, RowsAreLoadable
<1>13. OneActive'
  <2>1. Active = {p}
    BY <1>2 DEF UpdatesInv, OneActive, Active
  <2>2. \A r \in profiles : r.status = "ACTIVE" <=> r = p
    BY <1>2, <2>1 DEF Active
  <2>3. Active' = {new}
    BY <1>4, <1>5, <1>6, <2>2 DEF Active
  <2> QED BY <1>6, <2>3 DEF OneActive
<1> QED BY <1>8, <1>9, <1>10, <1>11, <1>12, <1>13 DEF UpdatesInv
-----------------------------------------------------------------------------
(* The invariant at the start.                                             *)
LEMMA UpdatesInit == Init => UpdatesInv
<1> SUFFICES ASSUME Init PROVE UpdatesInv
  OBVIOUS
<1>1. 0 \in Day
  BY UpdateAssumption DEF Day
<1>2. StoreTypes /\ ProfileTypes /\ JobTypes
  BY <1>1, IdleJob DEF Init, StoreTypes, ProfileTypes, JobTypes
<1>3. CandsEarned /\ ProfilesEarned /\ RowsAreLoadable /\ OneActive
  BY DEF Init, CandsEarned, ProfilesEarned, RowsAreLoadable, OneActive
<1>4. JobsInv
  BY IdleJob DEF Init, JobsInv, JobHolds
<1> QED BY <1>2, <1>3, <1>4 DEF UpdatesInv

(* Every step keeps the invariant.                                         *)
LEMMA UpdatesStep == UpdatesInv /\ [Next]_vars => UpdatesInv'
<1> SUFFICES ASSUME UpdatesInv, [Next]_vars PROVE UpdatesInv'
  OBVIOUS
<1>1. CASE UNCHANGED vars
  <2>1. Grows /\ UNCHANGED <<job, profiles>>
    BY <1>1 DEF vars, store, Grows
  <2>2. JobsInv' /\ JobTypes'
    BY <2>1, JobsAlone
  <2>3. StoreTypes' /\ ProfileTypes'
    BY <1>1 DEF vars, store, UpdatesInv, StoreTypes, ProfileTypes
  <2>4. CandsEarned' /\ ProfilesEarned' /\ RowsAreLoadable' /\ OneActive'
    BY <1>1 DEF vars, store, UpdatesInv, CandsEarned, ProfilesEarned, Earned, RowsAreLoadable,
       OneActive, Active
  <2> QED BY <2>2, <2>3, <2>4 DEF UpdatesInv
<1> QED BY <1>1, KeepsNextDay, KeepsSubmit, KeepsRollback, OperatorKeeps DEF Next

(* The invariant always holds.                                             *)
LEMMA UpdatesInvariant == Spec => []UpdatesInv
BY UpdatesInit, UpdatesStep, PTL DEF Spec

(* From the first activation on the user has one active profile (the       *)
(* transactions of activate_profile and rollback), for any number of       *)
(* operators, and whatever fails between their steps.                      *)
THEOREM OneActiveAlways == Spec => []OneActive
<1>1. UpdatesInv => OneActive
  BY DEF UpdatesInv
<1> QED BY <1>1, UpdatesInvariant, PTL

(* A row of model_profiles has its .joblib files (activate.py:490) and a   *)
(* version of its own.                                                     *)
THEOREM RowsAreLoadableAlways == Spec => []RowsAreLoadable
<1>1. UpdatesInv => RowsAreLoadable
  BY DEF UpdatesInv
<1> QED BY <1>1, UpdatesInvariant, PTL

(* An update learns only from segments that passed G1 to G4 and were       *)
(* quarantined by the date of a run (PLAN.md 12.1), and is active only     *)
(* when FAR was measured and had not risen.                                *)
THEOREM UpdateIsEarnedAlways == Spec => []UpdateIsEarned
<1>1. UpdatesInv => UpdateIsEarned
  BY DEF UpdatesInv, ProfilesEarned, Earned, UpdateIsEarned
<1> QED BY <1>1, UpdatesInvariant, PTL
-----------------------------------------------------------------------------
(* G6, when the operator starts no process before the last one has ended:   *)
(* two of them may find an update due before either has activated one.     *)
OneOperator == \A o, q \in Operators : o = q

\* The process of a run that is not finished.
Under == {"read", "reassess", "promote", "build", "validate", "activate", "activated",
          "reject", "rejected", "failing"}

\* Its run is the last one begun, and was due after all that activated before it.
DueRun(j) ==
    j.pc \in Under =>
      /\ j.run \in DOMAIN runs /\ j.run = Len(runs)
      /\ \A r \in DOMAIN runs : r < j.run /\ runs[r].status = "ACTIVATED"
           => runs[j.run].day >= runs[r].day + Cadence

CadenceInv == UpdatesInv /\ CadenceHeld /\ \A o \in Operators : DueRun(job[o])

(* The rows of the runs.                                                   *)
LEMMA RunTypes ==
    ASSUME UpdatesInv
    PROVE  /\ runs \in Seq(RunRow) /\ Cadence \in Nat
           /\ \A r \in DOMAIN runs : runs[r] \in RunRow /\ runs[r].day \in Nat /\ r \in Nat
<1>1. runs \in Seq(RunRow) /\ Cadence \in Nat /\ MaxDay \in Nat
  BY UpdateAssumption DEF UpdatesInv, StoreTypes
<1>2. \A r \in DOMAIN runs : runs[r] \in RunRow /\ r \in Nat
  BY <1>1
<1>3. \A row \in RunRow : row.day \in Nat
  BY <1>1 DEF RunRow, Day
<1> QED BY <1>1, <1>2, <1>3

\* A process that goes on does so with the run it began; no row changes.
LEMMA RunsAlone ==
    ASSUME CadenceInv, UpdatesInv', UNCHANGED runs,
           \A o \in Operators : job'[o].pc \in Under =>
             job[o].pc \in Under /\ job'[o].run = job[o].run
    PROVE  CadenceInv'
BY DEF CadenceInv, CadenceHeld, DueRun

(* A process that goes on with its run, or has none.                       *)
LEMMA JobGoesOn ==
    ASSUME CadenceInv, UpdatesInv', UNCHANGED runs, NEW o \in Operators, NEW j,
           job' = [job EXCEPT ![o] = j],
           j.pc \in Under => job[o].pc \in Under /\ j.run = job[o].run
    PROVE  CadenceInv'
<1>1. job'[o] = j /\ \A q \in Operators : q # o => job'[q] = job[q]
  BY DEF CadenceInv, UpdatesInv, JobTypes
<1> QED BY <1>1, RunsAlone

\* A step to another place of the code keeps the run.
LEMMA GoKeepsRun ==
    ASSUME CadenceInv, UpdatesInv', UNCHANGED runs, NEW o \in Operators, NEW pc \in Pc,
           Go(o, pc), pc \in Under => job[o].pc \in Under
    PROVE  CadenceInv'
<1> DEFINE j == [job[o] EXCEPT !.pc = pc]
<1>1. job[o] \in Job
  BY DEF CadenceInv, UpdatesInv, JobTypes
<1>2. job' = [job EXCEPT ![o] = j]
  BY DEF Go, CadenceInv, UpdatesInv, JobTypes
<1>3. j.pc = pc /\ j.run = job[o].run
  BY <1>1 DEF Job
<1> HIDE DEF j
<1> QED BY <1>2, <1>3, JobGoesOn

(* A process that ends leaves its run's row.                               *)
LEMMA EndKeepsRun ==
    ASSUME CadenceInv, UpdatesInv', UNCHANGED runs, NEW o \in Operators, End(o)
    PROVE  CadenceInv'
<1>1. Idle.pc \notin Under
  BY DEF Idle, Under
<1> QED BY <1>1, JobGoesOn DEF End

(* A run begins only when it is due, after all that were activated.        *)
LEMMA CadenceBeginRun ==
    ASSUME OneOperator, CadenceInv, UpdatesInv', NEW o \in Operators, NEW day \in Day,
           BeginRun(o, day)
    PROVE  CadenceInv'
<1> DEFINE row == [day |-> day, status |-> "RUNNING"]
<1>1. row \in RunRow /\ row.day = day /\ row.status # "ACTIVATED" /\ runs' = Append(runs, row)
  BY DEF BeginRun, RunRow, RunStatus
<1> HIDE DEF row
<1>2. /\ runs \in Seq(RunRow) /\ Cadence \in Nat
      /\ \A r \in DOMAIN runs : runs[r] \in RunRow /\ runs[r].day \in Nat /\ r \in Nat
  BY RunTypes DEF CadenceInv
<1>3. /\ Len(runs') = Len(runs) + 1 /\ Len(runs') \in DOMAIN runs' /\ runs'[Len(runs')] = row
      /\ \A r \in DOMAIN runs' : r \in Nat /\ (r = Len(runs') \/ (r \in DOMAIN runs /\ runs'[r] = runs[r]))
  BY <1>1, <1>2
<1>4. CadenceHeld'
  BY <1>1, <1>3 DEF CadenceInv, CadenceHeld
<1>5. \A r \in DOMAIN runs' :
        r < Len(runs') /\ runs'[r].status = "ACTIVATED"
          => runs'[Len(runs')].day >= runs'[r].day + Cadence
  BY <1>1, <1>3 DEF BeginRun, Due
<1>6. job[o].pc = "idle"
  BY DEF BeginRun, At
<1>7. ASSUME NEW q \in Operators PROVE DueRun(job[q])'
  <2>1. q = o
    BY DEF OneOperator
  <2>2. ASSUME NEW corpus \in SUBSET DOMAIN cands,
               job' = [job EXCEPT ![o] = [Idle EXCEPT !.pc = "read", !.run = Len(runs'),
                                                      !.day = day, !.corpus = corpus]]
        PROVE  job'[o].run = Len(runs')
    BY <2>2 DEF Idle, CadenceInv, UpdatesInv, JobTypes
  <2>3. job'[o].pc \in Under => job'[o].run = Len(runs')
    <3>1. "idle" \notin Under
      BY DEF Under
    <3> QED BY <1>6, <2>2, <3>1 DEF BeginRun
  <2> QED BY <1>3, <1>5, <2>1, <2>3 DEF DueRun
<1> QED BY <1>4, <1>7 DEF CadenceInv

\* The row of the last run is finished, by the one process that works on it.
LEMMA CadenceFinished ==
    ASSUME OneOperator, CadenceInv, UpdatesInv', NEW o \in Operators, job[o].pc \in Under,
           End(o), NEW status, runs' = [runs EXCEPT ![job[o].run].status = status]
    PROVE  CadenceInv'
<1> DEFINE k == job[o].run
<1>1. /\ runs \in Seq(RunRow) /\ Cadence \in Nat
      /\ \A r \in DOMAIN runs : runs[r] \in RunRow /\ runs[r].day \in Nat /\ r \in Nat
  BY RunTypes DEF CadenceInv
<1>2. /\ k \in DOMAIN runs /\ k = Len(runs)
      /\ \A r \in DOMAIN runs : r < k /\ runs[r].status = "ACTIVATED"
           => runs[k].day >= runs[r].day + Cadence
  BY DEF CadenceInv, DueRun
<1>3. runs' = [runs EXCEPT ![k].status = status]
  OBVIOUS
<1> HIDE DEF k
<1>4. /\ DOMAIN runs' = DOMAIN runs
      /\ \A r \in DOMAIN runs : r # k => runs'[r] = runs[r]
      /\ runs'[k].day = runs[k].day
  <2>1. \A x \in RunRow : [x EXCEPT !.status = status].day = x.day
    BY DEF RunRow
  <2> QED BY <1>1, <1>2, <1>3, <2>1
<1>5. \A r \in DOMAIN runs : r <= k
  BY <1>1, <1>2
<1>6. CadenceHeld'
  <2> SUFFICES ASSUME NEW r \in DOMAIN runs, NEW s \in DOMAIN runs, r < s,
                      runs'[r].status = "ACTIVATED", runs'[s].status = "ACTIVATED"
               PROVE  runs'[s].day >= runs'[r].day + Cadence
    BY <1>4 DEF CadenceHeld
  <2>1. r # k
    BY <1>1, <1>5
  <2>2. CASE s = k
    BY <1>2, <1>4, <2>1, <2>2
  <2>3. CASE s # k
    BY <1>4, <2>1, <2>3 DEF CadenceInv, CadenceHeld
  <2> QED BY <2>2, <2>3
<1>7. ASSUME NEW q \in Operators PROVE DueRun(job[q])'
  <2>1. job'[q] = Idle
    BY DEF OneOperator, End, CadenceInv, UpdatesInv, JobTypes
  <2> QED BY <2>1 DEF DueRun, Idle, Under
<1> QED BY <1>6, <1>7 DEF CadenceInv

(* Every step of the one process.                                          *)
LEMMA CadenceOperator ==
    ASSUME OneOperator, CadenceInv, UpdatesInv', NEW o \in Operators, Operator(o)
    PROVE  CadenceInv'
<1>0. job[o] \in Job
  BY DEF CadenceInv, UpdatesInv, JobTypes
<1>1. ASSUME NEW at \in Under, NEW status, Finish(o, at, status) PROVE CadenceInv'
  <2>1. CASE runs' = [runs EXCEPT ![job[o].run].status = status] /\ End(o)
    BY <1>1, <2>1, CadenceFinished DEF Finish, At
  <2>2. CASE UNCHANGED runs /\ Go(o, "failing")
    BY <1>1, <2>2, GoKeepsRun DEF Finish, At, Pc
  <2> QED BY <1>1, <2>1, <2>2 DEF Finish
<1>2. CASE FinishFailed(o)
  <2>1. job[o].pc \in Under /\ End(o)
    BY <1>2 DEF FinishFailed, At, Under
  <2>2. CASE UNCHANGED runs
    BY <2>1, <2>2, EndKeepsRun
  <2> QED BY <1>2, <2>1, <2>2, CadenceFinished DEF FinishFailed
<1>3. ASSUME NEW at \in Under, NEW disp, NEW next \in Under, SaveChosen(o, at, disp, next)
      PROVE  CadenceInv'
  <2>1. PICK c \in job[o].todo :
          job' = [job EXCEPT ![o].todo = @ \ {c},
                             ![o].pc = IF job[o].todo = {c} THEN next ELSE at]
    BY <1>3 DEF SaveChosen
  <2>2. job'[o].run = job[o].run /\ job[o].pc \in Under /\ \A q \in Operators : q # o => job'[q] = job[q]
    BY <1>0, <1>3, <2>1 DEF SaveChosen, At, Job, CadenceInv, UpdatesInv, JobTypes
  <2> QED BY <1>3, <2>2, RunsAlone DEF SaveChosen
<1>4. CASE ReadCandidates(o) \/ Reassess(o) \/ Assessed(o)
  <2>1. /\ job[o].pc \in Under /\ job'[o].run = job[o].run
        /\ UNCHANGED runs /\ \A q \in Operators : q # o => job'[q] = job[q]
    <3>1. CASE ReadCandidates(o)
      BY <1>0, <3>1 DEF ReadCandidates, At, Job, Under, store, CadenceInv, UpdatesInv, JobTypes
    <3>2. CASE Reassess(o)
      <4>1. PICK c, chosen : c \in job[o].todo /\
              job' = [job EXCEPT ![o].todo = @ \ {c}, ![o].chosen = chosen]
        BY <3>2 DEF Reassess
      <4> QED BY <1>0, <3>2, <4>1 DEF Reassess, At, Job, Under, CadenceInv, UpdatesInv, JobTypes
    <3>3. CASE Assessed(o)
      BY <1>0, <3>3 DEF Assessed, Go, At, Job, Under, store, CadenceInv, UpdatesInv, JobTypes
    <3> QED BY <1>4, <3>1, <3>2, <3>3
  <2> QED BY <2>1, RunsAlone
<1>5. CASE Build(o)
  <2>1. job[o].pc \in Under /\ UNCHANGED runs
    BY <1>5 DEF Build, At, Under
  <2>2. CASE Go(o, "failing")
    BY <2>1, <2>2, GoKeepsRun DEF Pc
  <2>3. CASE ~Go(o, "failing")
    <3>1. PICK far, trained, built :
            job' = [job EXCEPT ![o].pc = "validate", ![o].far = far,
                               ![o].trained = trained, ![o].built = built]
      BY <1>5, <2>3 DEF Build
    <3>2. job'[o].run = job[o].run /\ \A q \in Operators : q # o => job'[q] = job[q]
      BY <1>0, <3>1 DEF Job, CadenceInv, UpdatesInv, JobTypes
    <3> QED BY <2>1, <3>2, RunsAlone
  <2> QED BY <2>2, <2>3
<1>6. CASE Validate(o)
  <2>1. job[o].pc \in Under /\ UNCHANGED runs
    BY <1>6 DEF Validate, At, Under, store
  <2>2. CASE Go(o, "activate")
    BY <2>1, <2>2, GoKeepsRun DEF Pc
  <2>3. CASE job' = [job EXCEPT ![o].pc = "reject", ![o].todo = job[o].chosen]
    <3>1. job'[o].run = job[o].run /\ \A q \in Operators : q # o => job'[q] = job[q]
      BY <1>0, <2>3 DEF Job, CadenceInv, UpdatesInv, JobTypes
    <3> QED BY <2>1, <3>1, RunsAlone
  <2> QED BY <1>6, <2>2, <2>3 DEF Validate
<1>7. CASE Activate(o)
  <2>1. job[o].pc \in Under /\ UNCHANGED runs
    BY <1>7 DEF Activate, At, Under
  <2>2. Go(o, "activated") \/ Go(o, "failing")
    BY <1>7 DEF Activate
  <2> QED BY <2>1, <2>2, GoKeepsRun DEF Pc
<1>8. CASE BeginFirst(o)
  <2> DEFINE j == [Idle EXCEPT !.pc = "first_save", !.day = today]
  <2>1. job' = [job EXCEPT ![o] = j] /\ UNCHANGED runs
    BY <1>8 DEF BeginFirst, store
  <2>2. j.pc \notin Under
    BY DEF Idle, Under
  <2> HIDE DEF j
  <2> QED BY <2>1, <2>2, JobGoesOn
<1>9. CASE FirstSave(o)
  <2>1. PICK far :
          job' = [job EXCEPT ![o].pc = "first_register", ![o].far = far,
                             ![o].built = version + 1]
    BY <1>9 DEF FirstSave
  <2>2. job'[o].pc \notin Under /\ \A q \in Operators : q # o => job'[q] = job[q]
    BY <1>0, <2>1 DEF Job, Under, CadenceInv, UpdatesInv, JobTypes
  <2> QED BY <1>9, <2>2, RunsAlone DEF FirstSave
<1>10. CASE FirstActivate(o) \/ Crash(o)
  BY <1>10, EndKeepsRun DEF FirstActivate, Crash, store
<1>11. CASE Raise(o)
  <2>1. job[o].pc \in Under /\ UNCHANGED runs /\ Go(o, "failing")
    BY <1>11 DEF Raise, Under, store
  <2> QED BY <2>1, GoKeepsRun DEF Pc
<1>12. CASE \E day \in Day : BeginRun(o, day)
  BY <1>12, CadenceBeginRun
<1>13. CASE FirstRegister(o)
  <2>1. job'[o].pc \notin Under /\ \A q \in Operators : q # o => job'[q] = job[q]
    BY <1>0, <1>13 DEF FirstRegister, Go, End, Idle, Job, Under, CadenceInv, UpdatesInv, JobTypes
  <2> QED BY <1>13, <2>1, RunsAlone DEF FirstRegister
<1>14. /\ "rejected" \in Under /\ "activated" \in Under /\ "promote" \in Under
       /\ "build" \in Under /\ "reject" \in Under
  BY DEF Under
<1> QED BY <1>1, <1>2, <1>3, <1>4, <1>5, <1>6, <1>7, <1>8, <1>9, <1>10, <1>11, <1>12, <1>13, <1>14
        DEF Operator, Promote, RejectChosen

(* Every step keeps the cadence.                                           *)
LEMMA CadenceStep == OneOperator /\ CadenceInv /\ [Next]_vars => CadenceInv'
<1> SUFFICES ASSUME OneOperator, CadenceInv, [Next]_vars PROVE CadenceInv'
  OBVIOUS
<1>1. UpdatesInv'
  BY UpdatesStep DEF CadenceInv
<1>2. CASE UNCHANGED <<runs, job>>
  BY <1>1, <1>2, RunsAlone
<1>3. UNCHANGED vars \/ NextDay \/ Submit \/ Rollback => UNCHANGED <<runs, job>>
  BY DEF vars, store, NextDay, Submit, Rollback
<1> QED BY <1>1, <1>2, <1>3, CadenceOperator DEF Next

(* G6: the dates of the runs that activated are a cadence apart, with      *)
(* failed and interrupted runs between them, when one operator process     *)
(* runs at a time (schedule_due and begin_run, manager.py:326); for any    *)
(* cadence, whatever fails, with rollbacks and first activations between.  *)
THEOREM CadenceHeldAlways == OneOperator => (Spec => []CadenceHeld)
<1> SUFFICES ASSUME OneOperator PROVE Spec => []CadenceHeld
  OBVIOUS
<1>1. Init => CadenceInv
  <2>1. Init => CadenceHeld /\ \A o \in Operators : DueRun(job[o])
    BY DEF Init, CadenceHeld, DueRun, Idle, Under
  <2> QED BY <2>1, UpdatesInit DEF CadenceInv
<1>2. CadenceInv /\ [Next]_vars => CadenceInv'
  BY CadenceStep
<1>3. CadenceInv => CadenceHeld
  BY DEF CadenceInv
<1> QED BY <1>1, <1>2, <1>3, PTL DEF Spec

-----------------------------------------------------------------------------
(* The gate in front of the training data, for every number of segments,   *)
(* windows and promotable windows.                                         *)


Truth == [proved : BOOLEAN, enforced : BOOLEAN, failed : BOOLEAN]

Decision == [seg : Segment, action : {"CONTINUE", "SOFT_CHALLENGE", "REAUTH", "TERMINATE", "NONE"},
             applied : BOOLEAN, pending : BOOLEAN]

SegmentTypes ==
    /\ drill \in BOOLEAN
    /\ n \in 0 .. MaxSegments
    /\ stage \in {"none", "open", "closing", "flushed", "closed"}
    /\ n = 0 <=> stage = "none"
    /\ candidates \in [Segment -> {"NONE", "QUARANTINED", "REJECTED"}]
    /\ truth \in [Segment -> Truth]
    /\ windows \in [Segment -> [scored : Nat, all : Nat]]
    /\ levels \in [Segment -> SUBSET Level]
    /\ decisions \subseteq Decision
    /\ prompts \subseteq Segment

\* An anchor other than the entry's is of a segment somebody proved.
AnchorsAreProved ==
    \A s \in anchors : \/ s = 0 /\ ~drill
                       \/ s \in Segment /\ truth[s].proved

\* There is a candidate of a segment only once it is over.
SubmittedWhenOver ==
    \A s \in Segment : candidates[s] # "NONE" => s < n \/ (s = n /\ stage = "closed")

Over(s) == s < n \/ (s = n /\ stage = "closed")

\* A decision that reached the participant stands in the table until its segment is
\* over, or an answer was failed.
ShownCounts ==
    \A s \in Segment : truth[s].enforced =>
      s <= n /\ (truth[s].failed \/ (~Admitted(s) /\ (Triggered(s) \/ Over(s))))

SegmentInv == SegmentTypes /\ AnchorsAreProved /\ SubmittedWhenOver
              /\ AdmittedIsEarned /\ ShownCounts

\* What is noted of a segment stays a record of what happened, and forgets nothing.
LEMMA NotedAdds ==
    ASSUME truth \in [Segment -> Truth], NEW s \in Segment,
           NEW what \in {"proved", "enforced", "failed"}, NEW yes \in BOOLEAN
    PROVE  /\ Noted(s, what, yes) \in [Segment -> Truth]
           /\ \A t \in Segment : truth[t].proved => Noted(s, what, yes)[t].proved
           /\ what = "proved" /\ yes => Noted(s, what, yes)[s].proved
           /\ \A t \in Segment : truth[t].failed => Noted(s, what, yes)[t].failed
           /\ \A t \in Segment : Noted(s, what, yes)[t].enforced =>
                truth[t].enforced \/ (t = s /\ what = "enforced" /\ yes)
<1> DEFINE r == [truth[s] EXCEPT ![what] = @ \/ yes]
<1>1. truth[s] \in Truth
  OBVIOUS
<1>2. /\ r \in Truth /\ (truth[s].proved => r.proved) /\ (what = "proved" /\ yes => r.proved)
      /\ truth[s].failed => r.failed
      /\ r.enforced => truth[s].enforced \/ (what = "enforced" /\ yes)
  <2>1. CASE what = "proved"
    <3>1. r = [truth[s] EXCEPT !.proved = @ \/ yes]
      BY <2>1
    <3> HIDE DEF r
    <3> QED BY <1>1, <2>1, <3>1 DEF Truth
  <2>2. CASE what = "enforced"
    <3>1. r = [truth[s] EXCEPT !.enforced = @ \/ yes]
      BY <2>2
    <3> HIDE DEF r
    <3> QED BY <1>1, <2>2, <3>1 DEF Truth
  <2>3. CASE what = "failed"
    <3>1. r = [truth[s] EXCEPT !.failed = @ \/ yes]
      BY <2>3
    <3> HIDE DEF r
    <3> QED BY <1>1, <2>3, <3>1 DEF Truth
  <2> QED BY <2>1, <2>2, <2>3
<1>3. Noted(s, what, yes) = [truth EXCEPT ![s] = r]
  BY DEF Noted
<1> HIDE DEF r
<1> QED BY <1>2, <1>3

(* The invariant at the start.                                             *)
LEMMA SegmentInit == EvidenceInit => SegmentInv
BY SegmentAssumption
   DEF EvidenceInit, SegmentInv, SegmentTypes, AnchorsAreProved, SubmittedWhenOver, AdmittedIsEarned,
       Admitted, ShownCounts, Segment, Truth

\* What a step leaves alone keeps the evidence of what was admitted before.
LEMMA EvidenceStays ==
    ASSUME SegmentInv, SegmentTypes',
           UNCHANGED <<drill, candidates>>,
           \A s \in Segment : truth[s].proved => truth'[s].proved,
           \A s \in Segment : candidates[s] # "NONE" =>
             /\ levels'[s] = levels[s] /\ windows'[s] = windows[s]
             /\ s \in gap' => s \in gap
    PROVE  AdmittedIsEarned'
BY DEF SegmentInv, SegmentTypes, AdmittedIsEarned, Admitted, Segment, Truth

\* A decision in the table goes on counting, and a segment that is over stays over.
LEMMA ShownStays ==
    ASSUME SegmentInv, n' \in Nat, n <= n', UNCHANGED candidates,
           \A s \in Segment : truth'[s].enforced =>
             truth[s].enforced \/ (s = n /\ ~Admitted(s) /\ Triggered(s)'),
           \A s \in Segment : truth[s].failed => truth'[s].failed,
           \A s \in Segment : Triggered(s) => Triggered(s)' \/ truth'[s].failed,
           \A s \in Segment : Over(s) => Over(s)'
    PROVE  ShownCounts'
<1> SUFFICES ASSUME NEW s \in Segment, truth'[s].enforced
             PROVE  /\ s <= n'
                    /\ truth'[s].failed \/ (~Admitted(s)' /\ (Triggered(s)' \/ Over(s)'))
  BY DEF ShownCounts
<1>1. Admitted(s)' <=> Admitted(s)
  BY DEF Admitted
<1>2. n \in Nat /\ s \in Nat
  BY SegmentAssumption DEF SegmentInv, SegmentTypes, Segment
<1>3. s <= n
  BY <1>2 DEF SegmentInv, ShownCounts
<1>4. s <= n'
  BY <1>2, <1>3
<1> QED BY <1>1, <1>4 DEF SegmentInv, ShownCounts

(* Every step keeps the invariant.                                         *)
LEMMA SegmentStep == SegmentInv /\ [EvidenceNext]_evidenceVars => SegmentInv'
<1> SUFFICES ASSUME SegmentInv, [EvidenceNext]_evidenceVars PROVE SegmentInv'
  OBVIOUS
<1> USE SegmentAssumption
<1>0. n \in Nat /\ (UNCHANGED n => n' \in Nat /\ n <= n')
  BY DEF SegmentInv, SegmentTypes
<1>1. CASE StartSegment
  <2>1. SegmentTypes' /\ AnchorsAreProved' /\ SubmittedWhenOver'
    BY <1>1 DEF StartSegment, SegmentInv, SegmentTypes, AnchorsAreProved, SubmittedWhenOver, Segment
  <2>2. AdmittedIsEarned'
    BY <1>1, <2>1, EvidenceStays DEF StartSegment
  <2>3. /\ n' \in Nat /\ n <= n'
        /\ \A s \in Segment : Over(s) => Over(s)'
    BY <1>0, <1>1 DEF StartSegment, Over, SegmentInv, SegmentTypes, Segment
  <2>4. \A s \in Segment : Triggered(s) => Triggered(s)'
    BY <1>1 DEF StartSegment, Triggered
  <2>5. ShownCounts'
    BY <1>1, <2>3, <2>4, ShownStays DEF StartSegment
  <2> QED BY <2>1, <2>2, <2>5 DEF SegmentInv
<1>2. CASE LoseEvents
  <2>1. SegmentTypes' /\ AnchorsAreProved' /\ SubmittedWhenOver'
    BY <1>2 DEF LoseEvents, SegmentInv, SegmentTypes, AnchorsAreProved, SubmittedWhenOver, Segment
  <2>2. \A s \in Segment : candidates[s] # "NONE" => (s \in gap' => s \in gap)
    BY <1>2 DEF LoseEvents, SegmentInv, SegmentTypes, SubmittedWhenOver, Segment
  <2>3. AdmittedIsEarned'
    BY <1>2, <2>1, <2>2, EvidenceStays DEF LoseEvents
  <2>4. \A s \in Segment : (Over(s) => Over(s)') /\ (Triggered(s) => Triggered(s)')
    BY <1>2 DEF LoseEvents, Over, Triggered
  <2>5. ShownCounts'
    BY <1>0, <1>2, <2>4, ShownStays DEF LoseEvents
  <2> QED BY <2>1, <2>3, <2>5 DEF SegmentInv
<1>3. CASE ProcessWindow
  <2>1. n \in Segment /\ candidates[n] = "NONE"
    BY <1>3 DEF ProcessWindow, SegmentInv, SegmentTypes, SubmittedWhenOver, Segment
  <2>2. PICK scored \in BOOLEAN, level \in Level, action \in {"CONTINUE", "SOFT_CHALLENGE", "REAUTH", "TERMINATE", "NONE"},
             status \in Status :
          /\ windows' = [windows EXCEPT ![n] =
                           [scored |-> @.scored + (IF scored THEN 1 ELSE 0), all |-> @.all + 1]]
          /\ levels' = [levels EXCEPT ![n] = @ \cup {level}]
          /\ Decide(action, status)
    <3>1. PICK scored \in BOOLEAN, level \in Level :
             /\ scored => level # "UNAVAILABLE"
             /\ windows' = [windows EXCEPT ![n] =
                              [scored |-> @.scored + (IF scored THEN 1 ELSE 0), all |-> @.all + 1]]
             /\ levels' = [levels EXCEPT ![n] = @ \cup {level}]
             /\ \E action \in IF scored THEN Requested[level] ELSE {"NONE"} :
                  \E status \in Executed(action) : Decide(action, status)
      BY <1>3 DEF ProcessWindow
    <3>2. PICK action \in IF scored THEN Requested[level] ELSE {"NONE"} :
            \E status \in Executed(action) : Decide(action, status)
      BY <3>1
    <3>3. action \in {"CONTINUE", "SOFT_CHALLENGE", "REAUTH", "TERMINATE", "NONE"}
      BY <3>1, <3>2 DEF Requested, Level
    <3>4. PICK status \in Status : Decide(action, status)
      BY <3>2 DEF Executed, Status
    <3> QED BY <3>1, <3>3, <3>4
  <2>3. /\ truth' \in [Segment -> Truth]
        /\ \A s \in Segment : truth[s].proved => truth'[s].proved
        /\ \A s \in Segment : truth[s].failed => truth'[s].failed
        /\ \A s \in Segment : truth'[s].enforced =>
             truth[s].enforced \/ (s = n /\ status = "SUCCEEDED")
    <3>1. (Applied(action) /\ status = "SUCCEEDED") \in BOOLEAN
      BY DEF Applied
    <3>2. truth' = Noted(n, "enforced", Applied(action) /\ status = "SUCCEEDED")
      BY <2>2 DEF Decide
    <3> QED BY <2>1, <3>1, <3>2, NotedAdds DEF SegmentInv, SegmentTypes
  <2>4. /\ windows' \in [Segment -> [scored : Nat, all : Nat]]
        /\ levels' \in [Segment -> SUBSET Level]
        /\ \A s \in Segment : s # n => windows'[s] = windows[s] /\ levels'[s] = levels[s]
    BY <2>1, <2>2 DEF SegmentInv, SegmentTypes
  <2>5. /\ decisions' \subseteq Decision /\ decisions \subseteq decisions'
        /\ status = "SUCCEEDED" => Triggered(n)'
    <3> DEFINE e(asks) == [seg |-> n, action |-> action, applied |-> Column(status), pending |-> asks]
    <3>1. PICK asks \in BOOLEAN : decisions' = decisions \cup {e(asks)}
      BY <2>2 DEF Decide, Applied
    <3>2. e(asks) \in Decision /\ e(asks).seg = n /\ (status = "SUCCEEDED" => e(asks).applied)
      BY <2>1, <2>2, <3>1 DEF Decision, Column
    <3>3. UNCHANGED n
      BY <1>3 DEF ProcessWindow
    <3> HIDE DEF e
    <3> QED BY <3>1, <3>2, <3>3 DEF SegmentInv, SegmentTypes, Triggered
  <2>6. SegmentTypes'
    BY <1>3, <2>3, <2>4, <2>5 DEF ProcessWindow, SegmentInv, SegmentTypes
  <2>7. AnchorsAreProved' /\ SubmittedWhenOver'
    BY <1>3, <2>1, <2>3 DEF ProcessWindow, SegmentInv, SegmentTypes, AnchorsAreProved, SubmittedWhenOver, Segment
  <2>8. AdmittedIsEarned'
    BY <1>3, <2>1, <2>3, <2>4, <2>6, EvidenceStays DEF ProcessWindow
  <2>9. ShownCounts'
    <3>1. \A s \in Segment : Triggered(s) => Triggered(s)'
      BY <2>5 DEF Triggered
    <3>2. \A s \in Segment : Over(s) => Over(s)'
      BY <1>3 DEF ProcessWindow, Over
    <3>3. ~Admitted(n) /\ n' = n
      BY <1>3, <2>1 DEF ProcessWindow, Admitted
    <3>4. \A s \in Segment : truth'[s].enforced =>
            truth[s].enforced \/ (~Admitted(s) /\ Triggered(s)')
      BY <2>3, <2>5, <3>3
    <3> QED BY <1>0, <1>3, <2>3, <3>1, <3>2, <3>4, ShownStays DEF ProcessWindow
  <2> QED BY <2>6, <2>7, <2>8, <2>9 DEF SegmentInv
<1>4. CASE Answer
  <2>1. PICK d \in decisions, accepted \in BOOLEAN :
          /\ decisions' = (decisions \ {d})
               \cup {[d EXCEPT !.pending = FALSE,
                               !.applied = Column(IF accepted THEN "SUCCEEDED" ELSE "CANCELLED")]}
          /\ anchors' = IF accepted /\ d.action = "REAUTH" THEN anchors \cup {d.seg} ELSE anchors
          /\ truth' = [truth EXCEPT ![d.seg] =
                         [proved |-> @.proved \/ (accepted /\ d.action = "REAUTH"),
                          enforced |-> @.enforced, failed |-> @.failed \/ ~accepted]]
          /\ UNCHANGED <<standing, drill, n, stage, windows, levels, gap, prompts, candidates>>
    BY <1>4 DEF Answer
  <2>2. d \in Decision /\ d.seg \in Segment
    BY DEF SegmentInv, SegmentTypes, Decision
  <2>3. /\ truth' \in [Segment -> Truth]
        /\ \A s \in Segment : truth[s].proved => truth'[s].proved
        /\ accepted /\ d.action = "REAUTH" => truth'[d.seg].proved
        /\ \A s \in Segment : truth[s].failed => truth'[s].failed
        /\ \A s \in Segment : truth'[s].enforced = truth[s].enforced
        /\ ~accepted => truth'[d.seg].failed
    <3> DEFINE r == [proved |-> truth[d.seg].proved \/ (accepted /\ d.action = "REAUTH"),
                     enforced |-> truth[d.seg].enforced,
                     failed |-> truth[d.seg].failed \/ ~accepted]
    <3>1. truth \in [Segment -> Truth] /\ truth[d.seg] \in Truth
      BY <2>2 DEF SegmentInv, SegmentTypes
    <3>2. r \in Truth /\ (truth[d.seg].proved => r.proved)
          /\ (accepted /\ d.action = "REAUTH" => r.proved)
          /\ (truth[d.seg].failed => r.failed) /\ r.enforced = truth[d.seg].enforced
          /\ (~accepted => r.failed)
      BY <3>1 DEF Truth
    <3>3. truth' = [truth EXCEPT ![d.seg] = r]
      BY <2>1
    <3> HIDE DEF r
    <3> QED BY <2>2, <3>1, <3>2, <3>3
  <2>4. SegmentTypes'
    <3> DEFINE e == [d EXCEPT !.pending = FALSE,
                              !.applied = Column(IF accepted THEN "SUCCEEDED" ELSE "CANCELLED")]
    <3>1. e \in Decision
      BY <2>2 DEF Decision, Column
    <3>2. decisions' = (decisions \ {d}) \cup {e}
      BY <2>1
    <3> HIDE DEF e
    <3>3. decisions' \subseteq Decision
      BY <3>1, <3>2 DEF SegmentInv, SegmentTypes
    <3> QED BY <2>1, <2>3, <3>3 DEF SegmentInv, SegmentTypes
  <2>5. AnchorsAreProved' /\ SubmittedWhenOver'
    BY <2>1, <2>2, <2>3 DEF SegmentInv, AnchorsAreProved, SubmittedWhenOver
  <2>6. AdmittedIsEarned'
    BY <2>1, <2>3, <2>4, EvidenceStays
  <2>7. ASSUME NEW s \in Segment, Triggered(s) PROVE Triggered(s)' \/ truth'[s].failed
    <3> DEFINE e == [d EXCEPT !.pending = FALSE,
                              !.applied = Column(IF accepted THEN "SUCCEEDED" ELSE "CANCELLED")]
    <3>1. PICK f \in decisions : f.seg = s /\ f.applied
      BY <2>7 DEF Triggered
    <3>2. e.seg = d.seg /\ (accepted => e.applied)
      BY <2>2 DEF Decision, Column
    <3>3. decisions' = (decisions \ {d}) \cup {e}
      BY <2>1
    <3> HIDE DEF e
    <3>4. CASE f = d
      BY <2>3, <3>1, <3>2, <3>3, <3>4 DEF Triggered
    <3>5. CASE f # d
      BY <3>1, <3>3, <3>5 DEF Triggered
    <3> QED BY <3>4, <3>5
  <2>8. \A s \in Segment : Over(s) => Over(s)'
    BY <2>1 DEF Over
  <2>9. ShownCounts'
    BY <1>0, <2>1, <2>3, <2>7, <2>8, ShownStays
  <2> QED BY <2>4, <2>5, <2>6, <2>9 DEF SegmentInv
<1>5. CASE OpenPrompt
  <2>1. SegmentTypes' /\ AnchorsAreProved' /\ SubmittedWhenOver'
    BY <1>5 DEF OpenPrompt, SegmentInv, SegmentTypes, AnchorsAreProved, SubmittedWhenOver, Segment
  <2>2. AdmittedIsEarned'
    BY <1>5, <2>1, EvidenceStays DEF OpenPrompt
  <2>3. \A s \in Segment : (Over(s) => Over(s)') /\ (Triggered(s) => Triggered(s)')
    BY <1>5 DEF OpenPrompt, Over, Triggered
  <2>4. ShownCounts'
    BY <1>0, <1>5, <2>3, ShownStays DEF OpenPrompt
  <2> QED BY <2>1, <2>2, <2>4 DEF SegmentInv
<1>6. CASE AnswerPrompt
  <2>1. PICK p \in prompts, accepted \in BOOLEAN :
          /\ prompts' = prompts \ {p}
          /\ anchors' = IF accepted THEN anchors \cup {p} ELSE anchors
          /\ truth' = Noted(p, "proved", accepted)
          /\ UNCHANGED <<standing, drill, n, stage, windows, levels, gap, decisions, candidates>>
    BY <1>6 DEF AnswerPrompt
  <2>2. p \in Segment
    BY DEF SegmentInv, SegmentTypes
  <2>3. /\ truth' \in [Segment -> Truth]
        /\ \A s \in Segment : truth[s].proved => truth'[s].proved
        /\ accepted => truth'[p].proved
        /\ \A s \in Segment : truth[s].failed => truth'[s].failed
        /\ \A s \in Segment : truth'[s].enforced => truth[s].enforced
    BY <2>1, <2>2, NotedAdds DEF SegmentInv, SegmentTypes
  <2>4. SegmentTypes'
    BY <2>1, <2>3 DEF SegmentInv, SegmentTypes
  <2>5. AnchorsAreProved' /\ SubmittedWhenOver'
    BY <2>1, <2>2, <2>3 DEF SegmentInv, AnchorsAreProved, SubmittedWhenOver
  <2>6. AdmittedIsEarned'
    BY <2>1, <2>3, <2>4, EvidenceStays
  <2>7. \A s \in Segment : (Over(s) => Over(s)') /\ (Triggered(s) => Triggered(s)')
    BY <2>1 DEF Over, Triggered
  <2>8. ShownCounts'
    BY <1>0, <2>1, <2>3, <2>7, ShownStays
  <2> QED BY <2>4, <2>5, <2>6, <2>8 DEF SegmentInv
<1>7. CASE CloseSegment
  <2>1. SegmentTypes' /\ AnchorsAreProved' /\ SubmittedWhenOver'
    BY <1>7 DEF CloseSegment, SegmentInv, SegmentTypes, AnchorsAreProved, SubmittedWhenOver, Segment
  <2>2. AdmittedIsEarned'
    BY <1>7, <2>1, EvidenceStays DEF CloseSegment
  <2>3. \A s \in Segment : (Over(s) => Over(s)') /\ (Triggered(s) => Triggered(s)')
    BY <1>7 DEF CloseSegment, Over, Triggered
  <2>4. ShownCounts'
    BY <1>0, <1>7, <2>3, ShownStays DEF CloseSegment
  <2> QED BY <2>1, <2>2, <2>4 DEF SegmentInv
<1>8. CASE EndSegment
  <2>1. n \in Segment
    BY <1>8 DEF EndSegment, SegmentInv, SegmentTypes, Segment
  <2>2. decisions' \subseteq decisions
    BY <1>8 DEF EndSegment
  <2>3. \A s \in Segment : truth'[s].enforced => s <= n' /\ Over(s)'
    BY <1>8, <2>1 DEF EndSegment, Over, SegmentInv, ShownCounts, Segment
  <2>4. ASSUME \A s \in Segment : truth[s].enforced /\ ~truth[s].failed => ~Admitted(s)'
        PROVE  ShownCounts'
    BY <1>8, <2>3, <2>4 DEF EndSegment, ShownCounts
  <2>5. CASE UNCHANGED candidates
    <3>1. SegmentTypes' /\ AnchorsAreProved' /\ SubmittedWhenOver'
      BY <1>8, <2>2, <2>5 DEF EndSegment, SegmentInv, SegmentTypes, AnchorsAreProved,
         SubmittedWhenOver, Segment
    <3>2. AdmittedIsEarned'
      BY <1>8, <2>5, <3>1, EvidenceStays DEF EndSegment
    <3>3. \A s \in Segment : truth[s].enforced /\ ~truth[s].failed => ~Admitted(s)'
      BY <2>5 DEF Admitted, SegmentInv, ShownCounts
    <3> QED BY <2>4, <3>1, <3>2, <3>3 DEF SegmentInv
  <2>6. CASE ~drill /\ SubmitSegment(n)
    <3>1. SegmentTypes' /\ AnchorsAreProved' /\ SubmittedWhenOver'
      BY <1>8, <2>1, <2>2, <2>6 DEF EndSegment, SubmitSegment, SegmentInv, SegmentTypes,
         AnchorsAreProved, SubmittedWhenOver, Segment
    <3>2. ASSUME NEW s \in Segment, s # n
          PROVE  Admitted(s)' => Admitted(s)
      BY <2>1, <2>6, <3>2 DEF SubmitSegment, Admitted, SegmentInv, SegmentTypes
    <3>3. ASSUME NEW s \in Segment, s = n
          PROVE  Admitted(s)' => G1(s) /\ Anchored(s) /\ G3(s) /\ G4(s)
      BY <3>3, <2>1, <2>6 DEF SubmitSegment, Admitted, SegmentInv, SegmentTypes
    <3>4. ASSUME NEW s \in Segment, Admitted(s)'
          PROVE  /\ truth[s].proved \/ (s = 1 /\ ~drill)
                 /\ levels[s] \subseteq {"LOW", "MEDIUM"} /\ windows[s].scored >= MinWindows
                 /\ s \notin gap
      <4>1. CASE s # n
        BY <3>2, <3>4, <4>1 DEF SegmentInv, AdmittedIsEarned
      <4>2. CASE s = n
        <5>1. truth[s].proved \/ (s = 1 /\ ~drill)
          BY <2>1, <2>6, <3>3, <3>4, <4>2 DEF Anchored, SegmentInv, AnchorsAreProved, Segment
        <5> QED BY <3>3, <3>4, <4>2, <5>1 DEF G1, G3, G4
      <4> QED BY <4>1, <4>2
    <3>5. AdmittedIsEarned'
      BY <1>8, <3>4 DEF EndSegment, AdmittedIsEarned
    <3>6. ASSUME NEW s \in Segment, truth[s].enforced, ~truth[s].failed PROVE ~Admitted(s)'
      <4>1. ~Admitted(s) /\ (Triggered(s) \/ Over(s))
        BY <3>6 DEF SegmentInv, ShownCounts
      <4>2. CASE s # n
        BY <3>2, <4>1, <4>2
      <4>3. CASE s = n
        <5>1. ~Over(n)
          BY <1>8, <2>1 DEF EndSegment, Over, Segment
        <5> QED BY <3>3, <4>1, <4>3, <5>1 DEF G1
      <4> QED BY <4>2, <4>3
    <3> QED BY <2>4, <3>1, <3>5, <3>6 DEF SegmentInv
  <2> QED BY <1>8, <2>5, <2>6 DEF EndSegment
<1>9. CASE UNCHANGED evidenceVars
  BY <1>9 DEF evidenceVars, SegmentInv, SegmentTypes, AnchorsAreProved, SubmittedWhenOver,
     AdmittedIsEarned, Admitted, ShownCounts, Triggered, Over
<1> QED
  BY <1>1, <1>2, <1>3, <1>4, <1>5, <1>6, <1>7, <1>8, <1>9 DEF EvidenceNext

(* The invariant always holds.                                             *)
LEMMA SegmentInvariant == EvidenceSpec => []SegmentInv
BY SegmentInit, SegmentStep, PTL DEF EvidenceSpec

(* "A segment (ADR-007) becomes eligible for promotion into training data  *)
(* only if" (PLAN.md 12.1): whatever is admitted was proved by a person,   *)
(* quiet, long enough and complete, in whatever order windows, answers,    *)
(* prompts and the ends of segments come.                                  *)
THEOREM AdmittedIsEarnedAlways == EvidenceSpec => []AdmittedIsEarned
<1>1. SegmentInv => AdmittedIsEarned
  BY DEF SegmentInv
<1> QED BY <1>1, SegmentInvariant, PTL

(* "no enforcement action was triggered" (PLAN.md 12.1), so far as it      *)
(* holds: what reached the participant keeps its segment out, however the  *)
(* answers that rewrite enforcement_applied and the ends of segments       *)
(* interleave, unless a challenge of the segment was failed.               *)
THEOREM EnforcementKeepsOutAlways == EvidenceSpec => []EnforcementKeepsOut
<1>1. SegmentInv => EnforcementKeepsOut
  BY DEF SegmentInv, ShownCounts, EnforcementKeepsOut
<1> QED BY <1>1, SegmentInvariant, PTL
=============================================================================
