-------------------------- MODULE EnforcementProofs --------------------------
(***************************************************************************)
(* Enforcement is type correct, and no interleaving of the ingestion       *)
(* thread and any number of API workers settles a challenge twice or loses *)
(* one, for every set of ids and every timeout.                            *)
(***************************************************************************)
EXTENDS Enforcement, TLAPS

-----------------------------------------------------------------------------
(* Typing.                                                                 *)

(* The postures the code names.                                            *)
LEMMA PostureTyping ==
  /\ {"NORMAL", "REAUTH_REQUIRED", "LOCKED_OUT"} \subseteq Postures
  /\ \A a \in ChallengeActions \cup {"TERMINATE"} : ActionPosture[a] \in Postures
BY DEF Postures, Ladder!Postures, ChallengeActions, ActionPosture

(* The empty job, challenge and entry have their types.                    *)
LEMMA BlankTyping == NoJob \in Jobs /\ NoChallenge \in Challenges /\ Closed \in Entries
BY TimeoutAssumption
DEF NoJob, Jobs, NoChallenge, Challenges, Kinds, Outcomes, Closed, Entries, Left

(* A worker that goes somewhere with a well-typed job keeps pc and job     *)
(* well typed.                                                             *)
LEMMA GotoTyping ==
  ASSUME NEW w \in Workers, NEW where \in Stops, NEW j \in Jobs,
         pc \in [Workers -> Stops], job \in [Workers -> Jobs], Goto(w, where, j)
  PROVE  pc' \in [Workers -> Stops] /\ job' \in [Workers -> Jobs]
BY BlankTyping DEF Goto

(* Time left stays in its range.                                           *)
LEMMA ElapseTyping == \A n \in Left : Elapse(n) \in Left
BY TimeoutAssumption DEF Left, Elapse

(* A new entry.                                                            *)
LEMMA OpenedTyping == \A a \in ChallengeActions : Opened(a) \in Entries
BY TimeoutAssumption DEF Opened, Entries, Left

(* What leaves the registry is a challenge.                                *)
LEMMA PoppedTyping ==
  ASSUME pending \in [Ids -> Entries], NEW i \in Ids
  PROVE  Popped(i) \in Challenges /\ Swept(i) \in Challenges
BY TimeoutAssumption DEF Popped, Swept, Challenges, Entries, Left

(* Types at the start.                                                     *)
LEMMA InitType == Init => TypeOK
BY BlankTyping DEF Init, TypeOK, NoDecision, Postures, Ladder!Postures, Ladder!Codes, Stops

(* A move of the posture.                                                  *)
LEMMA MoveTyping ==
  ASSUME TypeOK, NEW p \in Postures, NEW why \in Ladder!Codes, Move(p, why)
  PROVE  posture' \in Postures /\ code' \in Ladder!Codes
BY DEF TypeOK, Move

(* The steps of a decision keep the types.                                 *)
LEMMA IngestionType == TypeOK /\ Executing /\ Ingestion => TypeOK'
<1> SUFFICES ASSUME TypeOK, Executing, Ingestion PROVE TypeOK'
  OBVIOUS
<1> "ENFORCEMENT" \in Ladder!Codes
  BY DEF Ladder!Codes
<1>1. ASSUME NEW i \in Decisions, NEW a \in ChallengeActions \cup {"TERMINATE"}, Decide(i, a)
      PROVE  TypeOK'
  BY <1>1 DEF TypeOK, Decide
<1>2. CASE CheckRank
  BY <1>2 DEF TypeOK, CheckRank, NoDecision, ToAdapter
<1>3. CASE MoveToDecision
  <2>1. dec.action \in ChallengeActions \cup {"TERMINATE"}
    BY <1>3 DEF MoveToDecision, TypeOK, Executing
  <2>2. posture' \in Postures /\ code' \in Ladder!Codes
    BY <1>3, <2>1, PostureTyping, MoveTyping DEF MoveToDecision
  <2> QED
    BY <1>3, <2>2 DEF TypeOK, MoveToDecision, NoDecision, ToAdapter
<1>4. CASE OpenChallenge
  <2>1. dec.action \in ChallengeActions /\ dec.id \in Decisions
    BY <1>4 DEF OpenChallenge, Executing
  <2>2. Opened(dec.action) \in Entries
    BY <2>1, OpenedTyping
  <2>3. dec.id \in Enforcing
    BY <2>1, IdsAssumption DEF Enforcing, Ids
  <2> QED
    BY <1>4, <2>2, <2>3 DEF TypeOK, OpenChallenge, NoDecision
<1>5. CASE SpawnPrompt
  BY <1>5, BlankTyping DEF TypeOK, SpawnPrompt, NoDecision
<1>6. ASSUME NEW i \in Prompts, OpenScheduled(i)
      PROVE  TypeOK'
  <2>1. Opened("SOFT_CHALLENGE") \in Entries
    BY OpenedTyping DEF ChallengeActions
  <2> QED
    BY <1>6, <2>1 DEF TypeOK, OpenScheduled
<1> QED
  BY <1>1, <1>2, <1>3, <1>4, <1>5, <1>6 DEF Ingestion

(* The steps of a request keep the types.                                  *)
LEMMA WorkerType ==
  ASSUME TypeOK, NEW w \in Workers, Worker(w)
  PROVE  TypeOK'
<1> pc \in [Workers -> Stops] /\ job \in [Workers -> Jobs] /\ job[w] \in Jobs
  BY DEF TypeOK
<1> "idle" \in Stops /\ NoJob \in Jobs
  BY BlankTyping DEF Stops
<1>1. ASSUME NEW k \in Kinds \ {"respond"}, Request(w, k) PROVE TypeOK'
  <2> DEFINE j == [NoJob EXCEPT !.kind = k,
                     !.due = IF k = "protected" THEN {d \in Enforcing : Overdue(d)} ELSE {}]
             s == IF k = "reauth" THEN "gate" ELSE "sweep"
  <2>1. j \in Jobs /\ s \in Stops
    BY BlankTyping, ZenonT(30) DEF Jobs, Enforcing, Stops, NoJob
  <2>2. Goto(w, s, j)
    BY <1>1 DEF Request
  <2> QED
    BY <1>1, <2>1, <2>2, GotoTyping DEF TypeOK, Request
<1>2. ASSUME NEW i \in Ids, Respond(w, i) PROVE TypeOK'
  <2> DEFINE j == [NoJob EXCEPT !.kind = "respond", !.target = i]
  <2>1. j \in Jobs /\ "sweep" \in Stops
    BY BlankTyping DEF Jobs, Kinds, Stops, NoJob
  <2>2. Goto(w, "sweep", j)
    BY <1>2 DEF Respond
  <2> QED
    BY <1>2, <2>1, <2>2, GotoTyping DEF TypeOK, Respond
<1>3. CASE Sweep(w)
  <2> DEFINE q == {Swept(i) : i \in {i \in Ids : Overdue(i)} \ Prompts}
             j == [job[w] EXCEPT !.queue = q]
  <2>1. q \subseteq Challenges
    BY PoppedTyping DEF TypeOK
  <2>2. j \in Jobs /\ "settle" \in Stops
    BY <2>1 DEF Jobs, Stops
  <2>3. Goto(w, "settle", j)
    BY <1>3 DEF Sweep
  <2>4. pending' \in [Ids -> Entries]
    BY <1>3, BlankTyping DEF Sweep, TypeOK
  <2> HIDE DEF j
  <2> QED
    BY <1>3, <2>2, <2>3, <2>4, GotoTyping DEF TypeOK, Sweep
<1>4. CASE Settle(w)
  <2>1. CASE Goto(w, AfterSweep(job[w].kind), job[w])
    <3>1. AfterSweep(job[w].kind) \in Stops
      BY DEF AfterSweep, Stops
    <3> QED
      BY <1>4, <2>1, <3>1, GotoTyping DEF TypeOK, Settle
  <2>2. ASSUME NEW c \in job[w].queue,
               Goto(w, "observe", [job[w] EXCEPT !.queue = @ \ {c}, !.ch = c,
                                     !.outcome = "EXPIRED", !.ret = "settle"])
        PROVE  TypeOK'
    <3> DEFINE j == [job[w] EXCEPT !.queue = @ \ {c}, !.ch = c,
                       !.outcome = "EXPIRED", !.ret = "settle"]
    <3>1. j \in Jobs /\ "observe" \in Stops
      BY DEF Jobs, Outcomes, Stops
    <3> QED
      BY <1>4, <2>2, <3>1, GotoTyping DEF TypeOK, Settle
  <2> QED
    BY <1>4, <2>1, <2>2 DEF Settle
<1>5. CASE Pop(w)
  <2> DEFINE i == job[w].target
             j == [job[w] EXCEPT !.ch = Popped(i), !.target = NoId]
  <2>1. CASE IsOpen(i) /\ Goto(w, "verdict", j) /\ pending' = [pending EXCEPT ![i] = Closed]
    <3>1. i \in Ids
      BY <2>1 DEF IsOpen
    <3>2. j \in Jobs /\ "verdict" \in Stops
      BY <3>1, PoppedTyping DEF Jobs, Stops, TypeOK
    <3> HIDE DEF j
    <3> QED
      BY <1>5, <2>1, <3>1, <3>2, GotoTyping, BlankTyping DEF TypeOK, Pop
  <2>2. CASE Goto(w, "idle", NoJob) /\ UNCHANGED pending
    BY <1>5, <2>2, GotoTyping DEF TypeOK, Pop
  <2> QED
    BY <1>5, <2>1, <2>2 DEF Pop
<1>6. ASSUME NEW correct \in BOOLEAN, Verdict(w, correct) PROVE TypeOK'
  <2> DEFINE o == IF job[w].ch.left < 0 THEN "EXPIRED"
                  ELSE IF correct THEN "ACCEPTED" ELSE "REJECTED"
             j == [job[w] EXCEPT !.outcome = o, !.ret = "idle", !.ch.left = -1]
             s == IF job[w].ch.id \in Prompts THEN "idle" ELSE "observe"
  <2>a. [job[w].ch EXCEPT !.left = -1] \in Challenges /\ o \in Outcomes
    BY TimeoutAssumption DEF Jobs, Challenges, Outcomes, Left
  <2>1. j \in Jobs /\ s \in Stops
    <3> DEFINE c == [job[w].ch EXCEPT !.left = -1]
    <3>1. job[w] \in Jobs
      BY DEF TypeOK
    <3>2. j = [job[w] EXCEPT !.outcome = o, !.ret = "idle", !.ch = c]
      BY <3>1 DEF Jobs
    <3> HIDE DEF o, c
    <3>3. [job[w] EXCEPT !.outcome = o, !.ret = "idle", !.ch = c] \in Jobs
      BY <2>a, <3>1 DEF Jobs, c
    <3>4. s \in Stops
      BY DEF Stops
    <3> QED BY <3>2, <3>3, <3>4
  <2>2. Goto(w, s, j)
    BY <1>6 DEF Verdict
  <2> QED
    BY <1>6, <2>1, <2>2, GotoTyping DEF TypeOK, Verdict
<1>7. ASSUME Settled(w), posture' \in Postures, code' \in Ladder!Codes,
             pending' = pending, configured' = configured, ipc' = ipc, dec' = dec,
             absolved' \subseteq Enforcing
      PROVE  TypeOK'
  <2> DEFINE j == [job[w] EXCEPT !.ch = NoChallenge, !.outcome = "NONE"]
  <2>1. j \in Jobs /\ job[w].ret \in Stops
    BY BlankTyping DEF Jobs, Outcomes, Stops
  <2>2. CASE Goto(w, job[w].ret, j)
    BY <1>7, <2>1, <2>2, GotoTyping DEF TypeOK, Settled
  <2>3. CASE Goto(w, "idle", NoJob)
    BY <1>7, <2>3, GotoTyping DEF TypeOK, Settled
  <2> QED
    BY <1>7, <2>2, <2>3 DEF Settled
<1> WhyOf(job[w]) \in Ladder!Codes
  BY DEF WhyOf, Ladder!Codes
<1>8. CASE ObserveReauth(w)
  <2>1. posture' \in Postures /\ code' \in Ladder!Codes
    BY <1>8, PostureTyping, MoveTyping DEF ObserveReauth
  <2>2. absolved' \subseteq Enforcing
    BY <1>8 DEF ObserveReauth, TypeOK
  <2> QED
    BY <1>7, <1>8, <2>1, <2>2 DEF ObserveReauth
<1>9. CASE ObserveSoft(w)
  <2>1. CASE UNCHANGED <<posture, code>> /\ Settled(w)
    BY <1>7, <1>9, <2>1 DEF ObserveSoft, TypeOK
  <2>2. CASE UNCHANGED <<posture, code, owed>> /\ Goto(w, "move", job[w])
    <3> "move" \in Stops
      BY DEF Stops
    <3> QED
      BY <1>9, <2>2, GotoTyping DEF ObserveSoft, TypeOK
  <2> QED
    BY <1>9, <2>1, <2>2 DEF ObserveSoft
<1>10. CASE MoveSoft(w)
  <2>1. posture' \in Postures /\ code' \in Ladder!Codes
    BY <1>10, PostureTyping, MoveTyping DEF MoveSoft
  <2> QED
    BY <1>7, <1>10, <2>1 DEF MoveSoft, TypeOK
<1>11. CASE ReadGate(w)
  BY <1>11, GotoTyping DEF ReadGate, TypeOK
<1>12. CASE AskReauth(w)
  <2> DEFINE s == IF posture \in Blocking /\ configured THEN "offer" ELSE "idle"
  <2>1. s \in Stops /\ Goto(w, s, job[w])
    BY <1>12 DEF AskReauth, Stops
  <2> QED
    BY <1>12, <2>1, GotoTyping DEF AskReauth, TypeOK
<1>13. CASE OfferExisting(w) \/ OfferRefused(w)
  BY <1>13, GotoTyping DEF OfferExisting, OfferRefused, TypeOK
<1>14. ASSUME NEW i \in Recoveries, OfferMinted(w, i) PROVE TypeOK'
  <2>1. i \in Enforcing /\ i \in Ids
    BY IdsAssumption DEF Enforcing, Ids
  <2>2. Opened("REAUTH") \in Entries
    BY OpenedTyping DEF ChallengeActions
  <2> QED
    BY <1>14, <2>1, <2>2, GotoTyping DEF OfferMinted, TypeOK
<1>15. CASE Serve(w)
  BY <1>3, <1>4, <1>5, <1>6, <1>8, <1>9, <1>10, <1>11, <1>12, <1>13, <1>14, <1>15 DEF Serve
<1> QED
  BY <1>1, <1>2, <1>15 DEF Worker

(* Time keeps the types.                                                   *)
LEMMA TickType == TypeOK /\ Tick => TypeOK'
<1> SUFFICES ASSUME TypeOK, Tick PROVE TypeOK'
  OBVIOUS
<1>1. ASSUME NEW i \in Ids PROVE [pending[i] EXCEPT !.left = Elapse(@)] \in Entries
  BY ElapseTyping DEF TypeOK, Entries
<1>2. ASSUME NEW w \in Workers PROVE [job[w] EXCEPT !.ch.left = Elapse(@)] \in Jobs
  <2>1. job[w] \in Jobs /\ job[w].ch \in Challenges
    BY DEF TypeOK, Jobs
  <2>2. Elapse(job[w].ch.left) \in Left
    BY <2>1, ElapseTyping DEF Challenges
  <2>3. [job[w].ch EXCEPT !.left = Elapse(@)] \in Challenges
    BY <2>1, <2>2 DEF Challenges
  <2> QED
    BY <2>1, <2>3 DEF Jobs
<1>3. pending' \in [Ids -> Entries]
  BY <1>1 DEF Tick
<1>4. job' \in [Workers -> Jobs]
  BY <1>2 DEF Tick
<1> QED
  BY <1>3, <1>4 DEF TypeOK, Tick

(* Every step keeps the types.                                             *)
LEMMA NextType == TypeOK /\ Executing /\ [Next]_vars => TypeOK'
<1> SUFFICES ASSUME TypeOK, Executing, [Next]_vars PROVE TypeOK'
  OBVIOUS
<1>1. CASE UNCHANGED vars
  BY <1>1 DEF TypeOK, vars
<1> QED
  BY <1>1, IngestionType, WorkerType, TickType DEF Next
-----------------------------------------------------------------------------
(* Where the challenges are.  A worker's hands depend on its own record    *)
(* only, so a step of one worker leaves the others' alone.                 *)

(* A worker that moves on holds what its new job holds, and no other is    *)
(* affected.                                                               *)
LEMMA GotoHolds ==
  ASSUME TypeOK, NEW w \in Workers, NEW where, NEW j, Goto(w, where, j), NEW i
  PROVE  /\ \A v \in Workers \ {w} : Holds(v, i)' = Holds(v, i)
         /\ Holds(w, i)' => /\ where # "idle"
                            /\ \/ \E c \in j.queue : c.id = i
                               \/ where \in {"verdict", "observe", "move"} /\ j.ch.id = i
         /\ where # "idle" /\ (\E c \in j.queue : c.id = i) => Holds(w, i)'
         /\ where \in {"verdict", "observe", "move"} /\ j.ch.id = i => Holds(w, i)'
BY DEF Goto, TypeOK, Holds, NoJob

(* A step that opens nothing and puts nothing into anyone's hands keeps    *)
(* the hands exclusive.                                                    *)
LEMMA ExclusiveShrinks ==
  ASSUME Exclusive,
         \A i \in Ids : IsOpen(i)' => IsOpen(i),
         \A v \in Workers, i \in Ids : Holds(v, i)' => Holds(v, i)
  PROVE  Exclusive'
BY DEF Exclusive

(* The ingestion thread moves nobody's hands and opens only what nobody    *)
(* has.                                                                    *)
LEMMA IngestionHolds ==
  ASSUME Ingestion
  PROVE  \A w \in Workers, i \in Ids : Holds(w, i)' = Holds(w, i)
BY DEF Ingestion, Decide, CheckRank, MoveToDecision, OpenChallenge, SpawnPrompt,
       OpenScheduled, Holds

(* A decision opens a challenge under an id nobody holds.                  *)
LEMMA IngestionExclusive == TypeOK /\ Executing /\ Exclusive /\ Ingestion => Exclusive'
<1> SUFFICES ASSUME TypeOK, Executing, Exclusive, Ingestion PROVE Exclusive'
  OBVIOUS
<1>1. \A w \in Workers, i \in Ids : Holds(w, i)' = Holds(w, i)
  BY IngestionHolds
<1>2. CASE UNCHANGED pending
  BY <1>1, <1>2 DEF Exclusive, IsOpen
<1>3. CASE OpenChallenge /\ pending' = [pending EXCEPT ![dec.id] = Opened(dec.action)]
  <2>1. \A w \in Workers : ~Holds(w, dec.id)
    BY <1>3 DEF OpenChallenge, Executing
  <2>2. \A i \in Ids : i # dec.id => (IsOpen(i)' <=> IsOpen(i))
    BY <1>3 DEF IsOpen, TypeOK
  <2> QED
    BY <1>1, <2>1, <2>2 DEF Exclusive
<1>4. CASE SpawnPrompt
  <2>1. \A i \in Ids : IsOpen(i)' => IsOpen(i)
    BY <1>4 DEF SpawnPrompt, IsOpen, Closed, TypeOK
  <2> QED
    BY <1>1, <2>1, ExclusiveShrinks
<1>5. ASSUME NEW p \in Prompts, OpenScheduled(p) PROVE Exclusive'
  <2>1. \A w \in Workers : ~Holds(w, p)
    BY <1>5 DEF OpenScheduled, Fresh
  <2>2. \A i \in Ids : i # p => (IsOpen(i)' <=> IsOpen(i))
    BY <1>5 DEF OpenScheduled, IsOpen, TypeOK
  <2> QED
    BY <1>1, <2>1, <2>2 DEF Exclusive
<1> QED
  BY <1>2, <1>3, <1>4, <1>5 DEF Ingestion, Decide, CheckRank, MoveToDecision, OpenChallenge

(* What a step of worker w may do to the challenges: open only a minted    *)
(* one that nobody has, touch nobody else's hands, and take into its own   *)
(* only what it takes out of the registry.                                 *)
Footprint(w) ==
  \A i \in Ids :
    /\ IsOpen(i)' => IsOpen(i) \/ (i \in Recoveries /\ \A v \in Workers : ~Holds(v, i)')
    /\ \A v \in Workers \ {w} : Holds(v, i)' = Holds(v, i)
    /\ Holds(w, i)' => Holds(w, i) \/ (IsOpen(i) /\ ~IsOpen(i)')

(* What a step of a worker does to who holds what.                         *)
LEMMA WorkerFootprint ==
  ASSUME TypeOK, Exclusive, NEW w \in Workers, Carries(w), Worker(w)
  PROVE  Footprint(w)
<1> job[w] \in Jobs /\ pc[w] \in Stops
  BY DEF TypeOK
<1>1. ASSUME NEW where, NEW j, Goto(w, where, j), j.queue = {},
             where \notin {"verdict", "observe", "move"},
             \A i \in Ids : IsOpen(i)' => IsOpen(i)
      PROVE  Footprint(w)
  <2>1. ASSUME NEW i \in Ids
        PROVE  ~Holds(w, i)' /\ \A v \in Workers \ {w} : Holds(v, i)' = Holds(v, i)
    BY <1>1, GotoHolds
  <2> QED
    BY <1>1, <2>1 DEF Footprint
<1>2. ASSUME NEW k \in Kinds \ {"respond"}, Request(w, k) PROVE Footprint(w)
  <2> DEFINE j == [NoJob EXCEPT !.kind = k,
                     !.due = IF k = "protected" THEN {d \in Enforcing : Overdue(d)} ELSE {}]
             s == IF k = "reauth" THEN "gate" ELSE "sweep"
  <2>1. j.queue = {} /\ s \notin {"verdict", "observe", "move"}
    BY DEF NoJob
  <2>2. Goto(w, s, j) /\ \A i \in Ids : IsOpen(i)' => IsOpen(i)
    BY <1>2 DEF Request, IsOpen
  <2> HIDE DEF j, s
  <2> QED
    BY <1>1, <2>1, <2>2
<1>3. ASSUME NEW i \in Ids, Respond(w, i) PROVE Footprint(w)
  <2> DEFINE j == [NoJob EXCEPT !.kind = "respond", !.target = i]
  <2>1. j.queue = {}
    BY DEF NoJob
  <2>2. Goto(w, "sweep", j) /\ \A d \in Ids : IsOpen(d)' => IsOpen(d)
    BY <1>3 DEF Respond, IsOpen
  <2> HIDE DEF j
  <2> QED
    BY <1>1, <2>1, <2>2
<1>4. CASE Sweep(w)
  <2> DEFINE q == {Swept(i) : i \in {i \in Ids : Overdue(i)} \ Prompts}
             j == [job[w] EXCEPT !.queue = q]
  <2>1. Goto(w, "settle", j)
    BY <1>4 DEF Sweep
  <2>2. j.queue = q
    BY DEF Jobs
  <2>3. \A c \in q : c.id \in Ids /\ Overdue(c.id)
    BY DEF Swept
  <2>4. \A i \in Ids : Overdue(i) => ~IsOpen(i)'
    BY <1>4 DEF Sweep, IsOpen, Closed
  <2>5. \A i \in Ids : IsOpen(i)' => IsOpen(i)
    BY <1>4 DEF Sweep, IsOpen, Closed
  <2> HIDE DEF j
  <2>6. \A v \in Workers \ {w}, i \in Ids : Holds(v, i)' = Holds(v, i)
    BY <2>1, GotoHolds
  <2>7. \A i \in Ids : Holds(w, i)' => \E c \in q : c.id = i
    BY <2>1, <2>2, GotoHolds
  <2>8. \A i \in Ids : Holds(w, i)' => Overdue(i)
    BY <2>3, <2>7
  <2>9. \A i \in Ids : Overdue(i) => IsOpen(i)
    BY DEF Overdue
  <2> HIDE DEF q
  <2> QED
    BY <2>4, <2>5, <2>6, <2>8, <2>9 DEF Footprint
<1>5. CASE Settle(w)
  <2>1. \A i \in Ids : IsOpen(i)' = IsOpen(i)
    BY <1>5 DEF Settle, IsOpen
  <2>2. CASE job[w].queue = {} /\ Goto(w, AfterSweep(job[w].kind), job[w])
    BY <1>1, <2>1, <2>2 DEF AfterSweep
  <2>3. ASSUME NEW c \in job[w].queue,
               Goto(w, "observe", [job[w] EXCEPT !.queue = @ \ {c}, !.ch = c,
                                     !.outcome = "EXPIRED", !.ret = "settle"])
        PROVE  Footprint(w)
    <3> DEFINE j == [job[w] EXCEPT !.queue = @ \ {c}, !.ch = c,
                       !.outcome = "EXPIRED", !.ret = "settle"]
    <3>1. j.queue = job[w].queue \ {c} /\ j.ch = c
      BY DEF Jobs
    <3> HIDE DEF j
    <3>2. Goto(w, "observe", j)
      BY <2>3 DEF j
    <3>3. ASSUME NEW i \in Ids
          PROVE  /\ Holds(w, i)' => Holds(w, i)
                 /\ \A v \in Workers \ {w} : Holds(v, i)' = Holds(v, i)
      <4>1. /\ Holds(w, i)' => (\E d \in j.queue : d.id = i) \/ j.ch.id = i
            /\ \A v \in Workers \ {w} : Holds(v, i)' = Holds(v, i)
        BY <3>2, GotoHolds
      <4> QED
        BY <3>1, <4>1 DEF Holds
    <3> QED
      BY <2>1, <3>3 DEF Footprint
  <2> QED
    BY <1>5, <2>2, <2>3 DEF Settle
<1>6. CASE Pop(w)
  <2> DEFINE t == job[w].target
             j == [job[w] EXCEPT !.ch = Popped(t), !.target = NoId]
  <2>1. CASE IsOpen(t) /\ Goto(w, "verdict", j) /\ pending' = [pending EXCEPT ![t] = Closed]
    <3>1. j.queue = {} /\ j.ch.id = t
      BY <1>6 DEF Pop, Carries, Fits, Jobs, Popped
    <3>2. \A i \in Ids : IsOpen(i)' <=> IsOpen(i) /\ i # t
      BY <2>1 DEF IsOpen, Closed, TypeOK
    <3> HIDE DEF j
    <3>3. \A v \in Workers \ {w}, i \in Ids : Holds(v, i)' = Holds(v, i)
      BY <2>1, GotoHolds
    <3>4. \A i \in Ids : Holds(w, i)' => i = t
      BY <2>1, <3>1, GotoHolds
    <3> QED
      BY <2>1, <3>2, <3>3, <3>4 DEF Footprint
  <2>2. CASE Goto(w, "idle", NoJob) /\ UNCHANGED pending
    BY <1>1, <2>2 DEF IsOpen, NoJob
  <2> QED
    BY <1>6, <2>1, <2>2 DEF Pop
<1>7. ASSUME UNCHANGED pending,
             NEW where \in Stops, NEW j \in Jobs, Goto(w, where, j),
             j.queue = job[w].queue,
             where \in {"verdict", "observe", "move"}
               => j.ch.id = job[w].ch.id /\ pc[w] \in {"verdict", "observe", "move"}
      PROVE  Footprint(w)
  <2>1. ASSUME NEW i \in Ids
        PROVE  /\ Holds(w, i)' => Holds(w, i)
               /\ \A v \in Workers \ {w} : Holds(v, i)' = Holds(v, i)
    <3>1. Holds(w, i)' => \/ \E c \in j.queue : c.id = i
                          \/ where \in {"verdict", "observe", "move"} /\ j.ch.id = i
      BY <1>7, GotoHolds
    <3>2. \A v \in Workers \ {w} : Holds(v, i)' = Holds(v, i)
      BY <1>7, GotoHolds
    <3> QED
      BY <1>7, <3>1, <3>2 DEF Holds
  <2> QED
    BY <1>7, <2>1 DEF Footprint, IsOpen
<1>8. ASSUME NEW correct \in BOOLEAN, Verdict(w, correct) PROVE Footprint(w)
  <2> DEFINE o == IF job[w].ch.left < 0 THEN "EXPIRED"
                  ELSE IF correct THEN "ACCEPTED" ELSE "REJECTED"
             j == [job[w] EXCEPT !.outcome = o, !.ret = "idle", !.ch.left = -1]
             s == IF job[w].ch.id \in Prompts THEN "idle" ELSE "observe"
  <2>1. [job[w].ch EXCEPT !.left = -1] \in Challenges /\ o \in Outcomes
    BY TimeoutAssumption DEF Jobs, Challenges, Outcomes, Left
  <2>2. j \in Jobs /\ s \in Stops
    BY <2>1 DEF Jobs, Stops
  <2>3. Goto(w, s, j) /\ UNCHANGED pending /\ pc[w] = "verdict"
    BY <1>8 DEF Verdict
  <2>4. j.queue = job[w].queue /\ j.ch.id = job[w].ch.id
    BY DEF Jobs, Challenges
  <2> QED
    BY <1>7, <2>2, <2>3, <2>4
<1>9. ASSUME Settled(w), UNCHANGED pending PROVE Footprint(w)
  <2> DEFINE j == [job[w] EXCEPT !.ch = NoChallenge, !.outcome = "NONE"]
  <2>1. j \in Jobs /\ job[w].ret \in Stops \ {"verdict", "observe", "move"} /\ j.queue = job[w].queue
    BY BlankTyping DEF Jobs, Outcomes, Stops
  <2>2. CASE Goto(w, job[w].ret, j)
    BY <1>7, <1>9, <2>1, <2>2
  <2>3. CASE Goto(w, "idle", NoJob)
    BY <1>1, <1>9, <2>3 DEF NoJob, IsOpen
  <2> QED
    BY <1>9, <2>2, <2>3 DEF Settled
<1>10. CASE ObserveReauth(w) \/ MoveSoft(w)
  BY <1>9, <1>10 DEF ObserveReauth, MoveSoft
<1>11. CASE ObserveSoft(w)
  <2>1. CASE Goto(w, "move", job[w])
    BY <1>7, <1>11, <2>1 DEF ObserveSoft, Stops
  <2> QED
    BY <1>9, <1>11, <2>1 DEF ObserveSoft
<1>12. CASE ReadGate(w) \/ OfferExisting(w) \/ OfferRefused(w)
  BY <1>1, <1>12 DEF ReadGate, OfferExisting, OfferRefused, NoJob, IsOpen
<1>13. CASE AskReauth(w)
  BY <1>7, <1>13 DEF AskReauth, Stops
<1>14. ASSUME NEW r \in Recoveries, OfferMinted(w, r) PROVE Footprint(w)
  <2>1. \A v \in Workers : ~Holds(v, r)
    BY <1>14 DEF OfferMinted, Fresh
  <2>2. \A i \in Ids : i # r => (IsOpen(i)' <=> IsOpen(i))
    BY <1>14 DEF OfferMinted, IsOpen, TypeOK
  <2>3. ASSUME NEW i \in Ids
        PROVE  ~Holds(w, i)' /\ \A v \in Workers \ {w} : Holds(v, i)' = Holds(v, i)
    BY <1>14, GotoHolds DEF OfferMinted, NoJob
  <2>4. r \in Ids => \A v \in Workers : ~Holds(v, r)'
    BY <2>1, <2>3
  <2>5. ASSUME NEW i \in Ids
        PROVE  IsOpen(i)' => IsOpen(i) \/ (i \in Recoveries /\ \A v \in Workers : ~Holds(v, i)')
    BY <1>14, <2>2, <2>4
  <2> QED
    BY <2>3, <2>5 DEF Footprint
<1>15. CASE Serve(w)
  BY <1>4, <1>5, <1>6, <1>8, <1>10, <1>11, <1>12, <1>13, <1>14, <1>15 DEF Serve
<1> QED
  BY <1>2, <1>3, <1>15 DEF Worker

(* With that footprint, no challenge comes into two hands.                 *)
LEMMA WorkerExclusive ==
  ASSUME Exclusive, NEW w \in Workers, Footprint(w)
  PROVE  Exclusive'
<1> SUFFICES ASSUME NEW v \in Workers, NEW i \in Ids, Holds(v, i)'
             PROVE  ~IsOpen(i)' /\ \A u \in Workers \ {v} : ~Holds(u, i)'
  BY DEF Exclusive
<1>1. CASE Holds(v, i)
  BY <1>1 DEF Footprint, Exclusive
<1>2. CASE ~Holds(v, i)
  BY <1>2 DEF Footprint, Exclusive
<1> QED
  BY <1>1, <1>2

(* Time moves no challenge.                                                *)
LEMMA TickHolds ==
  ASSUME TypeOK, Tick
  PROVE  /\ \A i \in Ids : IsOpen(i)' = IsOpen(i)
         /\ \A w \in Workers : /\ job'[w].queue = job[w].queue
                               /\ job'[w].ch.id = job[w].ch.id
                               /\ job'[w].ret = job[w].ret
         /\ \A w \in Workers, i \in Ids : Holds(w, i)' = Holds(w, i)
<1>1. \A i \in Ids : pending'[i].action = pending[i].action
  BY DEF TypeOK, Tick, Entries
<1>2. ASSUME NEW w \in Workers
      PROVE  /\ job'[w].queue = job[w].queue
             /\ job'[w].ch.id = job[w].ch.id
             /\ job'[w].ret = job[w].ret
  <2>1. job[w] \in Jobs /\ job[w].ch \in Challenges
    BY DEF TypeOK, Jobs
  <2> QED
    BY <2>1 DEF Tick, Jobs, Challenges
<1>3. UNCHANGED pc
  BY DEF Tick
<1> QED
  BY <1>1, <1>2, <1>3 DEF IsOpen, Holds

-----------------------------------------------------------------------------
(* What the ingestion thread and the workers carry.                        *)

(* A decision in execution keeps its shape.                                *)
LEMMA IngestionExecuting ==
  TypeOK /\ Executing /\ Ingestion => Executing'
<1> SUFFICES ASSUME TypeOK, Executing, Ingestion PROVE Executing'
  OBVIOUS
<1>1. \A w \in Workers, i \in Ids : Holds(w, i)' = Holds(w, i)
  BY IngestionHolds
<1>2. Decisions \subseteq Ids
  BY DEF Ids
<1>3. ASSUME NEW i \in Decisions, NEW a \in ChallengeActions \cup {"TERMINATE"}, Decide(i, a)
      PROVE  Executing'
  <2>1. dec'.id = i /\ dec'.action = a /\ a # "NONE" /\ ipc' = "check"
    BY <1>3 DEF Decide, ChallengeActions
  <2>2. ~IsOpen(i)' /\ \A w \in Workers : ~Holds(w, i)'
    BY <1>1, <1>2, <1>3 DEF Decide, Fresh, IsOpen
  <2> QED
    BY <2>1, <2>2 DEF Executing, IsOpen, Holds
<1>4. CASE CheckRank
  BY <1>4 DEF Executing, CheckRank, ToAdapter, IsOpen, Holds
<1>5. CASE MoveToDecision
  BY <1>5 DEF Executing, MoveToDecision, ToAdapter, IsOpen, Holds
<1>6. CASE OpenChallenge
  BY <1>6 DEF Executing, OpenChallenge
<1>7. CASE SpawnPrompt
  BY <1>7 DEF Executing, SpawnPrompt
<1>8. ASSUME NEW p \in Prompts, OpenScheduled(p) PROVE Executing'
  BY <1>8 DEF Executing, OpenScheduled
<1> QED
  BY <1>3, <1>4, <1>5, <1>6, <1>7, <1>8 DEF Ingestion

(* A request does not disturb it.                                          *)
LEMMA WorkerExecuting ==
  ASSUME Executing, NEW w \in Workers, Worker(w), Footprint(w)
  PROVE  Executing'
<1>1. UNCHANGED <<ipc, dec>>
  BY DEF Worker, Request, Respond, Serve, Sweep, Settle, Pop, Verdict, ObserveReauth,
         ObserveSoft, MoveSoft, ReadGate, AskReauth, OfferExisting, OfferMinted, OfferRefused
<1>2. ASSUME ipc \in {"check", "move", "adapter"}
      PROVE  ~IsOpen(dec.id)' /\ \A v \in Workers : ~Holds(v, dec.id)'
  <2>1. dec.id \in Ids /\ dec.id \notin Recoveries
    BY <1>2, IdsAssumption DEF Executing, Ids
  <2>2. ~IsOpen(dec.id) /\ \A v \in Workers : ~Holds(v, dec.id)
    BY <1>2 DEF Executing
  <2>3. ~IsOpen(dec.id)' /\ \A v \in Workers : ~Holds(v, dec.id)'
    BY <1>1, <2>1, <2>2 DEF Footprint, IsOpen, Holds
  <2> QED
    BY <2>3
<1> QED
  BY <1>1, <1>2 DEF Executing, IsOpen, Holds

(* A worker that moves on carries what its new control point needs.        *)
LEMMA GotoCarries ==
  ASSUME TypeOK, \A v \in Workers : Carries(v),
         NEW w \in Workers, NEW where, NEW j, Goto(w, where, j), Fits(where, j)
  PROVE  \A v \in Workers : Carries(v)'
<1>1. \A v \in Workers \ {w} : pc'[v] = pc[v] /\ job'[v] = job[v]
  BY DEF Goto, TypeOK
<1>2. pc'[w] = where /\ job'[w] = IF where = "idle" THEN NoJob ELSE j
  BY DEF Goto, TypeOK
<1>3. Fits(pc'[w], job'[w])
  BY <1>2 DEF Fits, NoJob
<1> QED
  BY <1>1, <1>3 DEF Carries

(* Every step of a request carries what the next one needs.                *)
LEMMA WorkerCarries ==
  ASSUME TypeOK, \A v \in Workers : Carries(v), NEW w \in Workers, Worker(w)
  PROVE  \A v \in Workers : Carries(v)'
<1> job[w] \in Jobs /\ Carries(w)
  BY DEF TypeOK
<1> Fits("idle", NoJob)
  BY DEF Fits, NoJob
<1>1. ASSUME NEW k \in Kinds \ {"respond"}, Request(w, k) PROVE \A v \in Workers : Carries(v)'
  <2> DEFINE j == [NoJob EXCEPT !.kind = k,
                     !.due = IF k = "protected" THEN {d \in Enforcing : Overdue(d)} ELSE {}]
             s == IF k = "reauth" THEN "gate" ELSE "sweep"
  <2>1. Fits(s, j) /\ Goto(w, s, j)
    BY <1>1 DEF Request, Fits, NoJob
  <2> HIDE DEF j, s
  <2> QED
    BY <2>1, GotoCarries
<1>2. ASSUME NEW i \in Ids, Respond(w, i) PROVE \A v \in Workers : Carries(v)'
  <2> DEFINE j == [NoJob EXCEPT !.kind = "respond", !.target = i]
  <2>1. Fits("sweep", j) /\ Goto(w, "sweep", j)
    BY <1>2 DEF Respond, Fits, NoJob
  <2> HIDE DEF j
  <2> QED
    BY <2>1, GotoCarries
<1>3. CASE Sweep(w)
  <2> DEFINE q == {Swept(i) : i \in {i \in Ids : Overdue(i)} \ Prompts}
             j == [job[w] EXCEPT !.queue = q]
  <2>1. Goto(w, "settle", j)
    BY <1>3 DEF Sweep
  <2>2. \A c \in q : c.id \in Enforcing
    BY IdsAssumption DEF Swept, Enforcing, Ids
  <2>3. \A c, d \in q : c.id = d.id => c = d
    BY DEF Swept
  <2>4. j.queue = q
    BY DEF Jobs
  <2> HIDE DEF j, q
  <2>5. Fits("settle", j)
    BY <2>2, <2>3, <2>4 DEF Fits
  <2> QED
    BY <2>1, <2>5, GotoCarries
<1>4. CASE Settle(w)
  <2>1. CASE job[w].queue = {} /\ Goto(w, AfterSweep(job[w].kind), job[w])
    <3>1. Fits(AfterSweep(job[w].kind), job[w])
      BY <2>1 DEF Fits, AfterSweep
    <3> QED
      BY <2>1, <3>1, GotoCarries
  <2>2. ASSUME NEW c \in job[w].queue,
               Goto(w, "observe", [job[w] EXCEPT !.queue = @ \ {c}, !.ch = c,
                                     !.outcome = "EXPIRED", !.ret = "settle"])
        PROVE  \A v \in Workers : Carries(v)'
    <3> DEFINE j == [job[w] EXCEPT !.queue = @ \ {c}, !.ch = c,
                       !.outcome = "EXPIRED", !.ret = "settle"]
    <3>1. j.queue = job[w].queue \ {c} /\ j.ch = c /\ j.ret = "settle"
      BY DEF Jobs
    <3> HIDE DEF j
    <3>2. Goto(w, "observe", j)
      BY <2>2 DEF j
    <3>3. Fits("observe", j)
      BY <3>1 DEF Fits, Carries
    <3> QED
      BY <3>2, <3>3, GotoCarries
  <2> QED
    BY <1>4, <2>1, <2>2 DEF Settle
<1>5. CASE Pop(w)
  <2> DEFINE t == job[w].target
             j == [job[w] EXCEPT !.ch = Popped(t), !.target = NoId]
  <2>1. CASE IsOpen(t) /\ Goto(w, "verdict", j)
    <3>1. j.queue = {} /\ j.ch.id = t
      BY <1>5 DEF Pop, Carries, Fits, Jobs, Popped
    <3> HIDE DEF j
    <3>2. Fits("verdict", j)
      BY <2>1, <3>1 DEF Fits, IsOpen
    <3> QED
      BY <2>1, <3>2, GotoCarries
  <2>2. CASE Goto(w, "idle", NoJob)
    BY <2>2, GotoCarries
  <2> QED
    BY <1>5, <2>1, <2>2 DEF Pop
<1>6. ASSUME NEW correct \in BOOLEAN, Verdict(w, correct) PROVE \A v \in Workers : Carries(v)'
  <2> DEFINE o == IF job[w].ch.left < 0 THEN "EXPIRED"
                  ELSE IF correct THEN "ACCEPTED" ELSE "REJECTED"
             j == [job[w] EXCEPT !.outcome = o, !.ret = "idle", !.ch.left = -1]
             s == IF job[w].ch.id \in Prompts THEN "idle" ELSE "observe"
  <2>1. Goto(w, s, j)
    BY <1>6 DEF Verdict
  <2>2. j.queue = {} /\ j.ch.id = job[w].ch.id /\ job[w].ch.id \in Ids
    BY <1>6 DEF Verdict, Carries, Fits, Jobs, Challenges
  <2>3. CASE s = "idle"
    <3> HIDE DEF j
    <3>1. Fits(s, j)
      BY <2>2, <2>3 DEF Fits
    <3> QED
      BY <2>1, <3>1, GotoCarries
  <2>4. CASE s = "observe"
    <3>1. job[w].ch.id \in Enforcing
      BY <2>2, <2>4 DEF Enforcing
    <3> HIDE DEF j, s
    <3>2. Fits(s, j)
      BY <2>2, <2>4, <3>1 DEF Fits
    <3> QED
      BY <2>1, <3>2, GotoCarries
  <2> QED
    BY <2>3, <2>4
<1>7. ASSUME Settled(w), pc[w] \in {"observe", "move"} PROVE \A v \in Workers : Carries(v)'
  <2> DEFINE j == [job[w] EXCEPT !.ch = NoChallenge, !.outcome = "NONE"]
  <2>1. j.queue = job[w].queue /\ j.ret = job[w].ret /\ job[w].ret \in {"idle", "settle"}
    BY DEF Jobs
  <2>2. CASE Goto(w, job[w].ret, j)
    <3> HIDE DEF j
    <3>1. Fits(job[w].ret, j)
      BY <1>7, <2>1 DEF Fits, Carries
    <3> QED
      BY <2>2, <3>1, GotoCarries
  <2>3. CASE Goto(w, "idle", NoJob)
    BY <2>3, GotoCarries
  <2> QED
    BY <1>7, <2>2, <2>3 DEF Settled
<1>8. CASE ObserveReauth(w) \/ MoveSoft(w)
  BY <1>7, <1>8 DEF ObserveReauth, MoveSoft
<1>9. CASE ObserveSoft(w)
  <2>1. CASE Goto(w, "move", job[w])
    <3>1. Fits("move", job[w])
      BY <1>9 DEF ObserveSoft, Carries, Fits
    <3> QED
      BY <2>1, <3>1, GotoCarries
  <2> QED
    BY <1>7, <1>9, <2>1 DEF ObserveSoft
<1>10. CASE ReadGate(w) \/ OfferExisting(w) \/ OfferRefused(w)
  BY <1>10, GotoCarries DEF ReadGate, OfferExisting, OfferRefused
<1>11. CASE AskReauth(w)
  <2> DEFINE s == IF posture \in Blocking /\ configured THEN "offer" ELSE "idle"
  <2>1. Goto(w, s, job[w]) /\ Fits(s, job[w])
    BY <1>11 DEF AskReauth, Carries, Fits
  <2> HIDE DEF s
  <2> QED
    BY <2>1, GotoCarries
<1>12. ASSUME NEW r \in Recoveries, OfferMinted(w, r) PROVE \A v \in Workers : Carries(v)'
  BY <1>12, GotoCarries DEF OfferMinted
<1>13. CASE Serve(w)
  BY <1>3, <1>4, <1>5, <1>6, <1>8, <1>9, <1>10, <1>11, <1>12, <1>13 DEF Serve
<1> QED
  BY <1>1, <1>2, <1>13 DEF Worker

-----------------------------------------------------------------------------
(* Nothing that is owed is lost, as long as handlers run to their end.     *)

(* A decision drops no challenge.                                          *)
LEMMA IngestionKeeps == TypeOK /\ Executing /\ NothingDropped /\ Ingestion => NothingDropped'
<1> SUFFICES ASSUME TypeOK, Executing, NothingDropped, Ingestion, NEW i \in owed'
             PROVE  IsOpen(i)' \/ \E w \in Workers : Holds(w, i)'
  BY DEF NothingDropped
<1>1. ASSUME i \in owed, IsOpen(i) => IsOpen(i)'
      PROVE  IsOpen(i)' \/ \E w \in Workers : Holds(w, i)'
  <2>1. i \in Ids
    BY <1>1 DEF TypeOK, Enforcing
  <2> QED
    BY <1>1, <2>1, IngestionHolds DEF NothingDropped
<1>2. CASE UNCHANGED <<pending, owed>>
  BY <1>1, <1>2 DEF IsOpen
<1>3. ASSUME OpenChallenge, configured PROVE IsOpen(i)' \/ \E w \in Workers : Holds(w, i)'
  <2>1. dec.id \in Ids /\ dec.action # "NONE"
    BY <1>3 DEF Executing, OpenChallenge, Ids, ChallengeActions
  <2>2. pending' = [pending EXCEPT ![dec.id] = Opened(dec.action)] /\ owed' = owed \cup {dec.id}
    BY <1>3 DEF OpenChallenge
  <2>3. pending'[dec.id].action # "NONE"
    BY <2>1, <2>2 DEF Opened, TypeOK
  <2>4. CASE i = dec.id
    BY <2>1, <2>3, <2>4 DEF IsOpen
  <2>5. CASE i # dec.id
    <3>1. i \in owed /\ (IsOpen(i) => IsOpen(i)')
      BY <2>2, <2>5 DEF IsOpen, TypeOK
    <3> QED
      BY <1>1, <3>1
  <2> QED
    BY <2>4, <2>5
<1>4. CASE SpawnPrompt
  <2>1. dec.id \in Ids
    BY <1>4 DEF SpawnPrompt, Executing, Ids
  <2> QED
    BY <1>1, <1>2, <1>4, <2>1 DEF SpawnPrompt, IsOpen, TypeOK
<1>5. ASSUME NEW p \in Prompts, OpenScheduled(p)
      PROVE  IsOpen(i)' \/ \E w \in Workers : Holds(w, i)'
  BY <1>1, <1>5 DEF OpenScheduled, Fresh, IsOpen, TypeOK
<1> QED
  BY <1>2, <1>3, <1>4, <1>5 DEF Ingestion, Decide, CheckRank, MoveToDecision, OpenChallenge

(* The step of worker w leaves in the registry or in its hands whatever it *)
(* still owes.                                                             *)
LEMMA WorkerKeeps ==
  ASSUME TypeOK, ~Faults, NEW w \in Workers, Carries(w), Worker(w),
         NEW i \in owed', IsOpen(i) \/ Holds(w, i) \/ i \notin owed
  PROVE  IsOpen(i)' \/ Holds(w, i)'
<1> job[w] \in Jobs
  BY DEF TypeOK
<1>1. ASSUME pc[w] \notin {"settle", "verdict", "observe", "move"}
      PROVE  ~Holds(w, i)
  BY <1>1 DEF Carries, Fits, Holds
<1>2. CASE UNCHANGED <<pending, owed>> /\ ~Holds(w, i)
  BY <1>2 DEF IsOpen
<1>3. ASSUME NEW k \in Kinds \ {"respond"}, Request(w, k) PROVE IsOpen(i)' \/ Holds(w, i)'
  BY <1>1, <1>2, <1>3 DEF Request
<1>4. ASSUME NEW d \in Ids, Respond(w, d) PROVE IsOpen(i)' \/ Holds(w, i)'
  BY <1>1, <1>2, <1>4 DEF Respond
<1>5. CASE Sweep(w)
  <2> DEFINE q == {Swept(d) : d \in {d \in Ids : Overdue(d)} \ Prompts}
             j == [job[w] EXCEPT !.queue = q]
  <2>1. Goto(w, "settle", j) /\ IsOpen(i) /\ i \in Enforcing
    BY <1>1, <1>5 DEF Sweep, TypeOK
  <2>2. j.queue = q
    BY DEF Jobs
  <2>3. CASE Overdue(i)
    <3>1. Swept(i) \in q /\ Swept(i).id = i
      BY <2>1, <2>3 DEF Swept, Enforcing
    <3> HIDE DEF j, q
    <3> QED
      BY <2>1, <2>2, <3>1, GotoHolds
  <2>4. CASE ~Overdue(i)
    BY <1>5, <2>1, <2>4 DEF Sweep, IsOpen
  <2> QED
    BY <2>3, <2>4
<1>6. CASE Settle(w)
  <2>1. UNCHANGED <<pending, owed>>
    BY <1>6 DEF Settle
  <2>2. CASE job[w].queue = {}
    BY <1>2, <1>6, <2>1, <2>2 DEF Settle, Holds
  <2>3. ASSUME NEW c \in job[w].queue,
               Goto(w, "observe", [job[w] EXCEPT !.queue = @ \ {c}, !.ch = c,
                                     !.outcome = "EXPIRED", !.ret = "settle"])
        PROVE  IsOpen(i)' \/ Holds(w, i)'
    <3> DEFINE j == [job[w] EXCEPT !.queue = @ \ {c}, !.ch = c,
                       !.outcome = "EXPIRED", !.ret = "settle"]
    <3>1. j.queue = job[w].queue \ {c} /\ j.ch = c
      BY DEF Jobs
    <3> HIDE DEF j
    <3>2. Goto(w, "observe", j)
      BY <2>3 DEF j
    <3>3. CASE \E d \in job[w].queue : d.id = i
      BY <3>1, <3>2, <3>3, GotoHolds
    <3>4. CASE ~\E d \in job[w].queue : d.id = i
      BY <1>2, <1>6, <2>1, <3>4 DEF Settle, Holds
    <3> QED
      BY <3>3, <3>4
  <2> QED
    BY <1>6, <2>2, <2>3 DEF Settle
<1>7. CASE Pop(w)
  <2> DEFINE t == job[w].target
             j == [job[w] EXCEPT !.ch = Popped(t), !.target = NoId]
  <2>1. ~Holds(w, i)
    BY <1>1, <1>7 DEF Pop
  <2>2. CASE IsOpen(t) /\ Goto(w, "verdict", j) /\ pending' = [pending EXCEPT ![t] = Closed]
    <3>1. j.ch.id = t
      BY DEF Jobs, Popped
    <3>2. i \in Ids /\ IsOpen(i)
      BY <1>7, <2>1 DEF Pop, TypeOK, Enforcing
    <3> HIDE DEF j
    <3>3. CASE i = t
      BY <2>2, <3>1, <3>3, GotoHolds
    <3>4. CASE i # t
      BY <2>2, <3>2, <3>4 DEF IsOpen, TypeOK
    <3> QED
      BY <3>3, <3>4
  <2>3. CASE UNCHANGED pending
    BY <1>2, <1>7, <2>1, <2>3 DEF Pop
  <2> QED
    BY <1>7, <2>2, <2>3 DEF Pop
<1>8. ASSUME NEW correct \in BOOLEAN, Verdict(w, correct) PROVE IsOpen(i)' \/ Holds(w, i)'
  <2> DEFINE o == IF job[w].ch.left < 0 THEN "EXPIRED"
                  ELSE IF correct THEN "ACCEPTED" ELSE "REJECTED"
             j == [job[w] EXCEPT !.outcome = o, !.ret = "idle", !.ch.left = -1]
             s == IF job[w].ch.id \in Prompts THEN "idle" ELSE "observe"
  <2>1. Goto(w, s, j) /\ UNCHANGED <<pending, owed>>
    BY <1>8 DEF Verdict
  <2>2. j.ch.id = job[w].ch.id
    BY DEF Jobs, Challenges
  <2>3. CASE Holds(w, i)
    <3>1. i = job[w].ch.id /\ i \in Enforcing
      BY <1>8, <2>1, <2>3 DEF Verdict, Carries, Fits, Holds, TypeOK
    <3>2. s = "observe"
      BY <3>1 DEF Enforcing
    <3> HIDE DEF j, s
    <3> QED
      BY <2>1, <2>2, <3>1, <3>2, GotoHolds
  <2> QED
    BY <1>2, <2>1, <2>3
<1>9. ASSUME Settled(w), UNCHANGED pending, pc[w] \in {"observe", "move"}
      PROVE  IsOpen(i)' \/ Holds(w, i)'
  <2> DEFINE j == [job[w] EXCEPT !.ch = NoChallenge, !.outcome = "NONE"]
  <2>1. j.queue = job[w].queue
    BY DEF Jobs
  <2>2. Goto(w, job[w].ret, j) /\ i # job[w].ch.id /\ i \in owed
    BY <1>9 DEF Settled
  <2>3. CASE Holds(w, i)
    <3>1. PICK c \in job[w].queue : c.id = i
      BY <2>2, <2>3 DEF Holds
    <3>2. job[w].ret # "idle"
      BY <1>9, <3>1 DEF Carries, Fits
    <3> HIDE DEF j
    <3> QED
      BY <2>1, <2>2, <3>1, <3>2, GotoHolds
  <2>4. CASE ~Holds(w, i)
    BY <1>9, <2>2, <2>4 DEF IsOpen
  <2> QED
    BY <2>3, <2>4
<1>10. CASE ObserveReauth(w) \/ MoveSoft(w)
  BY <1>9, <1>10 DEF ObserveReauth, MoveSoft
<1>11. CASE ObserveSoft(w)
  <2>1. CASE Goto(w, "move", job[w]) /\ UNCHANGED <<pending, owed>>
    <3>1. pc[w] = "observe"
      BY <1>11 DEF ObserveSoft
    <3>2. CASE Holds(w, i)
      <4>1. (\E c \in job[w].queue : c.id = i) \/ job[w].ch.id = i
        BY <3>2 DEF Holds
      <4> QED
        BY <2>1, <4>1, GotoHolds
    <3> QED
      BY <1>2, <2>1, <3>2
  <2> QED
    BY <1>9, <1>11, <2>1 DEF ObserveSoft
<1>12. CASE ReadGate(w) \/ AskReauth(w) \/ OfferExisting(w) \/ OfferRefused(w)
  BY <1>1, <1>2, <1>12 DEF ReadGate, AskReauth, OfferExisting, OfferRefused
<1>13. ASSUME NEW r \in Recoveries, OfferMinted(w, r) PROVE IsOpen(i)' \/ Holds(w, i)'
  <2>1. ~Holds(w, i)
    BY <1>1, <1>13 DEF OfferMinted
  <2>2. r \in Ids
    BY DEF Ids
  <2> QED
    BY <1>13, <2>1, <2>2 DEF OfferMinted, IsOpen, Opened, TypeOK
<1>14. CASE Serve(w)
  BY <1>5, <1>6, <1>7, <1>8, <1>10, <1>11, <1>12, <1>13, <1>14 DEF Serve
<1> QED
  BY <1>3, <1>4, <1>14 DEF Worker
-----------------------------------------------------------------------------
(* The invariant.                                                          *)

(* The invariant at the start.                                             *)
LEMMA InitIInv == Init => IInv
<1> SUFFICES ASSUME Init PROVE IInv
  OBVIOUS
<1>1. TypeOK
  BY InitType
<1>2. Executing /\ Exclusive /\ NothingDropped /\ \A w \in Workers : Carries(w)
  BY DEF Init, Executing, Exclusive, NothingDropped, Carries, Fits, Holds, IsOpen, NoJob, Closed
<1> QED
  BY <1>1, <1>2 DEF IInv

(* Every step keeps the invariant.                                         *)
LEMMA NextIInv == IInv /\ [Next]_vars => IInv'
<1> SUFFICES ASSUME IInv, [Next]_vars PROVE IInv'
  OBVIOUS
<1>1. TypeOK' /\ TypeOK /\ Executing /\ Exclusive
  BY NextType DEF IInv
<1>2. CASE Ingestion
  <2>1. Executing' /\ Exclusive'
    BY <1>1, <1>2, IngestionExecuting, IngestionExclusive
  <2>2. \A w \in Workers : Carries(w)'
    BY <1>2 DEF IInv, Carries, Ingestion, Decide, CheckRank, MoveToDecision, OpenChallenge,
                SpawnPrompt, OpenScheduled
  <2>3. (Faults \/ NothingDropped)'
    BY <1>1, <1>2, IngestionKeeps DEF IInv
  <2> QED
    BY <1>1, <2>1, <2>2, <2>3 DEF IInv
<1>3. ASSUME NEW w \in Workers, Worker(w) PROVE IInv'
  <2>1. Footprint(w)
    BY <1>1, <1>3, WorkerFootprint DEF IInv
  <2>2. Executing' /\ Exclusive'
    BY <1>1, <1>3, <2>1, WorkerExecuting, WorkerExclusive
  <2>3. \A v \in Workers : Carries(v)'
    BY <1>1, <1>3, WorkerCarries DEF IInv
  <2>4. ASSUME ~Faults PROVE NothingDropped'
    <3> SUFFICES ASSUME NEW i \in owed'
                 PROVE  IsOpen(i)' \/ \E v \in Workers : Holds(v, i)'
      BY DEF NothingDropped
    <3>1. i \in Ids
      BY <1>1 DEF TypeOK, Enforcing
    <3>2. CASE \E v \in Workers \ {w} : Holds(v, i)
      BY <2>1, <3>1, <3>2 DEF Footprint
    <3>3. CASE IsOpen(i) \/ Holds(w, i) \/ i \notin owed
      BY <1>1, <1>3, <2>4, <3>3, WorkerKeeps DEF IInv
    <3> QED
      BY <2>4, <3>2, <3>3 DEF IInv, NothingDropped
  <2> QED
    BY <1>1, <2>2, <2>3, <2>4 DEF IInv
<1>4. CASE Tick
  <2>1. UNCHANGED <<ipc, dec, pc, owed>>
    BY <1>4 DEF Tick
  <2>2. Executing' /\ Exclusive'
    BY <1>1, <1>4, <2>1, TickHolds DEF Executing, Exclusive, Ids
  <2>3. \A w \in Workers : Carries(w)'
    BY <1>1, <1>4, <2>1, TickHolds DEF IInv, Carries, Fits
  <2>4. NothingDropped => NothingDropped'
    BY <1>1, <1>4, <2>1, TickHolds DEF NothingDropped, TypeOK, Enforcing
  <2> QED
    BY <1>1, <2>2, <2>3, <2>4 DEF IInv
<1>5. CASE UNCHANGED vars
  <2>1. Executing' /\ Exclusive' /\ \A w \in Workers : Carries(w)'
    BY <1>5 DEF IInv, vars, Executing, Exclusive, Carries, Holds, IsOpen
  <2>2. NothingDropped => NothingDropped'
    BY <1>5 DEF vars, NothingDropped, Holds, IsOpen
  <2> QED
    BY <1>1, <2>1, <2>2 DEF IInv
<1> QED
  BY <1>2, <1>3, <1>4, <1>5 DEF Next

(* Under every interleaving the state of the posture machine, the          *)
(* challenge registry, the ingestion thread and the API threads is well    *)
(* typed (session.py, challenge.py, backend.py).                           *)
THEOREM TypeCorrect == Spec => []TypeOK
<1>1. IInv => TypeOK
  BY DEF IInv
<1> QED
  BY <1>1, InitIInv, NextIInv, PTL DEF Spec

(* No enforcement or scheduled challenge is ever in two places, for any    *)
(* number of API threads: ChallengeService.respond and expire_overdue hand *)
(* each registered challenge to one request only.                          *)
THEOREM SettledOnce == Spec => []Exclusive
<1>1. IInv => Exclusive
  BY DEF IInv
<1> QED
  BY <1>1, InitIInv, NextIInv, PTL DEF Spec

(* While no storage write raises, every challenge whose outcome is owed to *)
(* the ladder is still in the registry or in the hands of a request: the   *)
(* sweep loses none, whatever overtakes it.                                *)
THEOREM NoneDropped ==
  ASSUME ~Faults
  PROVE  Spec => []NothingDropped
<1>1. IInv => NothingDropped
  BY DEF IInv
<1> QED
  BY <1>1, InitIInv, NextIInv, PTL DEF Spec
-----------------------------------------------------------------------------
(* When calls do not overlap.  A request that is refused or served by the  *)
(* posture knows of each overdue challenge there was when it arrived: it   *)
(* is in the registry, then in its own hands, then settled.                *)

Seen(stop, j) ==
  j.kind = "protected" =>
    /\ stop \in {"sweep", "settle", "observe", "move", "read"}
    /\ stop = "sweep" => \A d \in j.due \cap owed : Overdue(d)
    /\ stop \in {"observe", "move"} => j.ret = "settle"
    /\ stop \in {"settle", "observe", "move"} =>
         \A d \in j.due \cap owed :
           (\E c \in j.queue : c.id = d) \/ (stop # "settle" /\ j.ch.id = d)
    /\ stop = "read" => j.due \cap owed = {}

(* Between the two lock sections of one call the posture has not moved.    *)
StillLower  == ipc = "move" => Rank[ActionPosture[dec.action]] > Rank[posture]
StillSoft(w) == pc[w] = "move" => /\ Rank[posture] <= Rank["SOFT_CHALLENGE"]
                                  /\ job[w].ch.action = "SOFT_CHALLENGE"

SerialInv ==
  /\ IInv
  /\ \A w \in Workers : Seen(pc[w], job[w]) /\ StillSoft(w)
  /\ StillLower

(* The pool's other threads are idle, and stay so.                         *)
Alone(w) == ipc = "idle" /\ \A v \in Workers \ {w} : pc[v] = "idle"

(* Where a worker and the others are after it moves on.                    *)
LEMMA GotoJob ==
  ASSUME TypeOK, NEW w \in Workers, NEW where, NEW j, Goto(w, where, j)
  PROVE  /\ pc'[w] = where /\ job'[w] = (IF where = "idle" THEN NoJob ELSE j)
         /\ \A v \in Workers \ {w} : pc'[v] = pc[v] /\ job'[v] = job[v]
BY DEF Goto, TypeOK

(* What holds of an idle thread, whatever the step does to the registry.   *)
LEMMA IdleSees ==
  ASSUME SerialInv, NEW v \in Workers, pc[v] = "idle", pc'[v] = pc[v], job'[v] = job[v]
  PROVE  (Seen(pc[v], job[v]) /\ StillSoft(v))'
BY DEF SerialInv, Seen, StillSoft

(* What a step of the only busy worker has to show.                        *)
LEMMA OthersIdle ==
  ASSUME SerialInv, IInv', NEW w \in Workers, Alone(w), UNCHANGED ipc,
         \A v \in Workers \ {w} : pc'[v] = pc[v] /\ job'[v] = job[v],
         (Seen(pc[w], job[w]) /\ StillSoft(w))'
  PROVE  SerialInv'
<1>1. \A v \in Workers \ {w} : (Seen(pc[v], job[v]) /\ StillSoft(v))'
  BY IdleSees DEF Alone
<1>2. StillLower'
  BY DEF StillLower, Alone
<1> QED
  BY <1>1, <1>2 DEF SerialInv

(* A thread that ends its request, or has none of a protected resource.    *)
LEMMA Unprotected ==
  ASSUME NEW w \in Workers, job'[w].kind # "protected", pc'[w] # "move"
  PROVE  (Seen(pc[w], job[w]) /\ StillSoft(w))'
BY DEF Seen, StillSoft

(* A request that ends leaves nothing to show.                             *)
LEMMA Ended ==
  ASSUME SerialInv, IInv', NEW w \in Workers, Alone(w), UNCHANGED ipc, NEW j, Goto(w, "idle", j)
  PROVE  SerialInv'
<1>1. /\ pc'[w] = "idle" /\ job'[w].kind # "protected"
      /\ \A v \in Workers \ {w} : pc'[v] = pc[v] /\ job'[v] = job[v]
  BY GotoJob DEF SerialInv, IInv, NoJob
<1> QED
  BY <1>1, Unprotected, OthersIdle

(* A thread that goes on with the kind of request it serves.               *)
LEMMA WentOn ==
  ASSUME SerialInv, IInv', NEW w \in Workers, Alone(w), UNCHANGED ipc,
         NEW where, NEW j, Goto(w, where, j), where \notin {"idle", "move"},
         j.kind # "protected"
  PROVE  SerialInv'
<1>1. /\ pc'[w] # "move" /\ job'[w].kind # "protected"
      /\ \A v \in Workers \ {w} : pc'[v] = pc[v] /\ job'[v] = job[v]
  BY GotoJob DEF SerialInv, IInv
<1> QED
  BY <1>1, Unprotected, OthersIdle

(* A request comes.                                                        *)
LEMMA SerialRequest ==
  ASSUME SerialInv, IInv', NEW w \in Workers, Alone(w),
         NEW k \in Kinds \ {"respond"}, Request(w, k)
  PROVE  SerialInv'
<1> DEFINE j == [NoJob EXCEPT !.kind = k,
                   !.due = IF k = "protected" THEN {d \in Enforcing : Overdue(d)} ELSE {}]
           s == IF k = "reauth" THEN "gate" ELSE "sweep"
<1>1. Goto(w, s, j) /\ j.kind = k /\ UNCHANGED <<ipc, pending, owed>>
  BY DEF Request, NoJob
<1>2. k = "protected" => s = "sweep" /\ j.due = {d \in Enforcing : Overdue(d)}
  BY DEF NoJob
<1>3. s \notin {"idle", "move"}
  OBVIOUS
<1> HIDE DEF j, s
<1>4. CASE k # "protected"
  BY <1>1, <1>3, <1>4, WentOn
<1>5. CASE k = "protected"
  <2>1. /\ pc'[w] = "sweep" /\ job'[w].kind = "protected"
        /\ job'[w].due = {d \in Enforcing : Overdue(d)}
        /\ \A v \in Workers \ {w} : pc'[v] = pc[v] /\ job'[v] = job[v]
    BY <1>1, <1>2, <1>5, GotoJob DEF SerialInv, IInv
  <2>2. \A d \in job'[w].due : Overdue(d)'
    BY <1>1, <2>1 DEF Overdue, IsOpen
  <2>3. (Seen(pc[w], job[w]) /\ StillSoft(w))'
    BY <2>1, <2>2 DEF Seen, StillSoft
  <2> QED
    BY <1>1, <2>1, <2>3, OthersIdle
<1> QED
  BY <1>4, <1>5

(* Its sweep pops what is overdue.                                         *)
LEMMA SerialSweep ==
  ASSUME SerialInv, IInv', NEW w \in Workers, Alone(w), Sweep(w)
  PROVE  SerialInv'
<1> DEFINE q == {Swept(i) : i \in {i \in Ids : Overdue(i)} \ Prompts}
           j == [job[w] EXCEPT !.queue = q]
<1>1. job[w] \in Jobs /\ pc[w] = "sweep" /\ Seen("sweep", job[w]) /\ owed \subseteq Enforcing
  BY DEF SerialInv, IInv, TypeOK, Sweep
<1>2. Goto(w, "settle", j) /\ UNCHANGED <<ipc, owed>>
  BY DEF Sweep
<1>3. j.kind = job[w].kind /\ j.due = job[w].due /\ j.queue = q
  BY <1>1 DEF Jobs
<1>4. ASSUME NEW d \in Enforcing, Overdue(d) PROVE \E c \in q : c.id = d
  <2>1. Swept(d) \in q
    BY <1>4 DEF Enforcing
  <2>2. Swept(d).id = d
    BY DEF Swept
  <2> QED
    BY <2>1, <2>2
<1> HIDE DEF j, q
<1>5. /\ pc'[w] = "settle" /\ job'[w] = j
      /\ \A v \in Workers \ {w} : pc'[v] = pc[v] /\ job'[v] = job[v]
  BY <1>2, GotoJob DEF SerialInv, IInv
<1>6. (Seen(pc[w], job[w]) /\ StillSoft(w))'
  BY <1>1, <1>2, <1>3, <1>4, <1>5 DEF Seen, StillSoft
<1> QED
  BY <1>2, <1>5, <1>6, OthersIdle

(* An overdue challenge is settled.                                        *)
LEMMA SerialSettle ==
  ASSUME SerialInv, IInv', NEW w \in Workers, Alone(w), Settle(w)
  PROVE  SerialInv'
<1>1. job[w] \in Jobs /\ pc[w] = "settle" /\ Seen("settle", job[w]) /\ UNCHANGED <<ipc, owed>>
  BY DEF SerialInv, IInv, TypeOK, Settle
<1>2. CASE job[w].queue = {} /\ Goto(w, AfterSweep(job[w].kind), job[w])
  <2>1. /\ pc'[w] = AfterSweep(job[w].kind)
        /\ job'[w] = (IF AfterSweep(job[w].kind) = "idle" THEN NoJob ELSE job[w])
        /\ \A v \in Workers \ {w} : pc'[v] = pc[v] /\ job'[v] = job[v]
    BY <1>2, GotoJob DEF SerialInv, IInv
  <2>2. AfterSweep(job[w].kind) \in {"read", "pop", "idle"}
    BY DEF AfterSweep
  <2>3. job[w].kind = "protected" => AfterSweep(job[w].kind) = "read"
    BY DEF AfterSweep
  <2>4. (Seen(pc[w], job[w]) /\ StillSoft(w))'
    BY <1>1, <1>2, <2>1, <2>2, <2>3 DEF Seen, StillSoft, NoJob
  <2> QED
    BY <1>1, <2>1, <2>4, OthersIdle
<1>3. ASSUME NEW c \in job[w].queue,
             Goto(w, "observe", [job[w] EXCEPT !.queue = @ \ {c}, !.ch = c,
                                   !.outcome = "EXPIRED", !.ret = "settle"])
      PROVE  SerialInv'
  <2> DEFINE j == [job[w] EXCEPT !.queue = @ \ {c}, !.ch = c,
                     !.outcome = "EXPIRED", !.ret = "settle"]
  <2>1. /\ j.kind = job[w].kind /\ j.due = job[w].due /\ j.ret = "settle"
        /\ j.queue = job[w].queue \ {c} /\ j.ch = c
    BY <1>1 DEF Jobs
  <2>2. Goto(w, "observe", j)
    BY <1>3
  <2> HIDE DEF j
  <2>3. /\ pc'[w] = "observe" /\ job'[w] = j
        /\ \A v \in Workers \ {w} : pc'[v] = pc[v] /\ job'[v] = job[v]
    BY <2>2, GotoJob DEF SerialInv, IInv
  <2>4. (Seen(pc[w], job[w]) /\ StillSoft(w))'
    BY <1>1, <2>1, <2>3 DEF Seen, StillSoft
  <2> QED
    BY <1>1, <2>3, <2>4, OthersIdle
<1> QED
  BY <1>2, <1>3 DEF Settle

(* A challenge is settled: no longer owed, and the request goes back to    *)
(* the loop of its sweep, or ends.                                         *)
LEMMA SerialSettled ==
  ASSUME SerialInv, IInv', NEW w \in Workers, Alone(w), pc[w] \in {"observe", "move"},
         Settled(w), UNCHANGED ipc
  PROVE  SerialInv'
<1> DEFINE j == [job[w] EXCEPT !.ch = NoChallenge, !.outcome = "NONE"]
<1>1. job[w] \in Jobs /\ Seen(pc[w], job[w]) /\ job[w].ret \in {"idle", "settle"}
  BY DEF SerialInv, IInv, TypeOK, Jobs
<1>2. j.kind = job[w].kind /\ j.due = job[w].due /\ j.queue = job[w].queue
  BY <1>1 DEF Jobs
<1>3. owed' = owed \ {job[w].ch.id}
  BY DEF Settled
<1>4. CASE Goto(w, "idle", NoJob)
  BY <1>4, Ended
<1>5. CASE Goto(w, job[w].ret, j)
  <2> HIDE DEF j
  <2>1. /\ pc'[w] = job[w].ret /\ job'[w] = (IF job[w].ret = "idle" THEN NoJob ELSE j)
        /\ \A v \in Workers \ {w} : pc'[v] = pc[v] /\ job'[v] = job[v]
    BY <1>5, GotoJob DEF SerialInv, IInv
  <2>2. (Seen(pc[w], job[w]) /\ StillSoft(w))'
    BY <1>1, <1>2, <1>3, <2>1 DEF Seen, StillSoft, NoJob
  <2> QED
    BY <2>1, <2>2, OthersIdle
<1> QED
  BY <1>4, <1>5 DEF Settled

(* A soft answer is judged, and the rank it saw is still the rank.         *)
LEMMA SerialSoft ==
  ASSUME SerialInv, IInv', NEW w \in Workers, Alone(w), ObserveSoft(w)
  PROVE  SerialInv'
<1>1. pc[w] = "observe" /\ Seen("observe", job[w]) /\ job[w].ch.action = "SOFT_CHALLENGE"
      /\ UNCHANGED ipc
  BY DEF SerialInv, ObserveSoft
<1>2. CASE Settled(w)
  BY <1>1, <1>2, SerialSettled
<1>3. CASE ~(Rank[posture] > Rank["SOFT_CHALLENGE"])
  <2>1. Goto(w, "move", job[w]) /\ UNCHANGED <<posture, owed>>
    BY <1>3 DEF ObserveSoft
  <2>2. /\ pc'[w] = "move" /\ job'[w] = job[w]
        /\ \A v \in Workers \ {w} : pc'[v] = pc[v] /\ job'[v] = job[v]
    BY <2>1, GotoJob DEF SerialInv, IInv
  <2>3. Rank[posture] <= Rank["SOFT_CHALLENGE"]
    BY <1>3 DEF SerialInv, IInv, TypeOK, Postures, Rank, Ladder!Postures, Ladder!Rank
  <2>4. (Seen(pc[w], job[w]) /\ StillSoft(w))'
    BY <1>1, <2>1, <2>2, <2>3 DEF Seen, StillSoft
  <2> QED
    BY <1>1, <2>2, <2>4, OthersIdle
<1> QED
  BY <1>2, <1>3 DEF ObserveSoft

(* Every step of a request on its own.                                     *)
LEMMA SerialWorker ==
  ASSUME SerialInv, IInv', NEW w \in Workers, Alone(w), Worker(w)
  PROVE  SerialInv'
<1> job[w] \in Jobs /\ Seen(pc[w], job[w])
  BY DEF SerialInv, IInv, TypeOK
<1>1. ASSUME NEW i \in Ids, Respond(w, i) PROVE SerialInv'
  <2> DEFINE j == [NoJob EXCEPT !.kind = "respond", !.target = i]
  <2>1. Goto(w, "sweep", j) /\ j.kind # "protected" /\ UNCHANGED ipc
    BY <1>1 DEF Respond, NoJob
  <2> HIDE DEF j
  <2> QED
    BY <2>1, WentOn
<1>2. CASE Pop(w)
  <2> DEFINE j == [job[w] EXCEPT !.ch = Popped(job[w].target), !.target = NoId]
  <2>1. j.kind # "protected" /\ UNCHANGED ipc
    BY <1>2 DEF Pop, Seen, Jobs
  <2>2. Goto(w, "verdict", j) \/ Goto(w, "idle", NoJob)
    BY <1>2 DEF Pop
  <2> HIDE DEF j
  <2> QED
    BY <2>1, <2>2, WentOn, Ended
<1>3. ASSUME NEW correct \in BOOLEAN, Verdict(w, correct) PROVE SerialInv'
  <2> DEFINE o == IF job[w].ch.left < 0 THEN "EXPIRED"
                  ELSE IF correct THEN "ACCEPTED" ELSE "REJECTED"
             j == [job[w] EXCEPT !.outcome = o, !.ret = "idle", !.ch.left = -1]
  <2>1. j.kind # "protected" /\ UNCHANGED ipc
    BY <1>3 DEF Verdict, Seen, Jobs
  <2>2. Goto(w, "observe", j) \/ Goto(w, "idle", j)
    BY <1>3 DEF Verdict
  <2> HIDE DEF j
  <2> QED
    BY <2>1, <2>2, WentOn, Ended
<1>4. CASE ObserveReauth(w) \/ MoveSoft(w)
  BY <1>4, SerialSettled DEF ObserveReauth, MoveSoft
<1>5. CASE ReadGate(w) \/ OfferExisting(w) \/ OfferRefused(w)
  BY <1>5, Ended DEF ReadGate, OfferExisting, OfferRefused
<1>6. ASSUME NEW r \in Recoveries, OfferMinted(w, r) PROVE SerialInv'
  BY <1>6, Ended DEF OfferMinted
<1>7. CASE AskReauth(w)
  <2>1. job[w].kind # "protected" /\ UNCHANGED ipc
    BY <1>7 DEF AskReauth, Seen
  <2>2. Goto(w, "offer", job[w]) \/ Goto(w, "idle", job[w])
    BY <1>7 DEF AskReauth
  <2> QED
    BY <2>1, <2>2, WentOn, Ended
<1>8. CASE Serve(w)
  BY <1>2, <1>3, <1>4, <1>5, <1>6, <1>7, <1>8, SerialSweep, SerialSettle, SerialSoft DEF Serve
<1> QED
  BY <1>1, <1>8, SerialRequest DEF Worker

(* Every step of a decision on its own.                                    *)
LEMMA SerialIngestion ==
  ASSUME SerialInv, IInv', Ingestion, \A w \in Workers : pc[w] = "idle"
  PROVE  SerialInv'
<1>1. UNCHANGED <<pc, job>>
  BY DEF Ingestion, Decide, CheckRank, MoveToDecision, OpenChallenge, SpawnPrompt, OpenScheduled
<1>2. \A v \in Workers : (Seen(pc[v], job[v]) /\ StillSoft(v))'
  BY <1>1, IdleSees
<1>3. CASE CheckRank
  <2>1. posture \in Postures /\ dec.action \in ChallengeActions \cup {"TERMINATE"}
    BY <1>3 DEF CheckRank, SerialInv, IInv, TypeOK, Executing
  <2>2. ActionPosture[dec.action] \in Postures
    BY <2>1, PostureTyping
  <2>3. ipc' = "move" => ~(Rank[ActionPosture[dec.action]] <= Rank[posture]) /\ dec' = dec
    BY <1>3 DEF CheckRank, ToAdapter
  <2>4. \A p \in Postures : Rank[p] \in Nat
    BY DEF Postures, Rank, Ladder!Postures, Ladder!Rank
  <2>5. UNCHANGED posture
    BY <1>3 DEF CheckRank
  <2>6. StillLower'
    BY <2>1, <2>2, <2>3, <2>4, <2>5 DEF StillLower
  <2> QED
    BY <1>2, <2>6 DEF SerialInv
<1>4. CASE ~CheckRank
  <2>1. ipc' # "move"
    BY <1>4 DEF Ingestion, Decide, MoveToDecision, OpenChallenge, SpawnPrompt, OpenScheduled,
                ToAdapter
  <2> QED
    BY <1>2, <2>1 DEF SerialInv, StillLower
<1> QED
  BY <1>3, <1>4

(* Time passes.                                                            *)
LEMMA SerialTick ==
  ASSUME SerialInv, IInv', Tick
  PROVE  SerialInv'
<1>1. UNCHANGED <<posture, ipc, dec, pc, owed>>
  BY DEF Tick
<1>2. ASSUME NEW i \in Ids, Overdue(i) PROVE Overdue(i)'
  <2>1. pending[i] \in Entries /\ pending'[i] = [pending[i] EXCEPT !.left = Elapse(@)]
    BY DEF Tick, SerialInv, IInv, TypeOK
  <2>2. /\ pending'[i].action = pending[i].action
        /\ pending'[i].left = Elapse(pending[i].left) /\ pending[i].left \in Left
    BY <2>1 DEF Entries
  <2> QED
    BY <1>2, <2>2, TimeoutAssumption DEF Overdue, IsOpen, Elapse, Left
<1>3. ASSUME NEW w \in Workers
      PROVE  /\ job'[w].kind = job[w].kind /\ job'[w].due = job[w].due
             /\ job'[w].queue = job[w].queue /\ job'[w].ret = job[w].ret
             /\ job'[w].ch.id = job[w].ch.id /\ job'[w].ch.action = job[w].ch.action
  <2>1. job[w] \in Jobs /\ job[w].ch \in Challenges
    BY DEF SerialInv, IInv, TypeOK, Jobs
  <2> QED
    BY <2>1 DEF Tick, Jobs, Challenges
<1>4. owed \subseteq Ids
  BY DEF SerialInv, IInv, TypeOK, Enforcing
<1>5. ASSUME NEW w \in Workers PROVE (Seen(pc[w], job[w]) /\ StillSoft(w))'
  <2>1. Seen(pc[w], job[w]) /\ StillSoft(w)
    BY DEF SerialInv
  <2>2. StillSoft(w)'
    BY <1>1, <1>3, <2>1 DEF StillSoft
  <2>3. Seen(pc[w], job[w])'
    BY <1>1, <1>2, <1>3, <1>4, <2>1 DEF Seen
  <2> QED
    BY <2>2, <2>3
<1> QED
  BY <1>1, <1>5 DEF SerialInv, StillLower

(* Every serial step keeps the invariant.                                  *)
LEMMA SerialStep == SerialInv /\ [SerialNext]_vars => SerialInv'
<1> SUFFICES ASSUME SerialInv, [SerialNext]_vars PROVE SerialInv'
  OBVIOUS
<1>1. IInv'
  BY NextIInv DEF SerialInv, SerialNext, Next
<1>2. CASE UNCHANGED vars
  BY <1>1, <1>2 DEF SerialInv, vars, Seen, StillSoft, StillLower, Overdue, IsOpen
<1> QED
  BY <1>1, <1>2, SerialIngestion, SerialWorker, SerialTick DEF SerialNext, Alone

(* The serial invariant at the start.                                      *)
LEMMA SerialInit == Init => SerialInv
BY InitIInv DEF Init, SerialInv, Seen, StillSoft, StillLower, NoJob

(* The serial invariant always holds.                                      *)
LEMMA SerialInvariant == SerialSpec => []SerialInv
BY SerialInit, SerialStep, PTL DEF SerialSpec

(* require_unenforced: "a challenge which expired while nobody was looking *)
(* has already escalated by the time the gate reads the posture", for any  *)
(* number of threads whose calls do not overlap, and although a storage    *)
(* write may raise.                                                        *)
THEOREM GateSeesExpirySerially == SerialSpec => []GateSeesExpiry
<1>1. SerialInv => GateSeesExpiry
  BY DEF SerialInv, Seen, GateSeesExpiry
<1> QED
  BY <1>1, SerialInvariant, PTL
-----------------------------------------------------------------------------
(* The ladder, when calls do not overlap.                                  *)

(* The ranks of the ladder are those of the code.                          *)
LEMMA RanksOf ==
  /\ Rank["NORMAL"] = 0 /\ Rank["SOFT_CHALLENGE"] = 1
  /\ Rank["REAUTH_REQUIRED"] = 2 /\ Rank["LOCKED_OUT"] = 3
  /\ Ladder!Rank = Rank /\ Ladder!Postures = Postures
  /\ Postures = {"NORMAL", "SOFT_CHALLENGE", "REAUTH_REQUIRED", "LOCKED_OUT"}
BY DEF Rank, Postures, Ladder!Rank, Ladder!Postures

(* A decision that moves the posture raises it, as on the ladder.          *)
LEMMA RaisesOnTheLadder ==
  ASSUME SerialInv, MoveToDecision
  PROVE  Ladder!Raise
<1>1. dec.action \in ChallengeActions \cup {"TERMINATE"} /\ posture \in Postures
  BY DEF MoveToDecision, SerialInv, IInv, TypeOK, Executing
<1>2. ActionPosture[dec.action] \in Postures
  BY <1>1, PostureTyping
<1>3. Rank[ActionPosture[dec.action]] > Rank[posture]
  BY DEF MoveToDecision, SerialInv, StillLower
<1>4. ActionPosture[dec.action] # posture
  BY <1>1, <1>2, <1>3, RanksOf
<1>5. posture' = ActionPosture[dec.action] /\ code' = "ENFORCEMENT"
  BY <1>4 DEF MoveToDecision, Move
<1> QED
  BY <1>2, <1>3, <1>5, RanksOf DEF Ladder!Raise

(* An answer or a failure is a move of the ladder, or none.                *)
LEMMA SettlesOnTheLadder ==
  ASSUME SerialInv, NEW w \in Workers, ObserveReauth(w) \/ MoveSoft(w)
  PROVE  Ladder!Next \/ UNCHANGED <<posture, code>>
<1>0. posture \in Postures
  BY DEF SerialInv, IInv, TypeOK
<1>1. ASSUME job[w].outcome # "ACCEPTED"
      PROVE  WhyOf(job[w]) \in {"CHALLENGE_REJECTED", "CHALLENGE_EXPIRED"}
  BY <1>1 DEF WhyOf
<1>2. CASE ObserveReauth(w) /\ job[w].outcome = "ACCEPTED"
  <2>1. WhyOf(job[w]) = "REAUTH_ACCEPTED"
    BY <1>2 DEF WhyOf, ObserveReauth
  <2> QED
    BY <1>2, <2>1 DEF ObserveReauth, Move, Ladder!Next, Ladder!Reauthenticate
<1>3. CASE ObserveReauth(w) /\ job[w].outcome # "ACCEPTED"
  BY <1>1, <1>3 DEF ObserveReauth, Move, Ladder!Next, Ladder!Fail
<1>4. CASE MoveSoft(w) /\ job[w].outcome = "ACCEPTED"
  <2>1. Rank[posture] <= 1 /\ job[w].ch.action = "SOFT_CHALLENGE"
    BY <1>4, RanksOf DEF MoveSoft, SerialInv, StillSoft
  <2>2. WhyOf(job[w]) = "CHALLENGE_ACCEPTED"
    BY <1>4, <2>1 DEF WhyOf
  <2>3. posture \in {"NORMAL", "SOFT_CHALLENGE"}
    BY <1>0, <2>1, RanksOf
  <2> QED
    BY <1>4, <2>2, <2>3 DEF MoveSoft, Move, Ladder!Next, Ladder!Acknowledge
<1>5. CASE MoveSoft(w) /\ job[w].outcome # "ACCEPTED"
  <2>1. Ladder!Rank[posture] <= 1
    BY <1>5, RanksOf DEF MoveSoft, SerialInv, StillSoft
  <2>2. posture # "REAUTH_REQUIRED"
    BY <2>1, RanksOf
  <2> QED
    BY <1>1, <1>5, <2>1, <2>2 DEF MoveSoft, Move, Ladder!Next, Ladder!Fail
<1> QED
  BY <1>2, <1>3, <1>4, <1>5

(* Every serial step is a move of the ladder or leaves it alone.           *)
LEMMA LadderStep == SerialInv /\ [SerialNext]_vars => [Ladder!Next]_<<posture, code>>
<1> SUFFICES ASSUME SerialInv, [SerialNext]_vars
             PROVE  Ladder!Next \/ UNCHANGED <<posture, code>>
  OBVIOUS
<1>1. CASE UNCHANGED vars \/ Tick
  BY <1>1 DEF vars, Tick
<1>2. CASE Ingestion
  BY <1>2, RaisesOnTheLadder
     DEF Ingestion, Decide, CheckRank, OpenChallenge, SpawnPrompt, OpenScheduled, Ladder!Next
<1>3. ASSUME NEW w \in Workers, Worker(w) PROVE Ladder!Next \/ UNCHANGED <<posture, code>>
  <2>1. CASE ObserveReauth(w) \/ MoveSoft(w)
    BY <2>1, SettlesOnTheLadder
  <2>2. CASE ObserveSoft(w)
    BY <2>2 DEF ObserveSoft
  <2>3. CASE ~(ObserveReauth(w) \/ MoveSoft(w) \/ ObserveSoft(w))
    BY <1>3, <2>3 DEF Worker, Serve, Request, Respond, Sweep, Settle, Pop, Verdict, ReadGate,
                      AskReauth, OfferExisting, OfferMinted, OfferRefused
  <2> QED
    BY <2>1, <2>2, <2>3
<1> QED
  BY <1>1, <1>2, <1>3 DEF SerialNext

(* Calls that do not overlap move the posture exactly as the docstrings of *)
(* EnforcementSessionState say: decisions only raise it, a correct REAUTH  *)
(* clears all of it, a correct soft answer a soft challenge alone, and     *)
(* each failure or expiry climbs.                                          *)
THEOREM SerialImplementsLadder == SerialSpec => LadderSpec
<1>1. Init => Ladder!Init
  BY DEF Init, Ladder!Init
<1>2. SerialInv /\ [SerialNext]_vars => [Ladder!Next]_<<posture, code>>
  BY LadderStep
<1> QED
  BY <1>1, <1>2, SerialInvariant, PTL DEF SerialSpec, LadderSpec, Ladder!Spec
=============================================================================
