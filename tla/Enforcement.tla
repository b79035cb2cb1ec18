----------------------------- MODULE Enforcement -----------------------------
(***************************************************************************)
(* The backend half of the escalation ladder, lock section by lock         *)
(* section: EnforcementSessionState (decisions/session.py), the pending    *)
(* registry of ChallengeService (decisions/challenge.py), the enforcing    *)
(* part of EnforcementCoordinator.execute and NativeChallengeAdapter, and  *)
(* the C7 endpoints that read or resolve them (api/backend.py,             *)
(* api/routes.py).                                                         *)
(*                                                                         *)
(* One ingestion thread executes decisions; Workers are the threads of the *)
(* API's pool, each running one request at a time.  A step is one critical *)
(* section of one of the two locks, or one read between two of them, so    *)
(* every interleaving the two locks allow is a behaviour.                  *)
(*                                                                         *)
(* Time: "left" is expires_at - now in units of the clock; it stops at -1, *)
(* past which no comparison in the code tells two values apart.  Ids are   *)
(* reused once nothing refers to them (the code's are fresh uuids), which  *)
(* keeps the model finite without bounding a run.                          *)
(***************************************************************************)
EXTENDS Integers, FiniteSets

CONSTANTS
  Workers,      \* threads of the API pool
  Decisions,    \* ids of stored RiskDecisions
  Recoveries,   \* ids minted by open_reauthentication
  Prompts,      \* ids minted by open_scheduled
  NoId,
  Timeout,      \* challenge_timeout_seconds
  Faults        \* may a storage write raise out of a handler?

ASSUME TimeoutAssumption == Timeout \in Nat \ {0}
ASSUME IdsAssumption ==
  /\ Decisions \cap Recoveries = {}
  /\ (Decisions \cup Recoveries) \cap Prompts = {}
  /\ NoId \notin Decisions \cup Recoveries \cup Prompts
ASSUME FaultsAssumption == Faults \in BOOLEAN

VARIABLES
  posture,      \* EnforcementSessionState._posture
  code,         \* code of the last PostureTransition handed to the sink
  pending,      \* ChallengeService._pending
  configured,   \* a security challenge has been configured
  ipc, dec,     \* the ingestion thread: where it is, the decision it executes
  pc, job,      \* the workers: where each is, the request it serves
  owed,         \* ghost: enforcement challenges whose outcome is still owed
  absolved      \* ghost: those outstanding when a REAUTH was last accepted

vars == <<posture, code, pending, configured, ipc, dec, pc, job, owed, absolved>>
-----------------------------------------------------------------------------
Ladder == INSTANCE Ladder

Postures == Ladder!Postures
Rank     == Ladder!Rank
Blocking == Ladder!Blocking

Ids         == Decisions \cup Recoveries \cup Prompts
Enforcing   == Ids \ Prompts
ChallengeActions == {"SOFT_CHALLENGE", "REAUTH"}
ActionPosture == [a \in ChallengeActions \cup {"TERMINATE"} |->
  CASE a = "SOFT_CHALLENGE" -> "SOFT_CHALLENGE"
    [] a = "REAUTH"         -> "REAUTH_REQUIRED"
    [] a = "TERMINATE"      -> "LOCKED_OUT"]

Outcomes == {"ACCEPTED", "REJECTED", "EXPIRED"}
Kinds    == {"protected", "configure", "status", "respond", "reauth"}
Left     == -1 .. Timeout

Closed    == [action |-> "NONE", left |-> -1]
Entries   == [action : ChallengeActions \cup {"NONE"}, left : Left]
IsOpen(i) == i \in Ids /\ pending[i].action # "NONE"
Opened(a) == [action |-> a, left |-> Timeout]

(* expire_overdue pops at expires_at <= now; pending() and                 *)
(* open_reauthentication keep expires_at > now; respond fails at           *)
(* now > expires_at.                                                       *)
Overdue(i)   == IsOpen(i) /\ pending[i].left <= 0
Unexpired(i) == IsOpen(i) /\ pending[i].left > 0

NoChallenge == [id |-> NoId, action |-> "NONE", left |-> -1]
Challenges  == [id : Ids \cup {NoId}, action : ChallengeActions \cup {"NONE"}, left : Left]
Swept(i)    == [id |-> i, action |-> pending[i].action, left |-> -1]
Popped(i)   == [id |-> i, action |-> pending[i].action, left |-> pending[i].left]

NoJob == [kind |-> "none", target |-> NoId, queue |-> {}, ch |-> NoChallenge,
          outcome |-> "NONE", ret |-> "idle", due |-> {}]
Jobs  == [kind : Kinds \cup {"none"}, target : Ids \cup {NoId},
          queue : SUBSET Challenges, ch : Challenges,
          outcome : Outcomes \cup {"NONE"}, ret : {"idle", "settle"},
          due : SUBSET Ids]

(* Worker w has taken challenge i out of the registry and not settled it.  *)
Holds(w, i) == \/ \E c \in job[w].queue : c.id = i
               \/ pc[w] \in {"verdict", "observe", "move"} /\ job[w].ch.id = i

Fresh(i) == /\ ~IsOpen(i)
            /\ dec.id # i
            /\ \A w \in Workers : ~Holds(w, i) /\ job[w].target # i /\ i \notin job[w].due

Stops == {"idle", "sweep", "settle", "observe", "move", "pop", "verdict", "read", "gate", "offer"}

TypeOK ==
  /\ posture \in Postures
  /\ code \in Ladder!Codes
  /\ pending \in [Ids -> Entries]
  /\ configured \in BOOLEAN
  /\ ipc \in {"idle", "check", "move", "adapter", "spawn"}
  /\ dec \in [id : Decisions \cup {NoId}, action : ChallengeActions \cup {"TERMINATE", "NONE"}]
  /\ pc \in [Workers -> Stops]
  /\ job \in [Workers -> Jobs]
  /\ owed \subseteq Enforcing
  /\ absolved \subseteq Enforcing

NoDecision == [id |-> NoId, action |-> "NONE"]

Init ==
  /\ posture = "NORMAL"
  /\ code = "NONE"
  /\ pending = [i \in Ids |-> Closed]
  /\ configured \in BOOLEAN
  /\ ipc = "idle"
  /\ dec = NoDecision
  /\ pc = [w \in Workers |-> "idle"]
  /\ job = [w \in Workers |-> NoJob]
  /\ owed = {}
  /\ absolved = {}
-----------------------------------------------------------------------------
(* The ingestion thread.                                                   *)

(* EnforcementSessionState._move: a no-op when already there, otherwise    *)
(* the transition goes to the sink under its code.                         *)
Move(target, why) ==
  /\ posture' = target
  /\ code' = IF posture = target THEN code ELSE why

ToAdapter == IF dec.action \in ChallengeActions THEN "adapter" ELSE "idle"

(* RiskEngine emitted an enforced decision; execute() starts on it.        *)
Decide(i, a) ==
  /\ ipc = "idle"
  /\ Fresh(i)
  /\ dec' = [id |-> i, action |-> a]
  /\ ipc' = "check"
  /\ UNCHANGED <<posture, code, pending, configured, pc, job, owed, absolved>>

(* First lock section of observe_decision: the rank test.                  *)
CheckRank ==
  /\ ipc = "check"
  /\ ipc' = IF Rank[ActionPosture[dec.action]] <= Rank[posture] THEN ToAdapter ELSE "move"
  /\ dec' = IF ipc' = "idle" THEN NoDecision ELSE dec
  /\ UNCHANGED <<posture, code, pending, configured, pc, job, owed, absolved>>

(* Second lock section of observe_decision.  The sink writes the alert     *)
(* after the lock is released; if that write raises, execute() never       *)
(* reaches the adapter.                                                    *)
MoveToDecision ==
  /\ ipc = "move"
  /\ Move(ActionPosture[dec.action], "ENFORCEMENT")
  /\ \/ ipc' = ToAdapter
     \/ Faults /\ posture' # posture /\ ipc' = "idle"
  /\ dec' = IF ipc' = "idle" THEN NoDecision ELSE dec
  /\ UNCHANGED <<pending, configured, pc, job, owed, absolved>>

(* NativeChallengeAdapter.execute: register the challenge, if a credential *)
(* exists to challenge with.                                               *)
OpenChallenge ==
  /\ ipc = "adapter"
  /\ IF configured
     THEN /\ pending' = [pending EXCEPT ![dec.id] = Opened(dec.action)]
          /\ owed' = owed \cup {dec.id}
          /\ absolved' = absolved \ {dec.id}
          /\ ipc' = "spawn"
     ELSE /\ ipc' = "idle"
          /\ UNCHANGED <<pending, owed, absolved>>
  /\ dec' = IF ipc' = "idle" THEN NoDecision ELSE dec
  /\ UNCHANGED <<posture, code, configured, pc, job>>

(* The prompt process starts (or the platform has none and the challenge   *)
(* is left to the dashboard); if it cannot start, the challenge is         *)
(* discarded and the action fails open.                                    *)
SpawnPrompt ==
  /\ ipc = "spawn"
  /\ \/ UNCHANGED <<pending, owed>>
     \/ /\ pending' = [pending EXCEPT ![dec.id] = Closed]
        /\ owed' = IF IsOpen(dec.id) THEN owed \ {dec.id} ELSE owed
  /\ ipc' = "idle"
  /\ dec' = NoDecision
  /\ UNCHANGED <<posture, code, configured, pc, job, absolved>>

(* check_scheduled_anchor on the watchdog tick: the same event-loop        *)
(* thread, so never while a decision is being executed.                    *)
OpenScheduled(i) ==
  /\ ipc = "idle"
  /\ configured
  /\ Fresh(i)
  /\ pending' = [pending EXCEPT ![i] = Opened("SOFT_CHALLENGE")]
  /\ UNCHANGED <<posture, code, configured, ipc, dec, pc, job, owed, absolved>>
-----------------------------------------------------------------------------
(* The API workers.                                                        *)

Goto(w, where, j) ==
  /\ pc' = [pc EXCEPT ![w] = where]
  /\ job' = [job EXCEPT ![w] = IF where = "idle" THEN NoJob ELSE j]

(* Mutant: require_unenforced reads the posture without sweeping first.    *)
Request_unswept(w, k) ==
  /\ pc[w] = "idle"
  /\ Goto(w, CASE k = "reauth" -> "gate" [] k = "protected" -> "read" [] OTHER -> "sweep",
          [NoJob EXCEPT !.kind = k, !.due = {d \in Enforcing : Overdue(d)}])
  /\ UNCHANGED <<posture, code, pending, configured, ipc, dec, owed, absolved>>

(* A request arrives.  The reauthenticate endpoint is the only one that    *)
(* does not sweep first.                                                   *)
Request(w, k) ==
  /\ pc[w] = "idle"
  /\ Goto(w, IF k = "reauth" THEN "gate" ELSE "sweep",
          [NoJob EXCEPT !.kind = k,
             !.due = IF k = "protected" THEN {d \in Enforcing : Overdue(d)} ELSE {}])
  /\ UNCHANGED <<posture, code, pending, configured, ipc, dec, owed, absolved>>

(* The prompt or the dashboard answers a challenge it was shown.           *)
Respond(w, i) ==
  /\ pc[w] = "idle"
  /\ IsOpen(i)
  /\ Goto(w, "sweep", [NoJob EXCEPT !.kind = "respond", !.target = i])
  /\ UNCHANGED <<posture, code, pending, configured, ipc, dec, owed, absolved>>

(* Mutant: overdue challenges are filtered out and forgotten.              *)
Sweep_silent(w) ==
  /\ pc[w] = "sweep"
  /\ pending' = [i \in Ids |-> IF Overdue(i) THEN Closed ELSE pending[i]]
  /\ Goto(w, "settle", job[w])
  /\ UNCHANGED <<posture, code, configured, ipc, dec, owed, absolved>>

(* expire_overdue: one lock section pops every overdue challenge.  The     *)
(* sweep passes over scheduled prompts.                                    *)
Sweep(w) ==
  LET overdue == {i \in Ids : Overdue(i)} IN
  /\ pc[w] = "sweep"
  /\ pending' = [i \in Ids |-> IF i \in overdue THEN Closed ELSE pending[i]]
  /\ Goto(w, "settle", [job[w] EXCEPT !.queue = {Swept(i) : i \in overdue \ Prompts}])
  /\ UNCHANGED <<posture, code, configured, ipc, dec, owed, absolved>>

AfterSweep(k) == CASE k \in {"protected", "configure"} -> "read"
                   [] k = "respond" -> "pop"
                   [] OTHER -> "idle"

(* The loop of sweep_expired_challenges.  It visits dict order; any order  *)
(* is allowed here.                                                        *)
Settle(w) ==
  /\ pc[w] = "settle"
  /\ \/ /\ job[w].queue = {}
        /\ Goto(w, AfterSweep(job[w].kind), job[w])
     \/ \E c \in job[w].queue :
          Goto(w, "observe", [job[w] EXCEPT !.queue = @ \ {c}, !.ch = c,
                                            !.outcome = "EXPIRED", !.ret = "settle"])
  /\ UNCHANGED <<posture, code, pending, configured, ipc, dec, owed, absolved>>

(* Mutant: respond reads the entry and leaves it in the registry.          *)
Pop_unremoved(w) ==
  LET i == job[w].target IN
  /\ pc[w] = "pop"
  /\ IF IsOpen(i)
     THEN Goto(w, "verdict", [job[w] EXCEPT !.ch = Popped(i), !.target = NoId])
     ELSE Goto(w, "idle", NoJob)
  /\ UNCHANGED <<posture, code, pending, configured, ipc, dec, owed, absolved>>

(* respond: the registry entry is popped under the lock; a request whose   *)
(* challenge is gone reports EXPIRED or 404 and changes nothing.           *)
Pop(w) ==
  LET i == job[w].target IN
  /\ pc[w] = "pop"
  /\ IF IsOpen(i)
     THEN /\ pending' = [pending EXCEPT ![i] = Closed]
          /\ Goto(w, "verdict", [job[w] EXCEPT !.ch = Popped(i), !.target = NoId])
     ELSE /\ Goto(w, "idle", NoJob)
          /\ UNCHANGED pending
  /\ UNCHANGED <<posture, code, configured, ipc, dec, owed, absolved>>

(* respond, after the lock: the deadline, then the credential.  A          *)
(* scheduled prompt's outcome never reaches the ladder.                    *)
Verdict(w, correct) ==
  LET outcome == IF job[w].ch.left < 0 THEN "EXPIRED"
                 ELSE IF correct THEN "ACCEPTED" ELSE "REJECTED" IN
  /\ pc[w] = "verdict"
  /\ Goto(w, IF job[w].ch.id \in Prompts THEN "idle" ELSE "observe",
          [job[w] EXCEPT !.outcome = outcome, !.ret = "idle", !.ch.left = -1])
  /\ UNCHANGED <<posture, code, pending, configured, ipc, dec, owed, absolved>>

(* The outcome has been applied.  A storage write that follows it (the     *)
(* alert of a transition, or record_challenge_response for a stored        *)
(* decision) may raise and end the request where it is.                    *)
Settled(w) ==
  LET c == job[w].ch IN
  /\ \/ Goto(w, job[w].ret, [job[w] EXCEPT !.ch = NoChallenge, !.outcome = "NONE"])
     \/ /\ Faults
        /\ posture' # posture \/ c.id \in Decisions
        /\ Goto(w, "idle", NoJob)
  /\ owed' = owed \ {c.id}

WhyOf(j) ==
  CASE j.outcome = "ACCEPTED" /\ j.ch.action = "REAUTH" -> "REAUTH_ACCEPTED"
    [] j.outcome = "ACCEPTED" /\ j.ch.action # "REAUTH" -> "CHALLENGE_ACCEPTED"
    [] j.outcome = "REJECTED" -> "CHALLENGE_REJECTED"
    [] OTHER -> "CHALLENGE_EXPIRED"

(* Mutant: a failed REAUTH asks for another instead of locking out.        *)
ObserveReauth_lenient(w) ==
  LET accepted == job[w].outcome = "ACCEPTED" IN
  /\ pc[w] = "observe"
  /\ job[w].ch.action = "REAUTH"
  /\ Move(IF accepted THEN "NORMAL" ELSE "REAUTH_REQUIRED", WhyOf(job[w]))
  /\ Settled(w)
  /\ absolved' = IF accepted THEN owed \ {job[w].ch.id} ELSE absolved
  /\ UNCHANGED <<pending, configured, ipc, dec>>

(* observe_challenge_outcome for a REAUTH: a single lock section.          *)
ObserveReauth(w) ==
  LET accepted == job[w].outcome = "ACCEPTED" IN
  /\ pc[w] = "observe"
  /\ job[w].ch.action = "REAUTH"
  /\ Move(IF accepted THEN "NORMAL" ELSE "LOCKED_OUT", WhyOf(job[w]))
  /\ Settled(w)
  /\ absolved' = IF accepted THEN owed \ {job[w].ch.id} ELSE absolved
  /\ UNCHANGED <<pending, configured, ipc, dec>>

(* observe_challenge_outcome for a SOFT_CHALLENGE: the rank test ...       *)
ObserveSoft(w) ==
  /\ pc[w] = "observe"
  /\ job[w].ch.action = "SOFT_CHALLENGE"
  /\ IF Rank[posture] > Rank["SOFT_CHALLENGE"]
     THEN UNCHANGED <<posture, code>> /\ Settled(w)
     ELSE UNCHANGED <<posture, code, owed>> /\ Goto(w, "move", job[w])
  /\ UNCHANGED <<pending, configured, ipc, dec, absolved>>

(* ... and, in a second lock section, the move.                            *)
MoveSoft(w) ==
  /\ pc[w] = "move"
  /\ Move(IF job[w].outcome = "ACCEPTED" THEN "NORMAL" ELSE "REAUTH_REQUIRED", WhyOf(job[w]))
  /\ Settled(w)
  /\ UNCHANGED <<pending, configured, ipc, dec, absolved>>

(* require_unenforced reads the posture; a protected request is refused    *)
(* while it blocks, and otherwise served.  Configuring the credential is   *)
(* itself a protected request.                                             *)
ReadGate(w) ==
  /\ pc[w] = "read"
  /\ configured' = (configured \/ (posture \notin Blocking /\ job[w].kind = "configure"))
  /\ Goto(w, "idle", NoJob)
  /\ UNCHANGED <<posture, code, pending, ipc, dec, owed, absolved>>

(* /v1/enforcement/reauthenticate refuses when nothing is blocking or when *)
(* there is no credential to reauthenticate with.                          *)
AskReauth(w) ==
  /\ pc[w] = "gate"
  /\ Goto(w, IF posture \in Blocking /\ configured THEN "offer" ELSE "idle", job[w])
  /\ UNCHANGED <<posture, code, pending, configured, ipc, dec, owed, absolved>>

(* open_reauthentication returns the most recently opened unexpired        *)
(* enforcement challenge, or mints a REAUTH.                               *)
Newest(i) ==
  /\ i \in Enforcing /\ Unexpired(i)
  /\ \A d \in Enforcing : Unexpired(d) => pending[d].left <= pending[i].left

OfferExisting(w) ==
  /\ pc[w] = "offer"
  /\ \E i \in Enforcing : Newest(i)
  /\ Goto(w, "idle", NoJob)
  /\ UNCHANGED <<posture, code, pending, configured, ipc, dec, owed, absolved>>

(* Mutant: the minted challenge is an acknowledgement, not a REAUTH.       *)
OfferMinted_soft(w, i) ==
  /\ pc[w] = "offer"
  /\ \A d \in Enforcing : ~Unexpired(d)
  /\ Fresh(i)
  /\ pending' = [pending EXCEPT ![i] = Opened("SOFT_CHALLENGE")]
  /\ owed' = owed \cup {i}
  /\ absolved' = absolved \ {i}
  /\ Goto(w, "idle", NoJob)
  /\ UNCHANGED <<posture, code, configured, ipc, dec>>

OfferMinted(w, i) ==
  /\ pc[w] = "offer"
  /\ \A d \in Enforcing : ~Unexpired(d)
  /\ Fresh(i)
  /\ pending' = [pending EXCEPT ![i] = Opened("REAUTH")]
  /\ owed' = owed \cup {i}
  /\ absolved' = absolved \ {i}
  /\ Goto(w, "idle", NoJob)
  /\ UNCHANGED <<posture, code, configured, ipc, dec>>

(* No live session or segment to anchor a reauthentication to: 409.        *)
OfferRefused(w) ==
  /\ pc[w] = "offer"
  /\ Goto(w, "idle", NoJob)
  /\ UNCHANGED <<posture, code, pending, configured, ipc, dec, owed, absolved>>
-----------------------------------------------------------------------------
Elapse(n) == IF n = -1 THEN n ELSE n - 1

Tick ==
  /\ pending' = [i \in Ids |-> [pending[i] EXCEPT !.left = Elapse(@)]]
  /\ job' = [w \in Workers |-> [job[w] EXCEPT !.ch.left = Elapse(@)]]
  /\ UNCHANGED <<posture, code, configured, ipc, dec, pc, owed, absolved>>

Ingestion ==
  \/ \E i \in Decisions, a \in ChallengeActions \cup {"TERMINATE"} : Decide(i, a)
  \/ CheckRank
  \/ MoveToDecision
  \/ OpenChallenge
  \/ SpawnPrompt
  \/ \E i \in Prompts : OpenScheduled(i)

Serve(w) ==
  \/ Sweep(w)
  \/ Settle(w)
  \/ Pop(w)
  \/ \E correct \in BOOLEAN : Verdict(w, correct)
  \/ ObserveReauth(w)
  \/ ObserveSoft(w)
  \/ MoveSoft(w)
  \/ ReadGate(w)
  \/ AskReauth(w)
  \/ OfferExisting(w)
  \/ \E i \in Recoveries : OfferMinted(w, i)
  \/ OfferRefused(w)

Worker(w) ==
  \/ \E k \in Kinds \ {"respond"} : Request(w, k)
  \/ \E i \in Ids : Respond(w, i)
  \/ Serve(w)

Next == Ingestion \/ (\E w \in Workers : Worker(w)) \/ Tick

Spec == Init /\ [][Next]_vars

(* The schedules in which calls do not overlap: a handler that has started *)
(* runs to its end before another begins.                                  *)
SerialNext ==
  \/ Ingestion /\ \A w \in Workers : pc[w] = "idle"
  \/ \E w \in Workers : /\ Worker(w)
                        /\ ipc = "idle"
                        /\ \A v \in Workers \ {w} : pc[v] = "idle"
  \/ Tick

SerialSpec == Init /\ [][SerialNext]_vars
(* A participant at the keyboard of a configured system.  Handlers that    *)
(* have started finish, within a tick of the clock (nothing in them waits, *)
(* and the timeout is minutes); the dashboard keeps polling the status;    *)
(* the participant keeps asking for a reauthentication and, sooner or      *)
(* later, answers the REAUTH it gets correctly and in time.                *)
AnswerReauth(w) == \E i \in Ids : pending[i].action = "REAUTH" /\ Unexpired(i) /\ Respond(w, i)
PassReauth(w)   == job[w].ch.action = "REAUTH" /\ job[w].ch.left >= 0 /\ Verdict(w, TRUE)

Participant(w) ==
  /\ SF_vars(Request(w, "status"))
  /\ SF_vars(Request(w, "reauth"))
  /\ SF_vars(AnswerReauth(w))
  /\ SF_vars(PassReauth(w))
  /\ SF_vars(\E i \in Recoveries : OfferMinted(w, i))

PromptNext ==
  \/ Ingestion
  \/ \E w \in Workers : Worker(w)
  \/ Tick /\ \A w \in Workers : pc[w] = "idle"

LiveSpec == /\ Init /\ [][PromptNext]_vars
            /\ WF_vars(Ingestion /\ ipc # "idle")
            /\ SF_vars(Tick /\ \A w \in Workers : pc[w] = "idle")
            /\ \A w \in Workers : WF_vars(Serve(w)) /\ Participant(w)
-----------------------------------------------------------------------------
(* Under every interleaving.                                               *)

(* An enforcement challenge is in one place: no two requests hold the same *)
(* one, and a held one is out of the registry, so no challenge is settled  *)
(* twice (ChallengeService.respond and expire_overdue pop under the lock). *)
Exclusive ==
  \A w \in Workers, i \in Ids :
    Holds(w, i) => ~IsOpen(i) /\ \A v \in Workers \ {w} : ~Holds(v, i)

(* Every enforcement challenge whose outcome is still owed to the ladder   *)
(* is in the registry or in the hands of a request: expiry is never        *)
(* silent (ChallengeService.expire_overdue).                               *)
NothingDropped ==
  \A i \in owed : IsOpen(i) \/ \E w \in Workers : Holds(w, i)

(* A decision being executed is well formed, and its challenge is nowhere  *)
(* before the adapter opens it.                                            *)
Executing ==
  /\ ipc # "idle" => dec.id \in Decisions /\ dec.action # "NONE"
  /\ ipc \in {"adapter", "spawn"} => dec.action \in ChallengeActions
  /\ ipc \in {"check", "move", "adapter"}
       => ~IsOpen(dec.id) /\ \A w \in Workers : ~Holds(w, dec.id)

(* What a request may carry at each of its stops.                          *)
Fits(stop, j) ==
  /\ \A c \in j.queue : c.id \in Enforcing
  /\ \A c, d \in j.queue : c.id = d.id => c = d
  /\ stop \in {"observe", "move"} => j.ch.id \in Enforcing /\ \A c \in j.queue : c.id # j.ch.id
  /\ stop = "verdict" => j.ch.id \in Ids
  /\ stop \notin {"settle", "observe", "move"} \/ (stop # "settle" /\ j.ret = "idle")
       => j.queue = {}

Carries(w) == Fits(pc[w], job[w])

(* The inductive invariant behind Exclusive and NothingDropped.            *)
IInv ==
  /\ TypeOK
  /\ Executing
  /\ \A w \in Workers : Carries(w)
  /\ Exclusive
  /\ Faults \/ NothingDropped

(* A participant who keeps reauthenticating correctly gets back in, once   *)
(* the risk engine stops escalating (open_reauthentication's docstring:    *)
(* "The participant needs a way back in even when the dispatched challenge *)
(* is gone").                                                              *)
WayBackIn ==
  <>[](ipc = "idle") => (configured /\ posture \in Blocking ~> posture \notin Blocking)

(* When calls do not overlap.                                              *)

(* The posture moves exactly as the ladder says it may.                    *)
LadderSpec == Ladder!Spec

(* observe_decision: "Never lowers it: de-escalation is the exclusive      *)
(* business of a successfully answered challenge."                         *)
DecisionsNeverLower == [][MoveToDecision => Rank[posture'] >= Rank[posture]]_vars

(* observe_challenge_outcome: "A stale soft answer arriving after the      *)
(* session has already been escalated must not unwind that escalation."    *)
StaleSoftNeverUnwinds ==
  [][\A w \in Workers : MoveSoft(w) /\ job[w].outcome = "ACCEPTED"
                          => posture \notin Blocking]_vars

(* require_unenforced: "a challenge which expired while nobody was looking *)
(* has already escalated by the time the gate reads the posture".          *)
GateSeesExpiry ==
  \A w \in Workers :
    pc[w] = "read" /\ job[w].kind = "protected" /\ posture \notin Blocking
      => job[w].due \cap owed = {}

(* Contradicted by the code.                                               *)

(* open_reauthentication: "This mints a ``REAUTH`` so that answering it    *)
(* correctly is a genuine explicit reauthentication [...] not a weaker     *)
(* acknowledgement."                                                       *)
OfferIsReauth ==
  [][\A w \in Workers : OfferExisting(w)
       => \A i \in Enforcing : Newest(i) => pending[i].action = "REAUTH"]_vars

(* observe_challenge_outcome: a correct REAUTH answer "clears everything   *)
(* below it including a lockout": nothing that was outstanding when it was *)
(* accepted raises the posture again.                                      *)
ClearedForGood ==
  [][\A w \in Workers :
       (ObserveReauth(w) \/ MoveSoft(w)) /\ Rank[posture'] > Rank[posture]
         => job[w].ch.id \notin absolved]_vars
=============================================================================
