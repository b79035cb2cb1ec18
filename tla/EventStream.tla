----------------------------- MODULE EventStream -----------------------------
(***************************************************************************)
(* The authenticated API and the live stream, with one dashboard: login    *)
(* sessions, the gate, an alert from its row to the broker, the broker's   *)
(* history and client queues, the WebSocket route, paging, and the         *)
(* dashboard that loads, connects, reconnects with a cursor and reduces    *)
(* envelopes. An event is an alert's id; stream_seq is its place in        *)
(* published. Routes run on worker threads, the broker on the event loop.  *)
(***************************************************************************)
EXTENDS Integers, FiniteSets, Sequences, SequencesExt

CONSTANTS Conn, NoConn,     \* connections the server may be serving; none
          Capacity, Replay, \* websocket_client_capacity, replay_event_capacity
          MaxSessions,
          PageSize,         \* snapshot_alert_limit and default_page_size
          Before,           \* alerts stored by earlier processes
          MaxAlerts,        \* bound: alerts in all
          MaxTrouble        \* bound: failures, expiries, escalations, restarts of a run

ASSUME StreamAssumption == /\ IsFiniteSet(Conn) /\ NoConn \notin Conn
                           /\ Capacity \in Nat \ {0} /\ Replay \in Nat \ {0}
                           /\ MaxSessions \in Nat \ {0} /\ PageSize \in Nat \ {0}
                           /\ Before \in Nat /\ MaxAlerts \in Nat /\ MaxTrouble \in Nat
                           /\ Before <= MaxAlerts

VARIABLES made, stored,             \* alerts so far; the alerts table, oldest first
          held, pending, taken,     \* stored, not appended; _emissions; a drain under way
          published,                \* of this process: _sequence is its length
          queue, listed, serving,   \* broker._clients; listed: in it; serving: routes
          sessions, lapsed,         \* _sessions in order; how many have expired
          blocked, overdue,         \* the posture blocks; a challenge to sweep
          phase, at, wire,          \* the dashboard, its connection, what is on its way
          cursor, last, shown, gap, \* cursor.current, lastSequence, alerts, "gap detected"
          page,                     \* a reader going through the alerts page by page
          strayed, trouble          \* ghost: cursor or last is not of this process's stream

feedVars == <<made, stored, held, pending, taken>>
brokerVars == <<published, queue, listed, serving>>
sessionVars == <<sessions, lapsed>>
gateVars == <<blocked, overdue>>
viewVars == <<cursor, last, shown, gap>>
linkVars == <<phase, at, wire>>
vars == <<feedVars, brokerVars, sessionVars, gateVars, linkVars, viewVars,
          page, strayed, trouble>>

Sequence == Len(published)
SlowClient == 0
Closed == [seq |-> -1, snapshot |-> FALSE, alerts |-> <<>>]
\* What the environment may do only so often.
Happens == trouble < MaxTrouble /\ trouble' = trouble + 1

TailOf(s, n) == SubSeq(s, IF Len(s) > n THEN Len(s) - n + 1 ELSE 1, Len(s))

\* list_alerts: newest first; a row stored between two pages shifts the rest.
Listing(offset) == SubSeq(Reverse(stored), offset + 1, Min({offset + PageSize, Len(stored)}))

Init ==
    /\ made = Before /\ stored = [id \in 1 .. Before |-> id] /\ held = 0 /\ pending = <<>> /\ taken = <<>>
    /\ published = <<>> /\ queue = [k \in Conn |-> <<>>] /\ listed = {} /\ serving = {}
    /\ sessions = <<>> /\ lapsed = 0 /\ blocked = FALSE /\ overdue = FALSE
    /\ phase = "loading" /\ at = NoConn /\ wire = <<>>
    /\ cursor = -1 /\ last = -1 /\ shown = <<>> /\ gap = FALSE
    /\ page = [got |-> {}, next |-> 0, due |-> {}, more |-> FALSE]
    /\ strayed = FALSE /\ trouble = 0

-----------------------------------------------------------------------------
(* Alerts: the row first, then _emissions, which the event loop drains.    *)

Store(id) == made' = id /\ stored' = Append(stored, id)

\* A posture transition or an enforcement notice, on a worker thread: the
\* row and the emission are two steps of it.
ApiStores ==
    /\ held = 0 /\ made < MaxAlerts
    /\ Store(made + 1) /\ held' = made + 1
    /\ UNCHANGED <<pending, taken, brokerVars, sessionVars, gateVars, linkVars, viewVars,
                   page, strayed, trouble>>

ApiAppends ==
    /\ held # 0
    /\ pending' = Append(pending, held) /\ held' = 0
    /\ UNCHANGED <<made, stored, taken, brokerVars, sessionVars, gateVars, linkVars, viewVars,
                   page, strayed, trouble>>

\* feed and check_heartbeat, on the event loop.
LoopEmits ==
    /\ taken = <<>> /\ made < MaxAlerts
    /\ Store(made + 1) /\ pending' = Append(pending, made + 1)
    /\ UNCHANGED <<held, taken, brokerVars, sessionVars, gateVars, linkVars, viewVars,
                   page, strayed, trouble>>

\* _drain_emissions copies, then clears; feed returns the copy.
DrainCopies ==
    /\ taken = <<>>
    /\ taken' = <<pending>>
    /\ UNCHANGED <<made, stored, held, pending, brokerVars, sessionVars, gateVars, linkVars,
                   viewVars, page, strayed, trouble>>

-----------------------------------------------------------------------------
(* The broker. Nothing awaits inside its lock: a batch is published whole. *)

Slow(n) == {k \in listed : Len(queue[k]) + n > Capacity}

Publish(batch) ==
    LET slow == Slow(Len(batch))
    IN /\ published' = published \o batch
       /\ listed' = listed \ slow
       /\ queue' = [k \in Conn |->
                      IF k \in slow THEN <<SlowClient>>
                      ELSE IF k \in listed
                        THEN queue[k] \o [i \in DOMAIN batch |-> Sequence + i]
                        ELSE queue[k]]

DrainClears ==
    /\ taken # <<>>
    /\ pending' = <<>> /\ taken' = <<>>
    /\ Publish(Head(taken))
    /\ UNCHANGED <<made, stored, held, serving, sessionVars, gateVars, linkVars, viewVars,
                   page, strayed, trouble>>

\* _signal_availability publishes past the list, also when its row cannot be stored.
Signal ==
    /\ taken = <<>> /\ made < MaxAlerts /\ Happens
    /\ made' = made + 1
    /\ stored' \in {stored, Append(stored, made + 1)}
    /\ Publish(<<made + 1>>)
    /\ UNCHANGED <<held, pending, taken, serving, sessionVars, gateVars, linkVars, viewVars,
                   page, strayed>>

Earliest == IF published = <<>> THEN 0
            ELSE IF Sequence > Replay THEN Sequence - Replay + 1 ELSE 1
\* Mutant: the event just before the oldest one kept is taken to be replayable.
Replayable_early(c) == c >= 0 /\ c >= Earliest - 2 /\ c <= Sequence

Replayable(c) == c >= 0 /\ c >= Earliest - 1 /\ c <= Sequence

Event(n) == [seq |-> n, snapshot |-> FALSE, alerts |-> <<published[n]>>]
Recent == Listing(0)
Snapshot == [seq |-> Sequence, snapshot |-> TRUE, alerts |-> Recent]
Kept(c) == IF c + 1 > Earliest THEN c + 1 ELSE Earliest
Initial(c) == IF Replayable(c)
                THEN [i \in 1 .. Sequence - Kept(c) + 1 |-> Event(Kept(c) + i - 1)]
                ELSE <<Snapshot>>

Subscribe(k) ==
    /\ queue' = [queue EXCEPT ![k] = <<>>]
    /\ listed' = listed \cup {k} /\ serving' = serving \cup {k}
    /\ at' = k /\ phase' = "open"
    /\ wire' = Initial(cursor)

\* Mutant: a slow client is taken off the list and its socket left open.
Send_open(k) ==
    /\ k \in serving /\ queue[k] # <<>>
    /\ IF k = at /\ Head(queue[k]) # SlowClient
         THEN /\ wire' = Append(wire, Event(Head(queue[k])))
              /\ queue' = [queue EXCEPT ![k] = Tail(@)]
              /\ UNCHANGED <<listed, serving>>
         ELSE /\ queue' = [queue EXCEPT ![k] = <<>>]
              /\ listed' = listed \ {k} /\ serving' = serving \ {k}
              /\ UNCHANGED wire
    /\ UNCHANGED <<published, feedVars, sessionVars, gateVars, phase, at, viewVars, page,
                   strayed, trouble>>

\* The route takes the next item; a send to a client that is gone raises, and the
\* finally clause takes the client off the list.
Send(k) ==
    /\ k \in serving /\ queue[k] # <<>>
    /\ IF k = at /\ Head(queue[k]) # SlowClient
         THEN /\ wire' = Append(wire, Event(Head(queue[k])))
              /\ queue' = [queue EXCEPT ![k] = Tail(@)]
              /\ UNCHANGED <<listed, serving>>
         ELSE /\ wire' = IF k = at THEN Append(wire, Closed) ELSE wire
              /\ queue' = [queue EXCEPT ![k] = <<>>]
              /\ listed' = listed \ {k} /\ serving' = serving \ {k}
    /\ UNCHANGED <<published, feedVars, sessionVars, gateVars, phase, at, viewVars, page,
                   strayed, trouble>>

-----------------------------------------------------------------------------
(* Login sessions: a dict in the order of insertion, which is also the     *)
(* order of expiry. The dashboard's cookie is "mine".                      *)

Valid == \E i \in lapsed + 1 .. Len(sessions) : sessions[i] = "mine"
IsOther(s) == s # "mine"

\* authenticate forgets the token it finds expired.
Authenticate ==
    IF Valid THEN UNCHANGED sessionVars
    ELSE /\ sessions' = SelectSeq(sessions, IsOther)
         /\ lapsed' = IF sessions' = sessions THEN lapsed ELSE lapsed - 1

\* create: insert, discard the expired, then the oldest above the bound.
Create(who) ==
    /\ sessions' = LET live == SubSeq(sessions, lapsed + 1, Len(sessions))
                   IN TailOf(Append(IF who = "mine" THEN ReplaceAll(live, "mine", "other")
                                                    ELSE live, who), MaxSessions)
    /\ lapsed' = 0

Lapse ==
    /\ Happens /\ lapsed < Len(sessions) /\ lapsed' = lapsed + 1
    /\ UNCHANGED <<feedVars, brokerVars, sessions, gateVars, linkVars, viewVars, page, strayed>>

OtherLogin ==
    /\ Happens /\ Create("other")
    /\ UNCHANGED <<feedVars, brokerVars, gateVars, linkVars, viewVars, page, strayed>>

\* The dashboard's socket, if any, goes; the route learns of it when it next sends.
Disconnected(next) == phase' = next /\ at' = NoConn /\ wire' = <<>>

Login ==
    /\ phase = "login"
    /\ Create("mine") /\ Disconnected("loading")
    /\ UNCHANGED <<feedVars, brokerVars, gateVars, viewVars, page, strayed, trouble>>

Logout ==
    /\ phase # "login"
    /\ IF Valid THEN /\ sessions' = SelectSeq(sessions, IsOther) /\ UNCHANGED lapsed
                ELSE Authenticate
    /\ Disconnected("login")
    /\ UNCHANGED <<feedVars, brokerVars, gateVars, viewVars, page, strayed, trouble>>

-----------------------------------------------------------------------------
(* The gate of require_unenforced and of the stream: sweep, then posture.  *)

Blocking == blocked \/ overdue
Sweep == blocked' = Blocking /\ overdue' = FALSE

PostureChanges ==
    /\ \/ Happens /\ overdue' = TRUE /\ UNCHANGED blocked
       \/ Happens /\ blocked' = TRUE /\ UNCHANGED overdue
       \/ blocked /\ blocked' = FALSE /\ UNCHANGED <<overdue, trouble>>
    /\ UNCHANGED <<feedVars, brokerVars, sessionVars, linkVars, viewVars, page, strayed>>

\* A page of alerts, for any client with a session; its cursor carries the offset.
FirstPage == page' = [got |-> ToSet(Listing(0)), next |-> PageSize, due |-> ToSet(stored),
                      more |-> Len(stored) > PageSize]
\* Mutant: how many rows there are is taken from the first page.
NextPage_counted == page' = [page EXCEPT !.got = @ \cup ToSet(Listing(page.next)),
                                         !.next = @ + PageSize,
                                         !.more = Cardinality(page.due) > page.next + PageSize]

NextPage == page' = [page EXCEPT !.got = @ \cup ToSet(Listing(page.next)),
                                 !.next = @ + PageSize,
                                 !.more = Len(stored) > page.next + PageSize]

ReadPage ==
    /\ Valid /\ Sweep
    /\ IF Blocking THEN UNCHANGED page ELSE IF page.more THEN NextPage ELSE FirstPage
    /\ UNCHANGED <<feedVars, brokerVars, sessionVars, linkVars, viewVars, strayed, trouble>>

-----------------------------------------------------------------------------
(* The dashboard: load, connect, receive, reconnect.                       *)

\* Seven requests, each through the gate; any failure but a 401 is final.
Load ==
    /\ phase = "loading"
    /\ Authenticate
    /\ IF Valid THEN Sweep ELSE UNCHANGED gateVars
    /\ \/ ~Valid /\ phase' = "login" /\ UNCHANGED <<shown, trouble>>
       \/ Valid /\ Blocking /\ phase' = "failed" /\ UNCHANGED <<shown, trouble>>
       \/ Valid /\ ~Blocking /\ phase' = "connecting" /\ shown' = Listing(0) /\ UNCHANGED trouble
       \/ /\ Valid /\ ~Blocking /\ Happens
          /\ phase' = "failed" /\ UNCHANGED shown
    /\ UNCHANGED <<feedVars, brokerVars, at, wire, cursor, last, gap, page, strayed>>

\* Bound: a route whose client is gone may be forgotten for a new connection.
Vacant == IF serving = Conn THEN Conn ELSE Conn \ serving

\* The stream route: authenticate, sweep, gate, subscribe.
Connect ==
    /\ phase = "connecting"
    /\ Authenticate
    /\ IF Valid THEN Sweep ELSE UNCHANGED gateVars
    /\ \/ ~Valid /\ phase' = "login" /\ UNCHANGED <<queue, listed, serving, at, wire>>
       \/ Valid /\ Blocking /\ phase' = "paused" /\ UNCHANGED <<queue, listed, serving, at, wire>>
       \/ Valid /\ ~Blocking /\ \E k \in Vacant : Subscribe(k)
    /\ UNCHANGED <<feedVars, published, viewVars, page, strayed, trouble>>

\* Mutant: an event moves lastSequence and is not added to the alerts.
Reduce_forgetful(e) ==
    \/ /\ e.seq <= last
       /\ UNCHANGED <<last, shown, gap>>
    \/ /\ last >= 0 /\ e.seq > last + 1
       /\ gap' = TRUE /\ UNCHANGED <<last, shown>>
    \/ /\ e.seq > last /\ (last < 0 \/ e.seq = last + 1)
       /\ last' = e.seq /\ gap' = FALSE
       /\ shown' = IF e.snapshot THEN e.alerts ELSE shown

\* The reducer.
Reduce(e) ==
    \/ /\ e.seq <= last
       /\ UNCHANGED <<last, shown, gap>>
    \/ /\ last >= 0 /\ e.seq > last + 1
       /\ gap' = TRUE /\ UNCHANGED <<last, shown>>
    \/ /\ e.seq > last /\ (last < 0 \/ e.seq = last + 1)
       /\ last' = e.seq /\ gap' = FALSE
       /\ shown' = IF e.snapshot THEN e.alerts ELSE e.alerts \o shown

Receive ==
    /\ phase = "open" /\ wire # <<>>
    /\ IF Head(wire) = Closed
         THEN Disconnected("waiting") /\ UNCHANGED viewVars
         ELSE /\ cursor' = Head(wire).seq /\ Reduce(Head(wire))
              /\ wire' = Tail(wire) /\ UNCHANGED <<phase, at>>
    /\ UNCHANGED <<feedVars, brokerVars, sessionVars, gateVars, page, strayed, trouble>>

Retry ==
    /\ phase = "waiting" /\ phase' = "connecting"
    /\ UNCHANGED <<feedVars, brokerVars, sessionVars, gateVars, at, wire, viewVars, page,
                   strayed, trouble>>

Drop ==
    /\ phase = "open" /\ Happens
    /\ Disconnected("waiting")
    /\ UNCHANGED <<feedVars, brokerVars, sessionVars, gateVars, viewVars, page, strayed>>

\* The poll of the enforcement status tears the stream down and sets it up again.
Poll ==
    /\ phase # "login" /\ Valid /\ Sweep
    /\ CASE Blocking                        -> Disconnected("blocked")
         [] ~Blocking /\ phase = "blocked"  -> Disconnected("loading")
         [] OTHER                           -> UNCHANGED linkVars
    /\ UNCHANGED <<feedVars, brokerVars, sessionVars, viewVars, page, strayed, trouble>>

Reload ==
    /\ phase # "login" /\ Happens
    /\ Disconnected("loading")
    /\ cursor' = -1 /\ last' = -1 /\ shown' = <<>> /\ gap' = FALSE /\ strayed' = FALSE
    /\ UNCHANGED <<feedVars, brokerVars, sessionVars, gateVars, page>>

\* The demonstration replay leaves its own last number behind; here, two events.
Demonstrate ==
    /\ phase = "open" /\ Happens
    /\ Disconnected("loading")
    /\ last' = 1 /\ gap' = FALSE /\ strayed' = TRUE
    /\ UNCHANGED <<feedVars, brokerVars, sessionVars, gateVars, cursor, shown, page>>

\* The process restarts: rows stay; sessions, emissions, history and posture do not.
Restart ==
    /\ Happens
    /\ held' = 0 /\ pending' = <<>> /\ taken' = <<>>
    /\ published' = <<>> /\ queue' = [k \in Conn |-> <<>>] /\ listed' = {} /\ serving' = {}
    /\ sessions' = <<>> /\ lapsed' = 0 /\ blocked' = FALSE /\ overdue' = FALSE
    /\ Disconnected(IF phase = "open" THEN "waiting" ELSE phase)
    /\ strayed' = (cursor >= 0 \/ last >= 0)
    /\ UNCHANGED <<made, stored, viewVars, page>>

Emit == ApiStores \/ ApiAppends \/ LoopEmits \/ Signal
Drain == DrainCopies \/ DrainClears
Serve == \E k \in Conn : Send(k)
Dashboard == Load \/ Connect \/ Receive \/ Retry

Next == \/ Emit \/ Drain \/ Serve \/ Dashboard
        \/ Lapse \/ OtherLogin \/ Login \/ Logout \/ PostureChanges \/ ReadPage
        \/ Drop \/ Poll \/ Reload \/ Demonstrate \/ Restart

Spec == Init /\ [][Next]_vars
Fairness == /\ WF_vars(ApiAppends) /\ WF_vars(DrainClears)
            /\ \A k \in Conn : WF_vars(Send(k))
            /\ WF_vars(Load) /\ WF_vars(Connect) /\ WF_vars(Receive) /\ WF_vars(Retry)
FairSpec == Spec /\ Fairness

-----------------------------------------------------------------------------
TypeOK ==
    /\ made \in 0 .. MaxAlerts /\ ToSet(stored) \subseteq 1 .. made
    /\ listed \subseteq serving /\ serving \subseteq Conn /\ at \in Conn \cup {NoConn}
    /\ Len(sessions) <= MaxSessions /\ lapsed \in 0 .. Len(sessions)
    /\ phase \in {"login", "loading", "connecting", "open", "waiting", "paused",
                  "failed", "blocked"}

\* What the server still owes an open connection is a snapshot or the event after the
\* dashboard's cursor, then every later event once and in order, up to the last: also
\* for a cursor older than the history, an event published between the subscription
\* and the first send, a queue that fills, and a restart.
StreamIsWhole ==
    (phase = "open" /\ at \in listed) =>
      LET due == [i \in DOMAIN wire |-> wire[i].seq] \o queue[at]
          first == IF wire # <<>> /\ wire[1].snapshot THEN wire[1].seq ELSE cursor + 1
      IN /\ \A i \in DOMAIN due : due[i] = first + i - 1
         /\ first + Len(due) = Sequence + 1

\* The dashboard shows every stored event of this process's stream up to its
\* lastSequence, unless enough newer rows push it off the list: across reconnections
\* with a cursor, replays, snapshots and fresh loads of the first page.
NothingMissed ==
    ~strayed =>
      \A n \in 1 .. last :
        LET row == SelectInSeq(stored, LAMBDA id : id = published[n])
        IN row # 0 => published[n] \in ToSet(shown) \/ Len(stored) - row >= PageSize

\* A reader that pages through the alerts to the end has read all there were when it
\* began, although rows are stored at the head of the list between its pages.
PagesCoverAll == page.next > 0 /\ ~page.more => page.due \subseteq page.got

\* A dashboard that may read keeps catching up with the stream: a full queue or a
\* lost connection ends in a reconnection that brings the rest.
CaughtUp == cursor = Sequence
Excused == phase \in {"login", "paused", "failed", "blocked"}
CatchesUp == []<>(CaughtUp \/ Excused)

(* Checked by hand: what does not hold.                                     *)
\* Every stored alert is published by the process that stored it, or still to be.
StoredIsPublished == (pending = <<>> /\ taken = <<>> /\ held = 0 /\ trouble = 0) =>
                        ToSet(stored) \subseteq ToSet(published) \cup 1 .. Before
AlertShownOnce == ~strayed => IsInjective(shown)
\* A snapshot restores the dashboard ("bounded replay/snapshots restore dashboard
\* consistency after reconnect").
SnapshotRestores ==
    [][(phase = "open" /\ phase' = "open" /\ ~strayed /\ wire # <<>> /\ wire' = Tail(wire)
          /\ Head(wire).snapshot)
         => last' = Head(wire).seq /\ ~gap']_vars
\* After a restart, too, a dashboard that has caught up shows the newest alert.
RestartIsShown == (phase = "open" /\ wire = <<>> /\ cursor = Sequence /\ ~gap /\ stored # <<>>
                     /\ Sequence > 0 /\ Last(published) = Last(stored))
                  => Last(stored) \in ToSet(shown)
\* "Live update gap detected; resynchronizing."
GapResynchronizes == gap ~> ~gap
\* A pause ends once nothing blocks and the dashboard has polled.
PauseEnds == WF_vars(Poll) => (phase = "paused" ~> phase # "paused" \/ Blocking \/ ~Valid)
\* What the stream carries is protected like any other resource.
StreamIsGated == [][\A k \in Conn : Send(k) /\ wire' # wire /\ Last(wire') # Closed =>
                      Valid /\ ~Blocking]_vars
=============================================================================
