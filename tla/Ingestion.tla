------------------------------ MODULE Ingestion ------------------------------
(***************************************************************************)
(* From decoded payloads to stored windows: the pipeline                   *)
(* (ingestion/pipeline.py), its sessions and segments                      *)
(* (ingestion/sessions.py), the window builders (ml/features/windowing.py) *)
(* and the orchestrator's sinks (runtime/orchestrator.py), run by the pipe *)
(* loop (runtime/service.py).                                              *)
(*                                                                         *)
(* All of it runs on one event loop, a chunk at a time.  What makes it     *)
(* hard is that memory moves ahead of the database: an event has changed   *)
(* the session when its sinks are called, one after another, and the first *)
(* one that raises abandons the others and the rest of the chunk.  The     *)
(* sinks still to be called are a sequence here, and each may raise,       *)
(* before or after its row is committed.                                   *)
(*                                                                         *)
(* The numbers of a payload and the tracker are CollectorLink's matter:    *)
(* what is decoded here is the next payload, and those that are abandoned  *)
(* or refused leave a gap that the next one finds.                         *)
(***************************************************************************)
EXTENDS Integers, Sequences, FiniteSets, Functions

CONSTANTS
  None,
  IdleSplit,     \* sessions.idle_split_us
  WindowSpan,    \* window_seconds
  WindowKeys,    \* window_keystrokes
  MaxPayloads,   \* bound: payloads decoded
  MaxChunk,      \* bound: payloads in a chunk
  MaxSessions,   \* bound: processes, each with one session
  MaxTrouble     \* bound: sinks and pipe reads that fail

ASSUME IngestionAssumption ==
  /\ None \notin Nat
  /\ {IdleSplit, WindowSpan, WindowKeys} \subseteq Nat \ {0}
  /\ {MaxPayloads, MaxChunk, MaxSessions, MaxTrouble} \subseteq Nat

VARIABLES
  pc,        \* "down", "starting", "reading", "feeding", "recovering", "ending"
  calls,     \* the sinks still to be called for what is being done
  left,      \* payloads of the chunk still to be decoded
  codes,     \* _active_failures
  cause,     \* the code of the failure being recovered from
  session,   \* the active session, or 0
  drill,     \* whether this process has a drill label
  segment,   \* its current segment, or 0
  opened,    \* how many segment ids the factory has given out
  heard,     \* last_event_us, or None
  input,     \* last_input_us, or None
  builders,  \* the open window builders: segment -> what is pending
  missing,   \* counters.missing_sequences
  baseline,  \* _segment_gap_baseline: segment -> missing when it started
  sessions,  \* sessions and drill_sessions: session -> [drill, ended]
  segments,  \* segments: segment -> [session, ended]
  windows,   \* feature_windows
  cands,     \* candidates submitted: segment -> unexplained_gap
  payloads,  \* how many payloads have been decoded or abandoned
  now,       \* the capture time of the last one
  skipped,   \* how many were not observed since the last that was
  seen,      \* ghost: the input events attributed: payload -> [segment, t]
  trouble,   \* ghost: how many sinks and reads have failed
  broken,    \* ghost: the segments that were current when a sink raised
  alerted,   \* ghost: an alert was published since the last successful read
  known      \* ghost: the broken segments for which an alert stands

loopVars   == <<pc, calls, left, codes, cause>>
memoryVars == <<session, drill, segment, heard, input, builders, missing, baseline>>
tableVars  == <<sessions, segments, windows, cands>>
feedVars   == <<payloads, now, opened, skipped, seen>>
ghostVars  == <<trouble, broken, alerted, known>>
vars == <<loopVars, memoryVars, tableVars, feedVars, ghostVars>>

Kinds == {"key", "mouse", "other", "bad"}
Nothing == [start |-> 0, keys |-> 0, evs |-> {}]
Empty == [x \in {} |-> x]

Init ==
  /\ pc = "down" /\ calls = <<>> /\ left = 0 /\ codes = {} /\ cause = None
  /\ session = 0 /\ drill = FALSE /\ segment = 0 /\ heard = None /\ input = None
  /\ builders = Empty /\ missing = 0 /\ baseline = Empty
  /\ sessions = Empty /\ segments = Empty /\ windows = {} /\ cands = Empty
  /\ payloads = 0 /\ now = 0 /\ opened = 0 /\ skipped = 0 /\ seen = Empty
  /\ trouble = 0 /\ broken = {} /\ alerted = FALSE /\ known = {}

Without(f, x) == Restrict(f, DOMAIN f \ {x})
With(f, x, y) == [z \in DOMAIN f \cup {x} |-> IF z = x THEN y ELSE f[z]]
-----------------------------------------------------------------------------
(* Sessions.                                                               *)

(* Mutant: the session is declared when it is over.                        *)
StartSession_undeclared(isDrill) ==
  LET id == Cardinality(DOMAIN sessions) + 1 IN
  /\ pc = "down" /\ id <= MaxSessions
  /\ pc' = "starting"
  /\ session' = id /\ drill' = isDrill
  /\ segment' = 0 /\ heard' = None /\ input' = None
  /\ builders' = Empty /\ baseline' = Empty /\ missing' = 0 /\ skipped' = 0
  /\ calls' = <<[do |-> "createSession"], [do |-> "anchor"]>>
  /\ codes' = {} /\ alerted' = FALSE
  /\ UNCHANGED <<left, cause, tableVars, payloads, now, opened, seen, trouble, broken, known>>

(* start_authenticated_session, to the end of which the application starts *)
(* up.  SessionManager has the session before its row is written.          *)
StartSession(isDrill) ==
  LET id == Cardinality(DOMAIN sessions) + 1 IN
  /\ pc = "down" /\ id <= MaxSessions
  /\ pc' = "starting"
  /\ session' = id /\ drill' = isDrill
  /\ segment' = 0 /\ heard' = None /\ input' = None
  /\ builders' = Empty /\ baseline' = Empty /\ missing' = 0 /\ skipped' = 0
  /\ calls' = <<[do |-> "createSession"], [do |-> IF isDrill THEN "declareDrill" ELSE "anchor"]>>
  /\ codes' = {} /\ alerted' = FALSE
  /\ UNCHANGED <<left, cause, tableVars, payloads, now, opened, seen, trouble, broken, known>>

Started ==
  /\ pc = "starting" /\ calls = <<>>
  /\ pc' = "reading"
  /\ UNCHANGED <<calls, left, codes, cause, memoryVars, tableVars, feedVars, ghostVars>>

(* Mutant: the candidate is submitted as soon as the segment ends.         *)
Ending_hasty(s) ==
  <<[do |-> "submit", seg |-> s], [do |-> "flush", seg |-> s], [do |-> "endSegment", seg |-> s]>>

(* The calls that end segment s: what its builder holds is a last window.  *)
Ending(s) ==
  <<[do |-> "flush", seg |-> s], [do |-> "endSegment", seg |-> s], [do |-> "submit", seg |-> s]>>

(* Mutant: the session is ended before its segment.                        *)
Stop_outermost ==
  /\ pc = "reading"
  /\ pc' = "ending"
  /\ calls' = <<[do |-> "endSession"]>> \o (IF segment = 0 THEN <<>> ELSE Ending(segment))
  /\ UNCHANGED <<left, codes, cause, memoryVars, tableVars, feedVars, ghostVars>>

(* service.stop: the pipe is closed and the session ends, in memory first. *)
Stop ==
  /\ pc = "reading"
  /\ pc' = "ending"
  /\ calls' = (IF segment = 0 THEN <<>> ELSE Ending(segment)) \o <<[do |-> "endSession"]>>
  /\ UNCHANGED <<left, codes, cause, memoryVars, tableVars, feedVars, ghostVars>>

Forgotten ==
  /\ calls' = <<>> /\ left' = 0
  /\ session' = 0 /\ segment' = 0 /\ builders' = Empty /\ baseline' = Empty

Ended ==
  /\ pc = "ending" /\ calls = <<>>
  /\ pc' = "down" /\ Forgotten
  /\ UNCHANGED <<codes, cause, drill, heard, input, missing, tableVars, feedVars, ghostVars>>

Crash ==
  /\ pc # "down"
  /\ pc' = "down" /\ Forgotten
  /\ UNCHANGED <<codes, cause, drill, heard, input, missing, tableVars, feedVars, ghostVars>>
-----------------------------------------------------------------------------
(* The pipe loop.                                                          *)

(* A chunk of whole payloads; with none of them, the client has gone and   *)
(* the partial frame it leaves may be an issue to alert of.                *)
Read ==
  /\ pc = "reading"
  /\ \E n \in 0 .. MaxChunk :
       /\ payloads + n <= MaxPayloads
       /\ left' = n
       /\ calls' \in IF n = 0 THEN {<<>>, <<[do |-> "alert"]>>} ELSE {<<>>}
  /\ pc' = "feeding"
  /\ UNCHANGED <<codes, cause, memoryVars, tableVars, feedVars, ghostVars>>

PipeCodes == {"COLLECTOR_PIPE_UNAVAILABLE", "RUNTIME_PIPELINE_FAILED",
              "TRANSPORT_RECOVERY_FAILED"}

(* Mutant: a failure once signalled is never signalled again.              *)
Fed_once ==
  /\ pc = "feeding" /\ calls = <<>> /\ left = 0
  /\ pc' = "reading"
  /\ alerted' = FALSE
  /\ UNCHANGED <<calls, left, codes, cause, memoryVars, tableVars, feedVars, trouble, broken,
                 known>>

(* A chunk fed to its end re-arms the signals of the loop.                 *)
Fed ==
  /\ pc = "feeding" /\ calls = <<>> /\ left = 0
  /\ pc' = "reading"
  /\ codes' = codes \ PipeCodes
  /\ alerted' = FALSE
  /\ UNCHANGED <<calls, left, cause, memoryVars, tableVars, feedVars, trouble, broken, known>>

PipeError ==
  /\ pc = "reading" /\ trouble < MaxTrouble
  /\ trouble' = trouble + 1
  /\ pc' = "recovering" /\ cause' = "COLLECTOR_PIPE_UNAVAILABLE"
  /\ UNCHANGED <<calls, left, codes, memoryVars, tableVars, feedVars, broken, alerted, known>>

(* _recover_transport and _signal_availability: a code is signalled once.  *)
Signal(new) ==
  /\ codes' = codes \cup new
  /\ alerted' = (alerted \/ ~(new \subseteq codes))
  /\ known' = IF alerted' THEN known \cup broken ELSE known

(* Recovery discards a partial frame, and its alert may raise.             *)
Recover ==
  /\ pc = "recovering"
  /\ pc' = "reading"
  /\ \/ Signal({cause}) /\ UNCHANGED trouble
     \/ trouble < MaxTrouble /\ trouble' = trouble + 1
        /\ Signal({cause, "TRANSPORT_RECOVERY_FAILED"})
  /\ UNCHANGED <<calls, left, cause, memoryVars, tableVars, feedVars, broken>>
-----------------------------------------------------------------------------
(* One payload of the chunk: validate_payload, observe, attribute.         *)

Advance(t) ==
  /\ pc = "feeding" /\ calls = <<>> /\ left > 0
  /\ left' = left - 1 /\ payloads' = payloads + 1
  /\ now' = t

(* A payload that is no C1 event is counted and alerted of.                *)
Reject(t) ==
  /\ Advance(t)
  /\ skipped' = skipped + 1
  /\ calls' = <<[do |-> "alert"]>>
  /\ UNCHANGED <<pc, codes, cause, memoryVars, tableVars, opened, seen, ghostVars>>

IsInput(kind) == kind \in {"key", "mouse"}

(* Mutant: whatever arrives keeps the segment open.                        *)
Idle_heard(kind, t) == IsInput(kind) /\ heard # None /\ t - heard > IdleSplit

(* Only input ends an idle gap, and only input is missed in one.           *)
Idle(kind, t) == IsInput(kind) /\ input # None /\ t - input > IdleSplit

(* SessionManager.attribute: the segment is a new one when it is idle or   *)
(* when there is none; the sinks are told afterwards.                      *)
Attribute(kind, t) ==
  LET idle == Idle(kind, t)
      opens == segment = 0 \/ idle
      id == IF opens THEN opened + 1 ELSE segment
  IN /\ segment' = id
     /\ opened' = IF opens THEN id ELSE opened
     /\ heard' = t
     /\ input' = IF IsInput(kind) THEN t ELSE input
     /\ seen' = IF IsInput(kind)
                  THEN With(seen, payloads', [seg |-> id, t |-> t, session |-> session,
                                              drill |-> drill])
              ELSE seen
     /\ calls' = (IF idle /\ segment # 0 THEN Ending(segment) ELSE <<>>)
                 \o (IF opens THEN <<[do |-> "createSegment", seg |-> id]>> ELSE <<>>)
                 \o <<[do |-> "event", seg |-> id, kind |-> kind, t |-> t, n |-> payloads']>>

Accept(kind, t) ==
  /\ Advance(t)
  /\ missing' = IF heard = None THEN missing ELSE missing + skipped
  /\ skipped' = 0
  /\ Attribute(kind, t)
  /\ UNCHANGED <<pc, codes, cause, session, drill, builders, baseline, tableVars, ghostVars>>
-----------------------------------------------------------------------------
(* The sinks: what each leaves in the tables, and then in memory.          *)

Window(c) == [seg |-> c.seg, evs |-> c.evs]

(* end_segment raises unless it closes an open row.                        *)
Refused(c) == c.do = "endSegment" /\ ~(c.seg \in DOMAIN segments /\ ~segments[c.seg].ended)

Write(c) ==
  \/ /\ c.do = "createSession"
     /\ sessions' = With(sessions, session, [drill |-> FALSE, ended |-> FALSE])
     /\ UNCHANGED <<segments, windows, cands>>
  \/ /\ c.do = "declareDrill"
     /\ sessions' = [sessions EXCEPT ![session].drill = TRUE]
     /\ UNCHANGED <<segments, windows, cands>>
  \/ /\ c.do = "createSegment"
     /\ segments' = With(segments, c.seg, [session |-> session, ended |-> FALSE])
     /\ UNCHANGED <<sessions, windows, cands>>
  \/ /\ c.do = "window"
     /\ windows' = windows \cup {Window(c)}
     /\ UNCHANGED <<sessions, segments, cands>>
  \/ /\ c.do = "endSegment"
     /\ segments' = [segments EXCEPT ![c.seg].ended = TRUE]
     /\ UNCHANGED <<sessions, windows, cands>>
  \/ /\ c.do = "submit" /\ ~drill
     /\ cands' = With(cands, c.seg, c.seg \in DOMAIN baseline /\ missing > baseline[c.seg])
     /\ UNCHANGED <<sessions, segments, windows>>
  \/ /\ c.do = "endSession"
     /\ sessions' = [sessions EXCEPT ![session].ended = TRUE]
     /\ UNCHANGED <<segments, windows, cands>>
  \/ /\ c.do \in {"anchor", "alert", "flush", "event"} \/ (c.do = "submit" /\ drill)
     /\ UNCHANGED tableVars

(* WindowBuilder.push_events: what a builder holds after an event, and     *)
(* whether the window closes with it.                                      *)
Pushed(p, e) ==
  [start |-> IF p.evs = {} THEN e.t ELSE p.start,
   keys |-> p.keys + (IF e.kind = "key" THEN 1 ELSE 0),
   evs |-> p.evs \cup {e.n}]
Full(p, e) == p.keys >= WindowKeys \/ e.t - p.start >= WindowSpan

Closed(s, p) == <<[do |-> "window", seg |-> s, evs |-> p.evs]>>

(* The event sink.  Without a builder the event goes nowhere.              *)
Push(c) ==
  IF IsInput(c.kind) /\ c.seg \in DOMAIN builders
  THEN LET p == Pushed(builders[c.seg], c)
       IN IF Full(p, c)
          THEN /\ builders' = With(builders, c.seg, Nothing)
               /\ calls' = Closed(c.seg, p) \o Tail(calls)
          ELSE builders' = With(builders, c.seg, p) /\ calls' = Tail(calls)
  ELSE UNCHANGED builders /\ calls' = Tail(calls)

(* What a builder still holds is a last window, however thin.              *)
Flush(c) ==
  /\ builders' = Without(builders, c.seg)
  /\ calls' = IF c.seg \in DOMAIN builders /\ builders[c.seg].evs # {}
              THEN Closed(c.seg, builders[c.seg]) \o Tail(calls) ELSE Tail(calls)

Remember(c) ==
  \/ /\ c.do = "createSegment"
     /\ builders' = With(builders, c.seg, Nothing)
     /\ baseline' = With(baseline, c.seg, missing)
     /\ calls' = Tail(calls)
  \/ c.do = "event" /\ Push(c) /\ UNCHANGED baseline
  \/ c.do = "flush" /\ Flush(c) /\ UNCHANGED baseline
  \/ /\ c.do = "submit"
     /\ baseline' = Without(baseline, c.seg)
     /\ calls' = Tail(calls) /\ UNCHANGED builders
  \/ /\ c.do \notin {"createSegment", "event", "flush", "submit"}
     /\ calls' = Tail(calls) /\ UNCHANGED <<builders, baseline>>

Call ==
  /\ calls # <<>> /\ ~Refused(Head(calls))
  /\ Write(Head(calls)) /\ Remember(Head(calls))
  /\ UNCHANGED <<pc, left, codes, cause, session, drill, segment, heard, input, missing,
                 feedVars, ghostVars>>

(* _submit_segment_candidate gives up on an error and alerts of it.        *)
GiveUp ==
  /\ calls # <<>> /\ Head(calls).do = "submit" /\ ~drill /\ trouble < MaxTrouble
  /\ trouble' = trouble + 1
  /\ baseline' = Without(baseline, Head(calls).seg)
  /\ calls' = <<[do |-> "alert"]>> \o Tail(calls)
  /\ UNCHANGED <<pc, left, codes, cause, session, drill, segment, heard, input, builders, missing,
                 tableVars, feedVars, broken, alerted, known>>

(* A sink raises: the calls after it and the rest of the chunk are never   *)
(* made.  While the process starts or ends, it goes down with it.          *)
Raise ==
  /\ calls # <<>>
  /\ LET c == Head(calls) IN
     /\ c.do \notin {"flush", "submit"}
     /\ IF Refused(c) THEN UNCHANGED <<trouble, tableVars>>
        ELSE /\ trouble < MaxTrouble
             /\ trouble' = trouble + 1
             /\ Write(c) \/ UNCHANGED tableVars
     /\ c.do = "event" => ~IsInput(c.kind)
     /\ broken' = broken \cup {segment} \cup {c.seg : x \in DOMAIN c \cap {"seg"}}
  /\ skipped' = skipped + left /\ payloads' = payloads + left
  /\ IF pc = "feeding"
     THEN /\ pc' = "recovering" /\ cause' = "RUNTIME_PIPELINE_FAILED"
          /\ calls' = <<>> /\ left' = 0
          /\ UNCHANGED <<session, segment, builders, baseline>>
     ELSE pc' = "down" /\ Forgotten /\ UNCHANGED cause
  /\ UNCHANGED <<codes, drill, heard, input, missing, now, opened, seen, alerted, known>>

(* Time passes between captures: within a window, past one, or idle.       *)
Gaps == {1, IdleSplit + 1}

Next ==
  \/ \E isDrill \in BOOLEAN : StartSession(isDrill)
  \/ Started \/ Stop \/ Ended \/ Crash
  \/ Read \/ Fed \/ PipeError \/ Recover
  \/ \E kind \in Kinds \ {"bad"}, gap \in Gaps : Accept(kind, now + gap)
  \/ Reject(now + 1)
  \/ Call \/ GiveUp \/ Raise

Spec == Init /\ [][Next]_vars
-----------------------------------------------------------------------------
(* What the windows say happened.                                          *)

(* A window holds inputs of one segment, all of them between its first and *)
(* its last, none more than the idle limit after the one before, and no    *)
(* input is in two: "Segmenting on idle boundaries confines each trusted   *)
(* unit to a period of continuous observed presence" (PLAN.md, ADR-007).   *)
WindowsAreWhole ==
  \A w \in windows :
    /\ \A m, n \in w.evs : \A k \in DOMAIN seen : m < k /\ k < n => k \in w.evs
    /\ \A m, n \in w.evs :
         m < n => \E k \in w.evs : m < k /\ k <= n /\ seen[k].t - seen[m].t <= IdleSplit
    /\ \A n \in w.evs : seen[n].seg = w.seg
    /\ \A v \in windows : v # w => v.evs \cap w.evs = {}

(* A candidate speaks for its whole segment: from then on no window of the *)
(* segment is stored and it is not submitted again, whatever raises.       *)
SettledWhenSubmitted ==
  [][\A s \in DOMAIN cands :
       /\ cands'[s] = cands[s]
       /\ {w \in windows' : w.seg = s} = {w \in windows : w.seg = s}
       /\ s \in DOMAIN segments' /\ segments'[s].ended]_vars

(* "A drill cannot be accidentally unlabelled" (RuntimeOrchestrator): what *)
(* is stored of a drill belongs to a session declared as one, what is      *)
(* stored otherwise does not, and a drill leaves no candidate.             *)
DrillIsDeclared ==
  \A w \in windows, n \in DOMAIN seen :
    n \in w.evs => /\ sessions[segments[w.seg].session].drill = seen[n].drill
                   /\ seen[n].drill => w.seg \notin DOMAIN cands

Held(n) ==
  \/ \E w \in windows : n \in w.evs
  \/ \E s \in DOMAIN builders : n \in builders[s].evs

(* An input that a running process has taken and no longer has is missing  *)
(* from a segment in which a sink raised, and an alert was published for   *)
(* that: "Emit a content-free recovery signal even when persistence is     *)
(* unavailable" (_signal_availability), once for a failure that repeats,   *)
(* and again for one that comes back.                                      *)
LossIsKnown ==
  pc = "reading" =>
    \A n \in DOMAIN seen : seen[n].session = session => Held(n) \/ seen[n].seg \in known

(* The row of a session is ended only when all its segments are: after a   *)
(* sink has raised at a boundary the session stays open in the table, and  *)
(* never looks complete.                                                   *)
EndedToTheLast ==
  \A s \in DOMAIN segments : sessions[segments[s].session].ended => segments[s].ended

(* Contradicted by the code.                                               *)

(* "A segment ends when idle time exceeds IDLE_SPLIT_THRESHOLD [...] and a *)
(* new segment opens on resumption" (PLAN.md, ADR-007).                    *)
NewSegmentOpens == ~(pc = "feeding" /\ calls # <<>> /\ Refused(Head(calls)))

(* PLAN.md 12.1, G4: a candidate without a gap is the whole segment.       *)
CleanCandidateIsWhole ==
  \A s \in DOMAIN cands : ~cands[s] =>
    \A n \in DOMAIN seen : seen[n].seg = s => \E w \in windows : n \in w.evs
=============================================================================
