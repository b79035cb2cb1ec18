---------------------------- MODULE CollectorLink ----------------------------
(***************************************************************************)
(* From the native collector's main loop (collector/src/main.cpp) through  *)
(* its bounded buffer and the named pipe to the backend's frame decoder    *)
(* (ingestion/framing.py), sequence tracker and event sink, with the pipe  *)
(* loop that recovers from their failures (runtime/service.py).            *)
(*                                                                         *)
(* The collector is one thread: hook callbacks run inside its poll, so     *)
(* nothing is captured while it sends.  The backend's event loop is        *)
(* another process; they meet in the pipe alone.                           *)
(*                                                                         *)
(* A frame is two pieces of the byte stream, so that a read or a failure   *)
(* may fall inside it.  A piece that is not where a header should be is    *)
(* JSON text read as a length, far above max_frame_bytes: the decoder      *)
(* reports OVERSIZED_FRAME and drops everything it has buffered.           *)
(***************************************************************************)
EXTENDS SequenceTracker, Sequences, FiniteSets

CONSTANTS
  Capacity,     \* buffer_capacity
  Policies,     \* the values of overload_policy considered
  PipeSpace,    \* pieces the pipe's buffer holds
  Events,       \* bound: events the collector's first run captures
  Again,        \* bound: events each later run captures
  Crashes,      \* bound: times the collector is killed and restarted
  Faults        \* may reads fail and sinks raise?

Kind == {"input", "context", "heartbeat"}

ASSUME LinkAssumption ==
  /\ Capacity \in Nat \ {0} /\ PipeSpace \in Nat \ {0, 1}
  /\ Events \in Nat \ {0} /\ Again \in 0 .. Events /\ Crashes \in Nat
  /\ Policies \subseteq {"DROP_OLDEST", "DROP_NEWEST"} /\ Faults \in BOOLEAN
  /\ None \notin Nat \cup [run : Nat, seq : Nat, t : Nat, kind : Kind]

VARIABLES
  policy,     \* overload_policy
  at,         \* where the loop is
  clock,      \* capture clock; it survives a restart of the collector
  now,        \* now_us of this turn of the loop
  sequence,   \* EventPublisher::sequence_
  buffer,     \* BoundedBuffer
  pending,    \* the frame being sent, or None
  client,     \* transport->connected()
  server,     \* the pipe instance: "none", "listening" or "serving" a client
  wire,       \* pieces written and not yet read
  chunk,      \* pieces read and not yet decoded
  held,       \* the incomplete frame in the decoder, or None
  crashes,    \* ghost: restarts of the collector so far
  lost        \* ghost: numbers of this run that no tracker will see

collectorVars == <<policy, at, clock, now, sequence, buffer, pending>>
pipeVars      == <<client, server, wire>>
decoderVars   == <<chunk, held>>
vars == <<collectorVars, pipeVars, decoderVars, trackerVars, crashes, lost>>

Captures == 0 .. Events + Again * Crashes
Budget   == IF crashes = 0 THEN Events ELSE Again
Event    == [run : 0 .. Crashes, seq : 0 .. Events - 1, t : Captures,
             kind : Kind]
Piece    == [event : Event, part : {1, 2}]

TypeOK ==
  /\ policy \in Policies
  /\ at \in {"wake", "emit", "connect", "send", "poll"}
  /\ clock \in Captures /\ now \in Captures
  /\ sequence \in 0 .. Events
  /\ buffer \in Seq(Event) /\ Len(buffer) <= Capacity
  /\ pending \in Event \cup {None}
  /\ client \in BOOLEAN /\ server \in {"none", "listening", "serving"}
  /\ wire \in Seq(Piece) /\ Len(wire) <= PipeSpace
  /\ chunk \in Seq(Piece) /\ held \in Event \cup {None}
  /\ TrackerTypeOK(Captures)
  /\ crashes \in 0 .. Crashes
  /\ lost \in SUBSET (0 .. Events - 1)

Init ==
  /\ policy \in Policies
  /\ at = "wake" /\ clock = 0 /\ now = 0 /\ sequence = 0
  /\ buffer = <<>> /\ pending = None
  /\ client = FALSE /\ server = "none" /\ wire = <<>>
  /\ chunk = <<>> /\ held = None
  /\ TrackerInit
  /\ crashes = 0 /\ lost = {}

(* Numbers of this run's frames whose last piece is in s.                  *)
Ends(s)  == {i \in 1 .. Len(s) : s[i].part = 2 /\ s[i].event.run = crashes}
Lose(s)  == lost' = lost \cup {s[i].event.seq : i \in Ends(s)}
Frame(e) == <<[event |-> e, part |-> 1], [event |-> e, part |-> 2]>>
-----------------------------------------------------------------------------
(* The collector.                                                          *)

(* Mutant: an overwritten event gives its number back.                     *)
Publish_renumbered(kind, t) ==
  LET e    == [run |-> crashes, seq |-> sequence, t |-> t, kind |-> kind]
      full == Len(buffer) = Capacity
  IN /\ sequence < Budget
     /\ sequence' = IF full THEN sequence ELSE sequence + 1
     /\ buffer' = IF ~full THEN Append(buffer, e)
                  ELSE IF policy = "DROP_OLDEST" THEN Append(Tail(buffer), e) ELSE buffer
     /\ lost' = IF full
                THEN lost \cup {IF policy = "DROP_OLDEST" THEN Head(buffer).seq ELSE sequence}
                ELSE lost

(* EventPublisher numbers an event and pushes it; when the buffer is full  *)
(* the policy says which event goes.                                       *)
Publish(kind, t) ==
  LET e    == [run |-> crashes, seq |-> sequence, t |-> t, kind |-> kind]
      full == Len(buffer) = Capacity
  IN /\ sequence < Budget
     /\ sequence' = sequence + 1
     /\ buffer' = IF ~full THEN Append(buffer, e)
                  ELSE IF policy = "DROP_OLDEST" THEN Append(Tail(buffer), e) ELSE buffer
     /\ lost' = IF full
                THEN lost \cup {IF policy = "DROP_OLDEST" THEN Head(buffer).seq ELSE sequence}
                ELSE lost

(* A capture takes place at or after the one before it.                    *)
Capture(kind) ==
  \E t \in {clock, clock + 1} : clock' = t /\ Publish(kind, t)

Wake ==
  /\ at = "wake"
  /\ at' = "emit"
  /\ now' = clock
  /\ UNCHANGED <<policy, clock, sequence, buffer, pending, pipeVars,
                 decoderVars, trackerVars, crashes, lost>>

(* A focus change or device metadata that is due, captured as it is found. *)
EmitContext ==
  /\ at = "emit"
  /\ Capture("context")
  /\ UNCHANGED <<policy, at, now, pending, pipeVars, decoderVars, trackerVars,
                 crashes>>

(* A heartbeat that is due carries the time at which this turn began.      *)
EmitHeartbeat ==
  /\ at = "emit"
  /\ at' = "connect"
  /\ Publish("heartbeat", now)
  /\ UNCHANGED <<policy, clock, now, pending, pipeVars, decoderVars,
                 trackerVars, crashes>>

NothingDue ==
  /\ at = "emit"
  /\ at' = "connect"
  /\ UNCHANGED <<policy, clock, now, sequence, buffer, pending, pipeVars,
                 decoderVars, trackerVars, crashes, lost>>

Connect ==
  /\ at = "connect" /\ ~client
  /\ server = "listening"
  /\ client' = TRUE /\ server' = "serving"
  /\ at' = "send"
  /\ UNCHANGED <<policy, clock, now, sequence, buffer, pending, wire,
                 decoderVars, trackerVars, crashes, lost>>

(* Connected already, no server to connect to, or still backing off.       *)
SkipConnect ==
  /\ at = "connect"
  /\ at' = "send"
  /\ UNCHANGED <<policy, clock, now, sequence, buffer, pending, pipeVars,
                 decoderVars, trackerVars, crashes, lost>>

TakePending ==
  /\ at = "send" /\ client /\ pending = None /\ buffer # <<>>
  /\ pending' = Head(buffer)
  /\ buffer' = Tail(buffer)
  /\ UNCHANGED <<policy, at, clock, now, sequence, pipeVars, decoderVars,
                 trackerVars, crashes, lost>>

(* Mutant: pending is not reset after a send.                              *)
SendFrame_again ==
  /\ at = "send" /\ client /\ pending # None
  /\ server = "serving" /\ Len(wire) + 2 <= PipeSpace
  /\ wire' = wire \o Frame(pending)
  /\ at' = "poll"
  /\ UNCHANGED <<policy, clock, now, sequence, buffer, pending, client, server,
                 decoderVars, trackerVars, crashes, lost>>

(* The write blocks until the pipe has room for all of the frame.          *)
SendFrame ==
  /\ at = "send" /\ client /\ pending # None
  /\ server = "serving" /\ Len(wire) + 2 <= PipeSpace
  /\ wire' = wire \o Frame(pending)
  /\ pending' = None
  /\ UNCHANGED <<policy, at, clock, now, sequence, buffer, client, server,
                 decoderVars, trackerVars, crashes, lost>>

(* A write under way ends with none or some of the frame in the pipe.      *)
CutShort ==
  /\ server = "serving" /\ Len(wire) < PipeSpace
  /\ wire' \in {wire, Append(wire, Frame(pending)[1])}

(* A write fails, of its own or because the server has gone, with none or  *)
(* some of the frame written; the frame stays pending and is sent whole on *)
(* the next connection.                                                    *)
SendFails ==
  /\ at = "send" /\ client /\ pending # None
  /\ \/ CutShort
     \/ server # "serving" /\ UNCHANGED wire
  /\ client' = FALSE
  /\ at' = "poll"
  /\ UNCHANGED <<policy, clock, now, sequence, buffer, pending, server,
                 decoderVars, trackerVars, crashes, lost>>

SendDone ==
  /\ at = "send" /\ (~client \/ (pending = None /\ buffer = <<>>))
  /\ at' = "poll"
  /\ UNCHANGED <<policy, clock, now, sequence, buffer, pending, pipeVars,
                 decoderVars, trackerVars, crashes, lost>>

(* A hook callback, run inside the poll.                                   *)
Hook ==
  /\ at = "poll"
  /\ Capture("input")
  /\ UNCHANGED <<policy, at, now, pending, pipeVars, decoderVars, trackerVars,
                 crashes>>

PollDone ==
  /\ at = "poll"
  /\ at' = "wake"
  /\ UNCHANGED <<policy, clock, now, sequence, buffer, pending, pipeVars,
                 decoderVars, trackerVars, crashes, lost>>

(* Killed at any point and started again: numbering begins at zero, what   *)
(* it had buffered is gone and what it had written can still be read.      *)
Restart ==
  /\ crashes < Crashes
  /\ crashes' = crashes + 1
  /\ at' = "wake" /\ sequence' = 0 /\ buffer' = <<>> /\ pending' = None
  /\ client' = FALSE
  /\ IF at = "send" /\ client /\ pending # None /\ server = "serving" /\ Len(wire) < PipeSpace
     THEN CutShort ELSE UNCHANGED wire
  /\ lost' = {}
  /\ UNCHANGED <<policy, clock, now, server, decoderVars, trackerVars>>
-----------------------------------------------------------------------------
(* The backend.                                                            *)

(* A process starts with an authenticated session, which resets ordering.  *)
StartBackend ==
  /\ server = "none"
  /\ server' = "listening"
  /\ UNCHANGED <<collectorVars, client, wire, decoderVars, trackerVars, crashes,
                 lost>>

StopBackend ==
  /\ server # "none"
  /\ server' = "none"
  /\ wire' = <<>> /\ chunk' = <<>> /\ held' = None
  /\ Lose(chunk \o wire)
  /\ Reset
  /\ UNCHANGED <<collectorVars, client, crashes>>

(* ReadFile returns some of what has been written, in order.               *)
Read ==
  /\ server = "serving" /\ chunk = <<>> /\ wire # <<>>
  /\ \E n \in 1 .. Len(wire) :
       /\ chunk' = SubSeq(wire, 1, n)
       /\ wire' = SubSeq(wire, n + 1, Len(wire))
  /\ UNCHANGED <<collectorVars, client, server, held, trackerVars, crashes,
                 lost>>

(* The client has closed its end and everything it wrote has been read:    *)
(* the partial frame is discarded and the instance listens again.          *)
Disconnect ==
  /\ server = "serving" /\ ~client /\ wire = <<>> /\ chunk = <<>>
  /\ server' = "listening"
  /\ held' = None
  /\ UNCHANGED <<collectorVars, client, wire, chunk, trackerVars, crashes,
                 lost>>

(* Another read error: the transport is recovered, and the connection      *)
(* stays what it was.                                                      *)
ReadError ==
  /\ Faults
  /\ server = "serving" /\ chunk = <<>>
  /\ held' = None
  /\ UNCHANGED <<collectorVars, pipeVars, chunk, trackerVars, crashes, lost>>

DecodeStart ==
  /\ chunk # <<>> /\ Head(chunk).part = 1
  /\ held' = Head(chunk).event
  /\ chunk' = Tail(chunk)
  /\ UNCHANGED <<collectorVars, pipeVars, trackerVars, crashes, lost>>

(* A whole frame is observed; if it is accepted, its sink may raise, and   *)
(* then neither the rest of the chunk nor a partial frame after it is ever *)
(* decoded.                                                                *)
DecodeEnd ==
  /\ chunk # <<>> /\ Head(chunk).part = 2 /\ held # None
  /\ held' = None
  /\ Observe(held)
  /\ \/ chunk' = Tail(chunk) /\ UNCHANGED lost
     \/ Faults /\ verdict' = "accepted" /\ chunk' = <<>> /\ Lose(Tail(chunk))
  /\ UNCHANGED <<collectorVars, pipeVars, crashes>>

(* The tail of a frame whose head was discarded.                           *)
DecodeGarbage ==
  /\ chunk # <<>> /\ Head(chunk).part = 2 /\ held = None
  /\ chunk' = <<>>
  /\ Lose(chunk)
  /\ UNCHANGED <<collectorVars, pipeVars, held, trackerVars, crashes>>

Loop ==
  \/ Wake \/ EmitContext \/ EmitHeartbeat \/ NothingDue \/ Connect \/ SkipConnect
  \/ TakePending \/ SendFrame \/ SendFails \/ SendDone \/ Hook \/ PollDone

Decode  == DecodeStart \/ DecodeEnd \/ DecodeGarbage
Backend == StartBackend \/ StopBackend \/ Read \/ Disconnect \/ ReadError \/ Decode

Next == Loop \/ Restart \/ Backend

Spec == Init /\ [][Next]_vars

(* Both loops run, each in its thread; connecting and sending do not fail  *)
(* for ever.                                                               *)
FairSpec ==
  /\ Spec
  /\ WF_vars(Loop) /\ SF_vars(Connect) /\ SF_vars(SendFrame)
  /\ WF_vars(StartBackend \/ Read \/ Disconnect \/ Decode)
-----------------------------------------------------------------------------
(* The gap counter that update admission reads as unexplained_gap          *)
(* (runtime/orchestrator.py) is exactly what was lost since the session's  *)
(* first event, whether the buffer overflowed, a sink raised or the stream *)
(* lost its framing; a frame sent again is not counted twice.              *)
MissingIsLost ==
  crashes = 0 /\ expected # None
    => missing = Cardinality({s \in lost : first < s /\ s < expected})

(* Nothing the participant did is refused by the backend: input and        *)
(* context reach the tracker in the order they were captured, once, across *)
(* overflows, broken connections and recoveries (collector/README.md:      *)
(* "preserving the pending frame").                                        *)
InputNeverRefused ==
  [][crashes = 0 /\ DecodeEnd /\ held.kind # "heartbeat" => verdict' = "accepted"]_vars

(* What the collector has captured leaves it, while a backend keeps        *)
(* running: no connection is given up and none is waited for in vain.      *)
Drained ==
  <>[](server # "none")
    => ((pending # None \/ buffer # <<>>) ~> (pending = None /\ buffer = <<>>))

(* Contradicted by the code.                                               *)

(* "What is safe to restart: the collector [...] automatically recovers    *)
(* once heartbeats resume" (docs/pilot/final-attacker-drill-guide.md):     *)
(* what a restarted collector captures is accepted.                        *)
RestartIsHeard ==
  [][crashes > 0 /\ DecodeEnd /\ held.run = crashes /\ held.kind # "heartbeat"
       => verdict' = "accepted"]_vars

(* A heartbeat that arrives in sequence proves the collector alive.        *)
HeartbeatHeard ==
  [][crashes = 0 /\ DecodeEnd /\ held.kind = "heartbeat" => verdict' = "accepted"]_vars

(* recover_transport: "Discard only an incomplete transport frame".        *)
OnlyPartialDiscarded == [][DecodeGarbage => Len(chunk) = 1]_vars
=============================================================================
