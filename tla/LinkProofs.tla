----------------------------- MODULE LinkProofs -----------------------------
(***************************************************************************)
(* While the collector is not killed: its events reach the tracker in the  *)
(* order they were captured, and the gap counter is exactly what was lost, *)
(* for every buffer capacity, pipe size and overload policy, any number of *)
(* events, and with or without faults.                                     *)
(***************************************************************************)
EXTENDS CollectorLink, FiniteSetTheorems, TLAPS

AnyEvent == [run : Nat, seq : Nat, t : Nat, kind : Kind]
AnyPiece == [event : AnyEvent, part : {1, 2}]

LinkTypes ==
  /\ policy \in Policies
  /\ clock \in Nat /\ now \in Nat /\ sequence \in Nat
  /\ buffer \in Seq(AnyEvent) /\ pending \in AnyEvent \cup {None}
  /\ client \in BOOLEAN
  /\ wire \in Seq(AnyPiece) /\ chunk \in Seq(AnyPiece) /\ held \in AnyEvent \cup {None}
  /\ TrackerTypeOK(Nat)
  /\ crashes \in Nat /\ lost \in SUBSET Nat

\* The pieces between the collector's write and the decoder.
Stream == chunk \o wire

Earlier(x, y) == x.seq < y.seq /\ (y.kind # "heartbeat" => x.t <= y.t)
Precedes(p, q) ==
  \/ Earlier(p.event, q.event)
  \/ p.event = q.event /\ p.part = 1 /\ q.part = 2

\* Events follow one another from the buffer to the decoder in the order of capture;
\* only the head of a frame that is still pending is ever sent before its time.
InOrder ==
  /\ \A i, j \in DOMAIN Stream : i < j => Precedes(Stream[i], Stream[j])
  /\ \A i, j \in DOMAIN buffer : i < j => Earlier(buffer[i], buffer[j])
  /\ \A i \in DOMAIN Stream, j \in DOMAIN buffer : Earlier(Stream[i].event, buffer[j])
  /\ pending # None =>
       /\ \A j \in DOMAIN buffer : Earlier(pending, buffer[j])
       /\ \A i \in DOMAIN Stream :
            client \/ Stream[i].part = 2 => Earlier(Stream[i].event, pending)

\* The tail of a frame follows its head, which the decoder may hold or have dropped.
Framed ==
  /\ server # "serving" => Stream = <<>>
  /\ \A i \in DOMAIN Stream : i > 1 /\ Stream[i].part = 2 =>
       Stream[i - 1] = [event |-> Stream[i].event, part |-> 1]
  /\ Stream # <<>> /\ Stream[1].part = 2 => held = None \/ held = Stream[1].event

\* Captured by the first run: numbered below number, by time, and not before last.
Timely(e, number, time, earliest) ==
  /\ e.run = 0 /\ e.seq < number /\ e.t <= time
  /\ e.kind # "heartbeat" /\ earliest # None => earliest <= e.t

\* What is on its way was captured before now and after all that was accepted.
Captured ==
  /\ now <= clock /\ (lastCapture # None => lastCapture <= clock)
  /\ \A i \in DOMAIN Stream : Timely(Stream[i].event, sequence, clock, lastCapture)
  /\ \A i \in DOMAIN buffer : Timely(buffer[i], sequence, clock, lastCapture)
  /\ pending # None => Timely(pending, sequence, clock, lastCapture)

\* The numbers of the events that a tracker may still see.
Way ==
  {Stream[i].event.seq : i \in {j \in DOMAIN Stream : Stream[j].part = 2}}
    \cup {buffer[i].seq : i \in DOMAIN buffer}
    \cup (IF pending = None THEN {} ELSE {pending.seq})

\* From the expected number on, or from the first that is still on its way, every number
\* is on its way or lost, and never both.
Accounted ==
  /\ Way \cup lost \subseteq 0 .. sequence - 1
  /\ Way \cap lost = {}
  /\ \A s \in 0 .. sequence - 1 : s \in Way \/ s \in lost \/ \A w \in Way : s < w
  /\ expected = None => first = None /\ lastCapture = None /\ missing = 0
  /\ expected # None =>
       /\ first # None /\ lastCapture # None /\ first < expected /\ expected <= sequence
       /\ \A w \in Way : w >= expected
       /\ \A s \in expected .. sequence - 1 : s \in Way \/ s \in lost

OneRun == InOrder /\ Framed /\ Captured /\ Accounted /\ MissingIsLost

LinkInv == LinkTypes /\ (crashes = 0 => OneRun)

-----------------------------------------------------------------------------
\* A heartbeat or not, an event is never None, and a number neither.
LEMMA NoneIsNothing == None \notin Nat /\ None \notin AnyEvent
  BY LinkAssumption DEF AnyEvent

\* The types of the variables are kept by every step.
LEMMA TypesKept ==
  ASSUME LinkTypes, [Next]_vars
  PROVE  LinkTypes'
<1> USE DEF LinkTypes, TrackerTypeOK
<1>1. CASE Wake \/ NothingDue \/ SkipConnect \/ SendDone \/ PollDone \/ Connect \/ StartBackend
  BY <1>1 DEF Wake, NothingDue, SkipConnect, SendDone, PollDone, Connect, StartBackend,
              collectorVars, pipeVars, decoderVars, trackerVars
<1>2. CASE TakePending
  BY <1>2 DEF TakePending, pipeVars, decoderVars, trackerVars
<1>3. ASSUME NEW kind \in Kind, NEW t \in Nat, Publish(kind, t)
      PROVE  /\ sequence' \in Nat /\ buffer' \in Seq(AnyEvent) /\ lost' \in SUBSET Nat
  <2> DEFINE e == [run |-> crashes, seq |-> sequence, t |-> t, kind |-> kind]
  <2>1. e \in AnyEvent
    BY <1>3 DEF AnyEvent
  <2>2. CASE Len(buffer) # Capacity
    BY <1>3, <2>1, <2>2 DEF Publish
  <2>3. CASE Len(buffer) = Capacity /\ policy = "DROP_OLDEST"
    <3>1. buffer # <<>> /\ Head(buffer) \in AnyEvent /\ Tail(buffer) \in Seq(AnyEvent)
      BY <2>3, LinkAssumption
    <3>2. buffer' = Append(Tail(buffer), e) /\ lost' = lost \cup {Head(buffer).seq}
      BY <1>3, <2>3 DEF Publish
    <3>3. Head(buffer).seq \in Nat
      BY <3>1 DEF AnyEvent
    <3>4. sequence' = sequence + 1
      BY <1>3 DEF Publish
    <3>5. Append(Tail(buffer), e) \in Seq(AnyEvent)
      BY <2>1, <3>1
    <3>6. lost' \in SUBSET Nat
      BY <3>2, <3>3
    <3>7. buffer' \in Seq(AnyEvent)
      BY <3>2, <3>5
    <3> QED BY <3>4, <3>6, <3>7
  <2>4. CASE Len(buffer) = Capacity /\ policy # "DROP_OLDEST"
    BY <1>3, <2>4 DEF Publish
  <2> QED BY <2>2, <2>3, <2>4
<1>4. CASE EmitContext \/ Hook \/ EmitHeartbeat
  <2>1. PICK kind \in Kind, t \in Nat : Publish(kind, t) /\ clock' \in {clock, t}
    BY <1>4 DEF EmitContext, Hook, EmitHeartbeat, Capture, Kind
  <2> QED BY <1>3, <1>4, <2>1 DEF EmitContext, Hook, EmitHeartbeat, pipeVars, decoderVars,
                                  trackerVars
<1>5. CASE SendFrame \/ SendFails \/ Restart
  <2>1. ASSUME pending # None
        PROVE  Frame(pending) \in Seq(AnyPiece) /\ Frame(pending)[1] \in AnyPiece
    <3>1. pending \in AnyEvent
      BY <2>1
    <3>2. \A k \in {1, 2} : [event |-> pending, part |-> k] \in AnyPiece
      BY <3>1 DEF AnyPiece
    <3> QED BY <3>2 DEF Frame
  <2>2. CASE SendFrame
    BY <2>1, <2>2 DEF SendFrame, decoderVars, trackerVars
  <2>3. pending # None /\ CutShort => wire' \in Seq(AnyPiece)
    <3> SUFFICES ASSUME pending # None, wire' = Append(wire, Frame(pending)[1])
                 PROVE  wire' \in Seq(AnyPiece)
      BY DEF CutShort
    <3> QED BY <2>1
  <2>4. CASE SendFails
    BY <2>3, <2>4 DEF SendFails, decoderVars, trackerVars
  <2>5. CASE Restart
    <3>1. wire' \in Seq(AnyPiece)
      BY <2>3, <2>5 DEF Restart
    <3>2. /\ crashes' = crashes + 1 /\ sequence' = 0 /\ buffer' = <<>> /\ pending' = None
          /\ client' = FALSE /\ lost' = {}
          /\ UNCHANGED <<policy, clock, now, server, decoderVars, trackerVars>>
      BY <2>5 DEF Restart
    <3>3. sequence' \in Nat /\ lost' \in SUBSET Nat
      BY <3>2
    <3>4. crashes' \in Nat
      BY <3>2
    <3>6. client' \in BOOLEAN
      BY <3>2, Zenon
    <3>5. buffer' \in Seq(AnyEvent)
      BY <3>2
    <3> QED BY <3>1, <3>2, <3>3, <3>4, <3>5, <3>6 DEF decoderVars, trackerVars
  <2> QED BY <1>5, <2>2, <2>4, <2>5
<1>6. ASSUME NEW s \in Seq(AnyPiece), Lose(s)
      PROVE  lost' \in SUBSET Nat
  <2>1. \A i \in Ends(s) : s[i] \in AnyPiece
    BY DEF Ends
  <2>2. \A i \in Ends(s) : s[i].event.seq \in Nat
    BY <2>1 DEF AnyPiece, AnyEvent
  <2> QED BY <1>6, <2>2 DEF Lose
<1>7. CASE StopBackend
  <2>1. chunk \o wire \in Seq(AnyPiece)
    OBVIOUS
  <2>2. lost' \in SUBSET Nat
    BY <1>6, <1>7, <2>1 DEF StopBackend
  <2> QED BY <1>7, <2>2 DEF StopBackend, Reset, collectorVars
<1>8. CASE Read \/ Disconnect \/ ReadError
  <2>1. CASE Read
    <3>1. PICK n \in 1 .. Len(wire) : /\ chunk' = SubSeq(wire, 1, n)
                                      /\ wire' = SubSeq(wire, n + 1, Len(wire))
      BY <2>1 DEF Read
    <3>2. chunk' \in Seq(AnyPiece) /\ wire' \in Seq(AnyPiece)
      BY <3>1
    <3> QED BY <2>1, <3>2 DEF Read, collectorVars, trackerVars
  <2> QED BY <1>8, <2>1 DEF Disconnect, ReadError, collectorVars, pipeVars, trackerVars
<1>9. CASE DecodeStart
  <2>1. Head(chunk) \in AnyPiece /\ Tail(chunk) \in Seq(AnyPiece)
    BY <1>9 DEF DecodeStart
  <2> QED BY <1>9, <2>1 DEF DecodeStart, collectorVars, pipeVars, trackerVars, AnyPiece
<1>10. CASE DecodeEnd
  <2>1. held \in AnyEvent /\ held.seq \in Nat /\ held.t \in Nat
    BY <1>10 DEF DecodeEnd, AnyEvent
  <2>2. Observe(held)
    BY <1>10 DEF DecodeEnd
  <2>3. /\ first' \in Nat \cup {None} /\ expected' \in Nat \cup {None} /\ missing' \in Nat
        /\ lastCapture' \in Nat \cup {None} /\ verdict' \in {"none", "accepted", "refused"}
    <3>1. CASE ObserveFirst(held)
      BY <2>1, <3>1 DEF ObserveFirst
    <3>2. CASE ObserveLate(held)
      BY <2>1, <3>2 DEF ObserveLate
    <3>3. CASE ObserveNext(held)
      <4>1. expected \in Nat /\ missing' = missing + held.seq - expected /\ held.seq >= expected
        BY <3>3 DEF ObserveNext
      <4>2. missing' \in Nat
        BY <2>1, <4>1
      <4>3. expected' \in Nat /\ first' = first
        BY SMTT(30), <2>1, <3>3 DEF ObserveNext
      <4>4. lastCapture' \in {lastCapture, held.t} /\ verdict' \in {"accepted", "refused"}
        BY <3>3 DEF ObserveNext
      <4> QED BY <2>1, <4>2, <4>3, <4>4
    <3> QED BY <2>2, <3>1, <3>2, <3>3 DEF Observe
  <2>4. chunk # <<>> /\ Tail(chunk) \in Seq(AnyPiece)
    BY <1>10 DEF DecodeEnd
  <2>5. \/ chunk' = Tail(chunk) /\ UNCHANGED lost
        \/ chunk' = <<>> /\ Lose(Tail(chunk))
    BY <1>10 DEF DecodeEnd
  <2>6. chunk' \in Seq(AnyPiece)
    <3>1. CASE chunk' = Tail(chunk)
      BY <2>4, <3>1
    <3>2. CASE chunk' = <<>>
      BY <3>2
    <3> QED BY <2>5, <3>1, <3>2
  <2>7. ASSUME Lose(Tail(chunk))
        PROVE  lost' \in SUBSET Nat
    BY <1>6, <2>4, <2>7
  <2>8. chunk' \in Seq(AnyPiece) /\ lost' \in SUBSET Nat
    BY <2>5, <2>6, <2>7
  <2> QED BY <1>10, <2>3, <2>8 DEF DecodeEnd, collectorVars, pipeVars
<1>11. CASE DecodeGarbage
  BY <1>6, <1>11 DEF DecodeGarbage, collectorVars, pipeVars, trackerVars
<1>12. CASE UNCHANGED vars
  BY <1>12 DEF vars, collectorVars, pipeVars, decoderVars, trackerVars
<1> QED BY <1>1, <1>2, <1>4, <1>5, <1>7, <1>8, <1>9, <1>10, <1>11, <1>12
        DEF Next, Loop, Backend, Decode

-----------------------------------------------------------------------------
\* The first k pieces of the stream are gone.
Dropped(k) ==
  /\ k \in 0 .. Len(Stream) /\ Len(Stream') = Len(Stream) - k
  /\ \A i \in 1 .. Len(Stream) - k : Stream'[i] = Stream[i + k]

\* The numbers of the frames that end between two places of the stream.
EndsIn(a, b) == {Stream[i].event.seq : i \in {j \in a .. b : Stream[j].part = 2}}

\* Two sequences of pieces, one after the other.
LEMMA Joined ==
  ASSUME NEW c \in Seq(AnyPiece), NEW w \in Seq(AnyPiece)
  PROVE  /\ c \o w \in Seq(AnyPiece) /\ Len(c \o w) = Len(c) + Len(w)
         /\ DOMAIN (c \o w) = 1 .. Len(c \o w) /\ Len(c \o w) \in Nat
         /\ \A i \in 1 .. Len(c \o w) :
              (c \o w)[i] = IF i <= Len(c) THEN c[i] ELSE w[i - Len(c)]
         /\ \A i \in 1 .. Len(c \o w) :
              (c \o w)[i].event \in AnyEvent /\ (c \o w)[i].part \in {1, 2}
<1>1. c \o w \in Seq(AnyPiece) /\ Len(c \o w) = Len(c) + Len(w)
  OBVIOUS
<1>2. \A i \in 1 .. Len(c \o w) :
        (c \o w)[i] = IF i <= Len(c) THEN c[i] ELSE w[i - Len(c)]
  OBVIOUS
<1>3. \A i \in 1 .. Len(c \o w) : (c \o w)[i] \in AnyPiece
  BY <1>1
<1> QED BY <1>1, <1>2, <1>3 DEF AnyPiece

\* The stream is a sequence of pieces, the decoder's first.
LEMMA StreamIs ==
  ASSUME LinkTypes
  PROVE  /\ Stream \in Seq(AnyPiece) /\ Len(Stream) = Len(chunk) + Len(wire)
         /\ DOMAIN Stream = 1 .. Len(Stream) /\ Len(Stream) \in Nat
         /\ \A i \in 1 .. Len(Stream) :
              Stream[i] = IF i <= Len(chunk) THEN chunk[i] ELSE wire[i - Len(chunk)]
         /\ \A i \in 1 .. Len(Stream) :
              Stream[i].event \in AnyEvent /\ Stream[i].part \in {1, 2}
<1>1. chunk \in Seq(AnyPiece) /\ wire \in Seq(AnyPiece)
  BY DEF LinkTypes
<1> QED BY <1>1, Joined DEF Stream

\* The same of the next state.
LEMMA StreamWillBe ==
  ASSUME LinkTypes'
  PROVE  /\ Stream' \in Seq(AnyPiece) /\ Len(Stream') = Len(chunk') + Len(wire')
         /\ DOMAIN Stream' = 1 .. Len(Stream') /\ Len(Stream') \in Nat
         /\ \A i \in 1 .. Len(Stream') :
              Stream'[i] = IF i <= Len(chunk') THEN chunk'[i] ELSE wire'[i - Len(chunk')]
         /\ \A i \in 1 .. Len(Stream') :
              Stream'[i].event \in AnyEvent /\ Stream'[i].part \in {1, 2}
<1>1. chunk' \in Seq(AnyPiece) /\ wire' \in Seq(AnyPiece)
  BY DEF LinkTypes
<1> QED BY <1>1, Joined DEF Stream

\* An event has its fields.
LEMMA EventFields ==
  ASSUME NEW e \in AnyEvent
  PROVE  e.run \in Nat /\ e.seq \in Nat /\ e.t \in Nat /\ e.kind \in Kind
  BY DEF AnyEvent

\* What is dropped from the front of the stream leaves the rest in order.
LEMMA DroppedOrder ==
  ASSUME LinkTypes, LinkTypes', InOrder, NEW k, Dropped(k),
         buffer' = buffer, pending' = pending, client' => client \/ Stream = <<>>
  PROVE  InOrder'
<1> USE StreamIs, StreamWillBe
<1>1. DOMAIN Stream' = 1 .. Len(Stream) - k /\ k \in Nat
      /\ \A i \in DOMAIN Stream' : i + k \in DOMAIN Stream /\ Stream'[i] = Stream[i + k]
  BY SMTT(30) DEF Dropped
<1> QED BY SMTT(30), <1>1 DEF InOrder

\* What is dropped leaves the rest framed, if the decoder holds the head of what follows
\* or nothing.
LEMMA DroppedFramed ==
  ASSUME LinkTypes, LinkTypes', Framed, NEW k, Dropped(k),
         \/ held' = None
         \/ k = 0 /\ held' = held
         \/ k = 1 /\ held' = Stream[1].event,
         server' # "serving" => k = Len(Stream)
  PROVE  Framed'
<1>1. DOMAIN Stream' = 1 .. Len(Stream) - k /\ k \in Nat /\ Len(Stream) \in Nat
      /\ \A i \in DOMAIN Stream' : i + k \in DOMAIN Stream /\ Stream'[i] = Stream[i + k]
  BY StreamIs, StreamWillBe DEF Dropped
<1>2. server' # "serving" => Stream' = <<>>
  BY StreamWillBe DEF Dropped
<1>3. ASSUME NEW i \in DOMAIN Stream', Stream'[i].part = 2, i > 1
      PROVE  Stream'[i - 1] = [event |-> Stream'[i].event, part |-> 1]
  <2> DEFINE j == i + k
  <2>5. i \in Int /\ i <= Len(Stream) - k /\ k \in Nat /\ Len(Stream) \in Nat
    BY <1>1
  <2>6. j > 1 /\ i - 1 \in 1 .. Len(Stream) - k /\ (i - 1) + k = j - 1
    BY SMTT(30), <1>3, <2>5
  <2>1. /\ j \in DOMAIN Stream /\ j > 1 /\ Stream'[i] = Stream[j]
        /\ i - 1 \in DOMAIN Stream' /\ (i - 1) + k = j - 1
    BY <1>1, <2>6
  <2>2. Stream'[i - 1] = Stream[(i - 1) + k]
    BY <1>1, <2>1
  <2>3. Stream'[i - 1] = Stream[j - 1] /\ Stream[j].part = 2
    BY <1>3, <2>1, <2>2
  <2> HIDE DEF j
  <2> QED BY <2>1, <2>3 DEF Framed
<1>4. ASSUME Stream' # <<>>, Stream'[1].part = 2
      PROVE  held' = None \/ held' = Stream'[1].event
  <2>1. 1 \in DOMAIN Stream'
    BY <1>4, StreamWillBe
  <2>2. 1 + k \in DOMAIN Stream /\ Stream'[1] = Stream[1 + k]
    BY <1>1, <2>1
  <2>3. Stream # <<>>
    BY <1>1, <2>2, StreamIs
  <2>4. CASE k = 0 /\ held' = held
    BY <1>4, <2>2, <2>3, <2>4 DEF Framed
  <2>5. CASE k = 1 /\ held' = Stream[1].event
    <3>2. 2 \in DOMAIN Stream /\ Stream[2].part = 2 /\ 2 > 1
      BY <1>4, <2>2, <2>5
    <3>3. Stream[2 - 1] = [event |-> Stream[2].event, part |-> 1]
      BY <3>2 DEF Framed
    <3>1. Stream[1] = [event |-> Stream[2].event, part |-> 1]
      BY <3>3
    <3> QED BY <2>2, <2>5, <3>1
  <2> QED BY <2>4, <2>5
<1> QED BY <1>2, <1>3, <1>4 DEF Framed

\* Nothing that is left is older than it was.
LEMMA DroppedTimes ==
  ASSUME LinkTypes, LinkTypes', Captured, NEW k, Dropped(k),
         buffer' = buffer, pending' = pending, clock' = clock, sequence' = sequence,
         now' \in {now, clock}, lastCapture' \in {lastCapture, None}
  PROVE  Captured'
<1>1. DOMAIN Stream' = 1 .. Len(Stream) - k /\ k \in Nat
      /\ \A i \in DOMAIN Stream' : i + k \in DOMAIN Stream /\ Stream'[i] = Stream[i + k]
  BY StreamIs, StreamWillBe, SMTT(30) DEF Dropped
<1>2. \A e : Timely(e, sequence, clock, lastCapture)
               => Timely(e, sequence', clock', lastCapture')
  BY DEF Timely
<1>3. now' <= clock' /\ (lastCapture' # None => lastCapture' <= clock')
  BY DEF Captured, LinkTypes
<1>4. \A i \in DOMAIN Stream' : Timely(Stream'[i].event, sequence', clock', lastCapture')
  BY <1>1, <1>2 DEF Captured
<1>5. /\ \A i \in DOMAIN buffer' : Timely(buffer'[i], sequence', clock', lastCapture')
      /\ pending' # None => Timely(pending', sequence', clock', lastCapture')
  BY <1>2 DEF Captured
<1> QED BY <1>3, <1>4, <1>5 DEF Captured

\* The numbers that are dropped are no longer on their way, and only they.
LEMMA DroppedWay ==
  ASSUME LinkTypes, LinkTypes', InOrder, NEW k, Dropped(k), buffer' = buffer, pending' = pending
  PROVE  Way = Way' \cup EndsIn(1, k) /\ Way' \cap EndsIn(1, k) = {}
<1>1. /\ DOMAIN Stream' = 1 .. Len(Stream) - k /\ k \in Nat /\ DOMAIN Stream = 1 .. Len(Stream)
      /\ k <= Len(Stream) /\ Len(Stream) \in Nat
      /\ \A i \in DOMAIN Stream' : i + k \in DOMAIN Stream /\ Stream'[i] = Stream[i + k]
  BY StreamIs, StreamWillBe DEF Dropped
<1> DEFINE Carried == {Stream[i].event.seq : i \in {j \in DOMAIN Stream : Stream[j].part = 2}}
           Rest == {buffer[i].seq : i \in DOMAIN buffer}
                     \cup (IF pending = None THEN {} ELSE {pending.seq})
<1>2. Way = Carried \cup Rest /\ Way' = Carried' \cup Rest
  BY DEF Way
<1>3. Carried' = EndsIn(k + 1, Len(Stream))
  <2>1. ASSUME NEW i \in DOMAIN Stream', Stream'[i].part = 2
        PROVE  Stream'[i].event.seq \in EndsIn(k + 1, Len(Stream))
    BY <1>1, <2>1 DEF EndsIn
  <2>2. ASSUME NEW i \in k + 1 .. Len(Stream), Stream[i].part = 2
        PROVE  Stream[i].event.seq \in Carried'
    <3>1. i - k \in DOMAIN Stream' /\ Stream'[i - k] = Stream[i]
      BY <1>1
    <3> QED BY <2>2, <3>1
  <2> QED BY <2>1, <2>2 DEF EndsIn
<1>4. Carried = EndsIn(1, k) \cup EndsIn(k + 1, Len(Stream))
  BY <1>1 DEF EndsIn
<1>5. ASSUME NEW i \in 1 .. k, Stream[i].part = 2
      PROVE  Stream[i].event.seq \notin EndsIn(k + 1, Len(Stream)) \cup Rest
  <2>1. Stream[i].event.seq \in Nat /\ i \in DOMAIN Stream
    BY <1>1, StreamIs, EventFields
  <2>2. ASSUME NEW j \in k + 1 .. Len(Stream), Stream[j].part = 2
        PROVE  Stream[i].event.seq < Stream[j].event.seq
    <3>1. j \in DOMAIN Stream /\ i < j
      BY <1>1
    <3> QED BY <1>5, <2>1, <2>2, <3>1 DEF InOrder, Precedes, Earlier
  <2>3. \A j \in k + 1 .. Len(Stream) : Stream[j].event.seq \in Nat
    BY <1>1, StreamIs, EventFields
  <2>4. \A j \in DOMAIN buffer : Stream[i].event.seq < buffer[j].seq /\ buffer[j].seq \in Nat
    <3>1. \A j \in DOMAIN buffer : buffer[j] \in AnyEvent
      BY DEF LinkTypes
    <3> QED BY <2>1, <3>1, EventFields DEF InOrder, Earlier
  <2>5. pending # None => Stream[i].event.seq < pending.seq /\ pending.seq \in Nat
    BY <1>5, <2>1, EventFields DEF InOrder, Earlier, LinkTypes
  <2> QED BY <2>1, <2>2, <2>3, <2>4, <2>5 DEF EndsIn
<1>6. EndsIn(1, k) \cap (EndsIn(k + 1, Len(Stream)) \cup Rest) = {}
  BY <1>5 DEF EndsIn
<1> HIDE DEF Carried, Rest
<1> QED BY <1>2, <1>3, <1>4, <1>6

-----------------------------------------------------------------------------
\* A number of an interval is on one side of any number.
LEMMA EitherSide ==
  ASSUME NEW a \in Nat, NEW b \in Nat, NEW c \in Nat, NEW s \in a .. c - 1
  PROVE  s \in Int /\ (s \in a .. b - 1 \/ s \in b .. c - 1)
  OBVIOUS

\* Numbers are given out, arrive in the stream or are lost: nothing that was expected
\* is forgotten, and what the counter stands for does not change.
LEMMA Moved ==
  ASSUME LinkTypes, LinkTypes', Accounted, MissingIsLost, crashes = 0, crashes' = 0,
         NEW D, lost' = lost \cup D, sequence' >= sequence,
         \A s \in Way : s \in Way' \/ s \in D,
         \A s \in sequence .. sequence' - 1 : s \in Way' \/ s \in D,
         \A s \in Way' \cup D : s \in Way \/ s \in sequence .. sequence' - 1,
         Way' \cap D = {},
         \/ UNCHANGED <<first, expected, lastCapture, missing>>
         \/ first' = None /\ expected' = None /\ lastCapture' = None /\ missing' = 0
  PROVE  Accounted' /\ MissingIsLost'
<1>9. sequence \in Nat /\ sequence' \in Nat
  BY DEF LinkTypes
<1>1. sequence \in Nat /\ sequence' \in Nat /\ lost \in SUBSET Nat
      /\ (expected # None => expected \in Nat /\ first \in Nat \cup {None})
  BY DEF LinkTypes, TrackerTypeOK
<1>2. /\ Way \cup lost \subseteq 0 .. sequence - 1 /\ Way \cap lost = {}
      /\ \A s \in 0 .. sequence - 1 : s \in Way \/ s \in lost \/ \A w \in Way : s < w
  BY DEF Accounted
<1>3. /\ Way' \cup lost' \subseteq 0 .. sequence' - 1
      /\ Way' \cap lost' = {}
  BY <1>1, <1>2
<1>8. \A s \in D : s \in lost'
  OBVIOUS
<1>4. ASSUME NEW s \in 0 .. sequence' - 1, s \notin Way', s \notin lost', NEW w \in Way'
      PROVE  s < w
  <2>1. s \notin Way /\ s \notin lost /\ s \notin sequence .. sequence' - 1
    BY <1>4, <1>8
  <2>2. s \in 0 .. sequence - 1
    BY <1>9, <2>1, EitherSide
  <2>3. w \in Way \/ w \in sequence .. sequence' - 1
    BY <1>4
  <2> QED BY <1>1, <1>2, <2>1, <2>2, <2>3
<1>5. CASE expected' = None
  <2>1. first' = None /\ lastCapture' = None /\ missing' = 0
    BY <1>5 DEF Accounted
  <2> QED BY <1>3, <1>4, <1>5, <2>1 DEF Accounted, MissingIsLost
<1>6. CASE expected' # None
  <2>1. UNCHANGED <<first, expected, lastCapture, missing>> /\ expected # None
    BY <1>6
  <2>2. /\ first # None /\ lastCapture # None /\ first < expected /\ expected <= sequence
        /\ \A w \in Way : w >= expected
        /\ \A s \in expected .. sequence - 1 : s \in Way \/ s \in lost
    BY <2>1 DEF Accounted
  <2>9. expected \in Nat
    BY <1>1, <2>1
  <2>10. \A s \in sequence .. sequence' - 1 : s >= expected
    BY <1>1, <2>2, <2>9
  <2>3. \A w \in Way' : w >= expected
    BY <2>2, <2>10
  <2>4. \A s \in expected .. sequence' - 1 : s \in Way' \/ s \in lost'
    <3> SUFFICES ASSUME NEW s \in expected .. sequence' - 1
                 PROVE  s \in Way' \/ s \in lost'
      OBVIOUS
    <3>1. s \in expected .. sequence - 1 \/ s \in sequence .. sequence' - 1
      BY <1>9, <2>9, EitherSide
    <3> QED BY <1>8, <2>2, <3>1
  <2>12. expected <= sequence'
    BY <1>9, <2>2, <2>9
  <2>5. Accounted'
    BY <1>3, <1>4, <2>1, <2>2, <2>3, <2>4, <2>12 DEF Accounted
  <2>11. \A d \in D : d >= expected /\ d \in Int
    <3> SUFFICES ASSUME NEW d \in D
                 PROVE  d >= expected /\ d \in Int
      OBVIOUS
    <3>1. CASE d \in Way
      BY <1>1, <1>2, <2>2, <3>1
    <3>2. CASE d \in sequence .. sequence' - 1
      BY <2>10, <3>2
    <3> QED BY <3>1, <3>2
  <2>6. \A d \in D : ~(d < expected)
    BY <2>9, <2>11
  <2>7. {s \in lost' : first < s /\ s < expected} = {s \in lost : first < s /\ s < expected}
    BY <2>6
  <2>8. MissingIsLost'
    BY <2>1, <2>7 DEF MissingIsLost
  <2> QED BY <2>5, <2>8
<1> QED BY <1>5, <1>6

\* The numbers between two numbers, and how many.
LEMMA HowMany ==
  ASSUME NEW a \in Nat, NEW b \in Nat, a <= b, NEW S, IsFiniteSet(S), S \cap (a .. b - 1) = {}
  PROVE  Cardinality(S \cup (a .. b - 1)) = Cardinality(S) + b - a
<1>1. IsFiniteSet(a .. b - 1) /\ Cardinality(a .. b - 1) = b - a
  <2>1. b - 1 \in Int
    OBVIOUS
  <2>2. /\ IsFiniteSet(a .. b - 1)
        /\ Cardinality(a .. b - 1) = IF a > b - 1 THEN 0 ELSE (b - 1) - a + 1
    BY <2>1, FS_Interval
  <2> QED BY <2>2
<1>2. Cardinality(S \cup (a .. b - 1))
        = Cardinality(S) + Cardinality(a .. b - 1) - Cardinality(S \cap (a .. b - 1))
  BY <1>1, FS_Union
<1>3. Cardinality({}) = 0 /\ Cardinality(S) \in Nat
  BY FS_EmptySet, FS_CardinalityType
<1>4. Cardinality(S \cap (a .. b - 1)) = 0
  BY <1>3
<1> QED BY <1>1, <1>2, <1>3, <1>4

\* The tracker observes the lowest number on its way: all it skips is lost.
LEMMA Observed ==
  ASSUME LinkTypes, LinkTypes', Accounted, MissingIsLost, crashes = 0, crashes' = 0,
         NEW e \in AnyEvent, Observe(e), sequence' = sequence,
         NEW D, lost' = lost \cup D, D \cap (Way' \cup {e.seq}) = {}, e.seq \notin Way',
         Way = Way' \cup D \cup {e.seq}, \A w \in Way : e.seq <= w
  PROVE  Accounted' /\ MissingIsLost'
<1>1. sequence \in Nat /\ lost \in SUBSET Nat /\ e.seq \in Nat /\ e.t \in Nat /\ missing \in Nat
      /\ (expected # None => expected \in Nat) /\ None \notin Nat
  BY EventFields, NoneIsNothing DEF LinkTypes, TrackerTypeOK
<1>2. /\ Way \cup lost \subseteq 0 .. sequence - 1 /\ Way \cap lost = {}
      /\ \A s \in 0 .. sequence - 1 : s \in Way \/ s \in lost \/ \A w \in Way : s < w
  BY DEF Accounted
<1>3. /\ Way' \cup lost' \subseteq 0 .. sequence' - 1 /\ Way' \cap lost' = {}
      /\ e.seq \in 0 .. sequence - 1 /\ e.seq \notin lost'
  BY <1>1, <1>2
<1>4. /\ \A w \in Way' : w >= e.seq + 1
      /\ \A d \in D : d >= e.seq + 1
  BY <1>1, <1>2
<1>5. ASSUME NEW s \in 0 .. sequence - 1, s \notin Way', s \notin lost', NEW w \in Way'
      PROVE  s < w
  <2>1. CASE s = e.seq
    BY <1>1, <1>2, <1>4, <2>1
  <2>2. CASE s # e.seq
    BY <1>2, <1>5, <2>2
  <2> QED BY <2>1, <2>2
<1>6. CASE ObserveFirst(e)
  <2>1. expected = None /\ first' = e.seq /\ expected' = e.seq + 1 /\ lastCapture' = e.t
        /\ missing' = missing
    BY <1>6 DEF ObserveFirst
  <2>2. ASSUME NEW s \in e.seq + 1 .. sequence - 1
        PROVE  s \in Way' \/ s \in lost'
    <3>1. s \in Int /\ ~(s < e.seq) /\ s # e.seq /\ s \in 0 .. sequence - 1
      BY <1>1
    <3> QED BY <1>2, <3>1
  <2>3. Accounted'
    BY <1>1, <1>3, <1>4, <1>5, <2>1, <2>2 DEF Accounted
  <2>4. {s \in lost' : e.seq < s /\ s < e.seq + 1} = {}
    BY <1>1, <1>2, <1>4
  <2>5. missing' = 0
    BY <2>1 DEF Accounted
  <2>6. MissingIsLost'
    BY <2>1, <2>4, <2>5, FS_EmptySet DEF MissingIsLost
  <2> QED BY <2>3, <2>6
<1>7. CASE ~ObserveFirst(e)
  <2>1. expected # None /\ expected \in Nat /\ first # None /\ lastCapture # None
        /\ first < expected /\ expected <= sequence
        /\ (\A w \in Way : w >= expected)
        /\ \A s \in expected .. sequence - 1 : s \in Way \/ s \in lost
    BY <1>1, <1>7 DEF Observe, ObserveFirst, ObserveLate, ObserveNext, Accounted
  <2>2. e.seq >= expected /\ first \in Nat
    BY <2>1 DEF LinkTypes, TrackerTypeOK
  <2>3. ObserveNext(e)
    BY <1>1, <1>7, <2>1, <2>2 DEF Observe, ObserveLate
  <2>4. missing' = missing + e.seq - expected /\ expected' = e.seq + 1 /\ first' = first
        /\ lastCapture' \in {lastCapture, e.t}
    BY <2>3 DEF ObserveNext
  <2>5. ASSUME NEW s \in e.seq + 1 .. sequence - 1
        PROVE  s \in Way' \/ s \in lost'
    BY <1>1, <2>1, <2>2
  <2>6. Accounted'
    BY <1>1, <1>3, <1>4, <1>5, <2>1, <2>2, <2>4, <2>5 DEF Accounted
  <2> DEFINE Skipped == {s \in lost : first < s /\ s < expected}
  <2>7. {s \in lost' : first' < s /\ s < expected'} = Skipped \cup (expected .. e.seq - 1)
    <3>1. ASSUME NEW s \in lost', first < s, s < e.seq + 1
          PROVE  s \in Skipped \cup (expected .. e.seq - 1)
      BY <1>1, <1>3, <1>4, <2>1, <2>2, <3>1
    <3>2. ASSUME NEW s \in expected .. e.seq - 1
          PROVE  s \in lost /\ first < s /\ s < e.seq + 1
      <4>1. s \in Int /\ s < e.seq /\ s \in expected .. sequence - 1
        BY <1>1, <1>3, <2>1
      <4>2. s \notin Way
        BY <1>1, <4>1
      <4> QED BY <1>1, <2>1, <2>2, <4>1, <4>2
    <3>3. ASSUME NEW s \in Skipped
          PROVE  s \in lost' /\ first < s /\ s < e.seq + 1
      BY <1>1, <2>1, <2>2
    <3> HIDE DEF Skipped
    <3> QED BY <2>4, <3>1, <3>2, <3>3
  <2>8. IsFiniteSet(Skipped)
    <3>1. Skipped \subseteq 0 .. sequence - 1
      BY <1>2
    <3>2. IsFiniteSet(0 .. sequence - 1)
      BY <1>1, FS_Interval
    <3> QED BY <3>1, <3>2, FS_Subset
  <2>9. Skipped \cap (expected .. e.seq - 1) = {}
    BY <1>1, <2>1
  <2>10. missing = Cardinality(Skipped)
    BY <2>1 DEF MissingIsLost
  <2>11. missing' = Cardinality(Skipped \cup (expected .. e.seq - 1))
    <3> HIDE DEF Skipped
    <3> QED BY <1>1, <2>1, <2>2, <2>4, <2>8, <2>9, <2>10, HowMany
  <2>12. MissingIsLost'
    BY <2>7, <2>11 DEF MissingIsLost
  <2> QED BY <2>6, <2>12
<1> QED BY <1>6, <1>7

-----------------------------------------------------------------------------
\* A step that takes pieces off the front of the stream and loses every number that ends
\* in them.
LEMMA DropKeeps ==
  ASSUME LinkInv, LinkTypes', crashes = 0, crashes' = 0, NEW k, Dropped(k),
         lost' = lost \cup EndsIn(1, k), sequence' = sequence, buffer' = buffer,
         pending' = pending, clock' = clock, now' \in {now, clock},
         client' => client \/ Stream = <<>>,
         \/ held' = None
         \/ k = 0 /\ held' = held
         \/ k = 1 /\ held' = Stream[1].event,
         server' # "serving" => k = Len(Stream),
         \/ UNCHANGED <<first, expected, lastCapture, missing>>
         \/ first' = None /\ expected' = None /\ lastCapture' = None /\ missing' = 0
  PROVE  OneRun'
<1>1. LinkTypes /\ InOrder /\ Framed /\ Captured /\ Accounted /\ MissingIsLost
  BY DEF LinkInv, OneRun
<1>2. InOrder' /\ Framed'
  BY <1>1, DroppedOrder, DroppedFramed
<1>3. Captured'
  <2>1. lastCapture' \in {lastCapture, None}
    OBVIOUS
  <2> QED BY <1>1, <2>1, DroppedTimes
<1>4. Way = Way' \cup EndsIn(1, k) /\ Way' \cap EndsIn(1, k) = {}
  BY <1>1, DroppedWay
<1>5. Accounted' /\ MissingIsLost'
  <2>1. sequence \in Nat
    BY <1>1 DEF LinkTypes
  <2>2. sequence .. sequence' - 1 = {} /\ sequence' >= sequence
    BY <2>1
  <2> HIDE DEF EndsIn
  <2> QED BY <1>1, <1>4, <2>2, Moved
<1> QED BY <1>2, <1>3, <1>5 DEF OneRun

\* The stream as it is.
LEMMA StreamStays ==
  ASSUME LinkTypes, UNCHANGED <<chunk, wire>>
  PROVE  Dropped(0) /\ EndsIn(1, 0) = {}
<1>1. Stream' = Stream
  BY DEF Stream
<1> QED BY <1>1, StreamIs DEF Dropped, EndsIn

\* A step that touches nothing of this but the time of the turn.
LEMMA TurnKeeps ==
  ASSUME LinkInv, LinkTypes', crashes = 0,
         \/ Wake \/ NothingDue \/ SkipConnect \/ SendDone \/ PollDone \/ Connect
         \/ StartBackend \/ Disconnect \/ ReadError
         \/ SendFails /\ UNCHANGED wire
         \/ UNCHANGED vars
  PROVE  OneRun'
<1>1. LinkTypes /\ Framed
  BY DEF LinkInv, OneRun
<1>2. UNCHANGED <<chunk, wire, crashes, lost, sequence, buffer, pending, clock, first, expected,
                  lastCapture, missing>>
  BY DEF Wake, NothingDue, SkipConnect, SendDone, PollDone, Connect, StartBackend, Disconnect,
         ReadError, SendFails, vars, collectorVars, pipeVars, decoderVars, trackerVars
<1>3. now' \in {now, clock} /\ (held' = None \/ held' = held)
  BY DEF Wake, NothingDue, SkipConnect, SendDone, PollDone, Connect, StartBackend, Disconnect,
         ReadError, SendFails, vars, collectorVars, pipeVars, decoderVars, trackerVars
<1>4. client' => client \/ Stream = <<>>
  <2>1. CASE Connect
    BY <1>1, <2>1 DEF Connect, Framed
  <2>2. CASE ~Connect
    BY <2>2 DEF Wake, NothingDue, SkipConnect, SendDone, PollDone, StartBackend, Disconnect,
         ReadError, SendFails, vars, collectorVars, pipeVars
  <2> QED BY <2>1, <2>2
<1>5. server' # "serving" => Stream = <<>>
  <2>1. CASE Disconnect
    <3>1. Len(chunk) = 0 /\ Len(wire) = 0
      BY <1>1, <2>1 DEF Disconnect
    <3> QED BY <1>1, <3>1, StreamIs
  <2>2. CASE ~Disconnect
    BY <1>1, <2>2 DEF Wake, NothingDue, SkipConnect, SendDone, PollDone, Connect, StartBackend,
         ReadError, SendFails, Framed, vars, collectorVars, pipeVars
  <2> QED BY <2>1, <2>2
<1>6. Stream = <<>> => 0 = Len(Stream)
  BY <1>1
<1> QED BY <1>1, <1>2, <1>3, <1>4, <1>5, <1>6, StreamStays, DropKeeps

\* The numbers that Lose takes to be lost with a part of the stream.
LEMMA LostEnds ==
  ASSUME LinkInv, crashes = 0, NEW s \in Seq(AnyPiece), NEW a \in Nat, NEW b \in Nat,
         a >= 1, b <= Len(Stream), Len(s) = b - a + 1,
         \A i \in 1 .. Len(s) : s[i] = Stream[a + i - 1], Lose(s)
  PROVE  lost' = lost \cup EndsIn(a, b)
<1>1. LinkTypes /\ Captured
  BY DEF LinkInv, OneRun
<1>2. \A j \in a .. b : j \in DOMAIN Stream /\ Stream[j].event.run = 0
  BY <1>1, StreamIs DEF Captured, Timely
<1>3. Ends(s) = {i \in 1 .. Len(s) : Stream[a + i - 1].part = 2}
  BY <1>2 DEF Ends
<1>4. ASSUME NEW i \in Ends(s)
      PROVE  s[i].event.seq \in EndsIn(a, b)
  <2>1. a + i - 1 \in a .. b /\ Stream[a + i - 1].part = 2 /\ s[i] = Stream[a + i - 1]
    BY SMTT(30), <1>3
  <2> QED BY <2>1 DEF EndsIn
<1>5. ASSUME NEW j \in a .. b, Stream[j].part = 2
      PROVE  \E i \in Ends(s) : s[i].event.seq = Stream[j].event.seq
  <2>1. j - a + 1 \in 1 .. Len(s) /\ a + (j - a + 1) - 1 = j
    OBVIOUS
  <2>2. j - a + 1 \in Ends(s) /\ s[j - a + 1] = Stream[j]
    BY <1>3, <1>5, <2>1
  <2> QED BY <2>2
<1>6. {s[i].event.seq : i \in Ends(s)} = EndsIn(a, b)
  BY <1>4, <1>5 DEF EndsIn
<1> QED BY <1>6 DEF Lose

\* The backend stops: all that was in the pipe is lost, and the tracker begins again.
LEMMA StopKeeps ==
  ASSUME LinkInv, LinkTypes', crashes = 0, StopBackend
  PROVE  OneRun'
<1>1. LinkTypes /\ Stream \in Seq(AnyPiece) /\ Len(Stream) \in Nat
  BY StreamIs DEF LinkInv
<1>2. Len(Stream') = 0 /\ Dropped(Len(Stream))
  <2>1. Len(Stream') = 0
    BY StreamWillBe DEF StopBackend
  <2> QED BY <1>1, <2>1, StreamIs DEF Dropped
<1>3. Lose(Stream)
  BY DEF StopBackend, Stream
<1>4. lost' = lost \cup EndsIn(1, Len(Stream))
  BY <1>1, <1>3, LostEnds
<1> QED BY <1>1, <1>2, <1>4, DropKeeps DEF StopBackend, Reset, collectorVars

\* What is read is what was written.
LEMMA ReadKeeps ==
  ASSUME LinkInv, LinkTypes', crashes = 0, Read
  PROVE  OneRun'
<1>1. LinkTypes /\ wire \in Seq(AnyPiece) /\ chunk = <<>>
  BY DEF LinkInv, LinkTypes, Read
<1>2. PICK n \in 1 .. Len(wire) : /\ chunk' = SubSeq(wire, 1, n)
                                  /\ wire' = SubSeq(wire, n + 1, Len(wire))
  BY DEF Read
<1>3. /\ Len(chunk') = n /\ Len(wire') = Len(wire) - n
      /\ \A i \in 1 .. n : chunk'[i] = wire[i]
      /\ \A i \in 1 .. Len(wire) - n : wire'[i] = wire[i + n]
  BY <1>1, <1>2
<1>4. Len(Stream) = Len(wire) /\ \A i \in 1 .. Len(Stream) : Stream[i] = wire[i]
  BY <1>1, StreamIs
<1>5. Len(Stream') = Len(wire) /\ \A i \in 1 .. Len(Stream') : Stream'[i] = wire[i]
  <2>1. Len(Stream') = Len(wire)
    <3>1. Len(Stream') = Len(chunk') + Len(wire')
      BY StreamWillBe
    <3>2. Len(wire) \in Nat /\ n \in Nat
      BY <1>1
    <3> QED BY <1>3, <3>1, <3>2
  <2>2. ASSUME NEW i \in 1 .. Len(Stream')
        PROVE  Stream'[i] = wire[i]
    <3>1. CASE i <= n
      BY <1>3, <3>1, StreamWillBe
    <3>2. CASE i > n
      <4>1. i - n \in 1 .. Len(wire) - n /\ (i - n) + n = i
        BY <1>1, <2>1, <3>2
      <4> QED BY SMTT(30), <1>3, <3>2, <4>1, StreamWillBe
    <3> QED BY <3>1, <3>2
  <2> QED BY <2>1, <2>2
<1>6. Dropped(0) /\ EndsIn(1, 0) = {}
  BY <1>1, <1>4, <1>5, StreamIs DEF Dropped, EndsIn
<1> QED BY <1>6, DropKeeps DEF Read, collectorVars, trackerVars

-----------------------------------------------------------------------------
\* Decoding one piece, or dropping the chunk.
LEMMA TailDrops ==
  ASSUME LinkTypes, LinkTypes', chunk # <<>>, chunk' = Tail(chunk), wire' = wire
  PROVE  Dropped(1) /\ Stream[1] = chunk[1]
<1>1. chunk \in Seq(AnyPiece) /\ Len(chunk) \in Nat \ {0} /\ Len(wire) \in Nat
  BY DEF LinkTypes
<1>2. Len(chunk') = Len(chunk) - 1 /\ \A i \in 1 .. Len(chunk) - 1 : chunk'[i] = chunk[i + 1]
  BY <1>1
<1>3. Len(Stream') = Len(Stream) - 1 /\ 1 \in 0 .. Len(Stream)
  BY <1>1, <1>2, StreamIs, StreamWillBe
<1>4. ASSUME NEW i \in 1 .. Len(Stream) - 1
      PROVE  Stream'[i] = Stream[i + 1]
  <2>1. i \in 1 .. Len(Stream') /\ i + 1 \in 1 .. Len(Stream)
    BY <1>1, <1>3, StreamIs
  <2>2. CASE i <= Len(chunk) - 1
    BY <1>1, <1>2, <2>1, <2>2, StreamIs, StreamWillBe
  <2>3. CASE i > Len(chunk) - 1
    <3>1. Stream'[i] = wire[i - (Len(chunk) - 1)]
      BY <1>1, <1>2, <2>1, <2>3, StreamWillBe
    <3>2. Stream[i + 1] = wire[i + 1 - Len(chunk)]
      BY <1>1, <2>1, <2>3, StreamIs
    <3> QED BY <1>1, <2>1, <3>1, <3>2
  <2> QED BY <1>1, <2>2, <2>3
<1> QED BY <1>1, <1>3, <1>4, StreamIs DEF Dropped

\* The chunk and nothing after it is gone.
LEMMA ChunkDrops ==
  ASSUME LinkTypes, LinkTypes', chunk' = <<>>, wire' = wire
  PROVE  Dropped(Len(chunk))
<1>1. Len(chunk) \in Nat /\ Len(wire) \in Nat /\ Len(chunk') = 0
  BY DEF LinkTypes
<1>2. Len(Stream) = Len(chunk) + Len(wire) /\ Len(Stream') = Len(wire)
  BY <1>1, StreamIs, StreamWillBe
<1>3. ASSUME NEW i \in 1 .. Len(Stream) - Len(chunk)
      PROVE  Stream'[i] = Stream[i + Len(chunk)]
  <2>1. i \in 1 .. Len(Stream') /\ i + Len(chunk) \in 1 .. Len(Stream)
    BY <1>1, <1>2
  <2>2. Stream'[i] = wire[i]
    BY <1>1, <2>1, StreamWillBe
  <2>3. Stream[i + Len(chunk)] = wire[i + Len(chunk) - Len(chunk)]
    BY <1>1, <2>1, StreamIs
  <2> QED BY <1>1, <2>2, <2>3
<1> QED BY <1>1, <1>2, <1>3 DEF Dropped

\* The decoder takes the head of a frame and holds it.
LEMMA StartKeeps ==
  ASSUME LinkInv, LinkTypes', crashes = 0, DecodeStart
  PROVE  OneRun'
<1>1. LinkTypes /\ chunk \in Seq(AnyPiece) /\ chunk # <<>>
  BY DEF LinkInv, LinkTypes, DecodeStart
<1>2. Dropped(1) /\ Stream[1] = chunk[1]
  BY <1>1, TailDrops DEF DecodeStart, pipeVars
<1>3. EndsIn(1, 1) = {}
  BY <1>1, <1>2 DEF EndsIn, DecodeStart
<1>4. held' = Stream[1].event
  BY <1>1, <1>2 DEF DecodeStart
<1>5. server' # "serving" => 1 = Len(Stream)
  <2>1. Stream # <<>>
    BY <1>1, StreamIs
  <2> QED BY <2>1 DEF LinkInv, OneRun, Framed, DecodeStart, pipeVars
<1> QED BY <1>2, <1>3, <1>4, <1>5, DropKeeps DEF DecodeStart, collectorVars, pipeVars,
                                                 trackerVars

\* Without its head the tail of a frame ends the chunk.
LEMMA GarbageKeeps ==
  ASSUME LinkInv, LinkTypes', crashes = 0, DecodeGarbage
  PROVE  OneRun'
<1>1. LinkTypes /\ chunk \in Seq(AnyPiece) /\ chunk # <<>> /\ Len(chunk) \in Nat
  BY DEF LinkInv, LinkTypes, DecodeGarbage
<1>2. Dropped(Len(chunk))
  BY <1>1, ChunkDrops DEF DecodeGarbage, pipeVars
<1>3. lost' = lost \cup EndsIn(1, Len(chunk))
  <2>1. Len(wire) \in Nat
    BY DEF LinkTypes
  <2>2. Len(chunk) <= Len(Stream) /\ 1 .. Len(chunk) \subseteq 1 .. Len(Stream)
    BY <1>1, <2>1, StreamIs
  <2>3. \A i \in 1 .. Len(chunk) : chunk[i] = Stream[i]
    BY <1>1, <2>2, StreamIs
  <2>4. Lose(chunk)
    BY DEF DecodeGarbage
  <2>5. Len(chunk) = Len(chunk) - 1 + 1 /\ \A i \in 1 .. Len(chunk) : chunk[i] = Stream[1 + i - 1]
    BY <1>1, <2>3
  <2> QED BY <1>1, <2>2, <2>4, <2>5, LostEnds
<1>4. server' # "serving" => Len(chunk) = Len(Stream)
  <2>1. Stream # <<>>
    BY <1>1, StreamIs
  <2> QED BY <2>1 DEF LinkInv, OneRun, Framed, DecodeGarbage, pipeVars
<1> QED BY <1>1, <1>2, <1>3, <1>4, DropKeeps DEF DecodeGarbage, collectorVars, pipeVars,
                                                 trackerVars

\* A frame that ends in front of the decoder is the one it holds, was captured by the
\* first run, and is the first of those on their way; what follows it was captured later.
LEMMA HeldIsFirst ==
  ASSUME LinkInv, crashes = 0, DecodeEnd
  PROVE  /\ Stream # <<>> /\ held = Stream[1].event /\ held \in AnyEvent
         /\ Stream[1].part = 2 /\ Stream[1] = chunk[1]
         /\ Timely(held, sequence, clock, lastCapture)
         /\ held.seq \in Way /\ \A w \in Way : held.seq <= w
         /\ \A i \in DOMAIN Stream : i > 1 => Earlier(held, Stream[i].event)
         /\ \A i \in DOMAIN buffer : Earlier(held, buffer[i])
         /\ pending # None => Earlier(held, pending)
<1>1. /\ LinkTypes /\ InOrder /\ Framed /\ Captured
      /\ chunk \in Seq(AnyPiece) /\ chunk # <<>> /\ Head(chunk).part = 2 /\ held # None
  BY DEF LinkInv, OneRun, LinkTypes, DecodeEnd
<1>2. Stream # <<>> /\ Stream[1] = chunk[1] /\ 1 \in DOMAIN Stream /\ Stream[1].part = 2
  BY <1>1, StreamIs
<1>3. held = Stream[1].event /\ held \in AnyEvent
  BY <1>1, <1>2, StreamIs DEF Framed
<1>4. Timely(held, sequence, clock, lastCapture)
  BY <1>1, <1>2, <1>3 DEF Captured
<1>5. \A i \in DOMAIN Stream : i > 1 => Earlier(held, Stream[i].event)
  <2> SUFFICES ASSUME NEW i \in DOMAIN Stream, i > 1
               PROVE  Earlier(held, Stream[i].event)
    OBVIOUS
  <2>1. Precedes(Stream[1], Stream[i])
    BY <1>1, <1>2 DEF InOrder
  <2> QED BY <1>2, <1>3, <2>1 DEF Precedes
<1>6. \A i \in DOMAIN buffer : Earlier(held, buffer[i])
  BY <1>1, <1>2, <1>3 DEF InOrder
<1>7. pending # None => Earlier(held, pending)
  BY <1>1, <1>2, <1>3 DEF InOrder
<1>8. held.seq \in Nat
  BY <1>3, EventFields
<1>9. held.seq \in Way
  BY <1>2, <1>3 DEF Way
<1>10. ASSUME NEW w \in Way
       PROVE  held.seq <= w
  <2>1. CASE \E i \in DOMAIN Stream : Stream[i].part = 2 /\ w = Stream[i].event.seq
    <3>1. PICK i \in DOMAIN Stream : w = Stream[i].event.seq
      BY <2>1
    <3>2. Stream[i].event.seq \in Nat /\ i \in 1 .. Len(Stream)
      BY <1>1, StreamIs, EventFields
    <3> QED BY <1>3, <1>5, <1>8, <3>1, <3>2 DEF Earlier
  <2>2. CASE \E i \in DOMAIN buffer : w = buffer[i].seq
    <3>1. PICK i \in DOMAIN buffer : w = buffer[i].seq
      BY <2>2
    <3>2. buffer[i].seq \in Nat
      BY <1>1, EventFields DEF LinkTypes
    <3> QED BY <1>6, <1>8, <3>1, <3>2 DEF Earlier
  <2>3. CASE pending # None /\ w = pending.seq
    <3>1. pending.seq \in Nat
      BY <1>1, <2>3, EventFields DEF LinkTypes
    <3> QED BY <1>7, <1>8, <2>3, <3>1 DEF Earlier
  <2> QED BY <2>1, <2>2, <2>3 DEF Way
<1> QED BY <1>2, <1>3, <1>4, <1>5, <1>6, <1>7, <1>9, <1>10

\* A whole frame is observed, and is the end of the chunk or not.
LEMMA EndKeeps ==
  ASSUME LinkInv, LinkTypes', crashes = 0, DecodeEnd
  PROVE  OneRun'
<1>1. /\ LinkTypes /\ InOrder /\ Framed /\ Captured /\ Accounted /\ MissingIsLost
      /\ chunk \in Seq(AnyPiece) /\ chunk # <<>> /\ Len(chunk) \in Nat \ {0}
      /\ Len(chunk) <= Len(Stream) /\ Len(Stream) \in Nat
  BY StreamIs, SMTT(30) DEF LinkInv, OneRun, LinkTypes, DecodeEnd
<1>2. /\ held' = None /\ Observe(held) /\ crashes' = 0 /\ sequence' = sequence
      /\ buffer' = buffer /\ pending' = pending /\ clock' = clock /\ now' = now
      /\ client' = client /\ server' = server /\ wire' = wire
  BY DEF DecodeEnd, collectorVars, pipeVars
<1>3. PICK k \in {1, Len(chunk)} : Dropped(k) /\ lost' = lost \cup EndsIn(2, k)
  <2>1. CASE chunk' = Tail(chunk) /\ lost' = lost
    <3>1. Dropped(1)
      BY <1>1, <1>2, <2>1, TailDrops
    <3>2. EndsIn(2, 1) = {}
      BY DEF EndsIn
    <3> QED BY <2>1, <3>1, <3>2
  <2>2. CASE chunk' = <<>> /\ Lose(Tail(chunk))
    <3>1. Dropped(Len(chunk))
      BY <1>1, <1>2, <2>2, ChunkDrops
    <3>2. /\ Tail(chunk) \in Seq(AnyPiece) /\ Len(Tail(chunk)) = Len(chunk) - 1
          /\ \A i \in 1 .. Len(Tail(chunk)) : Tail(chunk)[i] = chunk[i + 1]
      BY <1>1
    <3>3. \A i \in 1 .. Len(Tail(chunk)) : Tail(chunk)[i] = Stream[2 + i - 1]
      BY <1>1, <3>2, StreamIs
    <3>4. Lose(Tail(chunk)) /\ Len(Tail(chunk)) = Len(chunk) - 2 + 1
      BY <1>1, <2>2, <3>2
    <3>5. Len(chunk) \in Nat /\ Len(chunk) <= Len(Stream)
      BY <1>1
    <3>6. lost' = lost \cup EndsIn(2, Len(chunk))
      <4>1. 2 \in Nat /\ 2 >= 1
        OBVIOUS
      <4> HIDE DEF EndsIn, Lose
      <4> QED BY <3>2, <3>3, <3>4, <3>5, <4>1, LostEnds
    <3> QED BY <3>1, <3>6
  <2> QED BY <2>1, <2>2 DEF DecodeEnd
<1>4. k \in Nat /\ 1 <= k /\ k <= Len(Stream)
  BY <1>1, <1>3
<1>5. EndsIn(1, k) = {held.seq} \cup EndsIn(2, k)
  BY <1>4, HeldIsFirst DEF EndsIn
<1>6. InOrder' /\ Framed'
  <2>1. InOrder'
    BY <1>1, <1>2, <1>3, DroppedOrder
  <2>2. server' # "serving" => k = Len(Stream)
    BY <1>1, <1>2, HeldIsFirst DEF Framed
  <2>3. Framed'
    BY <1>1, <1>2, <1>3, <2>2, DroppedFramed
  <2> QED BY <2>1, <2>3
<1>7. Captured'
  <2>1. lastCapture' \in {lastCapture, held.t}
    BY <1>2 DEF Observe, ObserveFirst, ObserveLate, ObserveNext
  <2>2. ASSUME NEW e, Timely(e, sequence, clock, lastCapture), Earlier(held, e)
        PROVE  Timely(e, sequence', clock', lastCapture')
    BY <1>2, <2>1, <2>2 DEF Timely, Earlier
  <2>3. \A i \in DOMAIN Stream' : i + k \in DOMAIN Stream /\ i + k > 1 /\ Stream'[i] = Stream[i + k]
    BY <1>3, <1>4, StreamIs, StreamWillBe DEF Dropped
  <2>4. \A i \in DOMAIN Stream' : Timely(Stream'[i].event, sequence', clock', lastCapture')
    BY <1>1, <2>2, <2>3, HeldIsFirst DEF Captured
  <2>5. /\ \A i \in DOMAIN buffer' : Timely(buffer'[i], sequence', clock', lastCapture')
        /\ pending' # None => Timely(pending', sequence', clock', lastCapture')
    BY <1>1, <1>2, <2>2, HeldIsFirst DEF Captured
  <2>6. now' <= clock' /\ (lastCapture' # None => lastCapture' <= clock')
    BY <1>1, <1>2, <2>1, HeldIsFirst DEF Captured, Timely
  <2> QED BY <2>4, <2>5, <2>6 DEF Captured
<1>8. Accounted' /\ MissingIsLost'
  <2>1. Way = Way' \cup EndsIn(1, k) /\ Way' \cap EndsIn(1, k) = {}
    BY <1>1, <1>2, <1>3, DroppedWay
  <2>2. held.seq \notin EndsIn(2, k)
    <3>1. \A i \in 2 .. k : held.seq < Stream[i].event.seq /\ Stream[i].event.seq \in Nat
      <4>1. \A i \in 2 .. k : i \in DOMAIN Stream /\ i > 1
        BY <1>1, <1>4, StreamIs
      <4> QED BY <1>1, <4>1, HeldIsFirst, StreamIs, EventFields DEF Earlier
    <3>2. held.seq \in Nat
      BY HeldIsFirst, EventFields
    <3> QED BY <3>1, <3>2 DEF EndsIn
  <2>3. held \in AnyEvent /\ \A w \in Way : held.seq <= w
    BY HeldIsFirst
  <2> HIDE DEF EndsIn
  <2> QED BY <1>1, <1>2, <1>3, <1>5, <2>1, <2>2, <2>3, Observed
<1> QED BY <1>6, <1>7, <1>8 DEF OneRun

-----------------------------------------------------------------------------
\* An event is numbered and pushed. If the buffer is full, one number is lost.
LEMMA PublishKeeps ==
  ASSUME LinkInv, LinkTypes', crashes = 0, crashes' = 0,
         NEW kind \in Kind, NEW t \in Nat, Publish(kind, t),
         t <= clock', clock <= clock', kind # "heartbeat" => clock <= t, now' = now,
         UNCHANGED <<pending, client, server, wire, chunk, held, first, expected, lastCapture,
                     missing>>
  PROVE  OneRun'
<1> DEFINE e == [run |-> crashes, seq |-> sequence, t |-> t, kind |-> kind]
           n == Len(buffer)
<1>1. /\ LinkTypes /\ InOrder /\ Framed /\ Captured /\ Accounted /\ MissingIsLost
      /\ buffer \in Seq(AnyEvent) /\ n \in Nat /\ sequence \in Nat /\ clock \in Nat
      /\ clock' \in Nat /\ pending \in AnyEvent \cup {None}
  BY DEF LinkInv, OneRun, LinkTypes
<1>2. e \in AnyEvent /\ e.seq = sequence /\ e.t = t /\ e.kind = kind /\ e.run = 0
  BY <1>1 DEF AnyEvent, LinkTypes
<1>3. sequence' = sequence + 1
  BY DEF Publish
<1>4. Stream' = Stream
  BY DEF Stream
<1> HIDE DEF e
\* Where the events of the buffer come from, and what is lost.
<1> DEFINE From(k, D) ==
             /\ k <= n /\ Len(buffer') \in {n - k, n - k + 1}
             /\ \A i \in 1 .. Len(buffer') :
                  buffer'[i] = IF i + k <= n THEN buffer[i + k] ELSE e
             /\ lost' = lost \cup D
             /\ D = (IF k = 1 THEN {buffer[1].seq} ELSE {})
                      \cup (IF Len(buffer') = n - k THEN {sequence} ELSE {})
<1>15. \E k \in {0, 1}, D \in SUBSET Nat : From(k, D)
  <2>1. CASE n # Capacity
    <3>1. buffer' = Append(buffer, e) /\ lost' = lost \cup {}
      BY <2>1 DEF Publish, e
    <3>2. Len(buffer') = n + 1 /\ \A i \in 1 .. n + 1 : buffer'[i] = IF i <= n THEN buffer[i] ELSE e
      BY <1>1, <1>2, <3>1
    <3>3. n + 0 = n /\ n - 0 = n /\ n + 1 # n /\ \A i \in 1 .. n + 1 : i + 0 = i
      BY <1>1
    <3>4. From(0, {})
      <4> HIDE DEF n
      <4> QED BY <1>1, <3>1, <3>2, <3>3
    <3> HIDE DEF From
    <3> QED BY <3>4
  <2>2. CASE n = Capacity /\ policy = "DROP_OLDEST"
    <3>1. buffer # <<>> /\ n >= 1
      BY <1>1, <2>2, LinkAssumption
    <3>2. buffer' = Append(Tail(buffer), e) /\ lost' = lost \cup {Head(buffer).seq}
      BY <2>2 DEF Publish, e
    <3>3. Len(buffer') = n /\ \A i \in 1 .. n : buffer'[i] = IF i + 1 <= n THEN buffer[i + 1] ELSE e
      <4>1. /\ Tail(buffer) \in Seq(AnyEvent) /\ Len(Tail(buffer)) = n - 1
            /\ \A i \in 1 .. n - 1 : Tail(buffer)[i] = buffer[i + 1]
        BY <1>1, <3>1
      <4> HIDE DEF n
      <4> QED BY <1>1, <1>2, <3>2, <4>1
    <3>4. Head(buffer) = buffer[1] /\ buffer[1].seq \in Nat
      <4>1. buffer[1] \in AnyEvent
        BY <1>1, <3>1
      <4> QED BY <3>1, <4>1, EventFields
    <3>5. From(1, {buffer[1].seq})
      <4> HIDE DEF n
      <4>1. n = n - 1 + 1 /\ n # n - 1 /\ 1 <= n
        BY <1>1, <3>1
      <4> QED BY <1>1, <3>2, <3>3, <3>4, <4>1
    <3> HIDE DEF From
    <3> QED BY <3>4, <3>5
  <2>3. CASE n = Capacity /\ policy # "DROP_OLDEST"
    <3>1. buffer' = buffer /\ lost' = lost \cup {sequence}
      BY <2>3 DEF Publish
    <3>2. 0 <= n /\ n - 0 = n /\ \A i \in 1 .. n : i + 0 = i /\ i <= n
      BY <1>1
    <3>3. From(0, {sequence})
      BY <1>1, <3>1, <3>2
    <3> HIDE DEF From
    <3> QED BY <1>1, <3>3
  <2> QED BY <2>1, <2>2, <2>3
<1>5. PICK k \in {0, 1}, D \in SUBSET Nat :
        /\ k <= n /\ Len(buffer') \in {n - k, n - k + 1}
        /\ \A i \in 1 .. Len(buffer') :
             buffer'[i] = IF i + k <= n THEN buffer[i + k] ELSE e
        /\ lost' = lost \cup D
        /\ D = (IF k = 1 THEN {buffer[1].seq} ELSE {})
                 \cup (IF Len(buffer') = n - k THEN {sequence} ELSE {})
  BY <1>15
<1> HIDE DEF n
<1>6. /\ k \in Nat /\ Len(buffer') \in Nat
      /\ DOMAIN buffer = 1 .. n /\ DOMAIN buffer' = 1 .. Len(buffer')
      /\ n \in Nat /\ (k = 1 => 1 \in 1 .. n)
  <2>1. /\ k \in Nat /\ Len(buffer') \in Nat /\ n \in Nat
        /\ DOMAIN buffer = 1 .. n /\ DOMAIN buffer' = 1 .. Len(buffer')
    <3>1. k \in Nat
      BY <1>5
    <3>2. buffer \in Seq(AnyEvent) /\ buffer' \in Seq(AnyEvent)
      BY <1>1 DEF LinkTypes
    <3> QED BY <3>1, <3>2 DEF n
  <2>2. k = 1 => 1 \in 1 .. n
    <3>1. k <= n
      BY <1>5, Zenon
    <3> QED BY <2>1, <3>1
  <2> QED BY <2>1, <2>2
<1>7. \A i \in DOMAIN buffer' : \/ i + k \in DOMAIN buffer /\ buffer'[i] = buffer[i + k]
                                \/ i + k = n + 1 /\ buffer'[i] = e
  <2> SUFFICES ASSUME NEW i \in DOMAIN buffer'
               PROVE  \/ i + k \in DOMAIN buffer /\ buffer'[i] = buffer[i + k]
                      \/ i + k = n + 1 /\ buffer'[i] = e
    OBVIOUS
  <2>1. i \in Nat /\ i >= 1 /\ i <= Len(buffer') /\ i \in 1 .. Len(buffer')
    BY <1>6
  <2>2. i + k <= n + 1
    BY <1>5, <1>6, <2>1
  <2>3. buffer'[i] = IF i + k <= n THEN buffer[i + k] ELSE e
    BY <1>5, <2>1
  <2>4. CASE i + k <= n
    BY <1>6, <2>1, <2>3, <2>4
  <2>5. CASE ~(i + k <= n)
    <3>1. i + k = n + 1
      BY <1>6, <2>1, <2>2, <2>5
    <3> QED BY <2>3, <2>5, <3>1
  <2> QED BY <2>4, <2>5
\* The event is later than all the others.
<1>8. ASSUME NEW x \in AnyEvent, Timely(x, sequence, clock, lastCapture)
      PROVE  Earlier(x, e) /\ Timely(x, sequence', clock', lastCapture')
  <2>1. x.seq \in Nat /\ x.t \in Nat
    BY EventFields
  <2> QED BY <1>1, <1>2, <1>3, <1>8, <2>1 DEF Timely, Earlier
<1>9. Timely(e, sequence', clock', lastCapture')
  <2>1. lastCapture # None => lastCapture <= clock /\ lastCapture \in Nat
    BY <1>1 DEF Captured, LinkTypes, TrackerTypeOK
  <2> QED BY <1>1, <1>2, <1>3, <2>1 DEF Timely
<1>10. /\ \A i \in DOMAIN Stream : /\ Earlier(Stream[i].event, e)
                                   /\ Timely(Stream[i].event, sequence', clock', lastCapture')
       /\ \A i \in DOMAIN buffer : /\ Earlier(buffer[i], e)
                                   /\ Timely(buffer[i], sequence', clock', lastCapture')
       /\ pending # None => /\ Earlier(pending, e)
                            /\ Timely(pending, sequence', clock', lastCapture')
  <2>1. (\A i \in DOMAIN Stream : Stream[i].event \in AnyEvent)
        /\ (\A i \in DOMAIN buffer : buffer[i] \in AnyEvent)
    BY <1>1, StreamIs
  <2> QED BY <1>1, <1>8, <2>1 DEF Captured
<1>11. InOrder'
  <2>1. ASSUME NEW i \in DOMAIN buffer', NEW j \in DOMAIN buffer', i < j
        PROVE  Earlier(buffer'[i], buffer'[j])
    <3>1. i + k \in DOMAIN buffer /\ buffer'[i] = buffer[i + k]
      <4>1. i \in Nat /\ j \in Nat /\ j <= Len(buffer') /\ Len(buffer') <= n - k + 1
        BY <1>5, <1>6, <2>1
      <4>2. i + k # n + 1
        BY <1>6, <2>1, <4>1
      <4> QED BY <1>7, <4>2
    <3>2. CASE j + k \in DOMAIN buffer /\ buffer'[j] = buffer[j + k]
      <4>1. i + k < j + k
        BY <1>6, <2>1
      <4> QED BY <1>1, <3>1, <3>2, <4>1 DEF InOrder
    <3>3. CASE buffer'[j] = e
      BY <1>10, <3>1, <3>3
    <3> QED BY <1>7, <3>2, <3>3
  <2>2. \A i \in DOMAIN Stream, j \in DOMAIN buffer' : Earlier(Stream[i].event, buffer'[j])
    BY <1>1, <1>7, <1>10 DEF InOrder
  <2>3. pending # None => \A j \in DOMAIN buffer' : Earlier(pending, buffer'[j])
    BY <1>1, <1>7, <1>10 DEF InOrder
  <2> QED BY <1>1, <1>4, <2>1, <2>2, <2>3 DEF InOrder
<1>12. Framed'
  BY <1>1, <1>4 DEF Framed
<1>13. Captured'
  <2>1. now' <= clock' /\ (lastCapture' # None => lastCapture' <= clock')
    BY <1>1 DEF Captured, LinkTypes, TrackerTypeOK
  <2>2. \A i \in DOMAIN buffer' : Timely(buffer'[i], sequence', clock', lastCapture')
    BY <1>7, <1>9, <1>10
  <2> QED BY <1>4, <1>10, <2>1, <2>2 DEF Captured
<1>14. Accounted' /\ MissingIsLost'
  <2> DEFINE Others == {Stream[i].event.seq : i \in {j \in DOMAIN Stream : Stream[j].part = 2}}
                         \cup (IF pending = None THEN {} ELSE {pending.seq})
             Held == {buffer[i].seq : i \in DOMAIN buffer}
             Kept == {buffer'[i].seq : i \in DOMAIN buffer'}
  <2>1. Way = Others \cup Held /\ Way' = Others \cup Kept
    BY <1>4 DEF Way
  <2>2. \A s \in Held : s \in Kept \cup D
    <3> SUFFICES ASSUME NEW i \in DOMAIN buffer
                 PROVE  buffer[i].seq \in Kept \cup D
      OBVIOUS
    <3>1. CASE i > k
      <4>1. i - k \in DOMAIN buffer' /\ (i - k) + k = i /\ i <= n
        BY <1>1, <1>5, <1>6, <3>1
      <4>2. buffer'[i - k] = buffer[i]
        BY <1>1, <1>5, <1>6, <4>1
      <4> QED BY <4>1, <4>2
    <3>2. CASE i <= k
      BY <1>5, <1>6, <3>2
    <3> QED BY <1>6, <3>1, <3>2
  <2>3. sequence \in Kept \cup D
    <3>1. CASE Len(buffer') = n - k
      BY <1>5, <3>1
    <3>2. CASE Len(buffer') = n - k + 1
      <4>1. Len(buffer') \in DOMAIN buffer' /\ Len(buffer') + k = n + 1 /\ ~(n + 1 <= n)
        BY <1>1, <1>5, <1>6, <3>2
      <4>2. buffer'[Len(buffer')] = e
        BY <1>5, <1>6, <4>1
      <4> QED BY <1>2, <4>1, <4>2
    <3> QED BY <1>5, <3>1, <3>2
  <2>4. \A s \in Kept : s \in Held \/ s = sequence
    BY <1>2, <1>7
  <2>5. \A s \in D : s \in Held \/ s = sequence
    BY <1>1, <1>5, <1>6
  <2>6. Way \subseteq 0 .. sequence - 1
    BY <1>1 DEF Accounted
  <2>12. \A s \in Held \cup Others : s \in Nat /\ s < sequence
    <3>1. \A s \in Way : s \in Nat /\ s < sequence
      BY <1>1, <2>6
    <3> HIDE DEF Held, Others
    <3> QED BY <2>1, <3>1
  <2>7. Kept \cap D = {}
    <3> SUFFICES ASSUME NEW i \in DOMAIN buffer', buffer'[i].seq \in D
                 PROVE  FALSE
      OBVIOUS
    <3>1. CASE buffer'[i].seq = sequence /\ Len(buffer') = n - k
      <4>1. i + k <= n /\ i + k # n + 1
        BY <1>1, <1>6, <3>1
      <4>2. i + k \in DOMAIN buffer /\ buffer'[i] = buffer[i + k]
        BY <1>7, <4>1
      <4>3. buffer'[i].seq \in Held
        BY <4>2
      <4>4. buffer'[i].seq < sequence
        <5> HIDE DEF Held, Others
        <5> QED BY <2>12, <4>3
      <4>5. sequence \in Nat
        BY <1>1 DEF LinkTypes
      <4> QED BY <3>1, <4>4, <4>5
    <3>2. CASE buffer'[i].seq = buffer[1].seq /\ k = 1
      <4>1. 1 \in DOMAIN buffer /\ buffer[1].seq \in Nat /\ buffer[1].seq < sequence
        <5>1. 1 \in DOMAIN buffer
          BY <1>6, <3>2
        <5>2. buffer[1].seq \in Held
          BY <5>1
        <5> HIDE DEF Held, Others
        <5> QED BY <2>12, <5>1, <5>2
      <4>2. CASE i + k \in DOMAIN buffer /\ buffer'[i] = buffer[i + k]
        <5>1. i + k > 1
          BY <1>6, <3>2
        <5>2. Earlier(buffer[1], buffer[i + k]) /\ buffer[i + k].seq \in Nat
          BY <1>1, <4>1, <4>2, <5>1, EventFields DEF InOrder
        <5> QED BY <3>2, <4>1, <4>2, <5>2 DEF Earlier
      <4>3. CASE buffer'[i] = e
        BY <1>1, <1>2, <3>2, <4>1, <4>3
      <4> QED BY <1>7, <4>2, <4>3
    <3> QED BY <1>5, <3>1, <3>2
  <2>8. Others \cap D = {}
    <3>1. Others \cap Held = {}
      <4>1. ASSUME NEW i \in DOMAIN Stream, NEW j \in DOMAIN buffer
            PROVE  Stream[i].event.seq # buffer[j].seq
        <5>1. Stream[i].event.seq \in Nat /\ buffer[j].seq \in Nat
          BY <1>1, StreamIs, EventFields
        <5> QED BY <1>1, <5>1 DEF InOrder, Earlier
      <4>2. ASSUME pending # None, NEW j \in DOMAIN buffer
            PROVE  pending.seq # buffer[j].seq
        <5>1. pending.seq \in Nat /\ buffer[j].seq \in Nat
          BY <1>1, <4>2, EventFields
        <5> QED BY <1>1, <4>2, <5>1 DEF InOrder, Earlier
      <4> QED BY <4>1, <4>2
    <3>2. sequence \notin Others
      <4> HIDE DEF Others, Held
      <4> QED BY <1>1, <2>12
    <3> HIDE DEF Others, Held
    <3> QED BY <2>5, <3>1, <3>2
  <2>9. sequence .. sequence' - 1 = {sequence} /\ sequence' >= sequence
    BY <1>1, <1>3
  <2>10. Way' \cap D = {}
    <3> HIDE DEF Others, Held, Kept
    <3> QED BY <2>1, <2>7, <2>8
  <2>11. /\ \A s \in Way : s \in Way' \/ s \in D
         /\ \A s \in sequence .. sequence' - 1 : s \in Way' \/ s \in D
         /\ \A s \in Way' \cup D : s \in Way \/ s \in sequence .. sequence' - 1
    <3> HIDE DEF Others, Held, Kept
    <3> QED BY <2>1, <2>2, <2>3, <2>4, <2>5, <2>9
  <2> QED BY <1>1, <1>5, <2>9, <2>10, <2>11, Moved
<1> QED BY <1>11, <1>12, <1>13, <1>14 DEF OneRun

-----------------------------------------------------------------------------
\* The oldest event of the buffer becomes the pending frame.
LEMMA TakeKeeps ==
  ASSUME LinkInv, LinkTypes', crashes = 0, TakePending
  PROVE  OneRun'
<1>1. /\ LinkTypes /\ InOrder /\ Framed /\ Captured /\ Accounted /\ MissingIsLost
      /\ buffer \in Seq(AnyEvent) /\ buffer # <<>> /\ Len(buffer) \in Nat
  BY DEF LinkInv, OneRun, LinkTypes, TakePending
<1>2. /\ pending = None /\ pending' = buffer[1] /\ client' = client
      /\ UNCHANGED <<policy, clock, now, sequence, server, wire, chunk, held, first, expected,
                     lastCapture, missing, lost, crashes>>
  BY <1>1 DEF TakePending, pipeVars, decoderVars, trackerVars
<1>3. /\ Len(buffer') = Len(buffer) - 1 /\ \A i \in 1 .. Len(buffer) - 1 : buffer'[i] = buffer[i + 1]
      /\ DOMAIN buffer' = 1 .. Len(buffer) - 1 /\ DOMAIN buffer = 1 .. Len(buffer)
  BY <1>1 DEF TakePending
<1>4. 1 \in DOMAIN buffer /\ buffer[1] \in AnyEvent /\ buffer[1] # None
  BY <1>1, <1>3, NoneIsNothing
<1>5. \A i \in DOMAIN buffer' : /\ i + 1 \in DOMAIN buffer /\ i + 1 > 1
                                /\ buffer'[i] = buffer[i + 1]
  BY <1>1, <1>3
<1>6. Stream' = Stream
  BY <1>2 DEF Stream
<1>7. InOrder'
  <2>1. ASSUME NEW i \in DOMAIN buffer', NEW j \in DOMAIN buffer', i < j
        PROVE  Earlier(buffer'[i], buffer'[j])
    <3>1. i + 1 < j + 1
      BY <1>3, <2>1
    <3> QED BY <1>1, <1>5, <3>1 DEF InOrder
  <2>2. \A i \in DOMAIN Stream, j \in DOMAIN buffer' : Earlier(Stream[i].event, buffer'[j])
    BY <1>1, <1>5 DEF InOrder
  <2>3. \A j \in DOMAIN buffer' : Earlier(buffer[1], buffer'[j])
    BY <1>1, <1>4, <1>5 DEF InOrder
  <2>4. \A i \in DOMAIN Stream : Earlier(Stream[i].event, buffer[1])
    BY <1>1, <1>4 DEF InOrder
  <2> QED BY <1>1, <1>2, <1>6, <2>1, <2>2, <2>3, <2>4 DEF InOrder
<1>8. Framed'
  BY <1>1, <1>2, <1>6 DEF Framed
<1>9. Captured'
  BY <1>1, <1>2, <1>4, <1>5, <1>6 DEF Captured
<1>10. Way' = Way
  <2> DEFINE Held == {buffer[i].seq : i \in DOMAIN buffer}
             Kept == {buffer'[i].seq : i \in DOMAIN buffer'} \cup {buffer[1].seq}
  <2>1. ASSUME NEW i \in DOMAIN buffer
        PROVE  buffer[i].seq \in Kept
    <3>1. CASE i = 1
      BY <3>1
    <3>2. CASE i # 1
      <4>1. i - 1 \in DOMAIN buffer' /\ (i - 1) + 1 = i
        BY <1>1, <1>3, <3>2
      <4>2. buffer'[i - 1] = buffer[i]
        BY <1>3, <4>1
      <4> QED BY <4>1, <4>2
    <3> QED BY <3>1, <3>2
  <2>2. Held = Kept
    BY <1>4, <1>5, <2>1
  <2>3. Way = {Stream[i].event.seq : i \in {j \in DOMAIN Stream : Stream[j].part = 2}} \cup Held
    BY <1>2 DEF Way
  <2>4. Way' = {Stream[i].event.seq : i \in {j \in DOMAIN Stream : Stream[j].part = 2}} \cup Kept
    BY <1>2, <1>4, <1>6 DEF Way
  <2> HIDE DEF Held, Kept
  <2> QED BY <2>2, <2>3, <2>4
<1>11. Accounted' /\ MissingIsLost'
  BY <1>1, <1>2, <1>10 DEF Accounted, MissingIsLost
<1> QED BY <1>7, <1>8, <1>9, <1>11 DEF OneRun

\* The head of the pending frame, or all of it, is at the end of the stream.
Sent(m) ==
  /\ m \in {1, 2} /\ Len(Stream') = Len(Stream) + m
  /\ \A i \in 1 .. Len(Stream) : Stream'[i] = Stream[i]
  /\ Stream'[Len(Stream) + 1] = [event |-> pending, part |-> 1]
  /\ m = 2 => Stream'[Len(Stream) + 2] = [event |-> pending, part |-> 2]

\* A step that sends of the pending frame, and keeps it unless it is sent whole.
LEMMA SendKeeps ==
  ASSUME LinkInv, LinkTypes', crashes = 0, NEW m, Sent(m), client, pending # None,
         m = 1 => pending' = pending /\ ~client', m = 2 => pending' = None,
         server = "serving",
         UNCHANGED <<clock, now, sequence, buffer, server, held, trackerVars, lost, crashes>>
  PROVE  OneRun'
<1>1. /\ LinkTypes /\ InOrder /\ Framed /\ Captured /\ Accounted /\ MissingIsLost
      /\ pending \in AnyEvent
  BY DEF LinkInv, OneRun, LinkTypes
<1> DEFINE n == Len(Stream)
<1>2. n \in Nat /\ m \in Nat /\ DOMAIN Stream = 1 .. n /\ DOMAIN Stream' = 1 .. n + m
  BY <1>1, StreamIs, StreamWillBe DEF Sent
<1>3. /\ \A i \in 1 .. n : i \in DOMAIN Stream' /\ Stream'[i] = Stream[i]
      /\ \A i \in DOMAIN Stream' : \/ i \in 1 .. n
                                   \/ i = n + 1
                                   \/ i = n + 2 /\ m = 2
      /\ n + 1 \in DOMAIN Stream' /\ (m = 2 => n + 2 \in DOMAIN Stream')
      /\ Stream'[n + 1].event = pending /\ Stream'[n + 1].part = 1
      /\ m = 2 => Stream'[n + 2].event = pending /\ Stream'[n + 2].part = 2
  BY <1>2 DEF Sent
<1>4. \A i \in 1 .. n : Earlier(Stream[i].event, pending)
  BY <1>1, <1>2 DEF InOrder
<1> HIDE DEF n
<1>5. InOrder'
  <2>1. ASSUME NEW i \in DOMAIN Stream', NEW j \in DOMAIN Stream', i < j
        PROVE  Precedes(Stream'[i], Stream'[j])
    <3>1. CASE j \in 1 .. n
      <4>1. i \in 1 .. n
        BY <1>2, <2>1, <3>1
      <4> QED BY <1>1, <1>2, <1>3, <2>1, <3>1, <4>1 DEF InOrder
    <3>2. CASE j = n + 1
      <4>1. i \in 1 .. n
        BY <1>2, <2>1, <3>2
      <4> QED BY <1>3, <1>4, <3>2, <4>1 DEF Precedes
    <3>3. CASE j = n + 2 /\ m = 2
      <4>1. i \in 1 .. n \/ i = n + 1
        BY <1>2, <2>1, <3>3
      <4> QED BY <1>3, <1>4, <3>3, <4>1 DEF Precedes
    <3> QED BY <1>3, <3>1, <3>2, <3>3
  <2>2. \A i \in DOMAIN Stream' : Stream'[i].event = pending
                                  \/ (i \in 1 .. n /\ Stream'[i] = Stream[i])
    <3> SUFFICES ASSUME NEW i \in DOMAIN Stream'
                 PROVE  Stream'[i].event = pending \/ (i \in 1 .. n /\ Stream'[i] = Stream[i])
      OBVIOUS
    <3>1. CASE i \in 1 .. n
      BY <1>3, <3>1
    <3>2. CASE i = n + 1
      <4>1. Stream'[n + 1].event = pending
        BY <1>3
      <4> QED BY <3>2, <4>1
    <3>3. CASE i = n + 2 /\ m = 2
      <4>1. Stream'[n + 2].event = pending
        BY <1>3, <3>3
      <4> QED BY <3>3, <4>1
    <3> QED BY <1>3, <3>1, <3>2, <3>3
  <2>3. \A i \in DOMAIN Stream', j \in DOMAIN buffer : Earlier(Stream'[i].event, buffer[j])
    BY <1>1, <1>2, <2>2 DEF InOrder
  <2>4. ASSUME pending' # None
        PROVE  /\ \A j \in DOMAIN buffer : Earlier(pending', buffer[j])
               /\ \A i \in DOMAIN Stream' :
                    client' \/ Stream'[i].part = 2 => Earlier(Stream'[i].event, pending')
    <3>1. m = 1 /\ pending' = pending /\ ~client'
      BY <2>4 DEF Sent
    <3>2. ASSUME NEW i \in DOMAIN Stream', Stream'[i].part = 2
          PROVE  Earlier(Stream'[i].event, pending)
      BY <1>3, <1>4, <3>1, <3>2
    <3> QED BY <1>1, <3>1, <3>2 DEF InOrder
  <2> QED BY <1>1, <2>1, <2>3, <2>4 DEF InOrder
<1>6. Framed'
  <2>1. ASSUME NEW i \in DOMAIN Stream', i > 1, Stream'[i].part = 2
        PROVE  Stream'[i - 1] = [event |-> Stream'[i].event, part |-> 1]
    <3>1. CASE i \in 1 .. n
      <4>1. i - 1 \in 1 .. n
        BY <1>2, <2>1, <3>1
      <4> QED BY <1>1, <1>2, <1>3, <2>1, <3>1, <4>1 DEF Framed
    <3>2. CASE i = n + 2 /\ m = 2
      <4>1. i - 1 = n + 1
        BY <1>2, <3>2
      <4> QED BY <1>3, <3>2, <4>1 DEF Sent, n
    <3>3. CASE i = n + 1
      BY <1>3, <2>1, <3>3
    <3> QED BY <1>3, <3>1, <3>2, <3>3
  <2>2. ASSUME Stream'[1].part = 2
        PROVE  held = None \/ held = Stream'[1].event
    <3>1. n # 0
      BY <1>3, <2>2
    <3>2. 1 \in 1 .. n /\ Stream # <<>> /\ Stream'[1] = Stream[1]
      BY <1>1, <1>2, <1>3, <3>1, StreamIs
    <3> QED BY <1>1, <2>2, <3>2 DEF Framed
  <2> QED BY <2>1, <2>2 DEF Framed
<1>7. Captured'
  <2>1. \A i \in DOMAIN Stream' : Timely(Stream'[i].event, sequence, clock, lastCapture)
    BY <1>1, <1>2, <1>3 DEF Captured
  <2>2. now' = now /\ clock' = clock /\ sequence' = sequence /\ lastCapture' = lastCapture
        /\ buffer' = buffer /\ (pending' # None => pending' = pending)
    BY DEF trackerVars, Sent
  <2> QED BY <1>1, <2>1, <2>2 DEF Captured
<1>8. Way' = Way
  <2> DEFINE Carried == {Stream[i].event.seq : i \in {j \in DOMAIN Stream : Stream[j].part = 2}}
             Carries == {Stream'[i].event.seq : i \in {j \in DOMAIN Stream' : Stream'[j].part = 2}}
             Held == {buffer[i].seq : i \in DOMAIN buffer}
  <2>1. Way = Carried \cup Held \cup {pending.seq}
    BY DEF Way
  <2>2. Way' = Carries \cup Held \cup (IF m = 1 THEN {pending.seq} ELSE {})
    BY DEF Way, Sent
  <2>3. \A s \in Carries : s \in Carried \/ (m = 2 /\ s = pending.seq)
    BY <1>2, <1>3
  <2>4. \A s \in Carried : s \in Carries
    BY <1>2, <1>3
  <2>5. m = 2 => pending.seq \in Carries
    BY <1>3
  <2>6. m = 1 \/ m = 2
    BY DEF Sent
  <2> HIDE DEF Carried, Carries, Held
  <2> QED BY <2>1, <2>2, <2>3, <2>4, <2>5, <2>6
<1>9. Accounted' /\ MissingIsLost'
  BY <1>1, <1>8 DEF Accounted, MissingIsLost, trackerVars
<1> QED BY <1>5, <1>6, <1>7, <1>9 DEF OneRun

\* What is written to the pipe is at the end of the stream.
LEMMA Grown ==
  ASSUME LinkTypes, LinkTypes', chunk' = chunk, NEW m \in Nat, Len(wire') = Len(wire) + m,
         \A i \in 1 .. Len(wire) : wire'[i] = wire[i]
  PROVE  /\ Len(Stream') = Len(Stream) + m
         /\ \A i \in 1 .. Len(Stream) : Stream'[i] = Stream[i]
         /\ \A j \in 1 .. m : Stream'[Len(Stream) + j] = wire'[Len(wire) + j]
<1>1. Len(chunk) \in Nat /\ Len(wire) \in Nat
  BY DEF LinkTypes
<1>2. Len(Stream) = Len(chunk) + Len(wire) /\ Len(Stream') = Len(Stream) + m
  BY <1>1, StreamIs, StreamWillBe
<1>3. ASSUME NEW i \in 1 .. Len(Stream)
      PROVE  Stream'[i] = Stream[i]
  <2>1. i \in 1 .. Len(Stream')
    BY <1>1, <1>2
  <2>2. CASE i <= Len(chunk)
    BY <2>1, <2>2, StreamIs, StreamWillBe
  <2>3. CASE i > Len(chunk)
    <3>1. i - Len(chunk) \in 1 .. Len(wire) /\ ~(i <= Len(chunk))
      BY <1>1, <1>2, <2>3
    <3>2. Stream'[i] = wire'[i - Len(chunk)]
      BY <2>1, <3>1, StreamWillBe
    <3>3. Stream[i] = wire[i - Len(chunk)]
      BY <3>1, StreamIs
    <3> QED BY <3>1, <3>2, <3>3
  <2> QED BY <1>1, <2>2, <2>3
<1>4. ASSUME NEW j \in 1 .. m
      PROVE  Stream'[Len(Stream) + j] = wire'[Len(wire) + j]
  <2> DEFINE i == Len(Stream) + j
  <2>1. /\ i \in 1 .. Len(Stream') /\ ~(i <= Len(chunk)) /\ i - Len(chunk) = Len(wire) + j
    BY <1>1, <1>2
  <2>2. Stream'[i] = wire'[i - Len(chunk)]
    <3> HIDE DEF i
    <3> QED BY <2>1, StreamWillBe
  <2> QED BY <2>1, <2>2
<1> QED BY <1>2, <1>3, <1>4

\* The frame is written whole.
LEMMA FrameKeeps ==
  ASSUME LinkInv, LinkTypes', crashes = 0, SendFrame
  PROVE  OneRun'
<1>1. LinkTypes /\ wire \in Seq(AnyPiece) /\ pending \in AnyEvent
  BY DEF LinkInv, LinkTypes, SendFrame
<1> DEFINE p == [event |-> pending, part |-> 1]
           q == [event |-> pending, part |-> 2]
<1>2. p \in AnyPiece /\ q \in AnyPiece /\ wire' = wire \o <<p, q>>
  BY <1>1 DEF AnyPiece, SendFrame, Frame
<1> HIDE DEF p, q
<1>3. /\ Len(wire') = Len(wire) + 2 /\ \A i \in 1 .. Len(wire) : wire'[i] = wire[i]
      /\ wire'[Len(wire) + 1] = p /\ wire'[Len(wire) + 2] = q
  BY <1>1, <1>2
<1>4. Sent(2)
  <2>1. chunk' = chunk
    BY DEF SendFrame, decoderVars
  <2>2. /\ Len(Stream') = Len(Stream) + 2
        /\ \A i \in 1 .. Len(Stream) : Stream'[i] = Stream[i]
        /\ \A j \in 1 .. 2 : Stream'[Len(Stream) + j] = wire'[Len(wire) + j]
    BY <1>1, <1>3, <2>1, Grown
  <2>3. Stream'[Len(Stream) + 1] = p /\ Stream'[Len(Stream) + 2] = q
    BY <1>3, <2>2
  <2> QED BY <2>2, <2>3 DEF Sent, p, q
<1>5. /\ client /\ pending # None /\ pending' = None /\ server = "serving"
      /\ UNCHANGED <<clock, now, sequence, buffer, server, held, trackerVars, lost, crashes>>
  BY DEF SendFrame, decoderVars
<1> QED BY <1>4, <1>5, SendKeeps

\* The write is cut short after the head of the frame, or before it.
LEMMA CutKeeps ==
  ASSUME LinkInv, LinkTypes', crashes = 0, SendFails
  PROVE  OneRun'
<1>1. LinkTypes /\ wire \in Seq(AnyPiece) /\ pending \in AnyEvent
  BY DEF LinkInv, LinkTypes, SendFails
<1> DEFINE p == [event |-> pending, part |-> 1]
<1>2. p \in AnyPiece
  BY <1>1 DEF AnyPiece
<1>3. UNCHANGED wire \/ (server = "serving" /\ wire' = Append(wire, p))
  BY DEF SendFails, CutShort, Frame
<1> HIDE DEF p
<1>4. CASE server = "serving" /\ wire' = Append(wire, p)
  <2>1. /\ Len(wire') = Len(wire) + 1 /\ \A i \in 1 .. Len(wire) : wire'[i] = wire[i]
        /\ wire'[Len(wire) + 1] = p
    BY <1>1, <1>2, <1>4
  <2>2. chunk' = chunk
    BY DEF SendFails, decoderVars
  <2>3. /\ Len(Stream') = Len(Stream) + 1
        /\ \A i \in 1 .. Len(Stream) : Stream'[i] = Stream[i]
        /\ \A j \in 1 .. 1 : Stream'[Len(Stream) + j] = wire'[Len(wire) + j]
    BY <1>1, <2>1, <2>2, Grown
  <2>4. Sent(1)
    BY <2>1, <2>3 DEF Sent, p
  <2>5. /\ client /\ pending # None /\ pending' = pending /\ ~client'
        /\ UNCHANGED <<clock, now, sequence, buffer, server, held, trackerVars, lost, crashes>>
    BY DEF SendFails, decoderVars
  <2> QED BY <1>4, <2>4, <2>5, SendKeeps
<1>5. CASE UNCHANGED wire
  BY <1>5, TurnKeeps
<1> QED BY <1>3, <1>4, <1>5

-----------------------------------------------------------------------------
\* The invariant holds at the start and is kept by every step; a restart of the collector
\* ends what it says.
LEMMA LinkStart == Init => LinkInv
<1> SUFFICES ASSUME Init
             PROVE  LinkInv
  OBVIOUS
<1>1. LinkTypes
  <2>1. policy \in Policies /\ TrackerTypeOK(Nat)
    BY DEF Init, TrackerInit, TrackerTypeOK
  <2>2. client \in BOOLEAN
    BY Zenon DEF Init
  <2>3. clock = 0 /\ now = 0 /\ sequence = 0 /\ crashes = 0 /\ lost \in SUBSET Nat
    BY DEF Init
  <2>4. /\ buffer \in Seq(AnyEvent) /\ wire \in Seq(AnyPiece) /\ chunk \in Seq(AnyPiece)
        /\ pending = None /\ held = None
    BY DEF Init
  <2> QED BY <2>1, <2>2, <2>3, <2>4 DEF LinkTypes
<1>2. Len(Stream) = 0 /\ DOMAIN Stream = {} /\ Stream = <<>>
  <2>1. Len(Stream) = 0
    BY <1>1, StreamIs DEF Init
  <2> QED BY <1>1, <2>1, StreamIs
<1>3. DOMAIN buffer = {} /\ Way = {}
  BY <1>2 DEF Init, Way
<1>4. OneRun
  BY <1>2, <1>3 DEF Init, TrackerInit, OneRun, InOrder, Framed, Captured, Accounted, MissingIsLost
<1> QED BY <1>1, <1>4 DEF LinkInv

\* Whatever the step, in the first run of the collector.
LEMMA LinkStep == LinkInv /\ [Next]_vars => LinkInv'
<1> SUFFICES ASSUME LinkInv, [Next]_vars
             PROVE  LinkInv'
  OBVIOUS
<1>1. LinkTypes'
  BY TypesKept DEF LinkInv
<1>2. SUFFICES ASSUME crashes' = 0
               PROVE  OneRun'
  BY <1>1 DEF LinkInv
<1>3. crashes = 0 /\ ~Restart
  BY <1>2 DEF LinkInv, LinkTypes, Next, Loop, Backend, Decode, Restart, Wake, EmitContext,
       EmitHeartbeat, NothingDue, Connect, SkipConnect, TakePending, SendFrame, SendFails,
       SendDone, Hook, PollDone, StartBackend, StopBackend, Read, Disconnect, ReadError,
       DecodeStart, DecodeEnd, DecodeGarbage, vars
<1>4. CASE \/ Wake \/ NothingDue \/ SkipConnect \/ SendDone \/ PollDone \/ Connect
           \/ StartBackend \/ Disconnect \/ ReadError \/ UNCHANGED vars
  BY <1>1, <1>3, <1>4, TurnKeeps
<1>5. CASE EmitContext \/ Hook
  <2>1. PICK kind \in {"context", "input"}, t \in {clock, clock + 1} :
          clock' = t /\ Publish(kind, t)
    BY <1>5 DEF EmitContext, Hook, Capture
  <2>2. clock \in Nat /\ kind \in Kind /\ t \in Nat /\ clock <= t /\ t <= clock'
    BY <2>1 DEF LinkInv, LinkTypes, Kind
  <2>3. now' = now /\ UNCHANGED <<pending, client, server, wire, chunk, held, first, expected,
                                  lastCapture, missing>>
    BY <1>5 DEF EmitContext, Hook, pipeVars, decoderVars, trackerVars
  <2> QED BY <1>1, <1>2, <1>3, <2>1, <2>2, <2>3, PublishKeeps
<1>6. CASE EmitHeartbeat
  <2>1. "heartbeat" \in Kind /\ now \in Nat /\ clock \in Nat /\ now <= clock
    BY <1>3 DEF LinkInv, LinkTypes, OneRun, Captured, Kind
  <2>2. /\ clock' = clock /\ now' = now
        /\ UNCHANGED <<pending, client, server, wire, chunk, held, first, expected,
                       lastCapture, missing>>
    BY <1>6 DEF EmitHeartbeat, pipeVars, decoderVars, trackerVars
  <2>3. Publish("heartbeat", now) /\ clock <= clock'
    BY <1>6, <2>1, <2>2 DEF EmitHeartbeat
  <2> QED BY <1>1, <1>2, <1>3, <2>1, <2>2, <2>3, PublishKeeps
<1>7. CASE TakePending \/ SendFrame \/ SendFails
  BY <1>1, <1>3, <1>7, TakeKeeps, FrameKeeps, CutKeeps
<1>8. CASE StopBackend \/ Read \/ Decode
  BY <1>1, <1>3, <1>8, StopKeeps, ReadKeeps, StartKeeps, EndKeeps, GarbageKeeps DEF Decode
<1> QED BY <1>3, <1>4, <1>5, <1>6, <1>7, <1>8 DEF Next, Loop, Backend

(* For every buffer capacity, pipe size and overload policy, and with or   *)
(* without faults, the gap counter of a session is the number of events    *)
(* that were lost since its first.                                         *)
THEOREM MissingIsLostAlways == Spec => []MissingIsLost
<1>1. LinkInv => MissingIsLost
  BY DEF LinkInv, OneRun, MissingIsLost
<1> QED BY <1>1, LinkStart, LinkStep, PTL DEF Spec

(* No input or context of the first run of the collector is refused: what  *)
(* the tracker observes arrives once and in the order of capture, across   *)
(* overflows, broken connections, recoveries and restarts of the backend.  *)
THEOREM InputNeverRefusedAlways == Spec => InputNeverRefused
<1>1. LinkInv /\ [Next]_vars
        => [crashes = 0 /\ DecodeEnd /\ held.kind # "heartbeat" => verdict' = "accepted"]_vars
  <2> SUFFICES ASSUME LinkInv, crashes = 0, DecodeEnd, held.kind # "heartbeat"
               PROVE  verdict' = "accepted"
    OBVIOUS
  <2>1. /\ held \in AnyEvent /\ Timely(held, sequence, clock, lastCapture) /\ held.seq \in Way
        /\ Observe(held) /\ Accounted /\ LinkTypes
    BY HeldIsFirst DEF DecodeEnd, LinkInv, OneRun
  <2>2. held.seq \in Nat /\ held.t \in Nat
    BY <2>1, EventFields
  <2>3. CASE expected = None
    BY <2>1, <2>3 DEF Observe, ObserveFirst, ObserveLate, ObserveNext
  <2>4. CASE expected # None
    <3>1. expected \in Nat /\ lastCapture \in Nat
      BY <2>1, <2>4 DEF LinkTypes, TrackerTypeOK, Accounted
    <3>2. ~(held.seq < expected) /\ ~(held.t < lastCapture)
      BY <2>1, <2>2, <2>4, <3>1, NoneIsNothing DEF Accounted, Timely
    <3> QED BY <2>1, <2>4, <3>2 DEF Observe, ObserveFirst, ObserveLate, ObserveNext
  <2> QED BY <2>3, <2>4
<1> QED BY <1>1, LinkStart, LinkStep, PTL DEF Spec, InputNeverRefused
=============================================================================
