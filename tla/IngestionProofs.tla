--------------------------- MODULE IngestionProofs ---------------------------
(***************************************************************************)
(* What Ingestion keeps, for any limits of a window, any number of         *)
(* payloads, sessions and failing sinks.  The invariant comes in layers,   *)
(* each proved from those before it: the types and the order of the calls, *)
(* the rows, the windows, the fate of every input, the submitted segments. *)
(***************************************************************************)
EXTENDS Ingestion, FiniteSetTheorems, TLAPS

(* Types, and the calls that can be pending.                               *)

PlainDo == {"createSession", "declareDrill", "anchor", "alert", "endSession"}
EndingDo == {"flush", "endSegment", "submit"}
Job ==
  [do : PlainDo]
  \cup [do : EndingDo \cup {"createSegment"}, seg : Nat]
  \cup [do : {"window"}, seg : Nat, evs : SUBSET Nat]
  \cup [do : {"event"}, seg : Nat, kind : {"key", "mouse", "other"}, t : Nat, n : Nat]
Control == {"down", "starting", "reading", "feeding", "recovering", "ending"}
Observed == [seg : Nat \ {0}, t : Nat, session : Nat, drill : BOOLEAN]

Types ==
  /\ pc \in Control /\ calls \in Seq(Job) /\ left \in Nat
  /\ session \in Nat /\ drill \in BOOLEAN /\ segment \in {0, opened}
  /\ opened \in Nat /\ payloads \in Nat /\ now \in Nat
  /\ input \in Nat \cup {None}
  /\ seen \in [DOMAIN seen -> Observed] /\ DOMAIN seen \subseteq 1 .. payloads
  /\ \A n \in DOMAIN seen : seen[n].seg <= opened
  /\ builders \in [DOMAIN builders -> [start : Nat, keys : Nat, evs : SUBSET Nat]]
  /\ sessions \in [DOMAIN sessions -> [drill : BOOLEAN, ended : BOOLEAN]]
  /\ segments \in [DOMAIN segments -> [session : Nat, ended : BOOLEAN]]
  /\ DOMAIN segments \subseteq 1 .. opened
  /\ windows \subseteq [seg : Nat, evs : SUBSET Nat]
  /\ DOMAIN cands \subseteq 1 .. opened
  /\ cands = [s \in DOMAIN cands |-> cands[s]]

Do(i) == calls[i].do
Seg(i) == calls[i].seg
Pending == 1 .. Len(calls)
Last == Len(calls)

(* Where in the sequence a call can stand, and what it is about.           *)
StartShape ==
  pc = "starting" =>
    /\ Last <= 2
    /\ Last = 2 => Do(1) = "createSession"
    /\ \A i \in Pending : i = 2 \/ Last = 1 => Do(i) = IF drill THEN "declareDrill" ELSE "anchor"
FeedShape ==
  pc = "feeding" =>
    \A i \in Pending :
      /\ Do(i) \notin {"createSession", "declareDrill", "anchor", "endSession"}
      /\ Do(i) \in EndingDo => Seg(i) < segment /\ Seg(i) > 0
      /\ Do(i) = "window" => Seg(i) <= segment /\ Seg(i) > 0 /\ (Seg(i) = segment => Last = 1)
      /\ Do(i) = "createSegment" => i = Last - 1 /\ Seg(i) = segment
      /\ Do(i) = "event" => /\ i = Last /\ Seg(i) = segment
                            /\ calls[i].n = payloads /\ calls[i].t = now
      /\ Do(i) \in {"createSegment", "event"} => segment # 0
EndShape ==
  pc = "ending" =>
    \A i \in Pending :
      /\ Do(i) \notin {"createSession", "declareDrill", "anchor", "createSegment", "event"}
      /\ Do(i) \in EndingDo \cup {"window"} => Seg(i) = segment /\ segment # 0
      /\ Do(i) = "endSession" => i = Last
Order ==
  \A i \in Pending :
    /\ Do(i) \in {"flush", "window", "alert"} => i = 1
    /\ Do(i) = "endSegment" => \/ i = 1
                               \/ i = 2 /\ Do(1) \in {"flush", "window"} /\ Seg(1) = Seg(2)
    /\ Do(i) = "submit" => \/ i = 1
                           \/ Do(i - 1) = "endSegment" /\ Seg(i - 1) = Seg(i)
AtRest ==
  /\ pc \in {"down", "reading", "recovering"} => calls = <<>>
  /\ pc = "down" => session = 0 /\ segment = 0 /\ builders = Empty
  /\ pc = "starting" => segment = 0 /\ builders = Empty

Shape == StartShape /\ FeedShape /\ EndShape /\ Order /\ AtRest

(* The rows: sessions are numbered, a running session has its row with the *)
(* drill label, and a segment's row names the session of its inputs.       *)
Numbered == \E k \in Nat : DOMAIN sessions = 1 .. k
                           /\ (pc = "starting" /\ Last = 2 => session = k + 1)
SessionRow ==
  pc # "down" /\ ~(pc = "starting" /\ Last = 2) =>
    /\ session \in DOMAIN sessions
    /\ sessions[session].drill = IF pc = "starting" /\ Last = 1 THEN FALSE ELSE drill
InputRows ==
  \A n \in DOMAIN seen :
    /\ seen[n].session \in DOMAIN sessions
    /\ sessions[seen[n].session].drill = seen[n].drill
    /\ pc = "starting" => seen[n].session # session
    /\ seen[n].seg \in DOMAIN segments => segments[seen[n].seg].session = seen[n].session
Ours(s) == \A n \in DOMAIN seen : seen[n].seg = s => seen[n].session = session
InHand(s) == \/ s = segment /\ segment # 0
             \/ \E i \in Pending : Do(i) \in EndingDo \cup {"window"} /\ Seg(i) = s
OursInHand == \A s \in Nat : InHand(s) => Ours(s)
SegmentRows ==
  /\ DOMAIN builders \subseteq DOMAIN segments
  /\ \A w \in windows : w.seg \in DOMAIN segments
  /\ \A i \in Pending : Do(i) = "window" => Seg(i) \in DOMAIN segments
DrillLeavesNone == \A n \in DOMAIN seen : seen[n].drill => seen[n].seg \notin DOMAIN cands
OpenSegment ==
  segment # 0 => /\ pc # "ending" => segment \notin DOMAIN cands
                 /\ segment \in DOMAIN segments => segments[segment].session = session

RowsInv == /\ Numbered /\ SessionRow /\ InputRows /\ OursInHand /\ SegmentRows
           /\ DrillLeavesNone /\ OpenSegment

(* The windows.                                                            *)
Whole(evs, s) ==
  /\ evs \subseteq DOMAIN seen
  /\ \A n \in evs : seen[n].seg = s
  /\ \A m, n \in evs : \A k \in DOMAIN seen : m < k /\ k < n => k \in evs
Arriving(i) == Do(i) = "event" /\ IsInput(calls[i].kind)
InOrder == \A m, n \in DOMAIN seen : m < n => seen[m].seg <= seen[n].seg
Close == \A m, n \in DOMAIN seen :
           m < n /\ seen[m].seg = seen[n].seg =>
             \E k \in DOMAIN seen : m < k /\ k <= n /\ seen[k].t - seen[m].t <= IdleSplit
InputIsLast ==
  \A n \in DOMAIN seen : segment # 0 /\ seen[n].seg = segment =>
    \E l \in DOMAIN seen : /\ seen[l].seg = segment /\ seen[l].t = input
                           /\ \A m \in DOMAIN seen : seen[m].seg = segment => m <= l
Arrived == \A i \in Pending : Arriving(i) =>
             /\ payloads \in DOMAIN seen
             /\ seen[payloads].seg = segment
             /\ \A w \in windows : payloads \notin w.evs
             /\ \A s \in DOMAIN builders : payloads \notin builders[s].evs
             /\ \A j \in Pending : Do(j) = "window" => payloads \notin calls[j].evs
Unopened == \A i \in Pending : Do(i) = "event" /\ i > 1 => segment \notin DOMAIN builders
Opening == \A i \in Pending : Do(i) = "createSegment" => segment \notin DOMAIN builders
AllWhole ==
  /\ \A w \in windows : Whole(w.evs, w.seg)
  /\ \A s \in DOMAIN builders : Whole(builders[s].evs, s)
  /\ \A i \in Pending : Do(i) = "window" => Whole(calls[i].evs, Seg(i))
Apart ==
  /\ \A v, w \in windows : v # w => v.evs \cap w.evs = {}
  /\ \A w \in windows : w.seg \in DOMAIN builders => w.evs \cap builders[w.seg].evs = {}
  /\ \A i \in Pending : Do(i) = "window" =>
       /\ \A w \in windows : w.evs \cap calls[i].evs = {}
       /\ Seg(i) \in DOMAIN builders => builders[Seg(i)].evs = {}
ToTheEnd ==
  \A s \in DOMAIN builders, k \in DOMAIN seen : \A m \in builders[s].evs :
    seen[k].seg = s /\ m < k =>
      \/ k \in builders[s].evs
      \/ \E i \in Pending : Arriving(i) /\ k = payloads
InputsInv == InOrder /\ Close /\ InputIsLast
PiecesInv == Arrived /\ Unopened /\ Opening /\ AllWhole /\ Apart /\ ToTheEnd
WindowsInv == InputsInv /\ PiecesInv

(* The fate of an input, and what is known of a loss.                      *)
InCall(n) == \E i \in Pending : \/ Do(i) = "window" /\ n \in calls[i].evs
                                \/ Arriving(i) /\ n = payloads
Fate == \A n \in DOMAIN seen :
          seen[n].session = session => Held(n) \/ InCall(n) \/ seen[n].seg \in broken
Uncovered == segment # 0 /\ segment \notin DOMAIN builders =>
               \/ segment \in broken
               \/ pc = "ending"
               \/ \E i \in Pending : Do(i) = "createSegment"
Signalled == /\ codes \subseteq PipeCodes /\ (codes # {} => alerted)
             /\ pc = "recovering" => cause \in PipeCodes
BrokenIsKnown ==
  /\ broken \subseteq 0 .. opened
  /\ pc \notin {"recovering", "down"} =>
       /\ segment \in broken /\ segment # 0 => segment \in known
       /\ \A n \in DOMAIN seen : seen[n].session = session /\ seen[n].seg \in broken =>
                                   seen[n].seg \in known
FateInv == Fate /\ Uncovered /\ Signalled /\ BrokenIsKnown

(* Submitted segments.                                                     *)
OverWhenEnded ==
  \A i \in Pending :
    /\ Do(i) \in {"endSegment", "submit"} /\ Do(1) # "flush" => Seg(i) \notin DOMAIN builders
    /\ Do(i) = "submit" /\ i = 1 => Seg(1) \in DOMAIN segments /\ segments[Seg(1)].ended
Settled ==
  \A s \in DOMAIN cands :
    /\ s \in DOMAIN segments /\ segments[s].ended /\ s \notin DOMAIN builders
    /\ \A i \in Pending : Do(i) \notin PlainDo => Seg(i) # s
SettledInv == OverWhenEnded /\ Settled

IInv == Types /\ Shape /\ RowsInv /\ WindowsInv /\ FateInv /\ SettledInv
-----------------------------------------------------------------------------
(* Sequences of calls, and the moves a call makes on them.                 *)

(* Calling the first leaves the others.                                    *)
LEMMA TailIs ==
  ASSUME NEW S, NEW s \in Seq(S), s # <<>>
  PROVE  /\ Len(s) \in Nat \ {0} /\ Head(s) = s[1] /\ s[1] \in S
         /\ Tail(s) \in Seq(S) /\ Len(Tail(s)) = Len(s) - 1
         /\ \A i \in 1 .. Len(s) - 1 : Tail(s)[i] = s[i + 1]
OBVIOUS

(* A call may put another in its place.                                    *)
LEMMA ReplaceIs ==
  ASSUME NEW S, NEW s \in Seq(S), s # <<>>, NEW x \in S
  PROVE  /\ <<x>> \o Tail(s) \in Seq(S) /\ Len(<<x>> \o Tail(s)) = Len(s)
         /\ (<<x>> \o Tail(s))[1] = x
         /\ \A i \in 2 .. Len(s) : (<<x>> \o Tail(s))[i] = s[i]
<1>1. Tail(s) \in Seq(S) /\ Len(Tail(s)) = Len(s) - 1 /\ Len(s) \in Nat \ {0}
      /\ \A i \in 1 .. Len(s) - 1 : Tail(s)[i] = s[i + 1]
  BY TailIs
<1>2. PICK r \in Seq(S) : r = Tail(s)
  BY <1>1
<1>3. /\ <<x>> \o r \in Seq(S) /\ Len(<<x>> \o r) = Len(r) + 1
      /\ (<<x>> \o r)[1] = x /\ \A i \in 2 .. Len(r) + 1 : (<<x>> \o r)[i] = r[i - 1]
  OBVIOUS
<1> QED BY <1>1, <1>2, <1>3

Popped == /\ Len(calls') = Last - 1
          /\ \A i \in 1 .. Last - 1 : calls'[i] = calls[i + 1]
Swapped(x) == /\ Len(calls') = Last /\ calls'[1] = x
              /\ \A i \in 2 .. Last : calls'[i] = calls[i]

(* The fields a call has.                                                  *)
LEMMA JobFields ==
  ASSUME NEW c \in Job
  PROVE  /\ c.do \in PlainDo \cup EndingDo \cup {"createSegment", "window", "event"}
         /\ c.do \in EndingDo \cup {"createSegment", "window", "event"} => c.seg \in Nat
         /\ c.do \in EndingDo \cup {"createSegment", "window", "event"} => "seg" \in DOMAIN c
         /\ c.do = "window" => c.evs \subseteq Nat
         /\ c.do = "event" => /\ c.kind \in {"key", "mouse", "other"}
                              /\ c.t \in Nat /\ c.n \in Nat
<1>1. CASE c \in [do : PlainDo]
  BY <1>1 DEF PlainDo, EndingDo
<1>2. CASE c \in [do : EndingDo \cup {"createSegment"}, seg : Nat]
  BY <1>2 DEF PlainDo, EndingDo
<1>3. CASE c \in [do : {"window"}, seg : Nat, evs : SUBSET Nat]
  BY <1>3 DEF PlainDo, EndingDo
<1>4. CASE c \in [do : {"event"}, seg : Nat, kind : {"key", "mouse", "other"}, t : Nat, n : Nat]
  BY <1>4 DEF PlainDo, EndingDo
<1> QED BY <1>1, <1>2, <1>3, <1>4 DEF Job

(* The calls the model makes are calls.                                    *)
LEMMA JobsMade ==
  /\ \A d \in PlainDo : [do |-> d] \in Job
  /\ \A d \in EndingDo \cup {"createSegment"}, s \in Nat : [do |-> d, seg |-> s] \in Job
  /\ \A s \in Nat, e \in SUBSET Nat : [do |-> "window", seg |-> s, evs |-> e] \in Job
  /\ \A s, t, n \in Nat, k \in {"key", "mouse", "other"} :
       [do |-> "event", seg |-> s, kind |-> k, t |-> t, n |-> n] \in Job
BY DEF Job

(* What is called when an event is attributed, and when a session ends.    *)

(* What a concatenation holds, and where.                                  *)
LEMMA Joined ==
  ASSUME NEW S, NEW s \in Seq(S), NEW t \in Seq(S)
  PROVE  /\ s \o t \in Seq(S) /\ Len(s \o t) = Len(s) + Len(t)
         /\ \A i \in 1 .. Len(s) : (s \o t)[i] = s[i]
         /\ \A i \in 1 .. Len(t) : (s \o t)[Len(s) + i] = t[i]
OBVIOUS

(* A sequence of three.                                                    *)
LEMMA Three ==
  ASSUME NEW S, NEW a \in S, NEW b \in S, NEW c \in S
  PROVE  /\ <<a, b, c>> \in Seq(S) /\ Len(<<a, b, c>>) = 3
         /\ <<a, b, c>>[1] = a /\ <<a, b, c>>[2] = b /\ <<a, b, c>>[3] = c
OBVIOUS

(* A sequence of one.                                                      *)
LEMMA One ==
  ASSUME NEW S, NEW a \in S
  PROVE  <<a>> \in Seq(S) /\ Len(<<a>>) = 1 /\ <<a>>[1] = a
OBVIOUS

(* Three calls and one more.                                               *)
LEMMA Four ==
  ASSUME NEW S, NEW a \in S, NEW b \in S, NEW c \in S, NEW d \in S,
         NEW f, f = <<a, b, c>>, NEW g, g = <<d>>, NEW h, h = f \o g
  PROVE  /\ h \in Seq(S) /\ Len(h) = 4
         /\ h[1] = a /\ h[2] = b /\ h[3] = c /\ h[4] = d
<1>1. f \in Seq(S) /\ g \in Seq(S)
  BY Three, One
<1>2. Len(f) = 3 /\ f[1] = a /\ f[2] = b /\ f[3] = c /\ Len(g) = 1 /\ g[1] = d
  OBVIOUS
<1>3. h \in Seq(S) /\ Len(h) = Len(f) + Len(g)
  BY <1>1, Joined
<1>4. /\ \A i \in 1 .. Len(f) : h[i] = f[i]
      /\ \A i \in 1 .. Len(g) : h[Len(f) + i] = g[i]
  BY <1>1, Joined
<1> QED BY <1>2, <1>3, <1>4

(* Three calls and two more.                                               *)
LEMMA Five ==
  ASSUME NEW S, NEW a \in S, NEW b \in S, NEW c \in S, NEW d \in S, NEW e \in S,
         NEW f, f = <<a, b, c>>, NEW g, g = <<d>>, NEW h, h = f \o g,
         NEW k, k = <<e>>, NEW l, l = h \o k
  PROVE  /\ l \in Seq(S) /\ Len(l) = 5
         /\ l[1] = a /\ l[2] = b /\ l[3] = c /\ l[4] = d /\ l[5] = e
<1>1. h \in Seq(S) /\ Len(h) = 4 /\ h[1] = a /\ h[2] = b /\ h[3] = c /\ h[4] = d
  BY Four
<1>2. k \in Seq(S) /\ Len(k) = 1 /\ k[1] = e
  BY One
<1>3. l \in Seq(S) /\ Len(l) = Len(h) + Len(k)
  BY <1>1, <1>2, Joined
<1>4. /\ \A i \in 1 .. Len(h) : l[i] = h[i]
      /\ \A i \in 1 .. Len(k) : l[Len(h) + i] = k[i]
  BY <1>1, <1>2, Joined
<1> QED BY <1>1, <1>2, <1>3, <1>4

(* Two calls, one after the other.                                         *)
LEMMA Two ==
  ASSUME NEW S, NEW a \in S, NEW b \in S
  PROVE  /\ <<>> \o <<a>> \o <<b>> \in Seq(S) /\ Len(<<>> \o <<a>> \o <<b>>) = 2
         /\ (<<>> \o <<a>> \o <<b>>)[1] = a /\ (<<>> \o <<a>> \o <<b>>)[2] = b
OBVIOUS

EventCall(id, kind, t) == [do |-> "event", seg |-> id, kind |-> kind, t |-> t, n |-> payloads']
Begins(d, s) == [do |-> d, seg |-> s]

Continues(kind, t) ==
  /\ segment # 0 /\ ~Idle(kind, t) /\ segment' = segment /\ opened' = opened
  /\ Len(calls') = 1 /\ calls'[1] = EventCall(segment, kind, t)
Opens(kind, t) ==
  /\ segment = 0 /\ segment' = opened + 1 /\ opened' = opened + 1
  /\ Len(calls') = 2 /\ calls'[1] = Begins("createSegment", opened + 1)
  /\ calls'[2] = EventCall(opened + 1, kind, t)
Splits(kind, t) ==
  /\ segment # 0 /\ Idle(kind, t) /\ segment' = opened + 1 /\ opened' = opened + 1
  /\ Len(calls') = 5 /\ calls'[1] = Begins("flush", segment)
  /\ calls'[2] = Begins("endSegment", segment) /\ calls'[3] = Begins("submit", segment)
  /\ calls'[4] = Begins("createSegment", opened + 1)
  /\ calls'[5] = EventCall(opened + 1, kind, t)

(* An accepted event continues its segment, opens one, or splits.          *)
LEMMA AcceptedCalls ==
  ASSUME Types, NEW kind \in Kinds \ {"bad"}, NEW t \in Nat, Accept(kind, t)
  PROVE  /\ calls' \in Seq(Job)
         /\ Continues(kind, t) \/ Opens(kind, t) \/ Splits(kind, t)
<1>1. payloads' = payloads + 1 /\ payloads' \in Nat /\ opened + 1 \in Nat /\ segment \in Nat
      /\ kind \in {"key", "mouse", "other"}
  BY DEF Accept, Advance, Types, Kinds
<1>2. \A s \in Nat : EventCall(s, kind, t) \in Job
  BY <1>1, JobsMade DEF EventCall
<1>3. \A s \in Nat, d \in {"flush", "endSegment", "submit", "createSegment"} : Begins(d, s) \in Job
  BY JobsMade DEF Begins, EndingDo
<1>4. CASE segment # 0 /\ ~Idle(kind, t)
  <2>1. segment' = segment /\ opened' = opened /\ calls' = <<>> \o <<>> \o <<EventCall(segment, kind, t)>>
    BY <1>4 DEF Accept, Attribute, EventCall
  <2>2. PICK e \in Job : e = EventCall(segment, kind, t)
    BY <1>1, <1>2
  <2>3. calls' = <<e>>
    BY <2>1, <2>2
  <2>4. calls' \in Seq(Job) /\ Len(calls') = 1 /\ calls'[1] = e
    BY <2>3, One
  <2> QED BY <1>4, <2>1, <2>2, <2>4 DEF Continues
<1>5. CASE segment = 0
  <2>1. /\ segment' = opened + 1 /\ opened' = opened + 1
        /\ calls' = <<>> \o <<Begins("createSegment", opened + 1)>>
                         \o <<EventCall(opened + 1, kind, t)>>
    BY <1>5 DEF Accept, Attribute, EventCall, Begins
  <2>2. PICK d \in Job : d = Begins("createSegment", opened + 1)
    BY <1>1, <1>3
  <2>3. PICK e \in Job : e = EventCall(opened + 1, kind, t)
    BY <1>1, <1>2
  <2>4. calls' = <<>> \o <<d>> \o <<e>>
    BY <2>1, <2>2, <2>3
  <2>5. calls' \in Seq(Job) /\ Len(calls') = 2 /\ calls'[1] = d /\ calls'[2] = e
    BY <2>4, Two
  <2> QED BY <1>5, <2>1, <2>2, <2>3, <2>5 DEF Opens
<1>6. CASE segment # 0 /\ Idle(kind, t)
  <2>1. /\ segment' = opened + 1 /\ opened' = opened + 1
        /\ calls' = <<Begins("flush", segment), Begins("endSegment", segment), Begins("submit", segment)>>
                    \o <<Begins("createSegment", opened + 1)>> \o <<EventCall(opened + 1, kind, t)>>
    BY <1>6 DEF Accept, Attribute, EventCall, Begins, Ending
  <2>2. PICK d \in Job : d = Begins("createSegment", opened + 1)
    BY <1>1, <1>3
  <2>3. PICK e \in Job : e = EventCall(opened + 1, kind, t)
    BY <1>1, <1>2
  <2>4. PICK a \in Job : a = Begins("flush", segment)
    BY <1>1, <1>3
  <2>5. PICK b \in Job : b = Begins("endSegment", segment)
    BY <1>1, <1>3
  <2>6. PICK c \in Job : c = Begins("submit", segment)
    BY <1>1, <1>3
  <2>7. PICK f : f = <<a, b, c>>
    OBVIOUS
  <2>8. PICK g : g = <<d>>
    OBVIOUS
  <2>9. PICK h : h = f \o g
    OBVIOUS
  <2>10. PICK k : k = <<e>>
    OBVIOUS
  <2>11. PICK l : l = h \o k
    OBVIOUS
  <2>12. calls' = l
    BY <2>1, <2>2, <2>3, <2>4, <2>5, <2>6, <2>7, <2>8, <2>9, <2>10, <2>11
  <2>13. /\ l \in Seq(Job) /\ Len(l) = 5
         /\ l[1] = a /\ l[2] = b /\ l[3] = c /\ l[4] = d /\ l[5] = e
    BY <2>7, <2>8, <2>9, <2>10, <2>11, Five
  <2> QED BY <1>6, <2>1, <2>2, <2>3, <2>4, <2>5, <2>6, <2>12, <2>13 DEF Splits
<1> QED BY <1>4, <1>5, <1>6

StopsIdle == segment = 0 /\ Len(calls') = 1 /\ calls'[1] = [do |-> "endSession"]
StopsOpen ==
  /\ segment # 0 /\ Len(calls') = 4 /\ calls'[1] = Begins("flush", segment)
  /\ calls'[2] = Begins("endSegment", segment) /\ calls'[3] = Begins("submit", segment)
  /\ calls'[4] = [do |-> "endSession"]

(* The end of a session is called alone or after its segment's end.        *)
LEMMA StoppedCalls ==
  ASSUME Types, Stop
  PROVE  calls' \in Seq(Job) /\ (StopsIdle \/ StopsOpen)
<1>1. segment \in Nat
  BY DEF Types
<1>2. \A d \in {"flush", "endSegment", "submit"} : Begins(d, segment) \in Job
  BY <1>1, JobsMade DEF Begins, EndingDo
<1>3. PICK d \in Job : d = [do |-> "endSession"]
  BY JobsMade DEF PlainDo
<1>4. CASE segment = 0
  <2>1. calls' = <<d>>
    BY <1>3, <1>4 DEF Stop
  <2>2. calls' \in Seq(Job) /\ Len(calls') = 1 /\ calls'[1] = d
    BY <2>1, One
  <2> QED BY <1>3, <1>4, <2>2 DEF StopsIdle
<1>5. CASE segment # 0
  <2>1. PICK a \in Job : a = Begins("flush", segment)
    BY <1>2
  <2>2. PICK b \in Job : b = Begins("endSegment", segment)
    BY <1>2
  <2>3. PICK c \in Job : c = Begins("submit", segment)
    BY <1>2
  <2>4. PICK f : f = <<a, b, c>>
    OBVIOUS
  <2>5. PICK g : g = <<d>>
    OBVIOUS
  <2>6. PICK h : h = f \o g
    OBVIOUS
  <2>7. calls' = h
    BY <1>3, <1>5, <2>1, <2>2, <2>3, <2>4, <2>5, <2>6 DEF Stop, Ending, Begins
  <2>8. h \in Seq(Job) /\ Len(h) = 4 /\ h[1] = a /\ h[2] = b /\ h[3] = c /\ h[4] = d
    BY <2>4, <2>5, <2>6, Four
  <2> QED BY <1>3, <1>5, <2>1, <2>2, <2>3, <2>7, <2>8 DEF StopsOpen
<1> QED BY <1>4, <1>5

(* The two calls of a session's start.                                     *)
LEMMA StartedCalls ==
  ASSUME NEW isDrill \in BOOLEAN, StartSession(isDrill)
  PROVE  /\ calls' \in Seq(Job) /\ Len(calls') = 2 /\ calls'[1] = [do |-> "createSession"]
         /\ calls'[2] = [do |-> IF isDrill THEN "declareDrill" ELSE "anchor"]
<1>1. PICK a \in Job : a = [do |-> "createSession"]
  BY JobsMade DEF PlainDo
<1>2. PICK b \in Job : b = [do |-> IF isDrill THEN "declareDrill" ELSE "anchor"]
  BY JobsMade DEF PlainDo
<1>3. calls' = <<a, b>>
  BY <1>1, <1>2 DEF StartSession
<1>4. <<a, b>> \in Seq(Job) /\ Len(<<a, b>>) = 2 /\ <<a, b>>[1] = a /\ <<a, b>>[2] = b
  OBVIOUS
<1> QED BY <1>1, <1>2, <1>3, <1>4

-----------------------------------------------------------------------------
(* A call, by what is called: what it leaves in the tables, in the         *)
(* builders and in the calls after it, element by element.                 *)

Puts(g, f, x) == DOMAIN g = DOMAIN f \cup {x} /\ \A z \in DOMAIN f : z # x => g[z] = f[z]
Drops(g, f, x) == DOMAIN g = DOMAIN f \ {x} /\ \A z \in DOMAIN g : g[z] = f[z]
WindowOf(s, e) == [do |-> "window", seg |-> s, evs |-> e]

CallFrame == UNCHANGED <<pc, session, drill, segment, input, opened, payloads, now, seen,
                         codes, cause, broken, alerted, known>>

StartsSession ==
  /\ Do(1) = "createSession" /\ Popped
  /\ Puts(sessions', sessions, session) /\ sessions'[session] = [drill |-> FALSE, ended |-> FALSE]
  /\ UNCHANGED <<builders, segments, windows, cands>>
DeclaresDrill ==
  /\ Do(1) = "declareDrill" /\ Popped
  /\ sessions' = [sessions EXCEPT ![session].drill = TRUE]
  /\ UNCHANGED <<builders, segments, windows, cands>>
EndsSession ==
  /\ Do(1) = "endSession" /\ Popped
  /\ sessions' = [sessions EXCEPT ![session].ended = TRUE]
  /\ UNCHANGED <<builders, segments, windows, cands>>
Quiet ==
  /\ Do(1) \in {"anchor", "alert"} /\ Popped
  /\ UNCHANGED <<builders, sessions, segments, windows, cands>>
CreatesSegment ==
  /\ Do(1) = "createSegment" /\ Popped
  /\ Puts(builders', builders, Seg(1)) /\ builders'[Seg(1)] = Nothing
  /\ Puts(segments', segments, Seg(1))
  /\ segments'[Seg(1)] = [session |-> session, ended |-> FALSE]
  /\ UNCHANGED <<sessions, windows, cands>>
StoresWindow ==
  /\ Do(1) = "window" /\ Popped
  /\ windows' = windows \cup {Window(calls[1])}
  /\ UNCHANGED <<builders, sessions, segments, cands>>
EndsSegment ==
  /\ Do(1) = "endSegment" /\ Popped
  /\ Seg(1) \in DOMAIN segments /\ ~segments[Seg(1)].ended
  /\ segments' = [segments EXCEPT ![Seg(1)].ended = TRUE]
  /\ UNCHANGED <<builders, sessions, windows, cands>>
Submits ==
  /\ Do(1) = "submit" /\ Popped
  /\ (drill /\ UNCHANGED cands) \/ (~drill /\ Puts(cands', cands, Seg(1)))
  /\ UNCHANGED <<builders, sessions, segments, windows>>
PassesBy ==
  /\ Do(1) = "event" /\ Popped
  /\ ~IsInput(calls[1].kind) \/ Seg(1) \notin DOMAIN builders
  /\ UNCHANGED <<builders, sessions, segments, windows, cands>>
Keeps ==
  /\ Do(1) = "event" /\ IsInput(calls[1].kind) /\ Popped
  /\ Seg(1) \in DOMAIN builders /\ Puts(builders', builders, Seg(1))
  /\ builders'[Seg(1)].evs = builders[Seg(1)].evs \cup {calls[1].n}
  /\ UNCHANGED <<sessions, segments, windows, cands>>
Fills ==
  /\ Do(1) = "event" /\ IsInput(calls[1].kind)
  /\ Seg(1) \in DOMAIN builders
  /\ Swapped(WindowOf(Seg(1), builders[Seg(1)].evs \cup {calls[1].n}))
  /\ Puts(builders', builders, Seg(1)) /\ builders'[Seg(1)].evs = {}
  /\ UNCHANGED <<sessions, segments, windows, cands>>
FlushesNone ==
  /\ Do(1) = "flush" /\ Popped /\ Drops(builders', builders, Seg(1))
  /\ Seg(1) \in DOMAIN builders => builders[Seg(1)].evs = {}
  /\ UNCHANGED <<sessions, segments, windows, cands>>
Flushes ==
  /\ Do(1) = "flush" /\ Seg(1) \in DOMAIN builders /\ Drops(builders', builders, Seg(1))
  /\ Swapped(WindowOf(Seg(1), builders[Seg(1)].evs))
  /\ UNCHANGED <<sessions, segments, windows, cands>>

Called ==
  \/ StartsSession \/ DeclaresDrill \/ EndsSession \/ Quiet \/ CreatesSegment \/ StoresWindow
  \/ EndsSegment \/ Submits \/ PassesBy \/ Keeps \/ Fills \/ FlushesNone \/ Flushes

Builder == [start : Nat, keys : Nat, evs : SUBSET Nat]

(* The builder after an event, and whether a window closed with it.        *)
LEMMA PushCases ==
  ASSUME Types, Last > 0, NEW c \in Job, c = calls[1], c.do = "event", Push(c),
         c.n \in Nat, c.seg \in Nat
  PROVE  /\ calls' \in Seq(Job)
         /\ builders' \in [DOMAIN builders' -> Builder]
         /\ \/ /\ Popped /\ UNCHANGED builders
               /\ (~IsInput(c.kind) \/ c.seg \notin DOMAIN builders)
            \/ /\ IsInput(c.kind) /\ c.seg \in DOMAIN builders /\ Popped
               /\ Puts(builders', builders, c.seg)
               /\ builders'[c.seg].evs = builders[c.seg].evs \cup {c.n}
            \/ /\ IsInput(c.kind) /\ c.seg \in DOMAIN builders
               /\ Swapped(WindowOf(c.seg, builders[c.seg].evs \cup {c.n}))
               /\ Puts(builders', builders, c.seg) /\ builders'[c.seg].evs = {}
<1>1. calls \in Seq(Job) /\ calls # <<>>
  BY DEF Types, Last
<1>2. Tail(calls) \in Seq(Job) /\ Len(Tail(calls)) = Last - 1
      /\ \A i \in 1 .. Last - 1 : Tail(calls)[i] = calls[i + 1]
  BY <1>1, TailIs DEF Last
<1>3. CASE ~(IsInput(c.kind) /\ c.seg \in DOMAIN builders)
  BY <1>2, <1>3 DEF Push, Popped, Types, Builder
<1>4. CASE IsInput(c.kind) /\ c.seg \in DOMAIN builders
  <2> DEFINE p == Pushed(builders[c.seg], c)
  <2>1. builders[c.seg] \in Builder
    BY <1>4 DEF Types, Builder
  <2>2. c.t \in Nat /\ p \in Builder /\ p.evs = builders[c.seg].evs \cup {c.n}
    BY <2>1, JobFields DEF Pushed, Builder
  <2> HIDE DEF p
  <2>3. CASE Full(p, c)
    <3>1. calls' = Closed(c.seg, p) \o Tail(calls) /\ builders' = With(builders, c.seg, Nothing)
      BY <1>4, <2>3 DEF Push, p
    <3>2. PICK x \in Job : x = WindowOf(c.seg, p.evs)
      BY <2>2, JobsMade DEF WindowOf, Builder
    <3>3. calls' = <<x>> \o Tail(calls)
      BY <3>1, <3>2 DEF Closed, WindowOf
    <3>4. calls' \in Seq(Job) /\ Swapped(x)
      BY <1>1, <3>3, ReplaceIs DEF Swapped, Last
    <3>5. Nothing \in Builder /\ Nothing.evs = {}
      BY DEF Nothing, Builder
    <3>6. builders' \in [DOMAIN builders' -> Builder]
          /\ Puts(builders', builders, c.seg) /\ builders'[c.seg].evs = {}
      BY <3>1, <3>5 DEF With, Puts, Types, Builder
    <3> QED BY <1>4, <2>2, <3>2, <3>4, <3>6
  <2>4. CASE ~Full(p, c)
    <3>1. calls' = Tail(calls) /\ builders' = With(builders, c.seg, p)
      BY <1>4, <2>4 DEF Push, p
    <3>2. builders' \in [DOMAIN builders' -> Builder]
          /\ Puts(builders', builders, c.seg) /\ builders'[c.seg] = p
      BY <2>2, <3>1 DEF With, Puts, Types, Builder
    <3> QED BY <1>2, <1>4, <2>2, <3>1, <3>2 DEF Popped
  <2> QED BY <2>3, <2>4
<1> QED BY <1>3, <1>4

(* The same of a builder that is flushed.                                  *)
LEMMA FlushCases ==
  ASSUME Types, Last > 0, NEW c \in Job, c = calls[1], c.do = "flush", Flush(c), c.seg \in Nat
  PROVE  /\ calls' \in Seq(Job)
         /\ builders' \in [DOMAIN builders' -> Builder]
         /\ Drops(builders', builders, c.seg)
         /\ \/ Popped /\ (c.seg \in DOMAIN builders => builders[c.seg].evs = {})
            \/ c.seg \in DOMAIN builders /\ Swapped(WindowOf(c.seg, builders[c.seg].evs))
<1>1. calls \in Seq(Job) /\ calls # <<>>
  BY DEF Types, Last
<1>2. Tail(calls) \in Seq(Job) /\ Len(Tail(calls)) = Last - 1
      /\ \A i \in 1 .. Last - 1 : Tail(calls)[i] = calls[i + 1]
  BY <1>1, TailIs DEF Last
<1>3. builders' \in [DOMAIN builders' -> Builder] /\ Drops(builders', builders, c.seg)
  BY DEF Flush, Without, Restrict, Drops, Types, Builder
<1>4. CASE c.seg \in DOMAIN builders /\ builders[c.seg].evs # {}
  <2>1. PICK x \in Job : x = WindowOf(c.seg, builders[c.seg].evs)
    BY <1>4, JobsMade DEF WindowOf, Types
  <2>2. calls' = <<x>> \o Tail(calls)
    BY <1>4, <2>1 DEF Flush, Closed, WindowOf
  <2>3. calls' \in Seq(Job) /\ Swapped(x)
    BY <1>1, <2>2, ReplaceIs DEF Swapped, Last
  <2> QED BY <1>3, <1>4, <2>1, <2>3
<1>5. CASE ~(c.seg \in DOMAIN builders /\ builders[c.seg].evs # {})
  BY <1>2, <1>3, <1>5 DEF Flush, Popped
<1> QED BY <1>4, <1>5

(* While calls are pending there is a first one and a rest.                *)
LEMMA NoneOver ==
  ASSUME Types, calls # <<>>
  PROVE  /\ Last \in Nat \ {0} /\ Head(calls) = calls[1] /\ calls[1] \in Job
         /\ Tail(calls) \in Seq(Job) /\ (calls' = Tail(calls) => Popped)
<1>1. calls \in Seq(Job)
  BY DEF Types
<1> QED BY <1>1, TailIs DEF Popped, Last

SessionRowOf == [drill : BOOLEAN, ended : BOOLEAN]
SegmentRowOf == [session : Nat, ended : BOOLEAN]

(* What Write leaves in the tables.                                        *)
Tables(c) ==
  \/ /\ c.do = "createSession" /\ Puts(sessions', sessions, session)
     /\ sessions'[session] = [drill |-> FALSE, ended |-> FALSE]
     /\ UNCHANGED <<segments, windows, cands>>
  \/ /\ c.do = "declareDrill" /\ sessions' = [sessions EXCEPT ![session].drill = TRUE]
     /\ UNCHANGED <<segments, windows, cands>>
  \/ /\ c.do = "endSession" /\ sessions' = [sessions EXCEPT ![session].ended = TRUE]
     /\ UNCHANGED <<segments, windows, cands>>
  \/ /\ c.do = "createSegment" /\ Puts(segments', segments, c.seg)
     /\ segments'[c.seg] = [session |-> session, ended |-> FALSE]
     /\ UNCHANGED <<sessions, windows, cands>>
  \/ /\ c.do = "window" /\ windows' = windows \cup {Window(c)}
     /\ UNCHANGED <<sessions, segments, cands>>
  \/ /\ c.do = "endSegment" /\ segments' = [segments EXCEPT ![c.seg].ended = TRUE]
     /\ UNCHANGED <<sessions, windows, cands>>
  \/ /\ c.do = "submit" /\ ~drill /\ Puts(cands', cands, c.seg)
     /\ UNCHANGED <<sessions, segments, windows>>
  \/ /\ c.do \in {"anchor", "alert", "flush", "event"} \/ (c.do = "submit" /\ drill)
     /\ UNCHANGED <<sessions, segments, windows, cands>>

TableTypes ==
  /\ sessions \in [DOMAIN sessions -> SessionRowOf]
  /\ segments \in [DOMAIN segments -> SegmentRowOf]
  /\ DOMAIN segments \subseteq 1 .. opened
  /\ windows \subseteq [seg : Nat, evs : SUBSET Nat]
  /\ DOMAIN cands \subseteq 1 .. opened
  /\ cands = [s \in DOMAIN cands |-> cands[s]]

(* What a call writes is a table of the right type.                        *)
LEMMA Written ==
  ASSUME Types, NEW c \in Job, Write(c), opened' = opened,
         c.do \in {"createSegment", "submit"} => c.seg \in 1 .. opened
  PROVE  Tables(c) /\ TableTypes'
<1> USE DEF TableTypes, SessionRowOf, SegmentRowOf
<1>0. TableTypes /\ session \in Nat
  BY DEF Types
<1>1. CASE c.do = "createSession"
  <2>1. sessions' = With(sessions, session, [drill |-> FALSE, ended |-> FALSE])
        /\ UNCHANGED <<segments, windows, cands>>
    BY <1>1 DEF Write
  <2> QED BY <1>0, <1>1, <2>1 DEF With, Puts, Tables
<1>2. CASE c.do = "declareDrill"
  <2>1. sessions' = [sessions EXCEPT ![session].drill = TRUE] /\ UNCHANGED <<segments, windows, cands>>
    BY <1>2 DEF Write
  <2>2. DOMAIN sessions' = DOMAIN sessions
    BY <2>1
  <2>3. ASSUME NEW s \in DOMAIN sessions PROVE sessions'[s] \in SessionRowOf
    BY <1>0, <2>1
  <2>4. sessions' \in [DOMAIN sessions -> SessionRowOf]
    BY <2>1, <2>3
  <2>5. Tables(c)
    BY <1>2, <2>1 DEF Tables
  <2> QED BY <1>0, <2>1, <2>2, <2>4, <2>5
<1>3. CASE c.do = "endSession"
  <2>1. sessions' = [sessions EXCEPT ![session].ended = TRUE] /\ UNCHANGED <<segments, windows, cands>>
    BY <1>3 DEF Write
  <2>2. DOMAIN sessions' = DOMAIN sessions
    BY <2>1
  <2>3. ASSUME NEW s \in DOMAIN sessions PROVE sessions'[s] \in SessionRowOf
    BY <1>0, <2>1
  <2>4. sessions' \in [DOMAIN sessions -> SessionRowOf]
    BY <2>1, <2>3
  <2>5. Tables(c)
    BY <1>3, <2>1 DEF Tables
  <2> QED BY <1>0, <2>1, <2>2, <2>4, <2>5
<1>4. CASE c.do = "createSegment"
  <2>1. segments' = With(segments, c.seg, [session |-> session, ended |-> FALSE])
        /\ UNCHANGED <<sessions, windows, cands>>
    BY <1>4 DEF Write
  <2> QED BY <1>0, <1>4, <2>1 DEF With, Puts, Tables
<1>5. CASE c.do = "window"
  <2>1. Window(c) \in [seg : Nat, evs : SUBSET Nat]
    BY <1>5, JobFields DEF Window
  <2> QED BY <1>0, <1>5, <2>1 DEF Write, Tables
<1>6. CASE c.do = "endSegment"
  <2>1. segments' = [segments EXCEPT ![c.seg].ended = TRUE] /\ UNCHANGED <<sessions, windows, cands>>
    BY <1>6 DEF Write
  <2>2. DOMAIN segments' = DOMAIN segments
    BY <2>1
  <2>3. ASSUME NEW s \in DOMAIN segments PROVE segments'[s] \in SegmentRowOf
    BY <1>0, <2>1
  <2>4. segments' \in [DOMAIN segments -> SegmentRowOf]
    BY <2>1, <2>3
  <2> QED BY <1>0, <1>6, <2>1, <2>2, <2>4 DEF Tables
<1>7. CASE c.do = "submit" /\ ~drill
  <2>1. PICK b : cands' = With(cands, c.seg, b) /\ UNCHANGED <<sessions, segments, windows>>
    BY <1>7 DEF Write
  <2> QED BY <1>0, <1>7, <2>1 DEF With, Puts, Tables
<1>8. CASE c.do \in {"anchor", "alert", "flush", "event"} \/ (c.do = "submit" /\ drill)
  BY <1>0, <1>8 DEF Write, Tables, tableVars
<1> QED BY <1>1, <1>2, <1>3, <1>4, <1>5, <1>6, <1>7, <1>8 DEF Write

(* The segment of a call has been opened.                                  *)
LEMMA CallsAreOpen ==
  ASSUME Types, Shape, NEW i \in Pending, Do(i) \in {"createSegment", "window"} \cup EndingDo
  PROVE  Seg(i) \in 1 .. opened /\ pc \in {"feeding", "ending"}
<1>1. Last \in Nat /\ calls[i] \in Job /\ Len(calls) # 0
  BY DEF Types, Pending, Last
<1>2. Seg(i) \in Nat
  BY <1>1, JobFields DEF Do, Seg
<1>3. pc \notin {"down", "reading", "recovering"}
  BY <1>1 DEF Shape, AtRest
<1>4. ASSUME pc = "starting" PROVE FALSE
  <2>1. Last <= 2 /\ i \in 1 .. Last
    BY <1>4 DEF Shape, StartShape, Pending, Last
  <2>2. (i = 1 /\ Last = 2) \/ i = 2 \/ Last = 1
    BY <1>1, <2>1
  <2>3. Do(i) \in {"createSession", "declareDrill", "anchor"}
    BY <1>4, <2>2 DEF Shape, StartShape
  <2> QED BY <2>3 DEF EndingDo
<1>5. CASE pc = "feeding"
  BY <1>2, <1>5 DEF Shape, FeedShape, Types, EndingDo
<1>6. CASE pc = "ending"
  BY <1>2, <1>6 DEF Shape, EndShape, Types, EndingDo
<1> QED BY <1>3, <1>4, <1>5, <1>6 DEF Types, Control

(* A call made: one of the ways it changes builders and calls.             *)
LEMMA CallCases ==
  ASSUME Types, Shape, Call
  PROVE  CallFrame /\ Last \in Nat \ {0} /\ Called /\ Tables(calls[1]) /\ Types'
<1> DEFINE c == calls[1]
<1>1. /\ Last \in Nat \ {0} /\ Head(calls) = c /\ c \in Job /\ 1 \in Pending
      /\ Tail(calls) \in Seq(Job) /\ (calls' = Tail(calls) => Popped)
  BY NoneOver DEF Call, Pending, Last
<1>2. /\ ~Refused(c) /\ Write(c) /\ Remember(c)
      /\ CallFrame /\ UNCHANGED left
  BY <1>1 DEF Call, CallFrame, feedVars, ghostVars
<1>3. c.do \in {"createSegment", "submit"} => c.seg \in 1 .. opened
  BY <1>1, CallsAreOpen DEF Do, Seg, EndingDo
<1> HIDE DEF c
<1>4. Tables(c) /\ TableTypes'
  BY <1>1, <1>2, <1>3, Written DEF CallFrame
<1>5. /\ c.do \in PlainDo \cup EndingDo \cup {"createSegment", "window", "event"}
      /\ c.do \in EndingDo \cup {"createSegment", "window", "event"} => c.seg \in Nat
      /\ c.do = "event" => c.n \in Nat
  BY <1>1, JobFields
<1>6. c = calls[1] /\ Do(1) = c.do /\ Seg(1) = c.seg
  BY DEF c, Do, Seg
<1>7. builders \in [DOMAIN builders -> Builder]
  BY DEF Types, Builder
<1>8. calls' \in Seq(Job) /\ builders' \in [DOMAIN builders' -> Builder] /\ Called
  <2>1. CASE c.do = "event"
    <3>1. Push(c)
      BY <1>2, <2>1 DEF Remember
    <3>2. UNCHANGED <<sessions, segments, windows, cands>>
      BY <1>4, <2>1 DEF Tables
    <3>3. PICK d \in Job : d = c
      BY <1>1
    <3>4. Last > 0 /\ d = calls[1] /\ d.do = "event" /\ Push(d) /\ d.n \in Nat /\ d.seg \in Nat
      BY <1>1, <1>5, <1>6, <2>1, <3>1, <3>3
    <3>5. calls' \in Seq(Job) /\ builders' \in [DOMAIN builders' -> Builder]
      BY <3>4, PushCases
    <3>6. PassesBy \/ Keeps \/ Fills
      <4>1. \/ /\ Popped /\ UNCHANGED builders
               /\ (~IsInput(d.kind) \/ d.seg \notin DOMAIN builders)
            \/ /\ IsInput(d.kind) /\ d.seg \in DOMAIN builders /\ Popped
               /\ Puts(builders', builders, d.seg)
               /\ builders'[d.seg].evs = builders[d.seg].evs \cup {d.n}
            \/ /\ IsInput(d.kind) /\ d.seg \in DOMAIN builders
               /\ Swapped(WindowOf(d.seg, builders[d.seg].evs \cup {d.n}))
               /\ Puts(builders', builders, d.seg) /\ builders'[d.seg].evs = {}
        BY <3>4, PushCases
      <4> QED BY <1>6, <2>1, <3>2, <3>4, <4>1 DEF PassesBy, Keeps, Fills
    <3> QED BY <3>5, <3>6 DEF Called
  <2>2. CASE c.do = "flush"
    <3>1. Flush(c)
      BY <1>2, <2>2 DEF Remember
    <3> QED BY <1>1, <1>4, <1>5, <1>6, <2>2, <3>1, FlushCases
            DEF Called, Tables, Flushes, FlushesNone, EndingDo
  <2>3. CASE c.do = "createSegment"
    <3>1. builders' = With(builders, c.seg, Nothing) /\ calls' = Tail(calls)
      BY <1>2, <2>3 DEF Remember
    <3>2. Nothing \in Builder
      BY DEF Nothing, Builder
    <3>3. /\ builders' \in [DOMAIN builders' -> Builder]
          /\ Puts(builders', builders, c.seg) /\ builders'[c.seg] = Nothing
      BY <1>7, <3>1, <3>2 DEF With, Puts
    <3> QED BY <1>1, <1>4, <1>6, <2>3, <3>1, <3>3 DEF Called, Tables, CreatesSegment
  <2>4. CASE c.do \notin {"event", "flush", "createSegment"}
    <3>1. calls' = Tail(calls) /\ UNCHANGED builders
      BY <1>2, <2>4 DEF Remember
    <3>2. c.do = "endSegment" => c.seg \in DOMAIN segments /\ ~segments[c.seg].ended
      BY <1>2 DEF Refused
    <3> QED BY <1>1, <1>4, <1>5, <1>6, <1>7, <2>4, <3>1, <3>2
            DEF Called, Tables, StartsSession, DeclaresDrill, EndsSession, Quiet, StoresWindow,
                EndsSegment, Submits, PlainDo, EndingDo
  <2> QED BY <2>1, <2>2, <2>3, <2>4
<1> QED BY <1>1, <1>2, <1>4, <1>6, <1>8
        DEF Types, TableTypes, CallFrame, Builder, SessionRowOf, SegmentRowOf

(* A sink that raises.                                                     *)
Fails ==
  /\ Last \in Nat \ {0} /\ calls[1] \in Job
  /\ Do(1) \notin {"flush", "submit"} /\ (Do(1) = "event" => ~IsInput(calls[1].kind))
  /\ \/ Tables(calls[1]) /\ ~Refused(calls[1])
     \/ UNCHANGED <<sessions, segments, windows, cands>>
  /\ broken \cup {segment} \subseteq broken' /\ broken' \subseteq broken \cup (0 .. opened)
  /\ Do(1) = "window" => Seg(1) \in broken'
  /\ calls' = <<>> /\ left' = 0 /\ payloads' = payloads + left
  /\ \/ /\ pc = "feeding" /\ pc' = "recovering" /\ cause' = "RUNTIME_PIPELINE_FAILED"
        /\ UNCHANGED <<session, segment, builders>>
     \/ /\ pc # "feeding" /\ pc' = "down" /\ session' = 0 /\ segment' = 0 /\ builders' = Empty
        /\ UNCHANGED cause
  /\ UNCHANGED <<codes, drill, input, now, opened, seen, alerted, known>>

(* A call that raises: nothing is pending, and the pipe recovers or ends.  *)
LEMMA RaiseCases ==
  ASSUME Types, Shape, Raise
  PROVE  Fails /\ Types'
<1> DEFINE c == calls[1]
<1>1. /\ Last \in Nat \ {0} /\ Head(calls) = c /\ c \in Job /\ 1 \in Pending
  BY NoneOver DEF Raise, Pending, Last
<1>2. /\ c.do \notin {"flush", "submit"}
      /\ IF Refused(c) THEN UNCHANGED tableVars ELSE Write(c) \/ UNCHANGED tableVars
      /\ c.do = "event" => ~IsInput(c.kind)
      /\ broken' = broken \cup {segment} \cup {c.seg : x \in DOMAIN c \cap {"seg"}}
  BY <1>1 DEF Raise
<1>3. /\ payloads' = payloads + left /\ calls' = <<>> /\ left' = 0
      /\ \/ /\ pc = "feeding" /\ pc' = "recovering" /\ cause' = "RUNTIME_PIPELINE_FAILED"
            /\ UNCHANGED <<session, segment, builders>>
         \/ /\ pc # "feeding" /\ pc' = "down" /\ session' = 0 /\ segment' = 0 /\ builders' = Empty
            /\ UNCHANGED cause
      /\ UNCHANGED <<codes, drill, input, now, opened, seen, alerted, known>>
  BY DEF Raise, Forgotten
<1>4. c.do \in {"createSegment", "submit", "window", "endSegment"} => c.seg \in 1 .. opened
  BY <1>1, CallsAreOpen DEF Do, Seg, EndingDo
<1>5. /\ c.do \in PlainDo \cup EndingDo \cup {"createSegment", "window", "event"}
      /\ c.do \in EndingDo \cup {"createSegment", "window", "event"} =>
           c.seg \in Nat /\ "seg" \in DOMAIN c
  BY <1>1, JobFields
<1>6. Do(1) = c.do /\ Seg(1) = c.seg
  BY DEF Do, Seg
<1>7. c.do \in PlainDo => "seg" \notin DOMAIN c
  BY <1>1 DEF Job, PlainDo, EndingDo
<1>8. c.do = "event" => c.seg \in 0 .. opened
  <2>1. ASSUME c.do = "event" PROVE c.seg = segment
    <3>1. pc = "feeding"
      <4>1. pc \notin {"down", "reading", "recovering"}
        BY <1>1 DEF Shape, AtRest, Pending, Last
      <4>2. pc # "ending"
        BY <1>1, <1>6, <2>1 DEF Shape, EndShape
      <4>3. ASSUME pc = "starting" PROVE FALSE
        <5>1. Last = 2 \/ Last = 1
          BY <1>1, <4>3 DEF Shape, StartShape
        <5>2. Do(1) \in {"createSession", "declareDrill", "anchor"}
          BY <1>1, <4>3, <5>1 DEF Shape, StartShape
        <5> QED BY <1>6, <2>1, <5>2
      <4> QED BY <4>1, <4>2, <4>3 DEF Types, Control
    <3> QED BY <1>1, <1>6, <2>1, <3>1 DEF Shape, FeedShape
  <2> QED BY <2>1 DEF Types
<1> HIDE DEF c
<1>9. /\ \/ Tables(c) /\ ~Refused(c)
         \/ UNCHANGED <<sessions, segments, windows, cands>>
      /\ TableTypes'
  <2>1. CASE UNCHANGED tableVars
    BY <1>3, <2>1 DEF tableVars, Types, TableTypes, SessionRowOf, SegmentRowOf
  <2>2. CASE Write(c) /\ ~Refused(c)
    BY <1>1, <1>3, <1>4, <2>2, Written
  <2> QED BY <1>2, <2>1, <2>2
<1>10. /\ broken \cup {segment} \subseteq broken' /\ broken' \subseteq broken \cup (0 .. opened)
       /\ c.do = "window" => c.seg \in broken'
  <2>1. segment \in 0 .. opened
    BY DEF Types
  <2>2. \A y \in {c.seg : x \in DOMAIN c \cap {"seg"}} : y = c.seg /\ "seg" \in DOMAIN c
    OBVIOUS
  <2>3. "seg" \in DOMAIN c => c.seg \in 0 .. opened
    <3>1. opened \in Nat
      BY DEF Types
    <3> QED BY <1>2, <1>4, <1>5, <1>7, <1>8, <3>1 DEF EndingDo
  <2>4. c.do = "window" => c.seg \in {c.seg : x \in DOMAIN c \cap {"seg"}}
    BY <1>5
  <2> QED BY <1>2, <2>1, <2>2, <2>3, <2>4
<1>11. Fails
  BY <1>1, <1>2, <1>3, <1>6, <1>9, <1>10 DEF Fails, c
<1>12. Types'
  <2>1. calls' \in Seq(Job)
    BY <1>3
  <2>2. payloads' \in Nat /\ payloads' >= payloads /\ left' \in Nat
    BY <1>3 DEF Types
  <2>3. builders' \in [DOMAIN builders' -> Builder] /\ segment' \in {0, opened'} /\ session' \in Nat
    <3>1. Empty \in [DOMAIN Empty -> Builder]
      BY DEF Empty
    <3>2. builders \in [DOMAIN builders -> Builder] /\ session \in Nat /\ segment \in {0, opened}
      BY DEF Types, Builder
    <3> QED BY <1>3, <3>1, <3>2
  <2>4. seen' \in [DOMAIN seen' -> Observed] /\ DOMAIN seen' \subseteq 1 .. payloads'
        /\ \A n \in DOMAIN seen' : seen'[n].seg <= opened'
    BY <1>3, <2>2 DEF Types
  <2> QED BY <1>3, <1>9, <2>1, <2>2, <2>3, <2>4
          DEF Types, TableTypes, Builder, SessionRowOf, SegmentRowOf, Control
<1> QED BY <1>11, <1>12

(* The empty function.                                                     *)
LEMMA EmptyIs ==
  DOMAIN Empty = {} /\ \A S : Empty \in [DOMAIN Empty -> S]
BY DEF Empty

(* Types and order at the start.                                           *)
LEMMA InitTypes ==
  ASSUME Init
  PROVE  Types /\ Shape
<1>1. calls \in Seq(Job) /\ calls = <<>> /\ Len(calls) = 0
  BY DEF Init
<1>2. /\ builders = Empty /\ sessions = Empty /\ segments = Empty /\ cands = Empty /\ seen = Empty
      /\ windows = {} /\ pc = "down" /\ session = 0 /\ segment = 0 /\ opened = 0 /\ payloads = 0
      /\ left = 0 /\ drill = FALSE /\ now = 0 /\ input = None
  BY DEF Init
<1>3. Shape
  BY <1>1, <1>2 DEF Shape, StartShape, FeedShape, EndShape, Order, AtRest, Pending
<1>4. cands = [s \in DOMAIN cands |-> cands[s]]
  BY <1>2 DEF Empty
<1>5. Types
  BY <1>1, <1>2, <1>4, EmptyIs DEF Types, Control
<1> QED BY <1>3, <1>5

AlertCall == [do |-> "alert"]
Alerting == Len(calls') = 1 /\ calls'[1] = AlertCall

(* A lone alert.                                                           *)
LEMMA Alert ==
  ASSUME calls' = <<AlertCall>>
  PROVE  calls' \in Seq(Job) /\ Alerting
<1>1. AlertCall \in Job
  BY JobsMade DEF PlainDo, AlertCall
<1> QED BY <1>1, One DEF Alerting

(* A submit the queue refuses is replaced by an alert.                     *)
LEMMA GivesUp ==
  ASSUME Types, GiveUp
  PROVE  /\ calls' \in Seq(Job) /\ Last \in Nat \ {0} /\ calls[1] \in Job
         /\ Swapped(AlertCall) /\ Do(1) = "submit" /\ CallFrame
         /\ UNCHANGED <<builders, sessions, segments, windows, cands, left>>
<1>1. calls \in Seq(Job) /\ calls # <<>> /\ AlertCall \in Job
  BY JobsMade DEF Types, GiveUp, PlainDo, AlertCall
<1>2. calls' = <<AlertCall>> \o Tail(calls)
  BY DEF GiveUp, AlertCall
<1>3. calls' \in Seq(Job) /\ Swapped(AlertCall)
  BY <1>1, <1>2, ReplaceIs DEF Swapped, Last
<1>4. Do(1) = "submit" /\ Last \in Nat \ {0} /\ calls[1] \in Job
  BY <1>1, NoneOver DEF GiveUp, Do
<1> QED BY <1>3, <1>4 DEF GiveUp, CallFrame, tableVars, feedVars

(* Reading leaves at most an alert to be called.                           *)
LEMMA ReadCalls ==
  ASSUME Read
  PROVE  calls' \in Seq(Job) /\ (Alerting \/ Len(calls') = 0) /\ left' \in Nat
<1>1. PICK n \in 0 .. MaxChunk :
        left' = n /\ calls' \in IF n = 0 THEN {<<>>, <<[do |-> "alert"]>>} ELSE {<<>>}
  BY DEF Read
<1>2. calls' = <<>> \/ calls' = <<AlertCall>>
  BY <1>1 DEF AlertCall
<1>3. left' \in Nat
  BY <1>1, IngestionAssumption
<1>4. CASE calls' = <<>>
  BY <1>3, <1>4
<1>5. CASE calls' = <<AlertCall>>
  BY <1>3, <1>5, Alert
<1> QED BY <1>2, <1>4, <1>5

(* A capture time is a number.                                             *)
LEMMA LaterIsNat ==
  ASSUME Types, NEW gap \in Gaps
  PROVE  now + gap \in Nat
<1>1. now \in Nat
  BY DEF Types
<1>2. IdleSplit \in Nat /\ gap \in {1, IdleSplit + 1}
  BY IngestionAssumption DEF Gaps
<1> HIDE DEF Gaps
<1> QED BY <1>1, <1>2

(* What accepting an event does to the counters and to the inputs seen.    *)
LEMMA InputTypes ==
  ASSUME Types, NEW kind \in Kinds \ {"bad"}, NEW t \in Nat, Accept(kind, t)
  PROVE  /\ payloads' = payloads + 1 /\ payloads' \notin DOMAIN seen
         /\ now' = t /\ opened <= opened'
         /\ segment' \in 1 .. opened' /\ opened' \in Nat
         /\ input' = IF IsInput(kind) THEN t ELSE input
         /\ ~IsInput(kind) => seen' = seen
         /\ IsInput(kind) => /\ Puts(seen', seen, payloads')
                             /\ seen'[payloads'] = [seg |-> segment', t |-> t,
                                                    session |-> session, drill |-> drill]
         /\ Types'
<1>1. payloads' = payloads + 1 /\ now' = t /\ left' = left - 1 /\ left > 0
      /\ UNCHANGED <<pc, codes, cause, session, drill, builders>>
      /\ UNCHANGED <<sessions, segments, windows, cands>>
  BY DEF Accept, Advance, tableVars
<1>2. payloads' \notin DOMAIN seen /\ payloads \in Nat /\ session \in Nat /\ drill \in BOOLEAN
      /\ left' \in Nat
  BY <1>1 DEF Types
<1>3. opened <= opened' /\ segment' \in 1 .. opened' /\ opened' \in Nat /\ segment' \in {0, opened'}
  <2>1. Continues(kind, t) \/ Opens(kind, t) \/ Splits(kind, t)
    BY AcceptedCalls
  <2> QED BY <2>1 DEF Continues, Opens, Splits, Types
<1>4. input' = IF IsInput(kind) THEN t ELSE input
  BY DEF Accept, Attribute
<1> DEFINE o == [seg |-> segment', t |-> t, session |-> session, drill |-> drill]
<1>5. seen' = IF IsInput(kind) THEN With(seen, payloads', o) ELSE seen
  BY DEF Accept, Attribute
<1>6. o \in Observed /\ o.seg = segment'
  BY <1>2, <1>3 DEF Observed
<1> HIDE DEF o
<1>7. seen \in [DOMAIN seen -> Observed] /\ DOMAIN seen \subseteq 1 .. payloads
      /\ \A n \in DOMAIN seen : seen[n].seg <= opened /\ seen[n].seg \in Nat
  BY DEF Types, Observed
<1>8. ASSUME IsInput(kind)
      PROVE  /\ Puts(seen', seen, payloads') /\ seen'[payloads'] = o
             /\ seen' \in [DOMAIN seen' -> Observed] /\ DOMAIN seen' \subseteq 1 .. payloads'
             /\ \A n \in DOMAIN seen' : seen'[n].seg <= opened'
  <2>0. seen' = With(seen, payloads', o)
    BY <1>5, <1>8
  <2>1. Puts(seen', seen, payloads') /\ seen'[payloads'] = o
    BY <1>2, <2>0 DEF With, Puts
  <2>2. seen' \in [DOMAIN seen' -> Observed] /\ DOMAIN seen' \subseteq 1 .. payloads'
    BY <1>1, <1>2, <1>6, <1>7, <2>0 DEF With
  <2>3. ASSUME NEW n \in DOMAIN seen' PROVE seen'[n].seg <= opened'
    <3>1. CASE n = payloads'
      BY <1>3, <1>6, <2>1, <3>1
    <3>2. CASE n # payloads'
      <4>1. n \in DOMAIN seen /\ seen'[n] = seen[n] /\ opened \in Nat
        BY <2>1, <3>2 DEF Puts, Types
      <4> QED BY <1>3, <1>7, <4>1
    <3> QED BY <3>1, <3>2
  <2> QED BY <2>1, <2>2, <2>3
<1>9. ASSUME ~IsInput(kind)
      PROVE  /\ seen' = seen
             /\ seen' \in [DOMAIN seen' -> Observed] /\ DOMAIN seen' \subseteq 1 .. payloads'
             /\ \A n \in DOMAIN seen' : seen'[n].seg <= opened'
  <2>1. seen' = seen /\ opened \in Nat
    BY <1>5, <1>9 DEF Types
  <2>2. \A n \in DOMAIN seen' : seen'[n].seg <= opened'
    BY <1>3, <1>7, <2>1
  <2> QED BY <1>1, <1>2, <1>7, <2>1, <2>2
<1>10. DOMAIN segments' \subseteq 1 .. opened' /\ DOMAIN cands' \subseteq 1 .. opened'
  BY <1>1, <1>3 DEF Types
<1>11. calls' \in Seq(Job)
  BY AcceptedCalls
<1>12. seen' \in [DOMAIN seen' -> Observed] /\ DOMAIN seen' \subseteq 1 .. payloads'
       /\ \A n \in DOMAIN seen' : seen'[n].seg <= opened'
  BY <1>8, <1>9
<1>13. Types'
  <2>1. /\ pc' \in Control /\ left' \in Nat /\ session' \in Nat /\ drill' \in BOOLEAN
        /\ payloads' \in Nat /\ now' \in Nat /\ input' \in Nat \cup {None}
    BY <1>1, <1>2, <1>4 DEF Types
  <2>2. /\ builders' \in [DOMAIN builders' -> [start : Nat, keys : Nat, evs : SUBSET Nat]]
        /\ windows' \subseteq [seg : Nat, evs : SUBSET Nat]
    BY <1>1 DEF Types
  <2>3. /\ sessions' \in [DOMAIN sessions' -> [drill : BOOLEAN, ended : BOOLEAN]]
        /\ segments' \in [DOMAIN segments' -> [session : Nat, ended : BOOLEAN]]
        /\ cands' = [s \in DOMAIN cands' |-> cands'[s]]
    BY <1>1 DEF Types
  <2> QED BY ONLY <1>3, <1>10, <1>11, <1>12, <2>1, <2>2, <2>3, Zenon DEF Types
<1>14. IsInput(kind) => Puts(seen', seen, payloads') /\ seen'[payloads'] = o
  BY <1>8
<1>15. o = [seg |-> segment', t |-> t, session |-> session, drill |-> drill]
  BY DEF o
<1>16. IsInput(kind) =>
         /\ Puts(seen', seen, payloads')
         /\ seen'[payloads'] = [seg |-> segment', t |-> t, session |-> session, drill |-> drill]
  BY <1>14, <1>15
<1>17. ~IsInput(kind) => seen' = seen
  BY <1>5
<1> QED BY ONLY <1>1, <1>2, <1>3, <1>4, <1>13, <1>16, <1>17

(* Every step keeps the types.                                             *)
LEMMA TypesKeep ==
  ASSUME Types, Shape, Numbered, Next
  PROVE  Types'
<1> USE DEF Control
<1>1. ASSUME NEW isDrill \in BOOLEAN, StartSession(isDrill) PROVE Types'
  <2>1. calls' \in Seq(Job)
    BY <1>1, StartedCalls
  <2>2. session' \in Nat
    <3>1. PICK k \in Nat : DOMAIN sessions = 1 .. k
      BY DEF Numbered
    <3>2. Cardinality(DOMAIN sessions) \in Nat
      BY <3>1, FS_Interval, FS_CardinalityType
    <3> QED BY <1>1, <3>2 DEF StartSession
  <2> QED BY <1>1, <2>1, <2>2, EmptyIs DEF StartSession, Types, tableVars
<1>2. CASE Started \/ Fed \/ PipeError \/ Recover
  BY <1>2 DEF Started, Fed, PipeError, Recover, Types, memoryVars, tableVars, feedVars
<1>3. CASE Stop
  <2>1. calls' \in Seq(Job)
    BY <1>3, StoppedCalls
  <2> QED BY <1>3, <2>1 DEF Stop, Types, memoryVars, tableVars, feedVars
<1>4. CASE Ended \/ Crash
  <2>0. calls' = <<>>
    BY <1>4 DEF Ended, Crash, Forgotten
  <2>1. calls' \in Seq(Job)
    BY <2>0
  <2> QED BY <1>4, <2>1, EmptyIs DEF Ended, Crash, Forgotten, Types, tableVars, feedVars
<1>5. CASE Read
  BY <1>5, ReadCalls DEF Read, Types, memoryVars, tableVars, feedVars
<1>6. ASSUME NEW kind \in Kinds \ {"bad"}, NEW gap \in Gaps, Accept(kind, now + gap)
      PROVE  Types'
  <2>1. now + gap \in Nat
    BY <1>6, LaterIsNat
  <2> QED BY <1>6, <2>1, InputTypes
<1>7. CASE Reject(now + 1)
  <2>1. calls' \in Seq(Job)
    BY <1>7, Alert DEF Reject, AlertCall
  <2> QED BY <1>7, <2>1 DEF Reject, Advance, Types, memoryVars, tableVars
<1>8. CASE Call
  BY <1>8, CallCases
<1>9. CASE GiveUp
  BY <1>9, GivesUp DEF GiveUp, Types, CallFrame
<1>10. CASE Raise
  BY <1>10, RaiseCases
<1> QED BY <1>1, <1>2, <1>3, <1>4, <1>5, <1>6, <1>7, <1>8, <1>9, <1>10 DEF Next

-----------------------------------------------------------------------------
(* The order of the calls.                                                 *)

Still == UNCHANGED <<pc, drill, segment, payloads, now>>

(* Making the first call keeps the order of the rest.                      *)
LEMMA PopShape ==
  ASSUME Types, Shape, Last \in Nat \ {0}, Popped, Still, calls' \in Seq(Job), session' = session,
         pc = "starting" => builders' = builders
  PROVE  Shape'
<1>1. /\ Len(calls') = Last - 1 /\ Last' = Last - 1 /\ Pending' = 1 .. Last - 1
      /\ \A i \in 1 .. Last - 1 : i + 1 \in Pending /\ Do(i)' = Do(i + 1) /\ Seg(i)' = Seg(i + 1)
                                  /\ calls'[i] = calls[i + 1]
  BY DEF Popped, Pending, Do, Seg, Last
<1>2. StartShape'
  BY <1>1 DEF Shape, StartShape, Still, Last, Pending
<1>3. FeedShape'
  <2> SUFFICES ASSUME pc = "feeding", NEW i \in 1 .. Last - 1
               PROVE  /\ Do(i)' \notin {"createSession", "declareDrill", "anchor", "endSession"}
                      /\ Do(i)' \in EndingDo => Seg(i)' < segment /\ Seg(i)' > 0
                      /\ Do(i)' # "window"
                      /\ Do(i)' = "createSegment" => i = Last' - 1 /\ Seg(i)' = segment
                      /\ Do(i)' = "event" => /\ i = Last' /\ Seg(i)' = segment
                                             /\ calls'[i].n = payloads /\ calls'[i].t = now
                      /\ Do(i)' \in {"createSegment", "event"} => segment # 0
    BY <1>1 DEF FeedShape, Still
  <2> QED BY <1>1 DEF Shape, FeedShape, Order
<1>4. EndShape'
  <2> SUFFICES ASSUME pc = "ending", NEW i \in 1 .. Last - 1
               PROVE  /\ Do(i)' \notin {"createSession", "declareDrill", "anchor", "createSegment", "event"}
                      /\ Do(i)' \in EndingDo \cup {"window"} => Seg(i)' = segment /\ segment # 0
                      /\ Do(i)' = "endSession" => i = Last'
    BY <1>1 DEF EndShape, Still
  <2> QED BY <1>1 DEF Shape, EndShape
<1>5. Order'
  <2> SUFFICES ASSUME NEW i \in 1 .. Last - 1
               PROVE  /\ Do(i)' \notin {"flush", "window", "alert"}
                      /\ Do(i)' = "endSegment" => i = 1
                      /\ Do(i)' = "submit" => \/ i = 1
                                              \/ Do(i - 1)' = "endSegment" /\ Seg(i - 1)' = Seg(i)'
    BY <1>1 DEF Order
  <2>0. i \in Nat \ {0}
    OBVIOUS
  <2>1. i + 1 \in Pending
    BY <1>1
  <2>2. i + 1 # 1 /\ (i + 1 = 2 => i = 1)
    BY <2>0
  <2>3. (i + 1) - 1 = i
    BY <2>0
  <2>4. i + 1 \in Pending /\ i + 1 # 1 /\ (i + 1 = 2 => i = 1) /\ (i + 1) - 1 = i
    BY <2>1, <2>2, <2>3
  <2>5. i # 1 => i - 1 \in 1 .. Last - 1 /\ i - 1 + 1 = i
    OBVIOUS
  <2> QED BY <1>1, <2>4, <2>5 DEF Shape, Order
<1>6. AtRest'
  <2>1. pc \notin {"down", "reading", "recovering"}
    BY DEF Shape, AtRest, Last
  <2> QED BY <2>1 DEF Shape, AtRest, Still
<1> QED BY <1>2, <1>3, <1>4, <1>5, <1>6 DEF Shape

(* So does putting the next of its kind in its place.                      *)
LEMMA SwapShape ==
  ASSUME Types, Shape, Last \in Nat \ {0}, NEW x \in Job, Swapped(x), Still, session' = session,
         calls' \in Seq(Job),
         \/ Do(1) = "submit" /\ x.do = "alert"
         \/ Do(1) \in {"flush", "event"} /\ x.do = "window" /\ x.seg = Seg(1)
  PROVE  Shape'
<1>1. /\ Len(calls') = Last /\ Pending' = Pending /\ 1 \in Pending
      /\ Do(1)' = x.do /\ Seg(1)' = x.seg
      /\ \A i \in Pending : i # 1 => /\ Do(i)' = Do(i) /\ Seg(i)' = Seg(i)
                                     /\ calls'[i] = calls[i]
  BY DEF Swapped, Pending, Do, Seg, Last
<1>2. pc \in {"feeding", "ending"}
  <2>1. pc \notin {"down", "reading", "recovering"}
    BY DEF Shape, AtRest, Last
  <2>2. pc # "starting"
    <3>1. Last = 2 \/ Last # 2
      OBVIOUS
    <3> QED BY <1>1 DEF Shape, StartShape, EndingDo
  <2> QED BY <2>1, <2>2 DEF Types, Control
<1>3. FeedShape'
  <2> SUFFICES ASSUME pc = "feeding", NEW i \in Pending
               PROVE  /\ Do(i)' \notin {"createSession", "declareDrill", "anchor", "endSession"}
                      /\ Do(i)' \in EndingDo => Seg(i)' < segment /\ Seg(i)' > 0
                      /\ Do(i)' = "window" => /\ Seg(i)' <= segment /\ Seg(i)' > 0
                                              /\ (Seg(i)' = segment => Last' = 1)
                      /\ Do(i)' = "createSegment" => i = Last' - 1 /\ Seg(i)' = segment
                      /\ Do(i)' = "event" => /\ i = Last' /\ Seg(i)' = segment
                                             /\ calls'[i].n = payloads /\ calls'[i].t = now
                      /\ Do(i)' \in {"createSegment", "event"} => segment # 0
    BY <1>1 DEF FeedShape, Still
  <2>1. CASE i # 1
    BY <1>1, <2>1 DEF Shape, FeedShape, Order, Last
  <2>2. CASE i = 1
    <3>1. segment \in Nat
      BY DEF Types
    <3>2. x.do \in {"alert", "window"}
      OBVIOUS
    <3>3. ASSUME x.do = "window"
          PROVE  Seg(1) <= segment /\ Seg(1) > 0 /\ (Seg(1) = segment => Last = 1)
      <4>1. CASE Do(1) = "flush"
        <5>1. Seg(1) < segment /\ Seg(1) > 0
          BY <1>1, <4>1 DEF Shape, FeedShape, EndingDo
        <5>2. Seg(1) \in Nat
          BY <4>1, JobFields DEF Types, Do, Seg, EndingDo, Last
        <5> QED BY <3>1, <5>1, <5>2
      <4>2. CASE Do(1) = "event"
        BY <1>1, <3>1, <4>2 DEF Shape, FeedShape
      <4> QED BY <3>3, <4>1, <4>2
    <3> QED BY <1>1, <2>2, <3>2, <3>3 DEF EndingDo, Last
  <2> QED BY <2>1, <2>2
<1>4. EndShape'
  <2> SUFFICES ASSUME pc = "ending", NEW i \in Pending
               PROVE  /\ Do(i)' \notin {"createSession", "declareDrill", "anchor", "createSegment", "event"}
                      /\ Do(i)' \in EndingDo \cup {"window"} => Seg(i)' = segment /\ segment # 0
                      /\ Do(i)' = "endSession" => i = Last'
    BY <1>1 DEF EndShape, Still
  <2>1. CASE i # 1
    BY <1>1, <2>1 DEF Shape, EndShape, Last
  <2>2. CASE i = 1
    BY <1>1, <2>2 DEF Shape, EndShape, EndingDo
  <2> QED BY <2>1, <2>2
<1>5. Order'
  <2> SUFFICES ASSUME NEW i \in Pending
               PROVE  /\ Do(i)' \in {"flush", "window", "alert"} => i = 1
                      /\ Do(i)' = "endSegment" =>
                           \/ i = 1
                           \/ i = 2 /\ Do(1)' \in {"flush", "window"} /\ Seg(1)' = Seg(2)'
                      /\ Do(i)' = "submit" => \/ i = 1
                                              \/ Do(i - 1)' = "endSegment" /\ Seg(i - 1)' = Seg(i)'
    BY <1>1 DEF Order
  <2>1. CASE i = 1
    BY <2>1
  <2>2. CASE i # 1
    <3>1. Do(i)' = Do(i) /\ Seg(i)' = Seg(i) /\ i - 1 \in Pending /\ (i - 1 = 1 <=> i = 2)
      BY <1>1, <2>2 DEF Pending
    <3>2. ASSUME Do(i) = "endSegment"
          PROVE  i = 2 /\ Do(1)' \in {"flush", "window"} /\ Seg(1)' = Seg(2)'
      <4>1. i = 2 /\ Do(1) \in {"flush", "window"} /\ Seg(1) = Seg(2)
        BY <2>2, <3>2 DEF Shape, Order
      <4> QED BY <1>1, <4>1 DEF EndingDo
    <3>3. ASSUME Do(i) = "submit"
          PROVE  Do(i - 1)' = "endSegment" /\ Seg(i - 1)' = Seg(i)'
      <4>1. Do(i - 1) = "endSegment" /\ Seg(i - 1) = Seg(i)
        BY <2>2, <3>3 DEF Shape, Order
      <4>2. CASE i = 2
        BY <1>1, <4>1, <4>2
      <4>3. CASE i # 2
        BY <1>1, <3>1, <4>1, <4>3
      <4> QED BY <4>2, <4>3
    <3> QED BY <2>2, <3>1, <3>2, <3>3 DEF Shape, Order
  <2> QED BY <2>1, <2>2
<1> QED BY <1>2, <1>3, <1>4, <1>5 DEF Shape, StartShape, AtRest, Still
(* With at most one call, an alert, there is no order to keep.             *)
LEMMA AlertShape ==
  ASSUME Alerting, pc' = "feeding"
  PROVE  Shape'
<1>1. Len(calls') = 1 /\ calls'[1].do = "alert"
  BY DEF Alerting, AlertCall
<1>2. Pending' = {1} /\ Do(1)' = "alert"
  BY <1>1 DEF Pending, Do
<1> QED BY <1>2 DEF Shape, StartShape, FeedShape, EndShape, Order, AtRest, EndingDo

(* With no call there is no order to keep.                                 *)
LEMMA NoneShape ==
  ASSUME Len(calls') = 0, pc' # "starting", pc' \in {"down", "reading", "recovering"} => calls' = <<>>,
         pc' = "down" => session' = 0 /\ segment' = 0 /\ builders' = Empty
  PROVE  Shape'
<1>1. Pending' = {}
  BY DEF Pending
<1> QED BY <1>1 DEF Shape, StartShape, FeedShape, EndShape, Order, AtRest

(* The calls of an accepted event are in order.                            *)
LEMMA InputShape ==
  ASSUME Types, NEW kind \in Kinds \ {"bad"}, NEW t \in Nat, Accept(kind, t)
  PROVE  Shape'
<1>1. pc' = "feeding" /\ payloads' \in Nat /\ now' = t /\ segment \in Nat /\ opened \in Nat
      /\ segment <= opened
  BY DEF Accept, Advance, Types
<1>2. CASE Continues(kind, t)
  <2>1. Len(calls') = 1 /\ Do(1)' = "event" /\ Seg(1)' = segment' /\ calls'[1].n = payloads'
        /\ calls'[1].t = t /\ segment' # 0
    BY <1>2 DEF Continues, EventCall, Do, Seg
  <2>2. Pending' = {1}
    BY <2>1 DEF Pending
  <2> QED BY <1>1, <2>1, <2>2
          DEF Shape, StartShape, FeedShape, EndShape, Order, AtRest, EndingDo, Last
<1>3. CASE Opens(kind, t)
  <2>1. /\ Len(calls') = 2 /\ Do(1)' = "createSegment" /\ Do(2)' = "event"
        /\ Seg(1)' = segment' /\ Seg(2)' = segment'
        /\ calls'[2].n = payloads' /\ calls'[2].t = t /\ segment' # 0
    BY <1>1, <1>3 DEF Opens, EventCall, Begins, Do, Seg
  <2>2. Pending' = {1, 2}
    BY <2>1 DEF Pending
  <2> QED BY <1>1, <2>1, <2>2
          DEF Shape, StartShape, FeedShape, EndShape, Order, AtRest, EndingDo, Last
<1>4. CASE Splits(kind, t)
  <2>1. /\ Len(calls') = 5 /\ Do(1)' = "flush" /\ Do(2)' = "endSegment" /\ Do(3)' = "submit"
        /\ Do(4)' = "createSegment" /\ Do(5)' = "event"
        /\ Seg(1)' = segment /\ Seg(2)' = segment /\ Seg(3)' = segment
        /\ Seg(4)' = segment' /\ Seg(5)' = segment'
        /\ calls'[5].n = payloads' /\ calls'[5].t = t
    BY <1>4 DEF Splits, EventCall, Begins, Do, Seg
  <2>2. Pending' = {1, 2, 3, 4, 5}
    BY <2>1 DEF Pending
  <2>3. segment' > segment /\ segment > 0 /\ segment' # 0
    BY <1>1, <1>4 DEF Splits
  <2>4. FeedShape'
    BY <1>1, <2>1, <2>2, <2>3 DEF FeedShape, EndingDo, Last
  <2>5. Order'
    BY <2>1, <2>2 DEF Order
  <2> QED BY <1>1, <2>4, <2>5 DEF Shape, StartShape, EndShape, AtRest
<1> QED BY <1>2, <1>3, <1>4, AcceptedCalls

(* So are those of a session's end.                                        *)
LEMMA StopShape ==
  ASSUME Types, Stop
  PROVE  Shape'
<1>1. pc' = "ending" /\ segment' = segment
  BY DEF Stop, memoryVars
<1>2. CASE StopsIdle
  <2>1. Len(calls') = 1 /\ Do(1)' = "endSession"
    BY <1>2 DEF StopsIdle, Do
  <2>2. Pending' = {1}
    BY <2>1 DEF Pending
  <2> QED BY <1>1, <2>1, <2>2
          DEF Shape, StartShape, FeedShape, EndShape, Order, AtRest, EndingDo, Last
<1>3. CASE StopsOpen
  <2>1. /\ Len(calls') = 4 /\ Do(1)' = "flush" /\ Do(2)' = "endSegment" /\ Do(3)' = "submit"
        /\ Do(4)' = "endSession" /\ Seg(1)' = segment /\ Seg(2)' = segment /\ Seg(3)' = segment
        /\ segment # 0
    BY <1>3 DEF StopsOpen, Begins, Do, Seg
  <2>2. Pending' = {1, 2, 3, 4}
    BY <2>1 DEF Pending
  <2> QED BY <1>1, <2>1, <2>2
          DEF Shape, StartShape, FeedShape, EndShape, Order, AtRest, EndingDo, Last
<1> QED BY <1>2, <1>3, StoppedCalls

(* So are those of a session's start.                                      *)
LEMMA StartShapes ==
  ASSUME NEW isDrill \in BOOLEAN, StartSession(isDrill)
  PROVE  Shape'
<1> DEFINE second == IF isDrill THEN "declareDrill" ELSE "anchor"
<1>0. Len(calls') = 2 /\ calls'[1] = [do |-> "createSession"] /\ calls'[2] = [do |-> second]
  BY StartedCalls
<1> HIDE DEF second
<1>1. Len(calls') = 2 /\ Do(1)' = "createSession" /\ Do(2)' = second
  BY <1>0 DEF Do
<1>2. Pending' = {1, 2}
  BY <1>1 DEF Pending
<1>3. pc' = "starting" /\ drill' = isDrill /\ segment' = 0 /\ builders' = Empty
  BY DEF StartSession
<1> QED BY <1>1, <1>2, <1>3
        DEF Shape, StartShape, FeedShape, EndShape, Order, AtRest, EndingDo, Last, second

(* A call keeps the order.                                                 *)
LEMMA CallShape ==
  ASSUME Types, Shape, Call
  PROVE  Shape'
<1>1. CallFrame /\ Last \in Nat \ {0} /\ Called /\ Types'
  BY CallCases
<1>2. Still /\ session' = session /\ calls' \in Seq(Job) /\ calls \in Seq(Job)
  BY <1>1 DEF CallFrame, Still, Types
<1>3. pc = "starting" => Do(1) \in {"createSession", "declareDrill", "anchor"}
  <2>1. ASSUME pc = "starting" PROVE Do(1) \in {"createSession", "declareDrill", "anchor"}
    <3>1. 1 \in Pending
      BY <1>1 DEF Pending, Last
    <3> QED BY <2>1, <3>1, <1>1 DEF Shape, StartShape
  <2> QED BY <2>1
<1>4. Popped \/ Fills \/ Flushes
  BY <1>1 DEF Called, StartsSession, DeclaresDrill, EndsSession, Quiet, CreatesSegment,
              StoresWindow, EndsSegment, Submits, PassesBy, Keeps, FlushesNone
<1>5. CASE Popped
  <2>1. pc = "starting" => builders' = builders
    BY <1>1, <1>3 DEF Called, StartsSession, DeclaresDrill, EndsSession, Quiet, CreatesSegment,
              StoresWindow, EndsSegment, Submits, PassesBy, Keeps, FlushesNone, Fills, Flushes
  <2> QED BY <1>1, <1>2, <1>5, <2>1, PopShape
<1>6. CASE Fills
  <2>1. PICK x : x = WindowOf(Seg(1), builders[Seg(1)].evs \cup {calls[1].n})
    OBVIOUS
  <2>2. Swapped(x) /\ x.do = "window" /\ x.seg = Seg(1) /\ Do(1) = "event"
    BY <1>6, <2>1 DEF Fills, WindowOf
  <2>3. x \in Job
    BY <1>1, <1>2, <2>2 DEF Swapped
  <2> QED BY <1>1, <1>2, <2>2, <2>3, SwapShape
<1>7. CASE Flushes
  <2>1. PICK x : x = WindowOf(Seg(1), builders[Seg(1)].evs)
    OBVIOUS
  <2>2. Swapped(x) /\ x.do = "window" /\ x.seg = Seg(1) /\ Do(1) = "flush"
    BY <1>7, <2>1 DEF Flushes, WindowOf
  <2>3. x \in Job
    BY <1>1, <1>2, <2>2 DEF Swapped
  <2> QED BY <1>1, <1>2, <2>2, <2>3, SwapShape
<1> QED BY <1>4, <1>5, <1>6, <1>7

(* Every step keeps the order.                                             *)
LEMMA ShapeKeep ==
  ASSUME Types, Shape, Next
  PROVE  Shape'
<1>1. ASSUME NEW isDrill \in BOOLEAN, StartSession(isDrill) PROVE Shape'
  BY <1>1, StartShapes
<1>2. CASE Started \/ Fed \/ PipeError \/ Recover
  <2>1. calls' = <<>> /\ pc' \in {"reading", "recovering"}
    BY <1>2 DEF Started, Fed, PipeError, Recover, Shape, AtRest
  <2> QED BY <2>1, NoneShape
<1>3. CASE Stop
  BY <1>3, StopShape
<1>4. CASE Ended \/ Crash
  <2>1. calls' = <<>> /\ pc' = "down" /\ session' = 0 /\ segment' = 0 /\ builders' = Empty
    BY <1>4 DEF Ended, Crash, Forgotten
  <2> QED BY <2>1, NoneShape
<1>5. CASE Read
  <2>1. pc' = "feeding" /\ (Alerting \/ Len(calls') = 0)
    BY <1>5, ReadCalls DEF Read
  <2> QED BY <2>1, AlertShape, NoneShape
<1>6. ASSUME NEW kind \in Kinds \ {"bad"}, NEW gap \in Gaps, Accept(kind, now + gap)
      PROVE  Shape'
  <2>1. now + gap \in Nat
    BY <1>6, LaterIsNat
  <2> QED BY <1>6, <2>1, InputShape
<1>7. CASE Reject(now + 1)
  <2>1. pc' = "feeding" /\ Alerting
    BY <1>7, Alert DEF Reject, Advance, AlertCall
  <2> QED BY <2>1, AlertShape
<1>8. CASE Call
  BY <1>8, CallShape
<1>9. CASE GiveUp
  <2>1. /\ calls' \in Seq(Job) /\ Last \in Nat \ {0} /\ Swapped(AlertCall) /\ Do(1) = "submit"
        /\ Still /\ session' = session
    BY <1>9, GivesUp DEF CallFrame, Still
  <2>2. AlertCall \in Job /\ AlertCall.do = "alert"
    BY JobsMade DEF AlertCall, PlainDo
  <2> QED BY <2>1, <2>2, SwapShape
<1>10. CASE Raise
  <2>1. calls' = <<>> /\ pc' \in {"recovering", "down"}
        /\ (pc' = "down" => session' = 0 /\ segment' = 0 /\ builders' = Empty)
    BY <1>10, RaiseCases DEF Fails
  <2> QED BY <2>1, NoneShape
<1> QED BY <1>1, <1>2, <1>3, <1>4, <1>5, <1>6, <1>7, <1>8, <1>9, <1>10 DEF Next
-----------------------------------------------------------------------------
(* The rows.                                                               *)

(* Where a call is first, by what it calls.                                *)
LEMMA First ==
  ASSUME Types, Shape, Last \in Nat \ {0}
  PROVE  /\ calls[1] \in Job /\ 1 \in Pending
         /\ pc \in {"starting", "feeding", "ending"}
         /\ pc = "starting" => Do(1) \in {"createSession", "declareDrill", "anchor"}
         /\ Do(1) = "createSession" => pc = "starting" /\ Last = 2
         /\ Do(1) = "declareDrill" => pc = "starting" /\ Last = 1 /\ drill
         /\ Do(1) = "anchor" => pc = "starting" /\ Last = 1 /\ ~drill
         /\ Do(1) = "createSegment" => pc = "feeding" /\ Seg(1) = segment /\ segment # 0 /\ Last = 2
         /\ Do(1) = "event" => /\ pc = "feeding" /\ Seg(1) = segment /\ segment # 0 /\ Last = 1
                               /\ calls[1].n = payloads /\ calls[1].t = now
         /\ Do(1) \in EndingDo \cup {"window"} => /\ pc \in {"feeding", "ending"}
                                                  /\ Seg(1) \in 1 .. opened
                                                  /\ pc = "ending" => Seg(1) = segment
         /\ Do(1) \in EndingDo /\ pc = "feeding" => Seg(1) < segment
         /\ Do(1) = "endSession" => pc = "ending" /\ Last = 1
         /\ Do(1) = "alert" => pc \in {"feeding", "ending"}
<1>1. calls[1] \in Job /\ 1 \in Pending
  BY DEF Types, Last, Pending
<1>2. pc \in {"starting", "feeding", "ending"}
  BY DEF Shape, AtRest, Types, Control, Last
<1>3. CASE pc = "starting"
  <2>1. Last = 1 \/ Last = 2
    BY <1>3 DEF Shape, StartShape
  <2>2. Do(1) = IF Last = 2 THEN "createSession" ELSE IF drill THEN "declareDrill" ELSE "anchor"
    BY <1>1, <1>3, <2>1 DEF Shape, StartShape
  <2> QED BY <1>1, <1>3, <2>1, <2>2 DEF EndingDo
<1>4. CASE pc = "feeding"
  <2>1. /\ Do(1) \notin {"createSession", "declareDrill", "anchor", "endSession"}
        /\ Do(1) \in EndingDo => Seg(1) < segment
        /\ Do(1) = "createSegment" => 1 = Last - 1 /\ Seg(1) = segment
        /\ Do(1) = "event" => /\ 1 = Last /\ Seg(1) = segment
                              /\ calls[1].n = payloads /\ calls[1].t = now
        /\ Do(1) \in {"createSegment", "event"} => segment # 0
    BY <1>1, <1>4 DEF Shape, FeedShape
  <2>2. Do(1) \in EndingDo \cup {"window"} => Seg(1) \in 1 .. opened
    BY <1>1, CallsAreOpen
  <2> QED BY <1>1, <1>4, <2>1, <2>2
<1>5. CASE pc = "ending"
  <2>1. /\ Do(1) \notin {"createSession", "declareDrill", "anchor", "createSegment", "event"}
        /\ Do(1) \in EndingDo \cup {"window"} => Seg(1) = segment /\ segment # 0
        /\ Do(1) = "endSession" => 1 = Last
    BY <1>1, <1>5 DEF Shape, EndShape
  <2>2. Do(1) \in EndingDo \cup {"window"} => Seg(1) \in 1 .. opened
    BY <1>1, CallsAreOpen
  <2> QED BY <1>1, <1>5, <2>1, <2>2
<1> QED BY <1>2, <1>3, <1>4, <1>5

(* What a call or a failing one leaves true of the rows.                   *)
RowsOf(n) ==
  /\ seen[n].session \in DOMAIN sessions'
  /\ sessions'[seen[n].session].drill = seen[n].drill
  /\ pc = "starting" => seen[n].session # session
  /\ seen[n].seg \in DOMAIN segments' => segments'[seen[n].seg].session = seen[n].session
  /\ seen[n].drill => seen[n].seg \notin DOMAIN cands'
RowsAfter ==
  /\ \E k \in Nat : DOMAIN sessions' = 1 .. k
  /\ \A n \in DOMAIN seen : RowsOf(n)
  /\ DOMAIN segments \subseteq DOMAIN segments'
  /\ \A w \in windows' : w.seg \in DOMAIN segments'
  /\ segment # 0 => /\ pc # "ending" => segment \notin DOMAIN cands'
                    /\ segment \in DOMAIN segments' => segments'[segment].session = session

(* What a call writes leaves the rows of the inputs right.                 *)
LEMMA TablesLeave ==
  ASSUME Types, Shape, RowsInv, Last \in Nat \ {0},
         \/ Tables(calls[1])
         \/ UNCHANGED <<sessions, segments, windows, cands>>
  PROVE  RowsAfter
<1> DEFINE c == calls[1]
<1>1. Do(1) = c.do /\ Seg(1) = c.seg
  BY DEF Do, Seg
<1>2. /\ \A n \in DOMAIN seen : seen[n].session \in Nat /\ seen[n].seg \in Nat /\ seen[n].drill \in BOOLEAN
      /\ sessions \in [DOMAIN sessions -> SessionRowOf]
      /\ segments \in [DOMAIN segments -> SegmentRowOf]
  BY DEF Types, Observed, SessionRowOf, SegmentRowOf
<1>3. PICK k \in Nat : DOMAIN sessions = 1 .. k /\ (pc = "starting" /\ Last = 2 => session = k + 1)
  BY DEF RowsInv, Numbered
<1>4. \A n \in DOMAIN seen :
        /\ seen[n].session \in DOMAIN sessions
        /\ sessions[seen[n].session].drill = seen[n].drill
        /\ pc = "starting" => seen[n].session # session
        /\ seen[n].seg \in DOMAIN segments => segments[seen[n].seg].session = seen[n].session
        /\ seen[n].drill => seen[n].seg \notin DOMAIN cands
  BY DEF RowsInv, InputRows, DrillLeavesNone
<1>5. \A w \in windows : w.seg \in DOMAIN segments
  BY DEF RowsInv, SegmentRows
<1>6. segment # 0 => /\ pc # "ending" => segment \notin DOMAIN cands
                     /\ segment \in DOMAIN segments => segments[segment].session = session
  BY DEF RowsInv, OpenSegment
<1> HIDE DEF c
<1>7. CASE UNCHANGED <<sessions, segments, windows, cands>>
  <2>1. \A n \in DOMAIN seen : RowsOf(n)
    BY <1>4, <1>7 DEF RowsOf
  <2> QED BY <1>3, <1>5, <1>6, <1>7, <2>1 DEF RowsAfter
<1>8. CASE /\ c.do = "createSession" /\ Puts(sessions', sessions, session)
           /\ UNCHANGED <<segments, windows, cands>>
  <2>1. session = k + 1 /\ pc = "starting"
    BY <1>1, <1>3, <1>8, First
  <2>2. DOMAIN sessions' = 1 .. (k + 1) /\ k + 1 \in Nat
    <3>1. DOMAIN sessions' = (1 .. k) \cup {k + 1}
      BY <1>3, <1>8, <2>1 DEF Puts
    <3>2. (1 .. k) \cup {k + 1} = 1 .. (k + 1)
      OBVIOUS
    <3> QED BY <3>1, <3>2
  <2>3. \A n \in DOMAIN seen : RowsOf(n)
    BY <1>4, <1>8, <2>1 DEF RowsOf, Puts
  <2> QED BY <1>5, <1>6, <1>8, <2>2, <2>3 DEF RowsAfter
<1>9. CASE /\ c.do = "declareDrill" /\ sessions' = [sessions EXCEPT ![session].drill = TRUE]
           /\ UNCHANGED <<segments, windows, cands>>
  <2>1. pc = "starting"
    BY <1>1, <1>9, First
  <2>2. DOMAIN sessions' = DOMAIN sessions
        /\ \A s \in DOMAIN sessions : s # session => sessions'[s] = sessions[s]
    BY <1>9
  <2>3. \A n \in DOMAIN seen : RowsOf(n)
    BY <1>4, <1>9, <2>1, <2>2 DEF RowsOf
  <2> QED BY <1>3, <1>5, <1>6, <1>9, <2>2, <2>3 DEF RowsAfter
<1>10. CASE /\ c.do = "endSession" /\ sessions' = [sessions EXCEPT ![session].ended = TRUE]
            /\ UNCHANGED <<segments, windows, cands>>
  <2>1. DOMAIN sessions' = DOMAIN sessions
    BY <1>10
  <2>2. ASSUME NEW s \in DOMAIN sessions PROVE sessions'[s].drill = sessions[s].drill
    BY <1>2, <1>10 DEF SessionRowOf
  <2>3. \A n \in DOMAIN seen : RowsOf(n)
    BY <1>4, <1>10, <2>1, <2>2 DEF RowsOf
  <2> QED BY <1>3, <1>5, <1>6, <1>10, <2>1, <2>3 DEF RowsAfter
<1>11. CASE /\ c.do = "createSegment" /\ Puts(segments', segments, c.seg)
            /\ segments'[c.seg] = [session |-> session, ended |-> FALSE]
            /\ UNCHANGED <<sessions, windows, cands>>
  <2>1. c.seg = segment /\ segment # 0
    BY <1>1, <1>11, First
  <2>2. segments'[segment].session = session
    BY <1>11, <2>1
  <2>3. \A n \in DOMAIN seen : seen[n].seg = segment => seen[n].session = session
    <3>1. segment \in Nat /\ InHand(segment)
      BY <2>1 DEF Types, InHand
    <3> QED BY <3>1 DEF RowsInv, OursInHand, Ours
  <2>4. ASSUME NEW n \in DOMAIN seen PROVE RowsOf(n)
    <3>1. CASE seen[n].seg = segment
      BY <1>4, <1>11, <2>1, <2>2, <2>3, <3>1 DEF RowsOf
    <3>2. CASE seen[n].seg # segment
      BY <1>4, <1>11, <2>1, <3>2 DEF RowsOf, Puts
    <3> QED BY <3>1, <3>2
  <2> QED BY <1>3, <1>5, <1>6, <1>11, <2>2, <2>4 DEF RowsAfter, Puts
<1>12. CASE c.do = "window" /\ windows' = windows \cup {Window(c)} /\ UNCHANGED <<sessions, segments, cands>>
  <2>1. c.seg \in DOMAIN segments
    BY <1>1, <1>12, First DEF RowsInv, SegmentRows
  <2>2. \A n \in DOMAIN seen : RowsOf(n)
    BY <1>4, <1>12 DEF RowsOf
  <2> QED BY <1>3, <1>5, <1>6, <1>12, <2>1, <2>2 DEF RowsAfter, Window
<1>13. CASE /\ c.do = "endSegment" /\ segments' = [segments EXCEPT ![c.seg].ended = TRUE]
            /\ UNCHANGED <<sessions, windows, cands>>
  <2>1. DOMAIN segments' = DOMAIN segments
    BY <1>13
  <2>2. ASSUME NEW s \in DOMAIN segments PROVE segments'[s].session = segments[s].session
    BY <1>2, <1>13 DEF SegmentRowOf
  <2>3. \A n \in DOMAIN seen : RowsOf(n)
    BY <1>4, <1>13, <2>1, <2>2 DEF RowsOf
  <2> QED BY <1>3, <1>5, <1>6, <1>13, <2>1, <2>2, <2>3 DEF RowsAfter
<1>14. CASE c.do = "submit" /\ ~drill /\ Puts(cands', cands, c.seg) /\ UNCHANGED <<sessions, segments, windows>>
  <2>1. /\ pc \in {"feeding", "ending"} /\ c.seg \in 1 .. opened /\ 1 \in Pending
        /\ pc = "feeding" => c.seg < segment
    BY <1>1, <1>14, First DEF EndingDo
  <2>2. InHand(c.seg) /\ c.seg \in Nat
    BY <1>1, <1>14, <2>1 DEF InHand, EndingDo
  <2>3. \A n \in DOMAIN seen : seen[n].seg = c.seg => seen[n].session = session
    BY <2>2 DEF RowsInv, OursInHand, Ours
  <2>4. sessions[session].drill = FALSE
    BY <1>14, <2>1 DEF RowsInv, SessionRow, Types
  <2>5. ASSUME NEW n \in DOMAIN seen PROVE RowsOf(n)
    <3>1. seen[n].seg = c.seg => ~seen[n].drill
      BY <1>4, <2>3, <2>4
    <3> QED BY <1>4, <1>14, <3>1 DEF RowsOf, Puts
  <2>6. pc # "ending" => segment # c.seg
    BY <2>1, <2>2 DEF Types
  <2> QED BY <1>3, <1>5, <1>6, <1>14, <2>5, <2>6 DEF RowsAfter, Puts
<1> QED BY <1>7, <1>8, <1>9, <1>10, <1>11, <1>12, <1>13, <1>14 DEF Tables, c
(* The calls that are left name segments that were in hand before.         *)
LEMMA StillInHand ==
  ASSUME Types, Shape, Last \in Nat \ {0}, segment' = segment, NEW x,
         \/ Popped
         \/ Swapped(x) /\ x.do = "alert"
         \/ Swapped(x) /\ x.do = "window" /\ x.seg = Seg(1) /\ InHand(Seg(1))
  PROVE  \A s \in Nat : InHand(s)' => InHand(s)
<1> SUFFICES ASSUME NEW s \in Nat, NEW i \in Pending',
                    Do(i)' \in EndingDo \cup {"window"}, Seg(i)' = s
             PROVE  InHand(s)
  BY DEF InHand
<1>1. CASE Popped
  <2>1. i + 1 \in Pending /\ Do(i)' = Do(i + 1) /\ Seg(i)' = Seg(i + 1)
    BY <1>1 DEF Popped, Pending, Do, Seg, Last
  <2> QED BY <2>1 DEF InHand
<1>2. CASE Swapped(x) /\ i # 1
  <2>1. i \in Pending /\ Do(i)' = Do(i) /\ Seg(i)' = Seg(i)
    BY <1>2 DEF Swapped, Pending, Do, Seg, Last
  <2> QED BY <2>1 DEF InHand
<1>3. CASE Swapped(x) /\ i = 1
  <2>1. Do(i)' = x.do /\ Seg(i)' = x.seg
    BY <1>3 DEF Swapped, Do, Seg
  <2> QED BY <1>3, <2>1 DEF EndingDo, Popped, Swapped
<1> QED BY <1>1, <1>2, <1>3

(* What a step needs to keep of the rows when it touches none of them.     *)
LEMMA RowsUntouched ==
  ASSUME Types, RowsInv, UNCHANGED <<sessions, segments, windows, cands, seen>>,
         pc' # "starting", pc' # "down" => pc # "down" /\ session' = session,
         pc' # "down" => /\ ~(pc = "starting" /\ Last = 1) /\ ~(pc = "starting" /\ Last = 2)
                         /\ drill' = drill,
         segment' \in {0, segment}, segment' # 0 => session' = session /\ (pc = "ending" => pc' = "ending"),
         builders' = builders \/ builders' = Empty,
         \A i \in Pending' : Do(i)' \in EndingDo => Seg(i)' = segment' /\ segment' # 0,
         \A i \in Pending' : Do(i)' # "window"
  PROVE  RowsInv'
<1>1. Numbered' /\ InputRows' /\ DrillLeavesNone' /\ OpenSegment'
  BY DEF RowsInv, Numbered, InputRows, DrillLeavesNone, OpenSegment
<1>2. SessionRow'
  BY DEF RowsInv, SessionRow
<1>3. OursInHand'
  <2> SUFFICES ASSUME NEW s \in Nat, InHand(s)' PROVE Ours(s)'
    BY DEF OursInHand
  <2>1. s = segment' /\ segment' # 0
    BY DEF InHand
  <2>2. InHand(s)
    BY <2>1 DEF InHand
  <2> QED BY <2>1, <2>2 DEF RowsInv, OursInHand, Ours
<1>4. SegmentRows'
  BY EmptyIs DEF RowsInv, SegmentRows
<1> QED BY <1>1, <1>2, <1>3, <1>4 DEF RowsInv

(* No call, or an alert.                                                   *)
LEMMA NoCalls ==
  ASSUME Len(calls') = 0 \/ Alerting
  PROVE  \A i \in Pending' : Do(i)' = "alert" /\ i = 1
<1>1. CASE Len(calls') = 0
  BY <1>1 DEF Pending
<1>2. CASE Alerting
  <2>1. Len(calls') = 1 /\ Do(1)' = "alert"
    BY <1>2 DEF Alerting, AlertCall, Do
  <2> QED BY <2>1 DEF Pending
<1> QED BY <1>1, <1>2

(* The rows when a session starts.                                         *)
LEMMA StartRows ==
  ASSUME Types, Shape, RowsInv, NEW isDrill \in BOOLEAN, StartSession(isDrill)
  PROVE  RowsInv'
<1>1. PICK k \in Nat : DOMAIN sessions = 1 .. k
  BY DEF RowsInv, Numbered
<1>2. Cardinality(DOMAIN sessions) = k
  BY <1>1, FS_Interval
<1>3. /\ pc' = "starting" /\ session' = k + 1 /\ drill' = isDrill /\ segment' = 0
      /\ builders' = Empty /\ UNCHANGED <<sessions, segments, windows, cands, seen>>
  BY <1>2 DEF StartSession, tableVars
<1>4. Len(calls') = 2 /\ \A i \in Pending' : Do(i)' \notin EndingDo \cup {"window"}
  <2>1. /\ Len(calls') = 2 /\ calls'[1] = [do |-> "createSession"]
        /\ calls'[2] = [do |-> IF isDrill THEN "declareDrill" ELSE "anchor"]
    BY StartedCalls
  <2>2. Pending' = {1, 2}
    BY <2>1 DEF Pending
  <2>3. Do(1)' = "createSession" /\ Do(2)' \in {"declareDrill", "anchor"}
    BY <2>1 DEF Do
  <2> QED BY <2>1, <2>2, <2>3 DEF EndingDo
<1>5. Last' = 2
  BY <1>4 DEF Last
<1>6. Numbered' /\ SessionRow'
  BY <1>1, <1>3, <1>5 DEF Numbered, SessionRow
<1>7. InputRows' /\ DrillLeavesNone'
  BY <1>1, <1>3 DEF RowsInv, InputRows, DrillLeavesNone
<1>8. OursInHand'
  BY <1>3, <1>4 DEF OursInHand, InHand
<1>9. SegmentRows' /\ OpenSegment'
  BY <1>3, <1>4, EmptyIs DEF RowsInv, SegmentRows, OpenSegment
<1> QED BY <1>6, <1>7, <1>8, <1>9 DEF RowsInv

(* The rows when an event is accepted.                                     *)
LEMMA InputRowsKeep ==
  ASSUME Types, Shape, RowsInv, NEW kind \in Kinds \ {"bad"}, NEW t \in Nat, Accept(kind, t)
  PROVE  RowsInv'
<1>1. /\ pc = "feeding" /\ pc' = pc /\ UNCHANGED <<session, drill, builders>>
      /\ UNCHANGED <<sessions, segments, windows, cands>>
  BY DEF Accept, Advance, tableVars
<1>2. /\ payloads' = payloads + 1 /\ payloads' \notin DOMAIN seen
      /\ segment' \in 1 .. opened' /\ opened' \in Nat
      /\ ~IsInput(kind) => seen' = seen
      /\ IsInput(kind) => /\ Puts(seen', seen, payloads')
                          /\ seen'[payloads'] = [seg |-> segment', t |-> t,
                                                 session |-> session, drill |-> drill]
  BY InputTypes
<1>3. session \in DOMAIN sessions /\ sessions[session].drill = drill
  BY <1>1 DEF RowsInv, SessionRow
<1>4. /\ segment' # segment => segment' = opened + 1
      /\ \A i \in Pending' : Do(i)' # "window"
      /\ \A i \in Pending' : Do(i)' \in EndingDo => Seg(i)' = segment /\ segment # 0
  <2>1. CASE Continues(kind, t)
    <3>1. Len(calls') = 1 /\ Do(1)' = "event" /\ segment' = segment
      BY <2>1 DEF Continues, EventCall, Do
    <3>2. Pending' = {1}
      BY <3>1 DEF Pending
    <3> QED BY <3>1, <3>2 DEF EndingDo
  <2>2. CASE Opens(kind, t)
    <3>1. Len(calls') = 2 /\ Do(1)' = "createSegment" /\ Do(2)' = "event" /\ segment' = opened + 1
      BY <2>2 DEF Opens, EventCall, Begins, Do
    <3>2. Pending' = {1, 2}
      BY <3>1 DEF Pending
    <3> QED BY <3>1, <3>2 DEF EndingDo
  <2>3. CASE Splits(kind, t)
    <3>1. /\ Len(calls') = 5 /\ Do(1)' = "flush" /\ Do(2)' = "endSegment" /\ Do(3)' = "submit"
          /\ Do(4)' = "createSegment" /\ Do(5)' = "event" /\ segment' = opened + 1
          /\ Seg(1)' = segment /\ Seg(2)' = segment /\ Seg(3)' = segment /\ segment # 0
      BY <2>3 DEF Splits, EventCall, Begins, Do, Seg
    <3>2. Pending' = {1, 2, 3, 4, 5}
      BY <3>1 DEF Pending
    <3> QED BY <3>1, <3>2 DEF EndingDo
  <2> QED BY <2>1, <2>2, <2>3, AcceptedCalls
<1>5. opened \in Nat /\ opened + 1 \notin DOMAIN segments /\ opened + 1 \notin DOMAIN cands
      /\ \A n \in DOMAIN seen : seen[n].seg # opened + 1
  BY DEF Types, Observed
<1>6. segment' \notin DOMAIN cands
      /\ (segment' \in DOMAIN segments => segments[segment'].session = session)
  BY <1>1, <1>2, <1>4, <1>5 DEF RowsInv, OpenSegment
<1>7. ASSUME NEW n \in DOMAIN seen'
      PROVE  \/ n \in DOMAIN seen /\ seen'[n] = seen[n]
             \/ seen'[n] = [seg |-> segment', t |-> t, session |-> session, drill |-> drill]
  <2>1. CASE IsInput(kind)
    BY <1>2, <2>1 DEF Puts
  <2>2. CASE ~IsInput(kind)
    BY <1>2, <2>2
  <2> QED BY <2>1, <2>2
<1>8. InputRows' /\ DrillLeavesNone'
  <2> SUFFICES ASSUME NEW n \in DOMAIN seen'
               PROVE  /\ seen'[n].session \in DOMAIN sessions
                      /\ sessions[seen'[n].session].drill = seen'[n].drill
                      /\ seen'[n].seg \in DOMAIN segments =>
                           segments[seen'[n].seg].session = seen'[n].session
                      /\ seen'[n].drill => seen'[n].seg \notin DOMAIN cands
    BY <1>1 DEF InputRows, DrillLeavesNone
  <2>1. CASE n \in DOMAIN seen /\ seen'[n] = seen[n]
    BY <2>1 DEF RowsInv, InputRows, DrillLeavesNone
  <2>2. CASE seen'[n] = [seg |-> segment', t |-> t, session |-> session, drill |-> drill]
    BY <1>3, <1>6, <2>2
  <2> QED BY <1>7, <2>1, <2>2
<1>9. OursInHand'
  <2> SUFFICES ASSUME NEW s \in Nat, InHand(s)', NEW n \in DOMAIN seen', seen'[n].seg = s
               PROVE  seen'[n].session = session
    BY <1>1 DEF OursInHand, Ours
  <2>1. s = segment' \/ (s = segment /\ segment # 0)
    BY <1>4 DEF InHand
  <2>2. CASE seen'[n] = [seg |-> segment', t |-> t, session |-> session, drill |-> drill]
    BY <2>2
  <2>3. CASE n \in DOMAIN seen /\ seen'[n] = seen[n]
    <3>1. s = segment /\ segment # 0
      BY <1>2, <1>4, <1>5, <2>1, <2>3
    <3>2. InHand(s)
      BY <3>1 DEF InHand
    <3> QED BY <2>3, <3>2 DEF RowsInv, OursInHand, Ours
  <2> QED BY <1>7, <2>2, <2>3
<1>10. Numbered' /\ SessionRow'
  BY <1>1, <1>3 DEF RowsInv, Numbered, SessionRow
<1>11. SegmentRows' /\ OpenSegment'
  BY <1>1, <1>4, <1>6 DEF RowsInv, SegmentRows, OpenSegment
<1> QED BY <1>8, <1>9, <1>10, <1>11 DEF RowsInv
(* A call, and one that raises, as far as the rows go.                     *)
LEMMA AfterwardsRows ==
  ASSUME Types, RowsInv, RowsAfter, seen' = seen,
         pc' # "starting" \/ (pc' = pc /\ Last' # 2 /\ session' = session),
         SessionRow', OursInHand', SegmentRows', segment' \in {0, segment},
         segment' # 0 => session' = session /\ (pc = "ending" => pc' = "ending")
  PROVE  RowsInv'
<1>1. Numbered'
  BY DEF RowsAfter, Numbered
<1>2. \A n \in DOMAIN seen :
        /\ seen[n].session \in DOMAIN sessions'
        /\ sessions'[seen[n].session].drill = seen[n].drill
        /\ pc = "starting" => seen[n].session # session
        /\ seen[n].seg \in DOMAIN segments' => segments'[seen[n].seg].session = seen[n].session
        /\ seen[n].drill => seen[n].seg \notin DOMAIN cands'
  BY DEF RowsAfter, RowsOf
<1>3. InputRows' /\ DrillLeavesNone'
  BY <1>2 DEF InputRows, DrillLeavesNone
<1>4. OpenSegment'
  BY DEF RowsAfter, OpenSegment
<1> QED BY <1>1, <1>3, <1>4 DEF RowsInv

(* The rows after a call.                                                  *)
LEMMA CallRows ==
  ASSUME Types, Shape, RowsInv, Call
  PROVE  RowsInv'
<1>1. /\ Last \in Nat \ {0} /\ Called /\ Tables(calls[1]) /\ Types'
      /\ UNCHANGED <<pc, session, drill, segment, seen>> /\ calls \in Seq(Job)
  BY CallCases DEF CallFrame, Types
<1>2. RowsAfter /\ calls[1] \in Job
  BY <1>1, TablesLeave, First
<1> DEFINE FillsWith == WindowOf(Seg(1), builders[Seg(1)].evs \cup {calls[1].n})
           FlushesWith == WindowOf(Seg(1), builders[Seg(1)].evs)
<1>3. Popped \/ Fills \/ Flushes
  BY <1>1 DEF Called, StartsSession, DeclaresDrill, EndsSession, Quiet, CreatesSegment,
              StoresWindow, EndsSegment, Submits, PassesBy, Keeps, FlushesNone
<1>4. \/ Popped
      \/ \E x : /\ Swapped(x) /\ x.do = "window" /\ x.seg = Seg(1) /\ InHand(Seg(1))
                /\ Seg(1) \in DOMAIN builders
  <2>1. CASE Popped
    BY <2>1
  <2>2. CASE Fills
    <3>1. Swapped(FillsWith) /\ FillsWith.do = "window" /\ FillsWith.seg = Seg(1)
          /\ Seg(1) \in DOMAIN builders /\ Do(1) = "event"
      BY <2>2 DEF Fills, WindowOf
    <3>2. InHand(Seg(1))
      BY <1>1, <3>1, First DEF InHand
    <3> HIDE DEF FillsWith
    <3> QED BY <3>1, <3>2
  <2>3. CASE Flushes
    <3>1. Swapped(FlushesWith) /\ FlushesWith.do = "window" /\ FlushesWith.seg = Seg(1)
          /\ Seg(1) \in DOMAIN builders /\ Do(1) = "flush"
      BY <2>3 DEF Flushes, WindowOf
    <3>2. InHand(Seg(1))
      BY <1>1, <3>1, First DEF InHand, EndingDo
    <3> HIDE DEF FlushesWith
    <3> QED BY <3>1, <3>2
  <2> QED BY <1>3, <2>1, <2>2, <2>3
<1> HIDE DEF FillsWith, FlushesWith
<1>5. PICK x : \/ Popped
               \/ /\ Swapped(x) /\ x.do = "window" /\ x.seg = Seg(1) /\ InHand(Seg(1))
                  /\ Seg(1) \in DOMAIN builders
  BY <1>4
<1>6. \A s \in Nat : InHand(s)' => InHand(s)
  BY <1>1, <1>5, StillInHand
<1>7. OursInHand'
  <2> SUFFICES ASSUME NEW s \in Nat, InHand(s)' PROVE Ours(s)'
    BY DEF OursInHand
  <2>1. Ours(s)
    BY <1>6 DEF RowsInv, OursInHand
  <2> QED BY <1>1, <2>1 DEF Ours
<1>8. SegmentRows'
  <2>1. DOMAIN segments \subseteq DOMAIN segments' /\ \A w \in windows' : w.seg \in DOMAIN segments'
    BY <1>2 DEF RowsAfter
  <2>2. /\ DOMAIN builders \subseteq DOMAIN segments
        /\ \A i \in Pending : Do(i) = "window" => Seg(i) \in DOMAIN segments
    BY DEF RowsInv, SegmentRows
  <2>3. DOMAIN builders' \subseteq DOMAIN segments'
    BY <1>1, <2>1, <2>2 DEF Called, StartsSession, DeclaresDrill, EndsSession, Quiet, CreatesSegment,
       StoresWindow, EndsSegment, Submits, PassesBy, Keeps, FlushesNone, Fills, Flushes, Puts, Drops
  <2>4. ASSUME NEW i \in Pending', Do(i)' = "window" PROVE Seg(i)' \in DOMAIN segments'
    <3>1. CASE Popped
      <4>1. i + 1 \in Pending /\ Do(i)' = Do(i + 1) /\ Seg(i)' = Seg(i + 1)
        BY <1>1, <3>1 DEF Popped, Pending, Do, Seg, Last
      <4> QED BY <2>1, <2>2, <2>4, <4>1
    <3>2. CASE Swapped(x) /\ x.seg = Seg(1) /\ Seg(1) \in DOMAIN builders
      <4>1. i \in Pending /\ (i # 1 => Do(i)' = Do(i) /\ Seg(i)' = Seg(i)) /\ Seg(1)' = Seg(1)
        BY <1>1, <3>2 DEF Swapped, Pending, Do, Seg, Last
      <4>2. CASE i = 1
        BY <2>1, <2>2, <3>2, <4>1, <4>2
      <4>3. CASE i # 1
        BY <2>1, <2>2, <2>4, <4>1, <4>3
      <4> QED BY <4>2, <4>3
    <3> QED BY <1>5, <3>1, <3>2
  <2> QED BY <2>1, <2>3, <2>4 DEF SegmentRows
<1>9. pc = "starting" => Last' = Last - 1 /\ Last \in {1, 2}
  <2>1. pc = "starting" => Last <= 2 /\ Do(1) \in {"createSession", "declareDrill", "anchor"}
    BY <1>1, First DEF Shape, StartShape
  <2>2. pc = "starting" => Popped
    BY <1>3, <2>1 DEF Fills, Flushes
  <2> QED BY <1>1, <2>1, <2>2 DEF Popped, Last
<1>10. SessionRow'
  <2>1. pc # "down"
    BY <1>1, First
  <2>2. CASE pc # "starting"
    <3>1. session \in DOMAIN sessions /\ sessions[session].drill = drill
      BY <2>1, <2>2 DEF RowsInv, SessionRow
    <3>2. Do(1) \notin {"createSession", "declareDrill"}
      BY <1>1, <2>2, First
    <3>3. sessions \in [DOMAIN sessions -> SessionRowOf]
      BY DEF Types, SessionRowOf
    <3>4. sessions' = sessions \/ sessions' = [sessions EXCEPT ![session].ended = TRUE]
      BY <1>1, <3>2 DEF Called, StartsSession, DeclaresDrill, EndsSession, Quiet, CreatesSegment,
       StoresWindow, EndsSegment, Submits, PassesBy, Keeps, FlushesNone, Fills, Flushes
    <3>5. session \in DOMAIN sessions' /\ sessions'[session].drill = drill
      BY <3>1, <3>3, <3>4 DEF SessionRowOf
    <3> QED BY <1>1, <2>2, <3>5 DEF SessionRow
  <2>3. CASE pc = "starting" /\ Last = 2
    <3>1. Do(1) = "createSession" /\ Last' = 1
      <4>1. 1 \in Pending
        BY <1>1, First
      <4> QED BY <1>9, <2>3, <4>1 DEF Shape, StartShape
    <3>2. session \in DOMAIN sessions' /\ sessions'[session].drill = FALSE
      BY <1>1, <3>1 DEF Called, StartsSession, DeclaresDrill, EndsSession, Quiet, CreatesSegment,
       StoresWindow, EndsSegment, Submits, PassesBy, Keeps, FlushesNone, Fills, Flushes, Puts
    <3> QED BY <1>1, <2>3, <3>1, <3>2 DEF SessionRow
  <2>4. CASE pc = "starting" /\ Last = 1
    <3>1. Do(1) = (IF drill THEN "declareDrill" ELSE "anchor") /\ Last' = 0
      <4>1. 1 \in Pending
        BY <1>1, First
      <4> QED BY <1>9, <2>4, <4>1 DEF Shape, StartShape
    <3>2. session \in DOMAIN sessions /\ sessions[session].drill = FALSE
      <4>1. pc # "down" /\ ~(pc = "starting" /\ Last = 2)
        BY <2>1, <2>4
      <4>2. /\ session \in DOMAIN sessions
            /\ sessions[session].drill = IF pc = "starting" /\ Last = 1 THEN FALSE ELSE drill
        BY <4>1 DEF RowsInv, SessionRow
      <4> QED BY <2>4, <4>2
    <3>3. sessions \in [DOMAIN sessions -> SessionRowOf] /\ drill \in BOOLEAN
      BY DEF Types, SessionRowOf
    <3>4. IF drill THEN sessions' = [sessions EXCEPT ![session].drill = TRUE]
                   ELSE sessions' = sessions
      BY <1>1, <3>1 DEF Called, StartsSession, DeclaresDrill, EndsSession, Quiet, CreatesSegment,
       StoresWindow, EndsSegment, Submits, PassesBy, Keeps, FlushesNone, Fills, Flushes
    <3>5. session \in DOMAIN sessions' /\ sessions'[session].drill = drill
      BY <3>2, <3>3, <3>4 DEF SessionRowOf
    <3> QED BY <1>1, <2>4, <3>1, <3>5 DEF SessionRow
  <2> QED BY <1>9, <2>2, <2>3, <2>4
<1>11. pc' # "starting" \/ (pc' = pc /\ Last' # 2 /\ session' = session)
  BY <1>1, <1>9
<1>12. segment' \in {0, segment}
  BY <1>1
<1>13. seen' = seen /\ (segment' # 0 => session' = session /\ (pc = "ending" => pc' = "ending"))
  BY <1>1
<1> QED BY <1>2, <1>7, <1>8, <1>10, <1>11, <1>12, <1>13, AfterwardsRows

(* The rows after a call that raises.                                      *)
LEMMA RaiseRows ==
  ASSUME Types, Shape, RowsInv, Raise
  PROVE  RowsInv'
<1>1. Fails
  BY RaiseCases
<1>2. RowsAfter
  BY <1>1, TablesLeave DEF Fails
<1>3. calls' = <<>> /\ seen' = seen /\ drill' = drill /\ pc' # "starting"
      /\ \/ pc = "feeding" /\ pc' = "recovering" /\ UNCHANGED <<session, segment, builders>>
         \/ pc' = "down" /\ session' = 0 /\ segment' = 0 /\ builders' = Empty
  BY <1>1 DEF Fails
<1>4. Pending' = {}
  BY <1>3 DEF Pending
<1>5. OursInHand'
  <2> SUFFICES ASSUME NEW s \in Nat, InHand(s)' PROVE Ours(s)'
    BY DEF OursInHand
  <2>1. s = segment' /\ segment' # 0
    BY <1>4 DEF InHand
  <2>2. segment' = segment /\ session' = session
    BY <1>3, <2>1
  <2>3. InHand(s)
    BY <2>1, <2>2 DEF InHand
  <2> QED BY <1>3, <2>2, <2>3 DEF RowsInv, OursInHand, Ours
<1>6. SegmentRows'
  <2>1. DOMAIN segments \subseteq DOMAIN segments' /\ \A w \in windows' : w.seg \in DOMAIN segments'
    BY <1>2 DEF RowsAfter
  <2>2. DOMAIN builders' \subseteq DOMAIN segments'
    BY <1>3, <2>1, EmptyIs DEF RowsInv, SegmentRows
  <2> QED BY <1>4, <2>1, <2>2 DEF SegmentRows
<1>7. SessionRow'
  <2> SUFFICES ASSUME pc' # "down"
               PROVE  session' \in DOMAIN sessions' /\ sessions'[session'].drill = drill
    BY <1>3 DEF SessionRow
  <2>1. pc = "feeding" /\ session' = session
    BY <1>3
  <2>2. session \in DOMAIN sessions /\ sessions[session].drill = drill
    BY <2>1 DEF RowsInv, SessionRow
  <2>3. Do(1) \notin {"createSession", "declareDrill", "endSession"} /\ Do(1) = calls[1].do
    BY <1>1, <2>1, First DEF Fails, Do
  <2>4. sessions' = sessions
    BY <1>1, <2>3 DEF Fails, Tables
  <2> QED BY <2>1, <2>2, <2>4
<1>8. segment' \in {0, segment}
  BY <1>3
<1>9. segment' # 0 => session' = session /\ (pc = "ending" => pc' = "ending")
  BY <1>3
<1> QED BY <1>2, <1>3, <1>5, <1>6, <1>7, <1>8, <1>9, AfterwardsRows

(* Every step keeps the rows.                                              *)
LEMMA RowsKeep ==
  ASSUME Types, Shape, RowsInv, Next
  PROVE  RowsInv'
<1>1. ASSUME NEW isDrill \in BOOLEAN, StartSession(isDrill) PROVE RowsInv'
  BY <1>1, StartRows
<1>2. CASE Started \/ Fed \/ PipeError \/ Recover \/ Ended \/ Crash
  <2>1. /\ calls' = <<>> /\ pc' \in {"reading", "recovering", "down"}
        /\ UNCHANGED <<sessions, segments, windows, cands, seen, drill>>
        /\ segment' \in {0, segment} /\ (builders' = builders \/ builders' = Empty)
        /\ pc' # "down" => /\ pc \in {"starting", "feeding", "reading", "recovering"}
                           /\ session' = session /\ calls = <<>>
        /\ segment' # 0 => pc' # "down"
    BY <1>2 DEF Started, Fed, PipeError, Recover, Ended, Crash, Forgotten, Shape, AtRest,
                memoryVars, tableVars, feedVars
  <2>2. Pending' = {} /\ (pc' # "down" => Last = 0)
    BY <2>1 DEF Pending, Last
  <2> QED BY <2>1, <2>2, RowsUntouched
<1>3. CASE Stop
  <2>1. /\ pc = "reading" /\ pc' = "ending" /\ UNCHANGED <<session, drill, segment, builders>>
        /\ UNCHANGED <<sessions, segments, windows, cands, seen>>
    BY <1>3 DEF Stop, memoryVars, tableVars, feedVars
  <2>2. \A i \in Pending' : /\ Do(i)' \in EndingDo => Seg(i)' = segment /\ segment # 0
                            /\ Do(i)' # "window"
    <3>1. CASE StopsIdle
      <4>1. Len(calls') = 1 /\ Do(1)' = "endSession"
        BY <3>1 DEF StopsIdle, Do
      <4>2. Pending' = {1}
        BY <4>1 DEF Pending
      <4> QED BY <4>1, <4>2 DEF EndingDo
    <3>2. CASE StopsOpen
      <4>1. /\ Len(calls') = 4 /\ Do(1)' = "flush" /\ Do(2)' = "endSegment" /\ Do(3)' = "submit"
            /\ Do(4)' = "endSession" /\ Seg(1)' = segment /\ Seg(2)' = segment /\ Seg(3)' = segment
            /\ segment # 0
        BY <3>2 DEF StopsOpen, Begins, Do, Seg
      <4>2. Pending' = {1, 2, 3, 4}
        BY <4>1 DEF Pending
      <4> QED BY <4>1, <4>2 DEF EndingDo
    <3> QED BY <1>3, <3>1, <3>2, StoppedCalls
  <2> QED BY <2>1, <2>2, RowsUntouched
<1>4. CASE Read \/ Reject(now + 1)
  <2>1. /\ pc \in {"reading", "feeding"} /\ pc' = "feeding"
        /\ UNCHANGED <<session, drill, segment, builders>>
        /\ UNCHANGED <<sessions, segments, windows, cands, seen>>
        /\ Alerting \/ Len(calls') = 0
    BY <1>4, ReadCalls, Alert
       DEF Read, Reject, Advance, AlertCall, memoryVars, tableVars, feedVars
  <2>2. \A i \in Pending' : Do(i)' = "alert"
    BY <2>1, NoCalls
  <2> QED BY <2>1, <2>2, RowsUntouched DEF EndingDo
<1>5. ASSUME NEW kind \in Kinds \ {"bad"}, NEW gap \in Gaps, Accept(kind, now + gap)
      PROVE  RowsInv'
  <2>1. now + gap \in Nat
    BY <1>5, LaterIsNat
  <2> QED BY <1>5, <2>1, InputRowsKeep
<1>6. CASE Call
  BY <1>6, CallRows
<1>7. CASE GiveUp
  <2>1. /\ Last \in Nat \ {0} /\ Swapped(AlertCall) /\ Do(1) = "submit"
        /\ UNCHANGED <<pc, session, drill, segment, seen>>
        /\ UNCHANGED <<builders, sessions, segments, windows, cands>>
    BY <1>7, GivesUp DEF CallFrame
  <2>2. Numbered' /\ SessionRow'
    <3>1. pc \in {"feeding", "ending"}
      BY <2>1, First DEF EndingDo
    <3> QED BY <2>1, <3>1 DEF RowsInv, Numbered, SessionRow
  <2>3. \A s \in Nat : InHand(s)' => InHand(s)
    <3>1. AlertCall.do = "alert"
      BY DEF AlertCall
    <3> QED BY <2>1, <3>1, StillInHand
  <2>4. OursInHand'
    BY <2>1, <2>3 DEF RowsInv, OursInHand, Ours
  <2>5. SegmentRows'
    <3>1. \A i \in Pending' : i \in Pending /\ (Do(i)' = "window" => Do(i) = "window" /\ Seg(i)' = Seg(i))
      BY <2>1 DEF Swapped, AlertCall, Pending, Do, Seg, Last
    <3> QED BY <2>1, <3>1 DEF RowsInv, SegmentRows
  <2>6. InputRows' /\ DrillLeavesNone' /\ OpenSegment'
    BY <2>1 DEF RowsInv, InputRows, DrillLeavesNone, OpenSegment
  <2> QED BY <2>2, <2>4, <2>5, <2>6 DEF RowsInv
<1>8. CASE Raise
  BY <1>8, RaiseRows
<1> QED BY <1>1, <1>2, <1>3, <1>4, <1>5, <1>6, <1>7, <1>8 DEF Next
-----------------------------------------------------------------------------
(* The windows: first the inputs they are made of.                         *)

(* An accepted event follows the inputs before it, in the same segment     *)
(* only when the gap is short.                                             *)
LEMMA InputsAdded ==
  ASSUME Types, Shape, InputsInv, NEW kind \in Kinds \ {"bad"}, NEW t \in Nat, Accept(kind, t)
  PROVE  InputsInv'
<1>1. /\ payloads' = payloads + 1 /\ payloads' \notin DOMAIN seen /\ segment' \in 1 .. opened'
      /\ input' = IF IsInput(kind) THEN t ELSE input
      /\ ~IsInput(kind) => seen' = seen
      /\ IsInput(kind) => /\ Puts(seen', seen, payloads')
                          /\ seen'[payloads'] = [seg |-> segment', t |-> t,
                                                 session |-> session, drill |-> drill]
  BY InputTypes
<1>2. \/ segment # 0 /\ ~Idle(kind, t) /\ segment' = segment
      \/ segment' = opened + 1
  BY AcceptedCalls DEF Continues, Opens, Splits
<1>3. /\ payloads \in Nat /\ opened \in Nat /\ segment \in {0, opened}
      /\ \A n \in DOMAIN seen : /\ n \in Nat /\ n <= payloads /\ seen[n].seg \in Nat
                                /\ seen[n].t \in Nat /\ seen[n].seg <= opened
  BY DEF Types, Observed
<1>4. IdleSplit \in Nat /\ None \notin Nat
  BY IngestionAssumption
<1>5. \A n \in DOMAIN seen : n < payloads' /\ seen[n].seg <= segment'
  BY <1>1, <1>2, <1>3
<1>6. CASE ~IsInput(kind)
  <2>1. seen' = seen /\ input' = input
    BY <1>1, <1>6
  <2>2. InOrder' /\ Close'
    BY <2>1 DEF InputsInv, InOrder, Close
  <2>3. InputIsLast'
    <3>1. CASE segment # 0 /\ segment' = segment
      BY <2>1, <3>1 DEF InputsInv, InputIsLast
    <3>2. CASE segment' = opened + 1
      <4>1. \A n \in DOMAIN seen : seen[n].seg # segment'
        BY <1>3, <3>2
      <4> QED BY <2>1, <4>1 DEF InputIsLast
    <3> QED BY <1>2, <3>1, <3>2
  <2> QED BY <2>2, <2>3 DEF InputsInv
<1>7. CASE IsInput(kind)
  <2>1. /\ DOMAIN seen' = DOMAIN seen \cup {payloads'} /\ seen'[payloads'].seg = segment'
        /\ seen'[payloads'].t = t /\ input' = t
        /\ \A n \in DOMAIN seen : seen'[n] = seen[n]
    BY <1>1, <1>7 DEF Puts
  <2>2. InOrder'
    <3> SUFFICES ASSUME NEW m \in DOMAIN seen', NEW n \in DOMAIN seen', m < n
                 PROVE  seen'[m].seg <= seen'[n].seg
      BY DEF InOrder
    <3>1. m # payloads'
      BY <1>1, <1>3, <1>5, <2>1
    <3>2. CASE n = payloads'
      BY <1>5, <2>1, <3>1, <3>2
    <3>3. CASE n # payloads'
      BY <2>1, <3>1, <3>3 DEF InputsInv, InOrder
    <3> QED BY <3>2, <3>3
  <2>3. Close'
    <3> SUFFICES ASSUME NEW m \in DOMAIN seen', NEW n \in DOMAIN seen', m < n,
                        seen'[m].seg = seen'[n].seg
                 PROVE  \E k \in DOMAIN seen' : m < k /\ k <= n /\ seen'[k].t - seen'[m].t <= IdleSplit
      BY DEF Close
    <3>1. m \in DOMAIN seen /\ m # payloads' /\ m \in Nat /\ seen'[m] = seen[m]
      BY <1>1, <1>3, <1>5, <2>1
    <3>2. ASSUME NEW l \in DOMAIN seen, m < l, seen[m].seg = seen[l].seg, l <= n
          PROVE  \E k \in DOMAIN seen' : m < k /\ k <= n /\ seen'[k].t - seen'[m].t <= IdleSplit
      <4>1. PICK k \in DOMAIN seen : m < k /\ k <= l /\ seen[k].t - seen[m].t <= IdleSplit
        BY <3>1, <3>2 DEF InputsInv, Close
      <4>2. k <= n
        <5>1. k \in Nat /\ l \in Nat /\ n \in Nat
          BY <1>1, <1>3, <2>1
        <5> QED BY <3>2, <4>1, <5>1
      <4> QED BY <2>1, <3>1, <4>1, <4>2
    <3>3. CASE n \in DOMAIN seen
      <4>1. n <= n /\ seen'[n] = seen[n]
        BY <1>3, <2>1, <3>3
      <4> QED BY <3>1, <3>2, <3>3, <4>1
    <3>4. CASE n = payloads'
      <4>1. seen[m].seg = segment' /\ segment' # opened + 1
        BY <1>3, <2>1, <3>1, <3>4
      <4>2. segment # 0 /\ ~Idle(kind, t) /\ segment' = segment
        BY <1>2, <4>1
      <4>3. PICK l \in DOMAIN seen : /\ seen[l].seg = segment /\ seen[l].t = input
                                     /\ \A j \in DOMAIN seen : seen[j].seg = segment => j <= l
        BY <3>1, <4>1, <4>2 DEF InputsInv, InputIsLast
      <4>4. input \in Nat /\ t - input <= IdleSplit
        <5>1. input \in Nat /\ input # None
          BY <1>3, <1>4, <4>3
        <5>2. ~(t - input > IdleSplit)
          BY <1>7, <4>2, <5>1 DEF Idle
        <5> QED BY <1>4, <5>1, <5>2
      <4>5. m <= l /\ l < payloads' /\ l \in Nat /\ payloads' \in Nat
        BY <1>1, <1>3, <1>5, <3>1, <4>1, <4>2, <4>3
      <4>6. CASE m = l
        <5>1. seen'[payloads'].t - seen'[m].t <= IdleSplit
          BY <2>1, <3>1, <4>3, <4>4, <4>6
        <5>2. payloads' \in DOMAIN seen' /\ m < payloads' /\ payloads' <= n
          BY <2>1, <3>4, <4>5
        <5> QED BY <5>1, <5>2
      <4>7. CASE m # l
        <5>1. m < l /\ l <= n
          BY <3>1, <3>4, <4>5, <4>7
        <5> QED BY <3>2, <4>1, <4>2, <4>3, <5>1
      <4> QED BY <4>6, <4>7
    <3> QED BY <2>1, <3>3, <3>4
  <2>4. InputIsLast'
    <3>1. payloads' \in DOMAIN seen' /\ seen'[payloads'].seg = segment' /\ seen'[payloads'].t = input'
      BY <2>1
    <3>2. \A m \in DOMAIN seen' : m <= payloads'
      BY <1>1, <1>3, <1>5, <2>1
    <3> QED BY <3>1, <3>2 DEF InputIsLast
  <2> QED BY <2>2, <2>3, <2>4 DEF InputsInv
<1> QED BY <1>6, <1>7

(* Inputs that stay keep their order.                                      *)
LEMMA InputsSame ==
  ASSUME InputsInv, seen' = seen, segment' = 0 \/ (segment' = segment /\ input' = input)
  PROVE  InputsInv'
<1>1. InOrder' /\ Close'
  BY DEF InputsInv, InOrder, Close
<1>2. InputIsLast'
  BY DEF InputsInv, InputIsLast
<1> QED BY <1>1, <1>2 DEF InputsInv

(* Every step keeps the inputs in order.                                   *)
LEMMA InputsKeep ==
  ASSUME Types, Shape, InputsInv, Next
  PROVE  InputsInv'
<1>1. ASSUME NEW isDrill \in BOOLEAN, StartSession(isDrill) PROVE InputsInv'
  BY <1>1, InputsSame DEF StartSession
<1>2. CASE Started \/ Stop \/ Read \/ Fed \/ PipeError \/ Recover \/ Reject(now + 1)
  BY <1>2, InputsSame
     DEF Started, Stop, Read, Fed, PipeError, Recover, Reject, memoryVars, feedVars
<1>3. CASE Ended \/ Crash
  BY <1>3, InputsSame DEF Ended, Crash, Forgotten, feedVars
<1>4. ASSUME NEW kind \in Kinds \ {"bad"}, NEW gap \in Gaps, Accept(kind, now + gap)
      PROVE  InputsInv'
  <2>1. now + gap \in Nat
    BY <1>4, LaterIsNat
  <2> QED BY <1>4, <2>1, InputsAdded
<1>5. CASE Call
  BY <1>5, CallCases, InputsSame DEF CallFrame
<1>6. CASE GiveUp
  BY <1>6, GivesUp, InputsSame DEF CallFrame
<1>7. CASE Raise
  BY <1>7, RaiseCases, InputsSame DEF Fails
<1> QED BY <1>1, <1>2, <1>3, <1>4, <1>5, <1>6, <1>7 DEF Next
(* A window that is stored, beside what is there already.                  *)
StoresOne ==
  \/ windows' = windows
  \/ /\ 1 \in Pending /\ Do(1) = "window"
     /\ windows' = windows \cup {Window(calls[1])}

(* A window that is stored was whole and apart from the others.            *)
LEMMA Stored ==
  ASSUME Types, PiecesInv, StoresOne
  PROVE  /\ \A w \in windows' : Whole(w.evs, w.seg)
         /\ \A v, w \in windows' : v # w => v.evs \cap w.evs = {}
         /\ \A w \in windows' : w.seg \in DOMAIN builders => w.evs \cap builders[w.seg].evs = {}
         /\ \A i \in Pending : Arriving(i) => \A w \in windows' : payloads \notin w.evs
<1>1. /\ \A w \in windows : Whole(w.evs, w.seg)
      /\ \A v, w \in windows : v # w => v.evs \cap w.evs = {}
      /\ \A w \in windows : w.seg \in DOMAIN builders => w.evs \cap builders[w.seg].evs = {}
      /\ \A i \in Pending : Arriving(i) => \A w \in windows : payloads \notin w.evs
  BY DEF PiecesInv, AllWhole, Apart, Arrived
<1>2. CASE windows' = windows
  BY <1>1, <1>2
<1>3. CASE /\ 1 \in Pending /\ Do(1) = "window"
           /\ windows' = windows \cup {Window(calls[1])}
  <2>1. Window(calls[1]).evs = calls[1].evs /\ Window(calls[1]).seg = Seg(1)
    BY DEF Window, Seg
  <2>2. Whole(calls[1].evs, Seg(1))
    BY <1>3 DEF PiecesInv, AllWhole
  <2>3. /\ \A w \in windows : w.evs \cap calls[1].evs = {}
        /\ Seg(1) \in DOMAIN builders => builders[Seg(1)].evs = {}
    BY <1>3 DEF PiecesInv, Apart
  <2>4. \A i \in Pending : Arriving(i) => payloads \notin calls[1].evs
    BY <1>3 DEF PiecesInv, Arrived
  <2>5. \A w \in windows' : w \in windows \/ w = Window(calls[1])
    BY <1>3
  <2> HIDE DEF Whole
  <2>6. \A w \in windows' : Whole(w.evs, w.seg)
    BY <1>1, <2>1, <2>2, <2>5
  <2>7. ASSUME NEW v \in windows', NEW w \in windows', v # w PROVE v.evs \cap w.evs = {}
    BY <1>1, <2>1, <2>3, <2>5, <2>7
  <2>8. \A w \in windows' : w.seg \in DOMAIN builders => w.evs \cap builders[w.seg].evs = {}
    BY <1>1, <2>1, <2>3, <2>5
  <2>9. \A i \in Pending : Arriving(i) => \A w \in windows' : payloads \notin w.evs
    BY <1>1, <2>1, <2>4, <2>5
  <2> QED BY <2>6, <2>7, <2>8, <2>9
<1> QED BY <1>2, <1>3 DEF StoresOne

(* Nothing is left to be called that has to do with a window.              *)
LEMMA PiecesAtRest ==
  ASSUME Types, PiecesInv, StoresOne, seen' = seen,
         \A i \in Pending' : Do(i)' \notin {"window", "event", "createSegment"},
         \/ builders' = Empty
         \/ /\ builders' = builders
            /\ \A i \in Pending : Arriving(i) => segment \notin DOMAIN builders
  PROVE  PiecesInv'
<1>1. /\ \A w \in windows' : Whole(w.evs, w.seg)
      /\ \A v, w \in windows' : v # w => v.evs \cap w.evs = {}
      /\ \A w \in windows' : w.seg \in DOMAIN builders => w.evs \cap builders[w.seg].evs = {}
  BY Stored
<1>2. Arrived' /\ Unopened' /\ Opening'
  BY DEF Arrived, Arriving, Unopened, Opening
<1>3. AllWhole'
  <2>1. \A w \in windows' : Whole(w.evs, w.seg)'
    BY <1>1 DEF Whole
  <2>2. \A s \in DOMAIN builders' : s \in DOMAIN builders /\ builders'[s] = builders[s]
    BY EmptyIs
  <2>3. \A s \in DOMAIN builders' : Whole(builders[s].evs, s)
    BY <2>2 DEF PiecesInv, AllWhole
  <2>4. ASSUME NEW s \in DOMAIN builders' PROVE Whole(builders[s].evs, s)'
    <3>1. builders'[s] = builders[s] /\ Whole(builders[s].evs, s)
      BY <2>2, <2>3
    <3> QED BY <3>1 DEF Whole
  <2> QED BY <2>1, <2>4 DEF AllWhole
<1>4. Apart'
  BY <1>1, EmptyIs DEF Apart
<1>5. ToTheEnd'
  <2> SUFFICES ASSUME NEW s \in DOMAIN builders', NEW k \in DOMAIN seen,
                      NEW m \in builders'[s].evs, seen[k].seg = s, m < k
               PROVE  k \in builders'[s].evs
    BY DEF ToTheEnd
  <2>1. builders' = builders /\ \A i \in Pending : Arriving(i) => segment \notin DOMAIN builders
    BY EmptyIs
  <2>2. k \in builders[s].evs \/ \E i \in Pending : Arriving(i) /\ k = payloads
    BY <2>1 DEF PiecesInv, ToTheEnd
  <2>3. ASSUME NEW i \in Pending, Arriving(i), k = payloads PROVE FALSE
    <3>1. seen[k].seg = segment
      BY <2>3 DEF PiecesInv, Arrived
    <3> QED BY <2>1, <2>3, <3>1
  <2> QED BY <2>1, <2>2, <2>3
<1> QED BY <1>2, <1>3, <1>4, <1>5 DEF PiecesInv

(* One payload more: whatever was whole stays whole.                       *)
LEMMA WholeGrows ==
  ASSUME Types, NEW evs, NEW s, Whole(evs, s), NEW p \in Nat, p > payloads,
         seen' = seen \/ Puts(seen', seen, p)
  PROVE  Whole(evs, s)'
<1>1. \A n \in DOMAIN seen : n \in Nat /\ n < p /\ n \in DOMAIN seen' /\ seen'[n] = seen[n]
  BY DEF Types, Puts
<1>2. \A n \in DOMAIN seen' : n \in DOMAIN seen \/ n = p
  BY DEF Puts
<1>3. evs \subseteq DOMAIN seen /\ \A n \in evs : seen[n].seg = s
  BY DEF Whole
<1>4. ASSUME NEW m \in evs, NEW n \in evs, NEW k \in DOMAIN seen', m < k, k < n PROVE k \in evs
  <2>1. n \in Nat /\ n < p /\ k # p
    BY <1>1, <1>3, <1>4
  <2>2. k \in DOMAIN seen
    BY <1>2, <2>1
  <2> QED BY <1>4, <2>2 DEF Whole
<1> QED BY <1>1, <1>3, <1>4 DEF Whole

(* An accepted input is on its way, and in no window yet.                  *)
LEMMA PiecesAdded ==
  ASSUME Types, Shape, RowsInv, PiecesInv,
         NEW kind \in Kinds \ {"bad"}, NEW t \in Nat, Accept(kind, t)
  PROVE  PiecesInv'
<1>1. /\ payloads' = payloads + 1 /\ payloads' \notin DOMAIN seen /\ segment' \in 1 .. opened'
      /\ ~IsInput(kind) => seen' = seen
      /\ IsInput(kind) => /\ Puts(seen', seen, payloads')
                          /\ seen'[payloads'] = [seg |-> segment', t |-> t,
                                                 session |-> session, drill |-> drill]
  BY InputTypes
<1>2. windows' = windows /\ builders' = builders /\ Pending = {}
  BY DEF Accept, Advance, tableVars, Pending
<1>3. /\ payloads \in Nat /\ payloads' \in Nat /\ payloads' > payloads /\ opened \in Nat
      /\ DOMAIN builders \subseteq 1 .. opened
      /\ \A n \in DOMAIN seen : n \in Nat /\ n <= payloads /\ seen[n].seg \in Nat
                                /\ seen[n].seg <= opened
  <2>1. DOMAIN builders \subseteq 1 .. opened
    BY DEF RowsInv, SegmentRows, Types
  <2> QED BY <1>1, <2>1 DEF Types, Observed
<1>4. seen' = seen \/ Puts(seen', seen, payloads')
  BY <1>1
<1>5. \A i \in Pending' : Do(i)' # "window"
                          /\ (Do(i)' = "event" => calls'[i].kind = kind)
                          /\ (segment' = segment => i = 1 /\ Do(i)' = "event")
  <2>1. CASE Continues(kind, t)
    <3>1. Len(calls') = 1 /\ Do(1)' = "event" /\ calls'[1].kind = kind
      BY <2>1 DEF Continues, EventCall, Do
    <3> QED BY <3>1 DEF Pending
  <2>2. CASE Opens(kind, t)
    <3>1. Len(calls') = 2 /\ Do(1)' = "createSegment" /\ Do(2)' = "event" /\ calls'[2].kind = kind
          /\ segment' # segment
      BY <1>1, <1>3, <2>2 DEF Opens, EventCall, Begins, Do
    <3>2. Pending' = {1, 2}
      BY <3>1 DEF Pending
    <3> QED BY <3>1, <3>2
  <2>3. CASE Splits(kind, t)
    <3>1. /\ Len(calls') = 5 /\ Do(1)' = "flush" /\ Do(2)' = "endSegment" /\ Do(3)' = "submit"
          /\ Do(4)' = "createSegment" /\ Do(5)' = "event" /\ calls'[5].kind = kind
      BY <2>3 DEF Splits, EventCall, Begins, Do
    <3>2. Pending' = {1, 2, 3, 4, 5}
      BY <3>1 DEF Pending
    <3>3. segment' # segment
      BY <1>3, <2>3 DEF Splits, Types
    <3> QED BY <3>1, <3>2, <3>3
  <2> QED BY <2>1, <2>2, <2>3, AcceptedCalls
<1>6. AllWhole'
  <2>1. \A w \in windows : Whole(w.evs, w.seg)
    BY DEF PiecesInv, AllWhole
  <2>2. ASSUME NEW w \in windows PROVE Whole(w.evs, w.seg)'
    <3>1. PICK e, s : e = w.evs /\ s = w.seg
      OBVIOUS
    <3>2. Whole(e, s)
      BY <2>1, <3>1
    <3>3. PICK p \in Nat : p = payloads'
      BY <1>3
    <3>4. p > payloads /\ (seen' = seen \/ Puts(seen', seen, p))
      BY <1>3, <1>4, <3>3
    <3>5. Whole(e, s)'
      BY <3>2, <3>4, WholeGrows
    <3> QED BY <3>1, <3>5
  <2>3. \A s \in DOMAIN builders : Whole(builders[s].evs, s)
    BY DEF PiecesInv, AllWhole
  <2>4. ASSUME NEW s \in DOMAIN builders PROVE Whole(builders[s].evs, s)'
    <3>1. PICK e : e = builders[s].evs
      OBVIOUS
    <3>2. Whole(e, s)
      BY <2>3, <3>1
    <3>3. PICK p \in Nat : p = payloads'
      BY <1>3
    <3>4. p > payloads /\ (seen' = seen \/ Puts(seen', seen, p))
      BY <1>3, <1>4, <3>3
    <3>5. Whole(e, s)'
      BY <3>2, <3>4, WholeGrows
    <3>6. builders'[s].evs = e
      BY <1>2, <3>1
    <3> QED BY <3>5, <3>6 DEF Whole
  <2> QED BY <1>2, <1>5, <2>2, <2>4 DEF AllWhole
<1>7. segment' # segment => segment' = opened + 1 /\ segment' \notin DOMAIN builders
  <2>1. segment' # segment => segment' = opened + 1
    BY AcceptedCalls DEF Continues, Opens, Splits
  <2> QED BY <1>3, <2>1
<1>8. Unopened' /\ Opening'
  BY <1>2, <1>5, <1>7 DEF Unopened, Opening
<1>9. Arrived'
  <2> SUFFICES ASSUME NEW i \in Pending', Arriving(i)'
               PROVE  /\ payloads' \in DOMAIN seen'
                      /\ seen'[payloads'].seg = segment'
                      /\ \A w \in windows : payloads' \notin w.evs
                      /\ \A s \in DOMAIN builders : payloads' \notin builders[s].evs
    BY <1>2, <1>5 DEF Arrived
  <2>1. IsInput(kind)
    BY <1>5 DEF Arriving, Do
  <2>2. payloads' \in DOMAIN seen' /\ seen'[payloads'].seg = segment'
    BY <1>1, <2>1 DEF Puts
  <2>3. /\ \A w \in windows : w.evs \subseteq DOMAIN seen
        /\ \A s \in DOMAIN builders : builders[s].evs \subseteq DOMAIN seen
    BY DEF PiecesInv, AllWhole, Whole
  <2> QED BY <1>1, <2>2, <2>3
<1>10. Apart'
  BY <1>2, <1>5 DEF PiecesInv, Apart
<1>11. ToTheEnd'
  <2> SUFFICES ASSUME NEW s \in DOMAIN builders, NEW k \in DOMAIN seen',
                      NEW m \in builders[s].evs, seen'[k].seg = s, m < k
               PROVE  k \in builders[s].evs \/ \E i \in Pending' : Arriving(i)' /\ k = payloads'
    BY <1>2 DEF ToTheEnd
  <2>1. CASE k \in DOMAIN seen /\ seen'[k] = seen[k]
    BY <1>2, <2>1 DEF PiecesInv, ToTheEnd
  <2>2. CASE k = payloads' /\ IsInput(kind)
    <3>1. segment' = segment
      BY <1>1, <1>7, <2>2
    <3>2. Continues(kind, t)
      <4>1. ~Opens(kind, t) /\ ~Splits(kind, t)
        BY <1>3, <3>1 DEF Opens, Splits, Types
      <4> QED BY <4>1, AcceptedCalls
    <3>3. Len(calls') = 1 /\ Do(1)' = "event" /\ calls'[1].kind = kind
      BY <3>2 DEF Continues, EventCall, Do
    <3>4. 1 \in Pending' /\ Arriving(1)'
      BY <2>2, <3>3 DEF Pending, Arriving
    <3> QED BY <2>2, <3>4
  <2>3. (k \in DOMAIN seen /\ seen'[k] = seen[k]) \/ (k = payloads' /\ IsInput(kind))
    <3>1. CASE IsInput(kind)
      BY <1>1, <3>1 DEF Puts
    <3>2. CASE ~IsInput(kind)
      BY <1>1, <3>2
    <3> QED BY <3>1, <3>2
  <2> QED BY <2>1, <2>2, <2>3
<1> QED BY <1>6, <1>8, <1>9, <1>10, <1>11 DEF PiecesInv
(* A call that is made and puts no other in its place.                     *)
LEMMA PopPieces ==
  ASSUME Types, Shape, PiecesInv, Last \in Nat \ {0}, Popped, StoresOne,
         UNCHANGED <<pc, seen, segment, payloads>>,
         \A s \in DOMAIN builders' :
           \/ builders'[s].evs = {}
           \/ s \in DOMAIN builders /\ builders'[s].evs = builders[s].evs,
         Arriving(1) => segment \notin DOMAIN builders',
         \A i \in Pending : (i > 2 /\ Do(i) = "event") \/ (i > 1 /\ Do(i) = "createSegment") =>
           segment \notin DOMAIN builders'
  PROVE  PiecesInv'
<1>1. /\ Len(calls') = Last - 1
      /\ \A i \in Pending' : /\ i \in Nat \ {0} /\ i + 1 \in Pending
                             /\ calls'[i] = calls[i + 1]
                             /\ Do(i)' = Do(i + 1) /\ Seg(i)' = Seg(i + 1)
                             /\ Arriving(i)' = Arriving(i + 1)
      /\ \A i \in Pending : i # 1 => i - 1 \in Pending' /\ (i - 1) + 1 = i
  BY DEF Popped, Pending, Do, Seg, Arriving, Last
<1>2. \A i \in Pending' : Do(i)' # "window"
  <2> SUFFICES ASSUME NEW i \in Pending' PROVE Do(i + 1) # "window"
    BY <1>1
  <2>1. i + 1 # 1 /\ i + 1 \in Pending
    BY <1>1
  <2> QED BY <2>1 DEF Shape, Order
<1>3. /\ \A w \in windows' : Whole(w.evs, w.seg)
      /\ \A v, w \in windows' : v # w => v.evs \cap w.evs = {}
      /\ \A w \in windows' : w.seg \in DOMAIN builders => w.evs \cap builders[w.seg].evs = {}
      /\ \A i \in Pending : Arriving(i) => \A w \in windows' : payloads \notin w.evs
  BY Stored
<1>4. Arrived'
  <2> SUFFICES ASSUME NEW i \in Pending', Arriving(i)'
               PROVE  /\ payloads \in DOMAIN seen /\ seen[payloads].seg = segment
                      /\ \A w \in windows' : payloads \notin w.evs
                      /\ \A s \in DOMAIN builders' : payloads \notin builders'[s].evs
    BY <1>2 DEF Arrived
  <2>1. i + 1 \in Pending /\ Arriving(i + 1)
    BY <1>1
  <2>2. /\ payloads \in DOMAIN seen /\ seen[payloads].seg = segment
        /\ \A s \in DOMAIN builders : payloads \notin builders[s].evs
    BY <2>1 DEF PiecesInv, Arrived
  <2> QED BY <1>3, <2>1, <2>2
<1>5. Unopened' /\ Opening'
  <2>1. ASSUME NEW i \in Pending', Do(i)' = "event", i > 1 PROVE segment \notin DOMAIN builders'
    <3>1. i + 1 \in Pending /\ i + 1 > 2 /\ i + 1 # 1 /\ Do(i + 1) = "event"
      BY <1>1, <2>1
    <3> QED BY <3>1
  <2>2. ASSUME NEW i \in Pending', Do(i)' = "createSegment" PROVE segment \notin DOMAIN builders'
    <3>1. i + 1 \in Pending /\ i + 1 > 1 /\ Do(i + 1) = "createSegment"
      BY <1>1, <2>2
    <3> QED BY <3>1
  <2> QED BY <2>1, <2>2 DEF Unopened, Opening
<1>6. AllWhole'
  <2>1. \A w \in windows' : Whole(w.evs, w.seg)'
    BY <1>3 DEF Whole
  <2>2. ASSUME NEW s \in DOMAIN builders' PROVE Whole(builders[s].evs, s)'
    <3>1. CASE builders'[s].evs = {}
      BY <3>1 DEF Whole
    <3>2. CASE s \in DOMAIN builders /\ builders'[s].evs = builders[s].evs
      <4>1. Whole(builders[s].evs, s)
        BY <3>2 DEF PiecesInv, AllWhole
      <4> QED BY <3>2, <4>1 DEF Whole
    <3> QED BY <3>1, <3>2
  <2> QED BY <1>2, <2>1, <2>2 DEF AllWhole
<1>7. Apart'
  <2>1. ASSUME NEW w \in windows', w.seg \in DOMAIN builders'
        PROVE  w.evs \cap builders'[w.seg].evs = {}
    <3>1. CASE builders'[w.seg].evs = {}
      BY <3>1
    <3>2. CASE w.seg \in DOMAIN builders /\ builders'[w.seg].evs = builders[w.seg].evs
      BY <1>3, <3>2
    <3> QED BY <2>1, <3>1, <3>2
  <2> QED BY <1>2, <1>3, <2>1 DEF Apart
<1>8. ToTheEnd'
  <2> SUFFICES ASSUME NEW s \in DOMAIN builders', NEW k \in DOMAIN seen,
                      NEW m \in builders'[s].evs, seen[k].seg = s, m < k
               PROVE  k \in builders'[s].evs \/ \E i \in Pending' : Arriving(i)' /\ k = payloads
    BY DEF ToTheEnd
  <2>1. s \in DOMAIN builders /\ builders'[s].evs = builders[s].evs
    OBVIOUS
  <2>2. k \in builders[s].evs \/ \E i \in Pending : Arriving(i) /\ k = payloads
    BY <2>1 DEF PiecesInv, ToTheEnd
  <2>3. ASSUME NEW i \in Pending, Arriving(i), k = payloads
        PROVE  i - 1 \in Pending' /\ Arriving(i - 1)'
    <3>1. seen[k].seg = segment
      BY <2>3 DEF PiecesInv, Arrived
    <3>2. i # 1
      BY <2>3, <3>1
    <3>3. i - 1 \in Pending' /\ (i - 1) + 1 = i
      BY <1>1, <3>2
    <3> QED BY <1>1, <2>3, <3>3
  <2> QED BY <2>1, <2>2, <2>3
<1> QED BY <1>4, <1>5, <1>6, <1>7, <1>8 DEF PiecesInv
(* A builder's events become a window to be stored.                        *)
LEMMA TurnPieces ==
  ASSUME Types, Shape, PiecesInv, Last \in Nat \ {0}, NEW s, NEW e, Swapped(WindowOf(s, e)),
         Whole(e, s), \A w \in windows : w.evs \cap e = {},
         UNCHANGED <<pc, windows, seen, segment, payloads>>,
         DOMAIN builders' \subseteq DOMAIN builders,
         \A z \in DOMAIN builders' : IF z = s THEN builders'[z].evs = {}
                                              ELSE builders'[z].evs = builders[z].evs,
         Arriving(1) => s = segment,
         \A i \in Pending : i # 1 /\ Arriving(i) => payloads \notin e
  PROVE  PiecesInv'
<1>1. /\ Pending' = Pending /\ 1 \in Pending /\ calls'[1] = WindowOf(s, e)
      /\ \A i \in Pending : i # 1 => /\ calls'[i] = calls[i] /\ Do(i)' = Do(i) /\ Seg(i)' = Seg(i)
                                     /\ Arriving(i)' = Arriving(i)
  BY DEF Swapped, Pending, Do, Seg, Arriving, Last
<1>2. Do(1)' = "window" /\ Seg(1)' = s /\ calls'[1].evs = e
  BY <1>1 DEF Do, Seg, WindowOf
<1>3. \A i \in Pending : Do(i)' = "window" => i = 1
  <2> SUFFICES ASSUME NEW i \in Pending, i # 1 PROVE Do(i) # "window"
    BY <1>1
  <2> QED BY DEF Shape, Order
<1>4. ~Arriving(1)'
  BY <1>2 DEF Arriving
<1>5. Arrived'
  <2> SUFFICES ASSUME NEW i \in Pending, Arriving(i)'
               PROVE  /\ payloads \in DOMAIN seen /\ seen[payloads].seg = segment
                      /\ \A w \in windows : payloads \notin w.evs
                      /\ \A z \in DOMAIN builders' : payloads \notin builders'[z].evs
                      /\ payloads \notin e
    BY <1>1, <1>2, <1>3 DEF Arrived
  <2>1. i # 1 /\ Arriving(i)
    BY <1>1, <1>4
  <2>2. /\ payloads \in DOMAIN seen /\ seen[payloads].seg = segment
        /\ \A w \in windows : payloads \notin w.evs
        /\ \A z \in DOMAIN builders : payloads \notin builders[z].evs
    BY <2>1 DEF PiecesInv, Arrived
  <2> QED BY <2>1, <2>2
<1>6. Unopened' /\ Opening'
  <2>1. \A i \in Pending : (Do(i) = "event" /\ i > 1) \/ Do(i) = "createSegment" =>
                             segment \notin DOMAIN builders
    BY DEF PiecesInv, Unopened, Opening
  <2>2. \A i \in Pending : Do(i)' \in {"event", "createSegment"} => i # 1 /\ Do(i) = Do(i)'
    BY <1>1, <1>2
  <2> QED BY <1>1, <2>1, <2>2 DEF Unopened, Opening
<1>7. AllWhole'
  <2>1. /\ \A w \in windows : Whole(w.evs, w.seg)
        /\ \A z \in DOMAIN builders : Whole(builders[z].evs, z)
    BY DEF PiecesInv, AllWhole
  <2>2. \A w \in windows' : Whole(w.evs, w.seg)'
    BY <2>1 DEF Whole
  <2>3. ASSUME NEW z \in DOMAIN builders' PROVE Whole(builders[z].evs, z)'
    <3>1. CASE z = s
      BY <3>1 DEF Whole
    <3>2. CASE z # s
      BY <2>1, <3>2 DEF Whole
    <3> QED BY <3>1, <3>2
  <2>4. Whole(e, s)'
    BY DEF Whole
  <2>5. ASSUME NEW i \in Pending', Do(i)' = "window" PROVE Whole(calls[i].evs, Seg(i))'
    <3>1. i = 1 /\ calls'[i].evs = e /\ Seg(i)' = s
      BY <1>1, <1>2, <1>3, <2>5
    <3> QED BY <2>4, <3>1 DEF Whole
  <2> QED BY <2>2, <2>3, <2>5 DEF AllWhole
<1>8. Apart'
  <2>1. /\ \A v, w \in windows : v # w => v.evs \cap w.evs = {}
        /\ \A w \in windows : w.seg \in DOMAIN builders => w.evs \cap builders[w.seg].evs = {}
    BY DEF PiecesInv, Apart
  <2>2. \A w \in windows : w.seg \in DOMAIN builders' => w.evs \cap builders'[w.seg].evs = {}
    BY <2>1
  <2>3. \A i \in Pending : Do(i)' = "window" =>
          /\ \A w \in windows : w.evs \cap calls'[i].evs = {}
          /\ Seg(i)' \in DOMAIN builders' => builders'[Seg(i)'].evs = {}
    BY <1>1, <1>2, <1>3
  <2> QED BY <1>1, <2>1, <2>2, <2>3 DEF Apart
<1>9. ToTheEnd'
  <2> SUFFICES ASSUME NEW z \in DOMAIN builders', NEW k \in DOMAIN seen,
                      NEW m \in builders'[z].evs, seen[k].seg = z, m < k
               PROVE  k \in builders'[z].evs \/ \E i \in Pending : Arriving(i)' /\ k = payloads
    BY <1>1 DEF ToTheEnd
  <2>1. z # s /\ z \in DOMAIN builders /\ builders'[z].evs = builders[z].evs
    OBVIOUS
  <2>2. k \in builders[z].evs \/ \E i \in Pending : Arriving(i) /\ k = payloads
    BY <2>1 DEF PiecesInv, ToTheEnd
  <2>3. ASSUME NEW i \in Pending, Arriving(i), k = payloads PROVE Arriving(i)'
    <3>1. seen[k].seg = segment
      BY <2>3 DEF PiecesInv, Arrived
    <3>2. i # 1
      BY <2>1, <2>3, <3>1
    <3> QED BY <1>1, <2>3, <3>2
  <2> QED BY <2>1, <2>2, <2>3
<1> QED BY <1>5, <1>6, <1>7, <1>8, <1>9 DEF PiecesInv

(* An input joins its builder: the events there go on to the last one.     *)
LEMMA Joins ==
  ASSUME Types, Shape, InputsInv, PiecesInv, Last \in Nat \ {0}, Arriving(1),
         segment \in DOMAIN builders
  PROVE  /\ Whole(builders[segment].evs \cup {payloads}, segment)
         /\ \A w \in windows : payloads \notin w.evs
         /\ \A n \in DOMAIN seen : n <= payloads /\ n \in Nat
         /\ payloads \in DOMAIN seen /\ seen[payloads].seg = segment
<1>1. 1 \in Pending /\ Last = 1
  BY First DEF Arriving
<1>2. /\ payloads \in DOMAIN seen /\ seen[payloads].seg = segment
      /\ \A w \in windows : payloads \notin w.evs
  BY <1>1 DEF PiecesInv, Arrived
<1>3. \A n \in DOMAIN seen : n <= payloads /\ n \in Nat /\ seen[n].seg \in Nat
  BY DEF Types, Observed
<1> DEFINE e == builders[segment].evs
<1>4. e \subseteq DOMAIN seen /\ \A n \in e : seen[n].seg = segment
  BY DEF PiecesInv, AllWhole, Whole
<1>5. ASSUME NEW m \in e \cup {payloads}, NEW n \in e \cup {payloads}, NEW k \in DOMAIN seen,
             m < k, k < n
      PROVE  k \in e
  <2>1. m \in e
    BY <1>2, <1>3, <1>5
  <2>2. CASE n \in e
    BY <1>5, <2>1, <2>2 DEF PiecesInv, AllWhole, Whole
  <2>3. CASE n = payloads
    <3>1. seen[m].seg <= seen[k].seg /\ seen[k].seg <= seen[n].seg
      BY <1>2, <1>4, <1>5, <2>1, <2>3 DEF InputsInv, InOrder
    <3>2. seen[m].seg = segment /\ seen[n].seg = segment
      BY <1>2, <1>4, <2>1, <2>3
    <3>3. seen[k].seg = segment
      BY <1>3, <3>1, <3>2, <1>2, <2>3
    <3>4. k # payloads
      BY <1>3, <1>5, <2>3
    <3> QED BY <1>5, <2>1, <3>3, <3>4 DEF PiecesInv, ToTheEnd
  <2> QED BY <1>5, <2>2, <2>3
<1>6. Whole(e \cup {payloads}, segment)
  BY <1>2, <1>4, <1>5 DEF Whole
<1> QED BY <1>2, <1>3, <1>6

(* An input that joins its builder without closing a window.               *)
LEMMA KeepsPieces ==
  ASSUME Types, Shape, InputsInv, PiecesInv, Last \in Nat \ {0}, Keeps,
         UNCHANGED <<pc, seen, segment, payloads>>
  PROVE  PiecesInv'
<1>1. /\ Seg(1) = segment /\ Last = 1 /\ calls[1].n = payloads
      /\ Arriving(1) /\ segment \in DOMAIN builders
  BY First DEF Keeps, Arriving
<1> DEFINE e == builders[segment].evs
<1>2. /\ Whole(e \cup {payloads}, segment)
      /\ \A w \in windows : payloads \notin w.evs
      /\ \A n \in DOMAIN seen : n <= payloads /\ n \in Nat
  BY <1>1, Joins
<1>3. /\ windows' = windows /\ DOMAIN builders' = DOMAIN builders
      /\ builders'[segment].evs = e \cup {payloads}
      /\ \A z \in DOMAIN builders : z # segment => builders'[z] = builders[z]
  BY <1>1 DEF Keeps, Puts
<1>4. Pending' = {}
  BY <1>1 DEF Keeps, Popped, Pending
<1>5. Arrived' /\ Unopened' /\ Opening'
  BY <1>4 DEF Arrived, Unopened, Opening
<1>6. AllWhole'
  <2>1. /\ \A w \in windows : Whole(w.evs, w.seg)
        /\ \A z \in DOMAIN builders : Whole(builders[z].evs, z)
    BY DEF PiecesInv, AllWhole
  <2>2. \A w \in windows' : Whole(w.evs, w.seg)'
    BY <1>3, <2>1 DEF Whole
  <2>3. ASSUME NEW z \in DOMAIN builders' PROVE Whole(builders[z].evs, z)'
    <3>1. CASE z = segment
      BY <1>2, <1>3, <3>1 DEF Whole
    <3>2. CASE z # segment
      BY <1>3, <2>1, <3>2 DEF Whole
    <3> QED BY <3>1, <3>2
  <2> QED BY <1>4, <2>2, <2>3 DEF AllWhole
<1>7. Apart'
  <2>1. /\ \A v, w \in windows : v # w => v.evs \cap w.evs = {}
        /\ \A w \in windows : w.seg \in DOMAIN builders => w.evs \cap builders[w.seg].evs = {}
    BY DEF PiecesInv, Apart
  <2>2. ASSUME NEW w \in windows, w.seg \in DOMAIN builders PROVE w.evs \cap builders'[w.seg].evs = {}
    BY <1>2, <1>3, <2>1, <2>2
  <2> QED BY <1>3, <1>4, <2>1, <2>2 DEF Apart
<1>8. ToTheEnd'
  <2> SUFFICES ASSUME NEW z \in DOMAIN builders, NEW k \in DOMAIN seen,
                      NEW m \in builders'[z].evs, seen[k].seg = z, m < k
               PROVE  k \in builders'[z].evs
    BY <1>3, <1>4 DEF ToTheEnd
  <2>1. CASE z # segment
    <3>1. k \in builders[z].evs \/ \E i \in Pending : Arriving(i) /\ k = payloads
      BY <1>3, <2>1 DEF PiecesInv, ToTheEnd
    <3>2. \A i \in Pending : Arriving(i) => seen[payloads].seg = segment
      BY DEF PiecesInv, Arrived
    <3> QED BY <1>3, <2>1, <3>1, <3>2
  <2>2. CASE z = segment
    <3>1. m # payloads
      <4>1. m = payloads => FALSE
        <5>1. k <= payloads /\ k \in Nat /\ payloads \in Nat
          BY <1>2 DEF Types
        <5> QED BY <5>1
      <4> QED BY <4>1
    <3>2. m \in e
      BY <1>3, <2>2, <3>1
    <3>3. k \in e \/ k = payloads
      BY <2>2, <3>2 DEF PiecesInv, ToTheEnd
    <3> QED BY <1>3, <2>2, <3>3
  <2> QED BY <2>1, <2>2
<1> QED BY <1>5, <1>6, <1>7, <1>8 DEF PiecesInv
(* A refused submit has nothing to do with windows.                        *)
LEMMA GivesUpPieces ==
  ASSUME Types, PiecesInv, GiveUp
  PROVE  PiecesInv'
<1>1. /\ Last \in Nat \ {0} /\ Swapped(AlertCall) /\ Do(1) = "submit"
      /\ UNCHANGED <<pc, segment, payloads, seen>> /\ UNCHANGED <<builders, windows>>
  BY GivesUp DEF CallFrame
<1>2. /\ Pending' = Pending /\ Do(1)' = "alert"
      /\ \A i \in Pending : i # 1 => /\ calls'[i] = calls[i] /\ Do(i)' = Do(i) /\ Seg(i)' = Seg(i)
                                     /\ Arriving(i)' = Arriving(i)
  BY <1>1 DEF Swapped, Pending, Do, Seg, Arriving, AlertCall, Last
<1>3. ~Arriving(1)' /\ ~Arriving(1) /\ \A i \in Pending : Do(i)' = "window" =>
                                                           i # 1 /\ Do(i) = "window"
  BY <1>1, <1>2 DEF Arriving
<1>4. Arrived'
  BY <1>1, <1>2, <1>3 DEF PiecesInv, Arrived
<1>5. Unopened' /\ Opening'
  BY <1>1, <1>2 DEF PiecesInv, Unopened, Opening
<1>6. AllWhole'
  <2>1. /\ \A w \in windows : Whole(w.evs, w.seg)
        /\ \A s \in DOMAIN builders : Whole(builders[s].evs, s)
        /\ \A i \in Pending : Do(i) = "window" => Whole(calls[i].evs, Seg(i))
    BY DEF PiecesInv, AllWhole
  <2>2. \A w \in windows' : Whole(w.evs, w.seg)'
    BY <1>1, <2>1 DEF Whole
  <2>3. \A s \in DOMAIN builders' : Whole(builders[s].evs, s)'
    BY <1>1, <2>1 DEF Whole
  <2>4. ASSUME NEW i \in Pending', Do(i)' = "window" PROVE Whole(calls[i].evs, Seg(i))'
    BY <1>1, <1>2, <1>3, <2>1, <2>4 DEF Whole
  <2> QED BY <2>2, <2>3, <2>4 DEF AllWhole
<1>7. Apart'
  BY <1>1, <1>2, <1>3 DEF PiecesInv, Apart
<1>8. ToTheEnd'
  BY <1>1, <1>2, <1>3 DEF PiecesInv, ToTheEnd
<1> QED BY <1>4, <1>5, <1>6, <1>7, <1>8 DEF PiecesInv

(* The windows after a call.                                               *)
LEMMA CallPieces ==
  ASSUME Types, Shape, InputsInv, PiecesInv, Call
  PROVE  PiecesInv'
<1>1. /\ Last \in Nat \ {0} /\ Called /\ UNCHANGED <<pc, seen, segment, payloads>>
      /\ 1 \in Pending /\ calls \in Seq(Job)
  BY CallCases, First DEF CallFrame, Types
<1>2. Arriving(1) = (Do(1) = "event" /\ IsInput(calls[1].kind))
  BY DEF Arriving
<1>3. /\ \A i \in Pending : i # 1 /\ Do(i) = "event" => segment \notin DOMAIN builders
      /\ \A i \in Pending : Do(i) = "createSegment" => segment \notin DOMAIN builders /\ i = Last - 1
  <2>1. \A i \in Pending : i # 1 => i > 1
    BY DEF Pending
  <2>2. \A i \in Pending : Do(i) = "createSegment" => i = Last - 1
    <3>1. ASSUME NEW i \in Pending, Do(i) = "createSegment" PROVE i = Last - 1
      <4>1. pc = "feeding"
        BY <3>1, <1>1, CallsAreOpen, First DEF Shape, EndShape
      <4> QED BY <3>1, <4>1 DEF Shape, FeedShape
    <3> QED BY <3>1
  <2> QED BY <2>1, <2>2 DEF PiecesInv, Unopened, Opening
<1>4. CASE UNCHANGED builders /\ Popped /\ StoresOne /\ (Arriving(1) => segment \notin DOMAIN builders)
  <2>1. \A i \in Pending : (i > 2 /\ Do(i) = "event") \/ (i > 1 /\ Do(i) = "createSegment") =>
           segment \notin DOMAIN builders'
    BY <1>3, <1>4 DEF Pending
  <2> QED BY <1>1, <1>4, <2>1, PopPieces
<1>5. CASE StartsSession \/ DeclaresDrill \/ EndsSession \/ Quiet \/ EndsSegment \/ Submits
  BY <1>2, <1>4, <1>5
     DEF StartsSession, DeclaresDrill, EndsSession, Quiet, EndsSegment, Submits, StoresOne
<1>6. CASE StoresWindow
  BY <1>1, <1>2, <1>4, <1>6 DEF StoresWindow, StoresOne
<1>7. CASE PassesBy
  <2>1. Seg(1) = segment
    BY <1>1, <1>7, First DEF PassesBy
  <2> QED BY <1>2, <1>4, <1>7, <2>1 DEF PassesBy, StoresOne
<1>8. CASE CreatesSegment
  <2>1. Seg(1) = segment /\ Last = 2
    BY <1>1, <1>8, First DEF CreatesSegment
  <2>2. Popped /\ StoresOne /\ ~Arriving(1)
    BY <1>2, <1>8 DEF CreatesSegment, StoresOne
  <2>3. \A s \in DOMAIN builders' : \/ builders'[s].evs = {}
                                    \/ s \in DOMAIN builders /\ builders'[s].evs = builders[s].evs
    BY <1>8 DEF CreatesSegment, Puts, Nothing
  <2>4. \A i \in Pending : i <= 2 /\ (Do(i) = "createSegment" => i = 1)
    BY <1>3, <2>1 DEF Pending, Last
  <2>5. \A i \in Pending : (i > 2 /\ Do(i) = "event") \/ (i > 1 /\ Do(i) = "createSegment") =>
           segment \notin DOMAIN builders'
    BY <2>4 DEF Pending
  <2> QED BY <1>1, <2>2, <2>3, <2>5, PopPieces
<1>9. CASE FlushesNone
  <2>1. Popped /\ StoresOne /\ ~Arriving(1)
    BY <1>2, <1>9 DEF FlushesNone, StoresOne
  <2>2. \A s \in DOMAIN builders' : s \in DOMAIN builders /\ builders'[s].evs = builders[s].evs
    BY <1>9 DEF FlushesNone, Drops
  <2>3. \A i \in Pending : (i > 2 /\ Do(i) = "event") \/ (i > 1 /\ Do(i) = "createSegment") =>
           segment \notin DOMAIN builders'
    BY <1>3, <2>2 DEF Pending
  <2> QED BY <1>1, <2>1, <2>2, <2>3, PopPieces
<1>10. CASE Keeps
  BY <1>1, <1>10, KeepsPieces
<1>11. CASE Fills
  <2>1. Seg(1) = segment /\ Last = 1 /\ calls[1].n = payloads /\ segment \in DOMAIN builders
        /\ Arriving(1)
    BY <1>1, <1>2, <1>11, First DEF Fills
  <2>2. PICK e : e = builders[segment].evs \cup {payloads}
    OBVIOUS
  <2>3. Swapped(WindowOf(segment, e))
    BY <1>11, <2>1, <2>2 DEF Fills
  <2>4. Whole(e, segment)
    BY <1>1, <2>1, <2>2, Joins
  <2>5. \A w \in windows : w.evs \cap e = {}
    <3>1. ASSUME NEW w \in windows PROVE w.evs \cap builders[segment].evs = {}
      <4>1. CASE w.seg = segment
        BY <2>1, <4>1 DEF PiecesInv, Apart
      <4>2. CASE w.seg # segment
        <5>1. /\ \A n \in w.evs : seen[n].seg = w.seg
              /\ \A n \in builders[segment].evs : seen[n].seg = segment
          BY <2>1 DEF PiecesInv, AllWhole, Whole
        <5> QED BY <4>2, <5>1
      <4> QED BY <4>1, <4>2
    <3>2. \A w \in windows : payloads \notin w.evs
      BY <1>1, <2>1, Joins
    <3> QED BY <2>2, <3>1, <3>2
  <2>6. /\ windows' = windows /\ DOMAIN builders' \subseteq DOMAIN builders
        /\ \A z \in DOMAIN builders' : IF z = segment THEN builders'[z].evs = {}
                                       ELSE builders'[z].evs = builders[z].evs
    BY <1>11, <2>1 DEF Fills, Puts
  <2>7. \A i \in Pending : i = 1
    BY <2>1 DEF Pending, Last
  <2>8. PICK s : s = segment
    OBVIOUS
  <2> QED BY <1>1, <2>1, <2>3, <2>4, <2>5, <2>6, <2>7, <2>8, TurnPieces
<1>12. CASE Flushes
  <2>1. PICK s : s = Seg(1)
    OBVIOUS
  <2>2. PICK e : e = builders[s].evs
    OBVIOUS
  <2>3. Swapped(WindowOf(s, e)) /\ s \in DOMAIN builders /\ ~Arriving(1)
    BY <1>2, <1>12, <2>1, <2>2 DEF Flushes
  <2>4. Whole(e, s)
    BY <2>2, <2>3 DEF PiecesInv, AllWhole
  <2>5. \A w \in windows : w.evs \cap e = {}
    <3> SUFFICES ASSUME NEW w \in windows PROVE w.evs \cap e = {}
      OBVIOUS
    <3>1. CASE w.seg = s
      BY <2>2, <2>3, <3>1 DEF PiecesInv, Apart
    <3>2. CASE w.seg # s
      <4>1. \A n \in w.evs : seen[n].seg = w.seg
        BY DEF PiecesInv, AllWhole, Whole
      <4>2. \A n \in e : seen[n].seg = s
        BY <2>4 DEF Whole
      <4> QED BY <3>2, <4>1, <4>2
    <3> QED BY <3>1, <3>2
  <2>6. /\ windows' = windows /\ DOMAIN builders' \subseteq DOMAIN builders
        /\ \A z \in DOMAIN builders' : IF z = s THEN builders'[z].evs = {}
                                       ELSE builders'[z].evs = builders[z].evs
    BY <1>12, <2>1 DEF Flushes, Drops
  <2>7. \A i \in Pending : i # 1 /\ Arriving(i) => payloads \notin e
    BY <2>2, <2>3 DEF PiecesInv, Arrived
  <2> QED BY <1>1, <2>3, <2>4, <2>5, <2>6, <2>7, TurnPieces
<1> QED BY <1>1, <1>5, <1>6, <1>7, <1>8, <1>9, <1>10, <1>11, <1>12 DEF Called

(* Every step keeps the windows whole and apart.                           *)
LEMMA PiecesKeep ==
  ASSUME Types, Shape, RowsInv, InputsInv, PiecesInv, Next
  PROVE  PiecesInv'
<1>1. ASSUME NEW isDrill \in BOOLEAN, StartSession(isDrill) PROVE PiecesInv'
  <2>1. StoresOne /\ seen' = seen /\ builders' = Empty
    BY <1>1 DEF StartSession, tableVars, StoresOne
  <2>2. \A i \in Pending' : Do(i)' \notin {"window", "event", "createSegment"}
    <3>1. /\ Len(calls') = 2 /\ calls'[1] = [do |-> "createSession"]
          /\ calls'[2] = [do |-> IF isDrill THEN "declareDrill" ELSE "anchor"]
      BY <1>1, StartedCalls
    <3>2. Pending' = {1, 2}
      BY <3>1 DEF Pending
    <3>3. Do(1)' = "createSession" /\ Do(2)' \in {"declareDrill", "anchor"}
      BY <3>1 DEF Do
    <3> QED BY <3>2, <3>3
  <2> QED BY <2>1, <2>2, PiecesAtRest
<1>2. CASE Started \/ Fed \/ PipeError \/ Recover \/ Ended \/ Crash
  <2>1. /\ calls' = <<>> /\ StoresOne /\ seen' = seen
        /\ builders' = Empty \/ (builders' = builders /\ calls = <<>>)
    BY <1>2 DEF Started, Fed, PipeError, Recover, Ended, Crash, Forgotten, Shape, AtRest,
                memoryVars, tableVars, feedVars, StoresOne
  <2>2. Pending' = {} /\ (calls = <<>> => Pending = {})
    BY <2>1 DEF Pending
  <2> QED BY <2>1, <2>2, PiecesAtRest
<1>3. CASE Stop
  <2>1. StoresOne /\ seen' = seen /\ builders' = builders /\ calls = <<>>
    BY <1>3 DEF Stop, memoryVars, tableVars, feedVars, StoresOne, Shape, AtRest
  <2>2. Pending = {}
    BY <2>1 DEF Pending
  <2>3. \A i \in Pending' : Do(i)' \notin {"window", "event", "createSegment"}
    <3>1. CASE StopsIdle
      <4>1. Len(calls') = 1 /\ Do(1)' = "endSession"
        BY <3>1 DEF StopsIdle, Do
      <4>2. Pending' = {1}
        BY <4>1 DEF Pending
      <4> QED BY <4>1, <4>2
    <3>2. CASE StopsOpen
      <4>1. /\ Len(calls') = 4 /\ Do(1)' = "flush" /\ Do(2)' = "endSegment" /\ Do(3)' = "submit"
            /\ Do(4)' = "endSession"
        BY <3>2 DEF StopsOpen, Begins, Do
      <4>2. Pending' = {1, 2, 3, 4}
        BY <4>1 DEF Pending
      <4> QED BY <4>1, <4>2
    <3> QED BY <1>3, <3>1, <3>2, StoppedCalls
  <2> QED BY <2>1, <2>2, <2>3, PiecesAtRest
<1>4. CASE Read \/ Reject(now + 1)
  <2>1. /\ StoresOne /\ seen' = seen /\ builders' = builders /\ calls = <<>>
        /\ Alerting \/ Len(calls') = 0
    BY <1>4, ReadCalls, Alert
       DEF Read, Reject, Advance, AlertCall, memoryVars, tableVars, feedVars, StoresOne, Shape, AtRest
  <2>2. Pending = {} /\ \A i \in Pending' : Do(i)' = "alert"
    BY <2>1, NoCalls DEF Pending
  <2> QED BY <2>1, <2>2, PiecesAtRest
<1>5. ASSUME NEW kind \in Kinds \ {"bad"}, NEW gap \in Gaps, Accept(kind, now + gap)
      PROVE  PiecesInv'
  <2>1. now + gap \in Nat
    BY <1>5, LaterIsNat
  <2> QED BY <1>5, <2>1, PiecesAdded
<1>6. CASE Call
  BY <1>6, CallPieces
<1>7. CASE GiveUp
  BY <1>7, GivesUpPieces
<1>8. CASE Raise
  <2>1. Fails /\ Last \in Nat \ {0} /\ 1 \in Pending
    BY <1>8, RaiseCases, First DEF Fails
  <2>2. StoresOne
    BY <2>1 DEF Fails, Tables, StoresOne, Do
  <2>3. Pending' = {} /\ seen' = seen
    BY <2>1 DEF Fails, Pending
  <2>4. builders' = Empty \/ builders' = builders
    BY <2>1 DEF Fails
  <2>5. ASSUME NEW i \in Pending, Arriving(i) PROVE segment \notin DOMAIN builders
    <3>1. i # 1 /\ Do(i) = "event"
      BY <2>1, <2>5 DEF Fails, Arriving
    <3>2. i > 1
      BY <3>1 DEF Pending
    <3> QED BY <3>1, <3>2 DEF PiecesInv, Unopened
  <2> QED BY <2>2, <2>3, <2>4, <2>5, PiecesAtRest
<1> QED BY <1>1, <1>2, <1>3, <1>4, <1>5, <1>6, <1>7, <1>8 DEF Next
-----------------------------------------------------------------------------
(* The fate of every input.                                                *)

(* Between calls nothing becomes of an input.                              *)
LEMMA FateAtRest ==
  ASSUME Fate, Uncovered, calls = <<>>, UNCHANGED <<seen, session, windows, builders, broken, segment>>,
         pc = "ending" => pc' = "ending"
  PROVE  Fate' /\ Uncovered'
<1>1. Pending = {}
  BY DEF Pending
<1>2. \A n \in DOMAIN seen : seen[n].session = session => Held(n) \/ seen[n].seg \in broken
  BY <1>1 DEF Fate, InCall
<1>3. \A n \in DOMAIN seen : Held(n) => Held(n)'
  BY DEF Held
<1>4. Fate'
  BY <1>2, <1>3 DEF Fate
<1>5. Uncovered'
  BY <1>1 DEF Uncovered
<1> QED BY <1>4, <1>5

(* A session that has no row yet has no inputs.                            *)
LEMMA FateOfNone ==
  ASSUME Types, RowsInv, seen' = seen, segment' = 0,
         session' \notin DOMAIN sessions
  PROVE  Fate' /\ Uncovered'
<1>1. \A n \in DOMAIN seen : seen[n].session \in DOMAIN sessions
  BY DEF RowsInv, InputRows
<1> QED BY <1>1 DEF Fate, Uncovered

(* An accepted input is on its way.                                        *)
LEMMA FateAdded ==
  ASSUME Types, Shape, FateInv, NEW kind \in Kinds \ {"bad"}, NEW t \in Nat, Accept(kind, t)
  PROVE  FateInv'
<1>1. /\ calls = <<>> /\ pc' = pc /\ pc = "feeding"
      /\ UNCHANGED <<session, builders, windows>> /\ UNCHANGED <<codes, cause, broken, alerted, known>>
  BY DEF Accept, Advance, tableVars, ghostVars
<1>2. /\ payloads' = payloads + 1 /\ payloads' \notin DOMAIN seen /\ opened <= opened' /\ opened' \in Nat
      /\ segment' \in 1 .. opened'
      /\ ~IsInput(kind) => seen' = seen
      /\ IsInput(kind) => /\ Puts(seen', seen, payloads')
                          /\ seen'[payloads'] = [seg |-> segment', t |-> t,
                                                 session |-> session, drill |-> drill]
  BY InputTypes
<1>3. Pending = {} /\ opened \in Nat
  BY <1>1 DEF Pending, Types
<1>4. \A n \in DOMAIN seen : seen[n].session = session => Held(n) \/ seen[n].seg \in broken
  BY <1>3 DEF FateInv, Fate, InCall
<1>5. \A n : Held(n) => Held(n)'
  BY <1>1 DEF Held
<1>6. \A n \in DOMAIN seen' : \/ n \in DOMAIN seen /\ seen'[n] = seen[n]
                              \/ n = payloads' /\ IsInput(kind) /\ seen'[n].seg = segment'
  <2>1. CASE IsInput(kind)
    BY <1>2, <2>1 DEF Puts
  <2>2. CASE ~IsInput(kind)
    BY <1>2, <2>2
  <2> QED BY <2>1, <2>2
<1>7. /\ Continues(kind, t) => segment' = segment /\ segment # 0
      /\ ~Continues(kind, t) => /\ segment' = opened + 1
                                /\ \E i \in Pending' : Do(i)' = "createSegment"
      /\ \E i \in Pending' : Do(i)' = "event" /\ calls'[i].kind = kind
  <2>1. CASE Continues(kind, t)
    <3>1. Len(calls') = 1 /\ Do(1)' = "event" /\ calls'[1].kind = kind
      BY <2>1 DEF Continues, EventCall, Do
    <3>2. 1 \in Pending'
      BY <3>1 DEF Pending
    <3> QED BY <2>1, <3>1, <3>2 DEF Continues
  <2>2. CASE ~Continues(kind, t) /\ Opens(kind, t)
    <3>1. Len(calls') = 2 /\ Do(1)' = "createSegment" /\ Do(2)' = "event" /\ calls'[2].kind = kind
      BY <2>2 DEF Opens, EventCall, Begins, Do
    <3>2. 1 \in Pending' /\ 2 \in Pending'
      BY <3>1 DEF Pending
    <3> QED BY <2>2, <3>1, <3>2 DEF Opens
  <2>3. CASE ~Continues(kind, t) /\ Splits(kind, t)
    <3>1. Len(calls') = 5 /\ Do(4)' = "createSegment" /\ Do(5)' = "event" /\ calls'[5].kind = kind
      BY <2>3 DEF Splits, EventCall, Begins, Do
    <3>2. 4 \in Pending' /\ 5 \in Pending'
      BY <3>1 DEF Pending
    <3> QED BY <2>3, <3>1, <3>2 DEF Splits
  <2> QED BY <2>1, <2>2, <2>3, AcceptedCalls
<1>8. Fate'
  <2> SUFFICES ASSUME NEW n \in DOMAIN seen', seen'[n].session = session
               PROVE  Held(n)' \/ InCall(n)' \/ seen'[n].seg \in broken
    BY <1>1 DEF Fate
  <2>1. CASE n \in DOMAIN seen /\ seen'[n] = seen[n]
    BY <1>4, <1>5, <2>1
  <2>2. CASE n = payloads' /\ IsInput(kind)
    BY <1>7, <2>2 DEF InCall, Arriving
  <2> QED BY <1>6, <2>1, <2>2
<1>9. Uncovered'
  BY <1>1, <1>3, <1>7 DEF FateInv, Uncovered
<1>10. Signalled'
  BY <1>1 DEF FateInv, Signalled
<1>11. BrokenIsKnown'
  <2>1. /\ broken \subseteq 0 .. opened /\ (segment \in broken /\ segment # 0 => segment \in known)
        /\ \A n \in DOMAIN seen : seen[n].session = session /\ seen[n].seg \in broken =>
                                    seen[n].seg \in known
    BY <1>1 DEF FateInv, BrokenIsKnown
  <2>2. broken \subseteq 0 .. opened'
    BY <1>2, <1>3, <2>1
  <2>3. segment' \in broken => segment' \in known
    BY <1>3, <1>7, <2>1
  <2>4. \A n \in DOMAIN seen' : seen'[n].session = session /\ seen'[n].seg \in broken =>
                                  seen'[n].seg \in known
    BY <1>6, <2>1, <2>3
  <2> QED BY <1>1, <2>2, <2>3, <2>4 DEF BrokenIsKnown
<1> QED BY <1>8, <1>9, <1>10, <1>11 DEF FateInv

(* A call loses nothing that is not missing from a broken segment already. *)
LEMMA CallFate ==
  ASSUME Types, Shape, PiecesInv, FateInv, Call
  PROVE  FateInv'
<1>1. /\ Last \in Nat \ {0} /\ Called /\ 1 \in Pending
      /\ UNCHANGED <<pc, seen, session, segment, payloads, opened>>
      /\ UNCHANGED <<codes, cause, broken, alerted, known>>
  BY CallCases, First DEF CallFrame
<1>2. \/ Popped
      \/ Fills \/ Flushes
  BY <1>1 DEF Called, StartsSession, DeclaresDrill, EndsSession, Quiet, CreatesSegment,
              StoresWindow, EndsSegment, Submits, PassesBy, Keeps, FlushesNone
<1>3. \A i \in Pending : i # 1 =>
        \E j \in Pending' : Do(j)' = Do(i) /\ Arriving(j)' = Arriving(i)
  <2>1. CASE Popped
    <3> SUFFICES ASSUME NEW i \in Pending, i # 1
                 PROVE  \E j \in Pending' : Do(j)' = Do(i) /\ Arriving(j)' = Arriving(i)
      OBVIOUS
    <3>1. i - 1 \in Pending' /\ calls'[i - 1] = calls[i]
      BY <1>1, <2>1 DEF Popped, Pending, Last
    <3> QED BY <3>1 DEF Do, Arriving
  <2>2. CASE Fills \/ Flushes
    <3>1. Pending' = Pending /\ \A i \in Pending : i # 1 => calls'[i] = calls[i]
      BY <1>1, <2>2 DEF Fills, Flushes, Swapped, Pending, Last
    <3> QED BY <3>1 DEF Do, Arriving
  <2> QED BY <1>2, <2>1, <2>2
<1>4. windows \subseteq windows'
  BY <1>1 DEF Called, StartsSession, DeclaresDrill, EndsSession, Quiet, CreatesSegment,
              StoresWindow, EndsSegment, Submits, PassesBy, Keeps, FlushesNone, Fills, Flushes
<1>5. ASSUME NEW n, NEW s \in DOMAIN builders, n \in builders[s].evs
      PROVE  Held(n)' \/ InCall(n)'
  <2>1. CASE Fills
    <3>1. /\ 1 \in Pending' /\ Do(1)' = "window"
          /\ calls'[1].evs = builders[Seg(1)].evs \cup {calls[1].n}
          /\ \A z \in DOMAIN builders : z # Seg(1) => z \in DOMAIN builders' /\ builders'[z] = builders[z]
      BY <1>1, <2>1 DEF Fills, Swapped, WindowOf, Puts, Pending, Do, Last
    <3> QED BY <1>5, <3>1 DEF Held, InCall
  <2>2. CASE Flushes
    <3>1. /\ 1 \in Pending' /\ Do(1)' = "window"
          /\ calls'[1].evs = builders[Seg(1)].evs
          /\ \A z \in DOMAIN builders : z # Seg(1) => z \in DOMAIN builders' /\ builders'[z] = builders[z]
      BY <1>1, <2>2 DEF Flushes, Swapped, WindowOf, Drops, Pending, Do, Last
    <3> QED BY <1>5, <3>1 DEF Held, InCall
  <2>3. CASE FlushesNone
    <3>1. s # Seg(1) /\ s \in DOMAIN builders' /\ builders'[s] = builders[s]
      BY <1>5, <2>3 DEF FlushesNone, Drops
    <3> QED BY <1>5, <3>1 DEF Held
  <2>4. CASE Keeps
    <3>1. s \in DOMAIN builders' /\ builders[s].evs \subseteq builders'[s].evs
      BY <2>4 DEF Keeps, Puts
    <3> QED BY <1>5, <3>1 DEF Held
  <2>5. CASE CreatesSegment
    <3>1. s # Seg(1)
      BY <1>1, <2>5, First DEF CreatesSegment, PiecesInv, Opening
    <3>2. s \in DOMAIN builders' /\ builders'[s] = builders[s]
      BY <2>5, <3>1 DEF CreatesSegment, Puts
    <3> QED BY <1>5, <3>2 DEF Held
  <2>6. CASE builders' = builders
    BY <1>5, <2>6 DEF Held
  <2> QED BY <1>1, <2>1, <2>2, <2>3, <2>4, <2>5, <2>6
          DEF Called, StartsSession, DeclaresDrill, EndsSession, Quiet, StoresWindow, EndsSegment,
              Submits, PassesBy
<1>6. ASSUME NEW n, Held(n) PROVE Held(n)' \/ InCall(n)'
  <2>1. CASE \E w \in windows : n \in w.evs
    BY <1>4, <2>1 DEF Held
  <2>2. CASE \E s \in DOMAIN builders : n \in builders[s].evs
    BY <1>5, <2>2
  <2> QED BY <1>6, <2>1, <2>2 DEF Held
<1>7. ASSUME NEW n \in DOMAIN seen, InCall(n)
      PROVE  Held(n)' \/ InCall(n)' \/ seen[n].seg \in broken
  <2>1. PICK i \in Pending : \/ Do(i) = "window" /\ n \in calls[i].evs
                             \/ Arriving(i) /\ n = payloads
    BY <1>7 DEF InCall
  <2>2. CASE Do(i) = "window" /\ n \in calls[i].evs
    <3>1. i = 1
      BY <2>2 DEF Shape, Order
    <3>2. windows' = windows \cup {Window(calls[1])}
      BY <1>1, <2>2, <3>1
         DEF Called, StartsSession, DeclaresDrill, EndsSession, Quiet, CreatesSegment,
             StoresWindow, EndsSegment, Submits, PassesBy, Keeps, FlushesNone, Fills, Flushes
    <3>3. Window(calls[1]).evs = calls[1].evs
      BY DEF Window
    <3> QED BY <2>2, <3>1, <3>2, <3>3 DEF Held
  <2>3. CASE Arriving(i) /\ n = payloads /\ i # 1
    BY <1>1, <1>3, <2>3 DEF InCall
  <2>4. CASE Arriving(i) /\ n = payloads /\ i = 1
    <3>1. /\ Do(1) = "event" /\ IsInput(calls[1].kind) /\ pc = "feeding" /\ Seg(1) = segment
          /\ segment # 0 /\ Last = 1 /\ calls[1].n = payloads
      BY <1>1, <2>4, First DEF Arriving
    <3>2. CASE Keeps
      <4>1. Seg(1) \in DOMAIN builders' /\ payloads \in builders'[Seg(1)].evs
        BY <3>1, <3>2 DEF Keeps, Puts
      <4> QED BY <2>4, <4>1 DEF Held
    <3>3. CASE Fills
      <4>1. /\ 1 \in Pending' /\ Do(1)' = "window" /\ payloads \in calls'[1].evs
        BY <1>1, <3>1, <3>3 DEF Fills, Swapped, WindowOf, Pending, Do, Last
      <4> QED BY <2>4, <4>1 DEF InCall
    <3>4. CASE PassesBy
      <4>1. segment \notin DOMAIN builders
        BY <3>1, <3>4 DEF PassesBy
      <4>2. \A j \in Pending : Do(j) # "createSegment"
        <5>1. \A j \in Pending : j = 1
          BY <3>1 DEF Pending, Last
        <5> QED BY <3>1, <5>1
      <4>3. segment \in broken
        BY <3>1, <4>1, <4>2 DEF FateInv, Uncovered
      <4>4. seen[payloads].seg = segment
        BY <2>4 DEF PiecesInv, Arrived
      <4> QED BY <2>4, <4>3, <4>4
    <3> QED BY <1>1, <3>1, <3>2, <3>3, <3>4
            DEF Called, StartsSession, DeclaresDrill, EndsSession, Quiet, CreatesSegment,
                StoresWindow, EndsSegment, Submits, FlushesNone, Flushes
  <2> QED BY <2>1, <2>2, <2>3, <2>4
<1>8. Fate'
  BY <1>1, <1>6, <1>7 DEF FateInv, Fate
<1>9. Uncovered'
  <2> SUFFICES ASSUME segment # 0, segment \notin DOMAIN builders', pc # "ending", segment \notin broken
               PROVE  \E j \in Pending' : Do(j)' = "createSegment"
    BY <1>1 DEF Uncovered
  <2>1. segment \notin DOMAIN builders
    <3>1. CASE Do(1) = "flush"
      <4>1. Seg(1) < segment /\ Seg(1) \in Nat
        BY <1>1, <3>1, First DEF EndingDo
      <4>2. Seg(1) # segment
        BY <4>1 DEF Types
      <4> QED BY <1>1, <3>1, <4>2
           DEF Called, StartsSession, DeclaresDrill, EndsSession, Quiet, CreatesSegment,
               StoresWindow, EndsSegment, Submits, PassesBy, Keeps, FlushesNone, Fills, Flushes, Drops
    <3>2. CASE Do(1) # "flush"
      BY <1>1, <3>2
         DEF Called, StartsSession, DeclaresDrill, EndsSession, Quiet, CreatesSegment,
             StoresWindow, EndsSegment, Submits, PassesBy, Keeps, FlushesNone, Fills, Flushes, Puts
    <3> QED BY <3>1, <3>2
  <2>2. PICK i \in Pending : Do(i) = "createSegment"
    BY <2>1 DEF FateInv, Uncovered
  <2>3. i # 1
    <3>1. ASSUME i = 1 PROVE FALSE
      <4>1. Do(1) = "createSegment" /\ Seg(1) = segment
        BY <1>1, <2>2, <3>1, First
      <4>2. segment \in DOMAIN builders'
        BY <1>1, <4>1
           DEF Called, StartsSession, DeclaresDrill, EndsSession, Quiet, CreatesSegment,
               StoresWindow, EndsSegment, Submits, PassesBy, Keeps, FlushesNone, Fills, Flushes, Puts
      <4> QED BY <4>2
    <3> QED BY <3>1
  <2> QED BY <1>3, <2>2, <2>3
<1>10. Signalled' /\ BrokenIsKnown'
  BY <1>1 DEF FateInv, Signalled, BrokenIsKnown
<1> QED BY <1>8, <1>9, <1>10 DEF FateInv

(* A refused submit loses no input.                                        *)
LEMMA GivesUpFate ==
  ASSUME Types, Shape, FateInv, GiveUp
  PROVE  FateInv'
<1>1. /\ Last \in Nat \ {0} /\ Swapped(AlertCall) /\ Do(1) = "submit"
      /\ UNCHANGED <<pc, seen, session, segment, payloads, opened, builders, windows>>
      /\ UNCHANGED <<codes, cause, broken, alerted, known>>
  BY GivesUp DEF CallFrame
<1>2. Pending' = Pending /\ \A i \in Pending : i # 1 => calls'[i] = calls[i]
  BY <1>1 DEF Swapped, Pending, Last
<1>3. \A n \in DOMAIN seen : InCall(n) => InCall(n)'
  BY <1>1, <1>2 DEF InCall, Arriving, Do
<1>4. \A n : Held(n) => Held(n)'
  BY <1>1 DEF Held
<1>5. Fate'
  BY <1>1, <1>3, <1>4 DEF FateInv, Fate
<1>6. Uncovered'
  BY <1>1, <1>2 DEF FateInv, Uncovered, Do
<1> QED BY <1>1, <1>5, <1>6 DEF FateInv, Signalled, BrokenIsKnown

(* A call that raises breaks the segments it loses inputs of.              *)
LEMMA RaiseFate ==
  ASSUME Types, Shape, RowsInv, PiecesInv, FateInv, Raise
  PROVE  FateInv'
<1>1. Fails /\ Last \in Nat \ {0} /\ 1 \in Pending
  BY RaiseCases, First DEF Fails
<1>2. /\ seen' = seen /\ opened' = opened /\ UNCHANGED <<codes, alerted, known>>
      /\ broken \cup {segment} \subseteq broken' /\ broken' \subseteq broken \cup (0 .. opened)
  BY <1>1 DEF Fails
<1>3. windows \subseteq windows'
  BY <1>1 DEF Fails, Tables
<1>4. broken' \subseteq 0 .. opened
  BY <1>2 DEF FateInv, BrokenIsKnown
<1>5. CASE pc = "feeding"
  <2>1. /\ pc' = "recovering" /\ cause' = "RUNTIME_PIPELINE_FAILED"
        /\ UNCHANGED <<session, segment, builders>>
    BY <1>1, <1>5 DEF Fails
  <2>2. \A n : Held(n) => Held(n)'
    BY <1>3, <2>1 DEF Held
  <2>3. ASSUME NEW n \in DOMAIN seen, InCall(n) PROVE seen[n].seg \in broken'
    <3>1. PICK i \in Pending : \/ Do(i) = "window" /\ n \in calls[i].evs
                               \/ Arriving(i) /\ n = payloads
      BY <2>3 DEF InCall
    <3>2. CASE Do(i) = "window" /\ n \in calls[i].evs
      <4>1. i = 1
        BY <3>2 DEF Shape, Order
      <4>2. Seg(1) \in broken'
        BY <1>1, <3>2, <4>1 DEF Fails
      <4>3. seen[n].seg = Seg(1)
        BY <3>2, <4>1 DEF PiecesInv, AllWhole, Whole
      <4> QED BY <4>2, <4>3
    <3>3. CASE Arriving(i) /\ n = payloads
      <4>1. seen[payloads].seg = segment
        BY <3>3 DEF PiecesInv, Arrived
      <4> QED BY <1>2, <3>3, <4>1
    <3> QED BY <3>1, <3>2, <3>3
  <2>4. Fate'
    BY <1>2, <2>1, <2>2, <2>3 DEF FateInv, Fate
  <2>5. Uncovered'
    BY <1>2, <2>1 DEF Uncovered
  <2>6. Signalled' /\ BrokenIsKnown'
    BY <1>2, <1>4, <2>1 DEF FateInv, Signalled, BrokenIsKnown, PipeCodes
  <2> QED BY <2>4, <2>5, <2>6 DEF FateInv
<1>6. CASE pc # "feeding"
  <2>1. pc' = "down" /\ session' = 0 /\ segment' = 0
    BY <1>1, <1>6 DEF Fails
  <2>2. session' \notin DOMAIN sessions
    BY <2>1 DEF RowsInv, Numbered
  <2>3. Fate' /\ Uncovered'
    BY <1>2, <2>1, <2>2, FateOfNone
  <2>4. Signalled' /\ BrokenIsKnown'
    BY <1>2, <1>4, <2>1 DEF FateInv, Signalled, BrokenIsKnown
  <2> QED BY <2>3, <2>4 DEF FateInv
<1> QED BY <1>5, <1>6

(* Recovery has signalled its cause, now or before.                        *)
LEMMA RecoverSignals ==
  ASSUME FateInv, Recover
  PROVE  Signalled' /\ BrokenIsKnown'
<1>1. /\ pc = "recovering" /\ pc' = "reading"
      /\ UNCHANGED <<segment, session, seen, broken, opened>>
  BY DEF Recover, memoryVars, feedVars
<1>2. codes \subseteq PipeCodes /\ (codes # {} => alerted) /\ cause \in PipeCodes
  BY <1>1 DEF FateInv, Signalled
<1>3. PICK new : Signal(new) /\ new \in {{cause}, {cause, "TRANSPORT_RECOVERY_FAILED"}}
  BY DEF Recover
<1>4. new \subseteq PipeCodes /\ cause \in new
  BY <1>2, <1>3 DEF PipeCodes
<1>5. codes' \subseteq PipeCodes /\ alerted' = (alerted \/ ~(new \subseteq codes))
  BY <1>2, <1>3, <1>4 DEF Signal
<1>6. alerted'
  <2>1. CASE new \subseteq codes
    BY <1>2, <1>4, <1>5, <2>1
  <2>2. CASE ~(new \subseteq codes)
    BY <1>5, <2>2
  <2> QED BY <2>1, <2>2
<1>7. known' = known \cup broken
  BY <1>3, <1>6 DEF Signal
<1>8. Signalled'
  BY <1>1, <1>5, <1>6 DEF Signalled
<1>9. BrokenIsKnown'
  BY <1>1, <1>7 DEF FateInv, BrokenIsKnown
<1> QED BY <1>8, <1>9

(* Every step keeps track of every input.                                  *)
LEMMA FateKeep ==
  ASSUME Types, Shape, RowsInv, PiecesInv, FateInv, Next
  PROVE  FateInv'
<1>1. ASSUME NEW isDrill \in BOOLEAN, StartSession(isDrill) PROVE FateInv'
  <2>1. PICK k \in Nat : DOMAIN sessions = 1 .. k
    BY DEF RowsInv, Numbered
  <2>2. /\ session' = k + 1 /\ segment' = 0 /\ seen' = seen /\ codes' = {} /\ pc' = "starting"
        /\ UNCHANGED <<broken, known, opened>>
    <3>1. Cardinality(DOMAIN sessions) = k
      BY <2>1, FS_Interval
    <3> QED BY <1>1, <3>1 DEF StartSession
  <2>3. session' \notin DOMAIN sessions
    BY <2>1, <2>2
  <2>4. Fate' /\ Uncovered'
    BY <2>2, <2>3, FateOfNone
  <2>5. \A n \in DOMAIN seen : seen[n].session # session'
    BY <2>3 DEF RowsInv, InputRows
  <2>6. Signalled' /\ BrokenIsKnown'
    BY <2>2, <2>5 DEF FateInv, Signalled, BrokenIsKnown
  <2> QED BY <2>4, <2>6 DEF FateInv
<1>2. CASE Started \/ Stop \/ Read \/ Fed \/ PipeError \/ Recover \/ Reject(now + 1)
  <2>1. /\ calls = <<>> /\ UNCHANGED <<seen, session, windows, builders, broken, segment>>
        /\ pc # "ending"
    BY <1>2 DEF Started, Stop, Read, Fed, PipeError, Recover, Reject, Advance, Shape, AtRest,
                memoryVars, tableVars, feedVars, ghostVars
  <2>2. Fate' /\ Uncovered'
    BY <2>1, FateAtRest DEF FateInv
  <2>3. CASE Started \/ Stop \/ Read \/ Reject(now + 1)
    <3>1. pc \notin {"recovering", "down"} /\ pc' # "recovering"
          /\ UNCHANGED <<codes, alerted, known, opened>>
      BY <2>3 DEF Started, Stop, Read, Reject, Advance, feedVars, ghostVars
    <3> QED BY <2>1, <2>2, <3>1 DEF FateInv, Signalled, BrokenIsKnown
  <2>4. CASE Fed
    <3>1. pc = "feeding" /\ pc' = "reading" /\ codes' = codes \ PipeCodes /\ UNCHANGED <<known, opened>>
      BY <2>4 DEF Fed, feedVars
    <3> QED BY <2>1, <2>2, <3>1 DEF FateInv, Signalled, BrokenIsKnown
  <2>5. CASE PipeError
    <3>1. pc' = "recovering" /\ cause' \in PipeCodes /\ UNCHANGED <<codes, alerted, opened>>
      BY <2>5 DEF PipeError, PipeCodes, feedVars
    <3> QED BY <2>1, <2>2, <3>1 DEF FateInv, Signalled, BrokenIsKnown
  <2>6. CASE Recover
    BY <2>2, <2>6, RecoverSignals DEF FateInv
  <2> QED BY <1>2, <2>3, <2>4, <2>5, <2>6
<1>3. CASE Ended \/ Crash
  <2>1. session' = 0 /\ segment' = 0 /\ seen' = seen /\ pc' = "down"
        /\ UNCHANGED <<codes, alerted, known, broken, opened>>
    BY <1>3 DEF Ended, Crash, Forgotten, feedVars, ghostVars
  <2>2. session' \notin DOMAIN sessions
    BY <2>1 DEF RowsInv, Numbered
  <2>3. Fate' /\ Uncovered'
    BY <2>1, <2>2, FateOfNone
  <2> QED BY <2>1, <2>3 DEF FateInv, Signalled, BrokenIsKnown
<1>4. ASSUME NEW kind \in Kinds \ {"bad"}, NEW gap \in Gaps, Accept(kind, now + gap)
      PROVE  FateInv'
  <2>1. now + gap \in Nat
    BY <1>4, LaterIsNat
  <2> QED BY <1>4, <2>1, FateAdded
<1>5. CASE Call
  BY <1>5, CallFate
<1>6. CASE GiveUp
  BY <1>6, GivesUpFate
<1>7. CASE Raise
  BY <1>7, RaiseFate
<1> QED BY <1>1, <1>2, <1>3, <1>4, <1>5, <1>6, <1>7 DEF Next
-----------------------------------------------------------------------------
(* A submitted segment.                                                    *)

Kept(s) == /\ s \in DOMAIN cands' /\ cands'[s] = cands[s]
           /\ {w \in windows' : w.seg = s} = {w \in windows : w.seg = s}
           /\ s \in DOMAIN segments' /\ segments'[s].ended
AllKept == \A s \in DOMAIN cands : Kept(s)

(* What the first call writes is not about a submitted segment.            *)
LEMMA TablesKeep ==
  ASSUME Types, Shape, RowsInv, Settled, Last \in Nat \ {0},
         \/ Tables(calls[1])
         \/ UNCHANGED <<sessions, segments, windows, cands>>
  PROVE  AllKept
<1> SUFFICES ASSUME NEW s \in DOMAIN cands PROVE Kept(s)
  BY DEF AllKept
<1> DEFINE c == calls[1]
<1>1. Do(1) = c.do /\ Seg(1) = c.seg /\ 1 \in Pending /\ c \in Job
  BY First DEF Do, Seg
<1>2. s \in DOMAIN segments /\ segments[s].ended /\ (Do(1) \notin PlainDo => Seg(1) # s)
  BY <1>1 DEF Settled
<1>3. c.do = "createSegment" => c.seg # s
  BY <1>1, <1>2 DEF PlainDo
<1>4. segments \in [DOMAIN segments -> SegmentRowOf]
  BY DEF Types, SegmentRowOf
<1> HIDE DEF c
<1>5. CASE UNCHANGED <<sessions, segments, windows, cands>>
  BY <1>2, <1>5 DEF Kept
<1>6. CASE c.do \in PlainDo /\ UNCHANGED <<segments, windows, cands>>
  BY <1>2, <1>6 DEF Kept
<1>7. CASE c.do = "createSegment" /\ Puts(segments', segments, c.seg) /\ UNCHANGED <<windows, cands>>
  BY <1>2, <1>3, <1>7 DEF Kept, Puts
<1>8. CASE c.do = "window" /\ windows' = windows \cup {Window(c)} /\ UNCHANGED <<segments, cands>>
  <2>1. Window(c).seg # s
    BY <1>1, <1>2, <1>8 DEF Window, PlainDo
  <2> QED BY <1>2, <1>8, <2>1 DEF Kept
<1>9. CASE c.do = "endSegment" /\ segments' = [segments EXCEPT ![c.seg].ended = TRUE]
           /\ UNCHANGED <<windows, cands>>
  <2>1. s \in DOMAIN segments' /\ segments'[s].ended
    BY <1>2, <1>4, <1>9 DEF SegmentRowOf
  <2> QED BY <1>9, <2>1 DEF Kept
<1>10. CASE c.do = "submit" /\ Puts(cands', cands, c.seg) /\ UNCHANGED <<segments, windows>>
  BY <1>1, <1>2, <1>10 DEF Kept, Puts, PlainDo
<1> QED BY <1>5, <1>6, <1>7, <1>8, <1>9, <1>10 DEF Tables, PlainDo, c

(* A call submits a segment that is over, and touches none that was.       *)
LEMMA CallSettles ==
  ASSUME Types, Shape, RowsInv, SettledInv, Call
  PROVE  SettledInv' /\ AllKept
<1>1. /\ Last \in Nat \ {0} /\ Called /\ Tables(calls[1]) /\ 1 \in Pending /\ calls[1] \in Job
      /\ UNCHANGED <<pc, seen, session, segment, payloads, opened, drill>>
  BY CallCases, First DEF CallFrame
<1>2. AllKept
  BY <1>1, TablesKeep DEF SettledInv
<1>3. Popped \/ Fills \/ Flushes
  BY <1>1 DEF Called, StartsSession, DeclaresDrill, EndsSession, Quiet, CreatesSegment,
              StoresWindow, EndsSegment, Submits, PassesBy, Keeps, FlushesNone
(* Every call after is one that was pending, or the window of the first.   *)
<1>4. \A i \in Pending' :
        \/ \E j \in Pending : j # 1 /\ Do(i)' = Do(j) /\ Seg(i)' = Seg(j) /\ (Popped => i = j - 1)
                              /\ (~Popped => i # 1)
        \/ i = 1 /\ ~Popped /\ Do(i)' = "window" /\ Seg(i)' = Seg(1) /\ Do(1) \in {"event", "flush"}
  <2>1. CASE Popped
    <3> SUFFICES ASSUME NEW i \in Pending'
                 PROVE  \E j \in Pending : j # 1 /\ Do(i)' = Do(j) /\ Seg(i)' = Seg(j) /\ i = j - 1
      BY <2>1
    <3>1. i + 1 \in Pending /\ i + 1 # 1 /\ i = (i + 1) - 1 /\ calls'[i] = calls[i + 1]
      BY <1>1, <2>1 DEF Popped, Pending, Last
    <3>2. Do(i)' = Do(i + 1) /\ Seg(i)' = Seg(i + 1)
      BY <3>1 DEF Do, Seg
    <3> QED BY <3>1, <3>2
  <2>2. CASE (Fills \/ Flushes) /\ ~Popped
    <3>1. /\ Pending' = Pending /\ \A i \in Pending : i # 1 => calls'[i] = calls[i]
          /\ Do(1)' = "window" /\ Seg(1)' = Seg(1) /\ Do(1) \in {"event", "flush"}
      BY <1>1, <2>2 DEF Fills, Flushes, Swapped, WindowOf, Pending, Do, Seg, Last
    <3>2. \A i \in Pending : i # 1 => Do(i)' = Do(i) /\ Seg(i)' = Seg(i)
      BY <3>1 DEF Do, Seg
    <3> QED BY <2>2, <3>1, <3>2
  <2> QED BY <1>3, <2>1, <2>2
<1>5. \A s \in DOMAIN builders' : s \in DOMAIN builders \/ (Do(1) = "createSegment" /\ s = Seg(1))
  BY <1>1 DEF Called, StartsSession, DeclaresDrill, EndsSession, Quiet, CreatesSegment,
      StoresWindow, EndsSegment, Submits, PassesBy, Keeps, FlushesNone, Fills, Flushes, Puts, Drops
<1>6. Do(1) = "flush" => Seg(1) \notin DOMAIN builders'
  BY <1>1 DEF Called, StartsSession, DeclaresDrill, EndsSession, Quiet, CreatesSegment,
      StoresWindow, EndsSegment, Submits, PassesBy, Keeps, FlushesNone, Fills, Flushes, Drops
<1>7. ASSUME NEW j \in Pending, j # 1
      PROVE  /\ Do(j) \notin {"flush", "window", "alert"}
             /\ Do(j) = "endSegment" => j = 2 /\ Do(1) \in {"flush", "window"} /\ Seg(j) = Seg(1)
             /\ Do(j) = "submit" => /\ Do(1) \in {"flush", "window"} \/ (j = 2 /\ Do(1) = "endSegment")
                                    /\ Seg(j) = Seg(1)
             /\ Do(j) \in {"createSegment", "event"} => pc = "feeding" /\ Seg(j) = segment
  <2>1. j - 1 \in Pending /\ (j - 1 = 1 <=> j = 2)
    BY <1>7 DEF Pending
  <2>2. Do(j) \notin {"flush", "window", "alert"}
        /\ (Do(j) = "endSegment" => j = 2 /\ Do(1) \in {"flush", "window"} /\ Seg(j) = Seg(1))
        /\ (Do(j) = "submit" => Do(j - 1) = "endSegment" /\ Seg(j - 1) = Seg(j))
    BY <1>7 DEF Shape, Order
  <2>3. j - 1 # 1 /\ Do(j - 1) = "endSegment" => Do(1) \in {"flush", "window"} /\ Seg(j - 1) = Seg(1)
    BY <2>1 DEF Shape, Order
  <2>4. Do(j) \in {"createSegment", "event"} => pc = "feeding" /\ Seg(j) = segment
    <3>1. pc = "starting" => Do(j) \in {"createSession", "declareDrill", "anchor"}
      <4>1. ASSUME pc = "starting" PROVE j = 2
        BY <1>1, <1>7, <4>1 DEF Shape, StartShape, Pending, Last
      <4> QED BY <4>1 DEF Shape, StartShape
    <3>2. pc = "feeding" => (Do(j) \in {"createSegment", "event"} => Seg(j) = segment)
      BY DEF Shape, FeedShape
    <3>3. pc = "ending" => Do(j) \notin {"createSegment", "event"}
      BY DEF Shape, EndShape
    <3> QED BY <1>1, <3>1, <3>2, <3>3, First
  <2> QED BY <2>1, <2>2, <2>3, <2>4
<1>8. \A j \in Pending : /\ Do(j) \in {"endSegment", "submit"} /\ Do(1) # "flush" => Seg(j) \notin DOMAIN builders
                         /\ Do(j) = "submit" /\ j = 1 => Seg(1) \in DOMAIN segments /\ segments[Seg(1)].ended
  BY DEF SettledInv, OverWhenEnded
<1>9. OverWhenEnded'
  <2> SUFFICES ASSUME NEW i \in Pending', Do(i)' \in {"endSegment", "submit"}
               PROVE  /\ Seg(i)' \notin DOMAIN builders'
                      /\ Do(i)' = "submit" /\ i = 1 =>
                           Seg(1)' \in DOMAIN segments' /\ segments'[Seg(1)'].ended
    BY DEF OverWhenEnded
  <2>1. PICK j \in Pending : j # 1 /\ Do(i)' = Do(j) /\ Seg(i)' = Seg(j) /\ (Popped => i = j - 1)
                             /\ (~Popped => i # 1)
    BY <1>4
  <2>2. Seg(j) = Seg(1) /\ Do(1) \in {"flush", "window", "endSegment"}
    BY <1>7, <2>1
  <2>3. Seg(j) \notin DOMAIN builders'
    <3>1. CASE Do(1) = "flush"
      BY <1>6, <2>2, <3>1
    <3>2. CASE Do(1) # "flush"
      BY <1>5, <1>8, <2>1, <2>2, <3>2
    <3> QED BY <3>1, <3>2
  <2>4. ASSUME Do(i)' = "submit", i = 1 PROVE Seg(1)' \in DOMAIN segments' /\ segments'[Seg(1)'].ended
    <3>1. Popped /\ j = 2
      BY <2>1, <2>4 DEF Pending
    <3>2. Do(1) = "endSegment"
      <4>1. 2 - 1 = 1
        OBVIOUS
      <4> QED BY <2>1, <2>4, <3>1, <4>1 DEF Shape, Order
    <3>3. /\ Seg(1) \in DOMAIN segments /\ segments' = [segments EXCEPT ![Seg(1)].ended = TRUE]
      BY <1>1, <3>2 DEF Called, StartsSession, DeclaresDrill, EndsSession, Quiet, CreatesSegment,
        StoresWindow, EndsSegment, Submits, PassesBy, Keeps, FlushesNone, Fills, Flushes
    <3>4. segments \in [DOMAIN segments -> SegmentRowOf]
      BY DEF Types, SegmentRowOf
    <3>5. Seg(1) \in DOMAIN segments' /\ segments'[Seg(1)].ended
      BY <3>3, <3>4 DEF SegmentRowOf
    <3> QED BY <2>1, <2>2, <2>4, <3>5
  <2> QED BY <2>1, <2>3, <2>4
<1>10. Settled'
  <2> SUFFICES ASSUME NEW s \in DOMAIN cands'
               PROVE  /\ s \in DOMAIN segments' /\ segments'[s].ended /\ s \notin DOMAIN builders'
                      /\ \A i \in Pending' : Do(i)' \notin PlainDo => Seg(i)' # s
    BY DEF Settled
  <2>1. CASE s \in DOMAIN cands
    <3>1. /\ s \notin DOMAIN builders
          /\ \A j \in Pending : Do(j) \notin PlainDo => Seg(j) # s
      BY <2>1 DEF SettledInv, Settled
    <3>2. s \in DOMAIN segments' /\ segments'[s].ended
      BY <1>2, <2>1 DEF AllKept, Kept
    <3>3. s \notin DOMAIN builders'
      BY <1>1, <1>5, <3>1 DEF PlainDo
    <3>4. \A i \in Pending' : Do(i)' \notin PlainDo => Seg(i)' # s
      BY <1>1, <1>4, <3>1 DEF PlainDo
    <3> QED BY <3>2, <3>3, <3>4
  <2>2. CASE s \notin DOMAIN cands
    <3>1. Do(1) = "submit" /\ s = Seg(1) /\ UNCHANGED <<builders, segments>> /\ Popped
      BY <1>1, <2>2 DEF Called, StartsSession, DeclaresDrill, EndsSession, Quiet, CreatesSegment,
        StoresWindow, EndsSegment, Submits, PassesBy, Keeps, FlushesNone, Fills, Flushes, Puts
    <3>2. Seg(1) \in DOMAIN segments /\ segments[Seg(1)].ended /\ Seg(1) \notin DOMAIN builders
      BY <1>1, <1>8, <3>1
    <3>3. ASSUME NEW i \in Pending', Do(i)' \notin PlainDo PROVE Seg(i)' # Seg(1)
      <4>1. PICK j \in Pending : j # 1 /\ Do(i)' = Do(j) /\ Seg(i)' = Seg(j)
        BY <1>4, <3>1
      <4>2. Do(j) \notin {"flush", "window", "endSegment", "submit"}
        BY <1>7, <3>1, <4>1
      <4>3. Do(j) \in {"createSegment", "event"}
        <5>1. calls[j] \in Job /\ Do(j) = calls[j].do
          BY DEF Types, Pending, Do
        <5> QED BY <3>3, <4>1, <4>2, <5>1, JobFields DEF EndingDo
      <4>4. pc = "feeding" /\ Seg(j) = segment
        BY <1>7, <4>1, <4>3
      <4>5. Seg(1) < segment /\ Seg(1) \in Nat
        BY <1>1, <3>1, <4>4, First DEF EndingDo
      <4>6. Seg(1) # segment
        BY <4>5 DEF Types
      <4> QED BY <4>1, <4>4, <4>6
    <3> QED BY <3>1, <3>2, <3>3
  <2> QED BY <2>1, <2>2
<1> QED BY <1>2, <1>9, <1>10 DEF SettledInv

(* A step that calls nothing and leaves the tables.                        *)
LEMMA SettledAtRest ==
  ASSUME Types, SettledInv, UNCHANGED <<sessions, segments, windows, cands>>,
         DOMAIN builders' \subseteq DOMAIN builders,
         \A i \in Pending' : Do(i)' = "submit" => i # 1,
         \A i \in Pending' : Do(i)' \in {"endSegment", "submit"} => Do(1)' = "flush",
         \A i \in Pending' : Do(i)' \notin PlainDo => Seg(i)' \notin DOMAIN cands
  PROVE  SettledInv' /\ AllKept
<1>1. AllKept
  BY DEF SettledInv, Settled, AllKept, Kept
<1>2. OverWhenEnded'
  BY DEF OverWhenEnded
<1>3. Settled'
  BY DEF SettledInv, Settled
<1> QED BY <1>1, <1>2, <1>3 DEF SettledInv

(* No step touches a submitted segment.                                    *)
LEMMA SettledKeep ==
  ASSUME Types, Shape, RowsInv, SettledInv, Next
  PROVE  SettledInv' /\ AllKept
<1>1. ASSUME NEW isDrill \in BOOLEAN, StartSession(isDrill) PROVE SettledInv' /\ AllKept
  <2>1. UNCHANGED <<sessions, segments, windows, cands>> /\ builders' = Empty
    BY <1>1 DEF StartSession, tableVars
  <2>2. \A i \in Pending' : Do(i)' \in PlainDo
    <3>1. /\ Len(calls') = 2 /\ calls'[1] = [do |-> "createSession"]
          /\ calls'[2] = [do |-> IF isDrill THEN "declareDrill" ELSE "anchor"]
      BY <1>1, StartedCalls
    <3>2. Pending' = {1, 2}
      BY <3>1 DEF Pending
    <3>3. Do(1)' = "createSession" /\ Do(2)' \in {"declareDrill", "anchor"}
      BY <3>1 DEF Do
    <3> QED BY <3>2, <3>3 DEF PlainDo
  <2> QED BY <2>1, <2>2, EmptyIs, SettledAtRest DEF PlainDo
<1>2. CASE Started \/ Fed \/ PipeError \/ Recover \/ Ended \/ Crash
  <2>1. /\ calls' = <<>> /\ UNCHANGED <<sessions, segments, windows, cands>>
        /\ builders' = Empty \/ builders' = builders
    BY <1>2 DEF Started, Fed, PipeError, Recover, Ended, Crash, Forgotten, Shape, AtRest,
                memoryVars, tableVars
  <2>2. Pending' = {}
    BY <2>1 DEF Pending
  <2> QED BY <2>1, <2>2, EmptyIs, SettledAtRest
<1>3. CASE Stop
  <2>1. UNCHANGED <<sessions, segments, windows, cands, builders, segment>> /\ pc = "reading"
    BY <1>3 DEF Stop, memoryVars, tableVars
  <2>2. segment # 0 => segment \notin DOMAIN cands
    BY <2>1 DEF RowsInv, OpenSegment
  <2>3. CASE StopsIdle
    <3>1. Len(calls') = 1 /\ Do(1)' = "endSession"
      BY <2>3 DEF StopsIdle, Do
    <3>2. Pending' = {1}
      BY <3>1 DEF Pending
    <3> QED BY <2>1, <3>1, <3>2, SettledAtRest DEF PlainDo
  <2>4. CASE StopsOpen
    <3>1. /\ Len(calls') = 4 /\ Do(1)' = "flush" /\ Do(2)' = "endSegment" /\ Do(3)' = "submit"
          /\ Do(4)' = "endSession" /\ Seg(1)' = segment /\ Seg(2)' = segment /\ Seg(3)' = segment
          /\ segment # 0
      BY <2>4 DEF StopsOpen, Begins, Do, Seg
    <3>2. Pending' = {1, 2, 3, 4}
      BY <3>1 DEF Pending
    <3> QED BY <2>1, <2>2, <3>1, <3>2, SettledAtRest DEF PlainDo
  <2> QED BY <1>3, <2>3, <2>4, StoppedCalls
<1>4. CASE Read \/ Reject(now + 1)
  <2>1. /\ UNCHANGED <<sessions, segments, windows, cands, builders>>
        /\ Alerting \/ Len(calls') = 0
    BY <1>4, ReadCalls, Alert DEF Read, Reject, AlertCall, memoryVars, tableVars
  <2>2. \A i \in Pending' : Do(i)' = "alert"
    BY <2>1, NoCalls
  <2> QED BY <2>1, <2>2, SettledAtRest DEF PlainDo
<1>5. ASSUME NEW kind \in Kinds \ {"bad"}, NEW gap \in Gaps, Accept(kind, now + gap)
      PROVE  SettledInv' /\ AllKept
  <2>1. now + gap \in Nat
    BY <1>5, LaterIsNat
  <2>2. PICK t \in Nat : t = now + gap
    BY <2>1
  <2>3. pc = "feeding" /\ UNCHANGED <<sessions, segments, windows, cands, builders>>
    BY <1>5 DEF Accept, Advance, tableVars
  <2>4. /\ opened + 1 \notin DOMAIN cands
        /\ segment # 0 => segment \notin DOMAIN cands
    BY <2>3 DEF Types, RowsInv, OpenSegment
  <2>5. CASE Continues(kind, t)
    <3>1. Len(calls') = 1 /\ Do(1)' = "event" /\ Seg(1)' = segment /\ segment # 0
      BY <2>5 DEF Continues, EventCall, Do, Seg
    <3>2. Pending' = {1}
      BY <3>1 DEF Pending
    <3> QED BY <2>3, <2>4, <3>1, <3>2, SettledAtRest
  <2>6. CASE Opens(kind, t)
    <3>1. Len(calls') = 2 /\ Do(1)' = "createSegment" /\ Do(2)' = "event"
          /\ Seg(1)' = opened + 1 /\ Seg(2)' = opened + 1
      BY <2>6 DEF Opens, EventCall, Begins, Do, Seg
    <3>2. Pending' = {1, 2}
      BY <3>1 DEF Pending
    <3> QED BY <2>3, <2>4, <3>1, <3>2, SettledAtRest
  <2>7. CASE Splits(kind, t)
    <3>1. /\ Len(calls') = 5 /\ Do(1)' = "flush" /\ Do(2)' = "endSegment" /\ Do(3)' = "submit"
          /\ Do(4)' = "createSegment" /\ Do(5)' = "event"
          /\ Seg(1)' = segment /\ Seg(2)' = segment /\ Seg(3)' = segment
          /\ Seg(4)' = opened + 1 /\ Seg(5)' = opened + 1 /\ segment # 0
      BY <2>7 DEF Splits, EventCall, Begins, Do, Seg
    <3>2. Pending' = {1, 2, 3, 4, 5}
      BY <3>1 DEF Pending
    <3> QED BY <2>3, <2>4, <3>1, <3>2, SettledAtRest
  <2> QED BY <1>5, <2>2, <2>5, <2>6, <2>7, AcceptedCalls
<1>6. CASE Call
  BY <1>6, CallSettles
<1>7. CASE GiveUp
  <2>1. /\ Last \in Nat \ {0} /\ Swapped(AlertCall) /\ Do(1) = "submit"
        /\ UNCHANGED <<sessions, segments, windows, cands, builders>>
    BY <1>7, GivesUp
  <2>2. /\ Pending' = Pending /\ Do(1)' = "alert"
        /\ \A i \in Pending : i # 1 => Do(i)' = Do(i) /\ Seg(i)' = Seg(i)
    BY <2>1 DEF Swapped, Pending, Do, Seg, AlertCall, Last
  <2>3. OverWhenEnded'
    BY <2>1, <2>2 DEF SettledInv, OverWhenEnded
  <2>4. Settled'
    BY <2>1, <2>2 DEF SettledInv, Settled, PlainDo
  <2>5. AllKept
    BY <2>1 DEF SettledInv, Settled, AllKept, Kept
  <2> QED BY <2>3, <2>4, <2>5 DEF SettledInv
<1>8. CASE Raise
  <2>1. Fails /\ Last \in Nat \ {0} /\ Do(1) # "submit" /\ Do(1) = calls[1].do
    BY <1>8, RaiseCases DEF Fails, Do
  <2>2. AllKept
    BY <2>1, TablesKeep DEF Fails, SettledInv
  <2>3. Pending' = {} /\ cands' = cands /\ DOMAIN builders' \subseteq DOMAIN builders
    BY <2>1, EmptyIs DEF Fails, Tables, Pending
  <2>4. OverWhenEnded'
    BY <2>3 DEF OverWhenEnded
  <2>5. Settled'
    BY <2>2, <2>3 DEF SettledInv, Settled, AllKept, Kept
  <2> QED BY <2>2, <2>4, <2>5 DEF SettledInv
<1> QED BY <1>1, <1>2, <1>3, <1>4, <1>5, <1>6, <1>7, <1>8 DEF Next
-----------------------------------------------------------------------------
(* The invariant, and what follows from it.                                *)

(* The invariant at the start.                                             *)
LEMMA InitKeeps ==
  ASSUME Init
  PROVE  IInv
<1>1. Types /\ Shape
  BY InitTypes
<1>2. /\ calls = <<>> /\ builders = Empty /\ sessions = Empty /\ segments = Empty /\ cands = Empty
      /\ seen = Empty /\ windows = {} /\ pc = "down" /\ session = 0 /\ segment = 0
      /\ codes = {} /\ broken = {}
  BY DEF Init
<1>3. Pending = {} /\ DOMAIN Empty = {}
  BY <1>2, EmptyIs DEF Pending
<1>4. RowsInv
  <2>1. Numbered
    <3>1. DOMAIN sessions = 1 .. 0 /\ 0 \in Nat
      BY <1>2, <1>3
    <3> QED BY <1>2, <3>1 DEF Numbered
  <2> QED BY <1>2, <1>3, <2>1
          DEF RowsInv, SessionRow, InputRows, OursInHand, InHand, SegmentRows, DrillLeavesNone,
              OpenSegment
<1>5. InputsInv /\ PiecesInv
  BY <1>2, <1>3
     DEF InputsInv, PiecesInv, InOrder, Close, InputIsLast, Arrived, Unopened, Opening, AllWhole,
         Apart, ToTheEnd
<1>6. FateInv
  BY <1>2, <1>3 DEF FateInv, Fate, Uncovered, Signalled, BrokenIsKnown
<1>7. SettledInv
  BY <1>2, <1>3 DEF SettledInv, OverWhenEnded, Settled
<1> QED BY <1>1, <1>4, <1>5, <1>6, <1>7 DEF IInv, WindowsInv

(* A step that changes nothing keeps the invariant.                        *)
LEMMA NothingKeeps ==
  ASSUME IInv, UNCHANGED vars
  PROVE  IInv'
<1>1. /\ UNCHANGED <<pc, calls, left, codes, cause, session, drill, segment, input, builders>>
      /\ UNCHANGED <<sessions, segments, windows, cands, payloads, now, opened, seen>>
      /\ UNCHANGED <<broken, alerted, known>>
  BY DEF vars, loopVars, memoryVars, tableVars, feedVars, ghostVars
<1>2. /\ Pending' = Pending /\ Last' = Last
      /\ \A i : Do(i)' = Do(i) /\ Seg(i)' = Seg(i) /\ Arriving(i)' = Arriving(i)
      /\ \A n : Held(n)' = Held(n) /\ InCall(n)' = InCall(n)
      /\ \A s : InHand(s)' = InHand(s) /\ Ours(s)' = Ours(s)
      /\ \A e, s : Whole(e, s)' = Whole(e, s)
  BY <1>1 DEF Pending, Last, Do, Seg, Arriving, Held, InCall, InHand, Ours, Whole
<1>3. Types'
  BY <1>1 DEF IInv, Types
<1>4. Shape'
  BY <1>1, <1>2 DEF IInv, Shape, StartShape, FeedShape, EndShape, Order, AtRest
<1>5. RowsInv'
  BY <1>1, <1>2 DEF IInv, RowsInv, Numbered, SessionRow, InputRows, OursInHand, SegmentRows,
                    DrillLeavesNone, OpenSegment
<1>6. InputsInv'
  BY <1>1 DEF IInv, WindowsInv, InputsInv, InOrder, Close, InputIsLast
<1>7. PiecesInv'
  BY <1>1, <1>2 DEF IInv, WindowsInv, PiecesInv, Arrived, Unopened, Opening, AllWhole, Apart, ToTheEnd
<1>8. FateInv'
  BY <1>1, <1>2 DEF IInv, FateInv, Fate, Uncovered, Signalled, BrokenIsKnown
<1>9. SettledInv'
  BY <1>1, <1>2 DEF IInv, SettledInv, OverWhenEnded, Settled
<1> QED BY <1>3, <1>4, <1>5, <1>6, <1>7, <1>8, <1>9 DEF IInv, WindowsInv

(* Every reachable state: the calls are in the order the code makes them,  *)
(* the rows say whose they are, the windows and builders are whole and     *)
(* apart, every input of the running session is somewhere or its segment   *)
(* is broken, and nothing is pending for a submitted segment.              *)
THEOREM IngestionInvariant == Spec => []IInv
<1>1. Init => IInv
  BY InitKeeps
<1>2. IInv /\ [Next]_vars => IInv'
  <2> SUFFICES ASSUME IInv, [Next]_vars PROVE IInv'
    OBVIOUS
  <2>1. CASE Next
    <3>1. Types /\ Shape /\ RowsInv /\ InputsInv /\ PiecesInv /\ FateInv /\ SettledInv /\ Numbered
      BY DEF IInv, WindowsInv, RowsInv
    <3>2. Types' /\ Shape'
      BY <2>1, <3>1, TypesKeep, ShapeKeep
    <3>3. RowsInv'
      BY <2>1, <3>1, RowsKeep
    <3>4. InputsInv' /\ PiecesInv'
      BY <2>1, <3>1, InputsKeep, PiecesKeep
    <3>5. FateInv'
      BY <2>1, <3>1, FateKeep
    <3>6. SettledInv'
      BY <2>1, <3>1, SettledKeep
    <3> QED BY <3>2, <3>3, <3>4, <3>5, <3>6 DEF IInv, WindowsInv
  <2>2. CASE UNCHANGED vars
    BY <2>2, NothingKeeps
  <2> QED BY <2>1, <2>2
<1> QED BY <1>1, <1>2, PTL DEF Spec

(* A stored window is of one segment, without a hole, without an idle gap  *)
(* and without an input of another window, whatever sinks have failed.     *)
THEOREM WindowsAreWholeAlways == Spec => []WindowsAreWhole
<1>1. IInv => WindowsAreWhole
  <2> SUFFICES ASSUME IInv, NEW w \in windows
               PROVE  /\ \A m, n \in w.evs : \A k \in DOMAIN seen : m < k /\ k < n => k \in w.evs
                      /\ \A m, n \in w.evs : m < n =>
                           \E k \in w.evs : m < k /\ k <= n /\ seen[k].t - seen[m].t <= IdleSplit
                      /\ \A n \in w.evs : seen[n].seg = w.seg
                      /\ \A v \in windows : v # w => v.evs \cap w.evs = {}
    BY DEF WindowsAreWhole
  <2>1. /\ w.evs \subseteq DOMAIN seen /\ \A n \in w.evs : seen[n].seg = w.seg
        /\ \A m, n \in w.evs : \A k \in DOMAIN seen : m < k /\ k < n => k \in w.evs
    BY DEF IInv, WindowsInv, PiecesInv, AllWhole, Whole
  <2>2. \A v \in windows : v # w => v.evs \cap w.evs = {}
    BY DEF IInv, WindowsInv, PiecesInv, Apart
  <2>3. ASSUME NEW m \in w.evs, NEW n \in w.evs, m < n
        PROVE  \E k \in w.evs : m < k /\ k <= n /\ seen[k].t - seen[m].t <= IdleSplit
    <3>1. PICK k \in DOMAIN seen : m < k /\ k <= n /\ seen[k].t - seen[m].t <= IdleSplit
      BY <2>1, <2>3 DEF IInv, WindowsInv, InputsInv, Close
    <3>2. k \in Nat /\ n \in Nat
      BY <2>1 DEF IInv, Types
    <3>3. k \in w.evs
      BY <2>1, <2>3, <3>1, <3>2
    <3> QED BY <3>1, <3>3
  <2> QED BY <2>1, <2>2, <2>3
<1> QED BY <1>1, IngestionInvariant, PTL

(* What is stored of a drill belongs to a session declared as one, and a   *)
(* drill leaves no candidate.                                              *)
THEOREM DrillIsDeclaredAlways == Spec => []DrillIsDeclared
<1>1. IInv => DrillIsDeclared
  <2> SUFFICES ASSUME IInv, NEW w \in windows, NEW n \in DOMAIN seen, n \in w.evs
               PROVE  /\ sessions[segments[w.seg].session].drill = seen[n].drill
                      /\ seen[n].drill => w.seg \notin DOMAIN cands
    BY DEF DrillIsDeclared
  <2>1. seen[n].seg = w.seg
    BY DEF IInv, WindowsInv, PiecesInv, AllWhole, Whole
  <2>2. w.seg \in DOMAIN segments
    BY DEF IInv, RowsInv, SegmentRows
  <2>3. /\ sessions[seen[n].session].drill = seen[n].drill
        /\ segments[seen[n].seg].session = seen[n].session
        /\ seen[n].drill => seen[n].seg \notin DOMAIN cands
    BY <2>1, <2>2 DEF IInv, RowsInv, InputRows, DrillLeavesNone
  <2> QED BY <2>1, <2>3
<1> QED BY <1>1, IngestionInvariant, PTL

(* An input the running process has taken is in a window or a builder, or  *)
(* an alert stands for the segment it is missing from.                     *)
THEOREM LossIsKnownAlways == Spec => []LossIsKnown
<1>1. IInv => LossIsKnown
  <2> SUFFICES ASSUME IInv, pc = "reading", NEW n \in DOMAIN seen, seen[n].session = session
               PROVE  Held(n) \/ seen[n].seg \in known
    BY DEF LossIsKnown
  <2>1. calls = <<>>
    BY DEF IInv, Shape, AtRest
  <2>2. ~InCall(n)
    BY <2>1 DEF InCall, Pending
  <2>3. Held(n) \/ seen[n].seg \in broken
    BY <2>2 DEF IInv, FateInv, Fate
  <2>4. seen[n].seg \in broken => seen[n].seg \in known
    BY DEF IInv, FateInv, BrokenIsKnown
  <2> QED BY <2>3, <2>4
<1> QED BY <1>1, IngestionInvariant, PTL

(* No step changes a candidate, stores a window of its segment or reopens  *)
(* the row of the segment.                                                 *)
THEOREM SettledAlways == Spec => SettledWhenSubmitted
<1>1. IInv /\ [Next]_vars =>
        [\A s \in DOMAIN cands :
           /\ cands'[s] = cands[s]
           /\ {w \in windows' : w.seg = s} = {w \in windows : w.seg = s}
           /\ s \in DOMAIN segments' /\ segments'[s].ended]_vars
  <2> SUFFICES ASSUME IInv, Next, NEW s \in DOMAIN cands
               PROVE  /\ cands'[s] = cands[s]
                      /\ {w \in windows' : w.seg = s} = {w \in windows : w.seg = s}
                      /\ s \in DOMAIN segments' /\ segments'[s].ended
    OBVIOUS
  <2>1. AllKept
    BY SettledKeep DEF IInv
  <2> QED BY <2>1 DEF AllKept, Kept
<1> QED BY <1>1, IngestionInvariant, PTL DEF Spec, SettledWhenSubmitted
=============================================================================
