----------------------------- MODULE StreamProofs ---------------------------
(***************************************************************************)
(* The live stream is whole: for every number of connections, every queue, *)
(* history and page size, any number of alerts, and across reconnections   *)
(* and restarts, an open client is owed what follows its cursor without a  *)
(* gap, the dashboard misses no stored event, and a reader that pages to   *)
(* the end has read every alert there was when it began.                   *)
(***************************************************************************)
EXTENDS EventStream, WellFoundedInduction, TLAPS

Envelope == [seq : Int, snapshot : BOOLEAN, alerts : Seq(Nat)]
Page == [got : SUBSET Nat, next : Nat, due : SUBSET Nat, more : BOOLEAN]

FeedTypes ==
  /\ made \in Nat /\ stored \in Seq(Nat) /\ held \in Nat /\ pending \in Seq(Nat)
  /\ taken = <<>> \/ \E batch \in Seq(Nat) : taken = <<batch>>
BrokerTypes ==
  /\ published \in Seq(Nat) /\ queue \in [Conn -> Seq(Nat)]
  /\ listed \subseteq serving /\ serving \subseteq Conn
ViewTypes ==
  /\ at \in Conn \cup {NoConn} /\ wire \in Seq(Envelope)
  /\ cursor \in Nat \cup {-1} /\ last \in Nat \cup {-1} /\ shown \in Seq(Nat)
  /\ page \in Page /\ strayed \in BOOLEAN
\* A connection is open or there is none.
Attached == phase # "open" => at = NoConn
StreamTypes == FeedTypes /\ BrokerTypes /\ ViewTypes /\ Attached

\* No alert is published before it was made.
NoneAhead(ids) == \A i \in DOMAIN ids : ids[i] <= made
MadeBefore == /\ held <= made /\ NoneAhead(pending) /\ NoneAhead(published)
              /\ taken # <<>> => NoneAhead(taken[1])

\* The queue of a client that is listed holds events of this process; that of one that
\* is not, and still served, only the mark that it was too slow.
Queues ==
  \A k \in serving :
    /\ k \in listed => \A i \in DOMAIN queue[k] : queue[k][i] \in 1 .. Sequence
    /\ k \notin listed => queue[k] = <<SlowClient>>

\* The number that is due next to the dashboard.
Due == IF wire # <<>> /\ wire[1].snapshot THEN wire[1].seq ELSE cursor + 1

\* What is on the wire and in the queue follows without a gap what the dashboard has.
Following ==
  at \in listed =>
    /\ \A i \in DOMAIN wire : wire[i].seq = Due + i - 1
    /\ \A i \in DOMAIN queue[at] : queue[at][i] = Due + Len(wire) + i - 1
    /\ Due + Len(wire) + Len(queue[at]) = Sequence + 1
    /\ wire = <<>> => cursor >= 0

\* Alerts contain each of the first n events that has a row, unless a page of rows is newer.
Covers(alerts, n, rows, events) ==
  \A m \in 1 .. n, row \in DOMAIN rows :
    rows[row] = events[m] =>
      events[m] \in ToSet(alerts) \/ Len(rows) - row >= PageSize

Sound(e, rows, events) ==
  \/ e = Closed
  \/ ~e.snapshot /\ e.seq \in 1 .. Len(events) /\ e.alerts = <<events[e.seq]>>
  \/ e.snapshot /\ e.seq \in 0 .. Len(events) /\ Covers(e.alerts, e.seq, rows, events)

\* What is on the wire tells of this process's stream: a snapshot comes first, and
\* without one the dashboard has a cursor.
Carried ==
  /\ \A i \in DOMAIN wire : /\ Sound(wire[i], stored, published)
                            /\ wire[i].snapshot => i = 1
  /\ wire # <<>> /\ ~wire[1].snapshot /\ wire[1] # Closed => cursor >= 0

\* What the dashboard shows of the stream it has followed.
Seen ==
  ~strayed => /\ cursor = -1 <=> last = -1
              /\ last <= Sequence /\ Covers(shown, last, stored, published)

\* What a reader still has to see of the alerts is past the pages it has read.
Paged ==
  /\ \A id \in page.due :
       id \in page.got \/ \E row \in 1 .. Len(stored) - page.next : stored[row] = id
  /\ PagesCoverAll

StreamInv ==
  StreamTypes /\ MadeBefore /\ Queues /\ Following /\ Carried /\ Seen /\ Paged

-----------------------------------------------------------------------------
\* The members of a sequence are its elements.
LEMMA ToSetIs ==
  ASSUME NEW s, NEW x
  PROVE  x \in ToSet(s) <=> \E i \in DOMAIN s : s[i] = x
  BY DEF ToSet

\* A sequence of numbers has a set of numbers for members.
LEMMA ToSetNat ==
  ASSUME NEW s \in Seq(Nat)
  PROVE  ToSet(s) \in SUBSET Nat
<1>1. \A i \in DOMAIN s : s[i] \in Nat
  OBVIOUS
<1> QED BY <1>1 DEF ToSet

\* The smaller of two numbers.
LEMMA MinOfTwo ==
  ASSUME NEW a \in Nat, NEW b \in Nat
  PROVE  Min({a, b}) = IF a <= b THEN a ELSE b
<1> DEFINE m == IF a <= b THEN a ELSE b
<1>1. m \in {a, b} /\ \A y \in {a, b} : m <= y
  OBVIOUS
<1>2. \A x \in {a, b} : (\A y \in {a, b} : x <= y) => x = m
  OBVIOUS
<1>3. Min({a, b}) = CHOOSE x \in {a, b} : \A y \in {a, b} : x <= y
  BY DEF Min
<1> HIDE DEF m
<1>4. (CHOOSE x \in {a, b} : \A y \in {a, b} : x <= y) = m
  BY <1>1, <1>2
<1> QED BY <1>3, <1>4 DEF m

\* A row of a page is at one place of it, counted from the newest.
LEMMA PlaceOnPage ==
  \A n, offset, size \in Nat : \A row \in 1 .. n :
    n - row >= offset /\ n - row < offset + size
      => \E i \in 1 .. (IF offset + size <= n THEN offset + size ELSE n) - offset :
           offset + i \in 1 .. n /\ (n - (offset + i)) + 1 = row
<1> SUFFICES ASSUME NEW n \in Nat, NEW offset \in Nat, NEW size \in Nat, NEW row \in 1 .. n,
                    n - row >= offset, n - row < offset + size
             PROVE  \E i \in 1 .. (IF offset + size <= n THEN offset + size ELSE n) - offset :
                      offset + i \in 1 .. n /\ (n - (offset + i)) + 1 = row
  OBVIOUS
<1> DEFINE i == n - row - offset + 1
<1>1. i \in Nat /\ i >= 1 /\ offset + i = n - row + 1
  OBVIOUS
<1>2. i <= n - offset /\ i <= size
  BY <1>1
<1>3. i \in 1 .. (IF offset + size <= n THEN offset + size ELSE n) - offset
  BY <1>1, <1>2
<1>4. offset + i \in 1 .. n /\ (n - (offset + i)) + 1 = row
  BY <1>1
<1> QED BY <1>3, <1>4

\* A page of the listing holds every row that is not older than the page's end and not
\* newer than its start, and nothing that is no row.
LEMMA ListingIs ==
  ASSUME stored \in Seq(Nat), NEW offset \in Nat
  PROVE  /\ Listing(offset) \in Seq(Nat)
         /\ \A row \in DOMAIN stored :
              Len(stored) - row >= offset /\ Len(stored) - row < offset + PageSize
                => stored[row] \in ToSet(Listing(offset))
<1> DEFINE n == Len(stored)
           r == Reverse(stored)
           top == IF offset + PageSize <= n THEN offset + PageSize ELSE n
<1>1. n \in Nat /\ PageSize \in Nat /\ offset + PageSize \in Nat
  BY StreamAssumption
<1>2. Listing(offset) = SubSeq(r, offset + 1, top)
  BY <1>1, MinOfTwo DEF Listing
<1>3. \A i \in 1 .. n : (n - i) + 1 \in 1 .. n /\ stored[(n - i) + 1] \in Nat
  <2>1. \A i \in 1 .. n : (n - i) + 1 \in 1 .. n
    BY <1>1
  <2> QED BY <2>1
<1>4. r = [i \in 1 .. n |-> stored[(n - i) + 1]]
  BY DEF Reverse
<1>5. r \in Seq(Nat) /\ Len(r) = n /\ \A i \in 1 .. n : r[i] = stored[(n - i) + 1]
  BY <1>1, <1>3, <1>4
<1>6. offset + 1 \in Nat \ {0} /\ top \in Nat /\ top <= n
  BY <1>1
<1> HIDE DEF r, top
<1>7. SubSeq(r, offset + 1, top) \in Seq(Nat)
  BY <1>5, <1>6, SMTT(30)
<1>8. ASSUME NEW row \in DOMAIN stored, n - row >= offset, n - row < offset + PageSize
      PROVE  stored[row] \in ToSet(Listing(offset))
  <2>1. row \in 1 .. n
    BY <1>8
  <2>2. PICK i \in 1 .. top - offset : offset + i \in 1 .. n /\ (n - (offset + i)) + 1 = row
    <3>1. /\ n \in Nat /\ row \in 1 .. n /\ PageSize \in Nat
          /\ n - row >= offset /\ n - row < offset + PageSize
      BY <1>1, <1>8, <2>1
    <3>2. \E i \in 1 .. (IF offset + PageSize <= n THEN offset + PageSize ELSE n) - offset :
            offset + i \in 1 .. n /\ (n - (offset + i)) + 1 = row
      <4> HIDE DEF n
      <4> QED BY <3>1, PlaceOnPage, ZenonT(30)
    <3> QED BY <3>2 DEF top
  <2>3. r[offset + i] = stored[row]
    BY <1>5, <2>2
  <2>4. Len(SubSeq(r, offset + 1, top)) = top - offset
    BY <1>5, <1>6, <2>2
  <2>5. SubSeq(r, offset + 1, top)[i] = r[offset + 1 + i - 1]
    BY <1>5, <1>6, <2>2
  <2>6. i \in DOMAIN SubSeq(r, offset + 1, top) /\ offset + 1 + i - 1 = offset + i
    BY <1>6, <1>7, <2>2, <2>4
  <2> QED BY <1>2, <2>3, <2>5, <2>6, ToSetIs
<1> QED BY <1>2, <1>7, <1>8

-----------------------------------------------------------------------------
(* What the operators return.                                              *)

\* The event after a cursor, as long as the history has it, is the first that is kept.
LEMMA KeptIs ==
  ASSUME published \in Seq(Nat), NEW c \in Nat \cup {-1}, Replayable(c)
  PROVE  Kept(c) = c + 1 /\ c \in Nat /\ c <= Sequence /\ Sequence \in Nat
<1>1. Sequence \in Nat /\ Replay \in Nat
  BY StreamAssumption DEF Sequence
<1>2. Earliest \in Nat
  BY <1>1 DEF Earliest
<1>3. c >= 0 /\ c + 1 >= Earliest /\ c <= Sequence /\ c \in Int
  BY <1>1, <1>2 DEF Replayable
<1> QED BY <1>1, <1>2, <1>3 DEF Kept

\* An event of the stream is an envelope.
LEMMA EventIs ==
  ASSUME published \in Seq(Nat), NEW n \in 1 .. Sequence
  PROVE  /\ Event(n) \in Envelope /\ Event(n).seq = n /\ ~Event(n).snapshot
         /\ Event(n).alerts = <<published[n]>>
<1>1. n \in Int /\ published[n] \in Nat
  BY DEF Sequence
<1>2. <<published[n]>> \in Seq(Nat)
  BY <1>1
<1> QED BY <1>1, <1>2 DEF Event, Envelope

\* So is a snapshot, and the mark of a closed connection is one that is neither.
LEMMA SnapshotIs ==
  ASSUME published \in Seq(Nat), stored \in Seq(Nat)
  PROVE  /\ Snapshot \in Envelope /\ Snapshot.seq = Sequence /\ Snapshot.snapshot
         /\ Snapshot.alerts = Listing(0)
         /\ Closed \in Envelope /\ ~Closed.snapshot /\ Closed.seq = -1
<1>1. Sequence \in Nat /\ Listing(0) \in Seq(Nat)
  BY ListingIs DEF Sequence
<1> QED BY <1>1 DEF Snapshot, Recent, Closed, Envelope

\* What a client is sent first: the events after its cursor, or one snapshot.
LEMMA InitialIs ==
  ASSUME published \in Seq(Nat), stored \in Seq(Nat), NEW c \in Nat \cup {-1}
  PROVE  /\ Initial(c) \in Seq(Envelope)
         /\ Replayable(c) =>
              /\ Len(Initial(c)) = Sequence - c
              /\ \A i \in DOMAIN Initial(c) :
                   c + i \in 1 .. Sequence /\ Initial(c)[i] = Event(c + i)
         /\ ~Replayable(c) => Initial(c) = <<Snapshot>>
<1>1. CASE Replayable(c)
  <2>1. Kept(c) = c + 1 /\ c \in Nat /\ c <= Sequence /\ Sequence \in Nat
    BY <1>1, KeptIs
  <2> DEFINE n == Sequence - c
  <2>2. n \in Nat /\ Sequence - Kept(c) + 1 = n
    BY <2>1
  <2>3. \A i \in 1 .. n : c + i \in 1 .. Sequence /\ Kept(c) + i - 1 = c + i
    BY <2>1
  <2>4. Initial(c) = [i \in 1 .. n |-> Event(Kept(c) + i - 1)]
    BY <1>1, <2>2 DEF Initial
  <2>5. \A i \in 1 .. n : Event(Kept(c) + i - 1) = Event(c + i)
    BY <2>3
  <2>6. \A i \in 1 .. n : Event(c + i) \in Envelope
    BY <2>3, EventIs
  <2> HIDE DEF n
  <2>7. Initial(c) \in Seq(Envelope) /\ Len(Initial(c)) = n
    <3> DEFINE f == [i \in 1 .. n |-> Event(Kept(c) + i - 1)]
    <3>1. \A i \in 1 .. n : Event(Kept(c) + i - 1) \in Envelope
      BY <2>5, <2>6
    <3>2. f \in [1 .. n -> Envelope]
      BY <3>1
    <3>3. f \in Seq(Envelope)
      <4> HIDE DEF f
      <4> QED BY <2>2, <3>2
    <3>4. DOMAIN f = 1 .. n
      OBVIOUS
    <3>5. Len(f) = n
      <4> HIDE DEF f
      <4> QED BY <2>2, <3>3, <3>4
    <3> QED BY <2>4, <3>3, <3>5
  <2>8. DOMAIN Initial(c) = 1 .. n /\ \A i \in 1 .. n : Initial(c)[i] = Event(c + i)
    BY <2>4, <2>5
  <2> QED BY <1>1, <2>3, <2>7, <2>8 DEF n
<1>2. CASE ~Replayable(c)
  <2>1. Initial(c) = <<Snapshot>>
    BY <1>2 DEF Initial
  <2> QED BY <1>2, <2>1, SnapshotIs
<1> QED BY <1>1, <1>2

\* The first page shows each event that has a row, unless a page of rows is newer.
LEMMA ListingCovers ==
  ASSUME stored \in Seq(Nat), NEW n, NEW events
  PROVE  Covers(Listing(0), n, stored, events)
<1>1. ASSUME NEW row \in DOMAIN stored, ~(Len(stored) - row >= PageSize)
      PROVE  stored[row] \in ToSet(Listing(0))
  <2>1. row \in 1 .. Len(stored) /\ Len(stored) \in Nat /\ PageSize \in Nat
    BY StreamAssumption
  <2>2. Len(stored) - row >= 0 /\ Len(stored) - row < 0 + PageSize
    BY <1>1, <2>1
  <2> QED BY <2>2, ListingIs
<1> QED BY <1>1 DEF Covers

\* A number of rows is appended, all of alerts not made before, and of events.
Grown ==
  /\ Len(published) <= Len(published') /\ Len(stored) <= Len(stored')
  /\ \A i \in DOMAIN published : i \in DOMAIN published' /\ published'[i] = published[i]
  /\ \A row \in DOMAIN stored : row \in DOMAIN stored' /\ stored'[row] = stored[row]
  /\ \A row \in DOMAIN stored' : row \in DOMAIN stored \/ stored'[row] > made

\* Alerts that covered the stream still do.
LEMMA CoversGrown ==
  ASSUME FeedTypes, FeedTypes', BrokerTypes, BrokerTypes', MadeBefore, Grown,
         NEW alerts, NEW n \in Int, n <= Len(published), Covers(alerts, n, stored, published)
  PROVE  Covers(alerts, n, stored', published')
<1> SUFFICES ASSUME NEW m \in 1 .. n, NEW row \in DOMAIN stored', stored'[row] = published'[m]
             PROVE  published'[m] \in ToSet(alerts) \/ Len(stored') - row >= PageSize
  BY DEF Covers
<1>1. m \in DOMAIN published /\ published'[m] = published[m]
  <2>1. m \in 1 .. Len(published)
    BY DEF BrokerTypes
  <2> QED BY <2>1 DEF Grown, BrokerTypes
<1>2. published[m] \in Nat /\ published[m] <= made /\ made \in Nat
  BY <1>1, SMTT(30) DEF MadeBefore, NoneAhead, BrokerTypes, FeedTypes
<1>3. row \in DOMAIN stored /\ stored[row] = published[m]
  BY <1>1, <1>2 DEF Grown
<1>4. published[m] \in ToSet(alerts) \/ Len(stored) - row >= PageSize
  BY <1>3 DEF Covers
<1>5. /\ Len(stored) <= Len(stored') /\ Len(stored) \in Nat /\ Len(stored') \in Nat
      /\ row \in Nat /\ PageSize \in Nat
  BY <1>3, StreamAssumption, SMTT(30) DEF Grown, FeedTypes
<1> QED BY <1>1, <1>4, <1>5

\* What was sound still is.
LEMMA SoundGrown ==
  ASSUME FeedTypes, FeedTypes', BrokerTypes, BrokerTypes', MadeBefore, Grown,
         NEW e \in Envelope, Sound(e, stored, published)
  PROVE  Sound(e, stored', published')
<1>1. /\ e.seq \in Int /\ Len(published) \in Nat /\ Len(published') \in Nat
      /\ Len(published) <= Len(published')
  BY DEF BrokerTypes, Envelope, Grown
<1>2. CASE e = Closed
  BY <1>2 DEF Sound
<1>3. CASE ~e.snapshot /\ e.seq \in 1 .. Len(published) /\ e.alerts = <<published[e.seq]>>
  <2>1. e.seq \in DOMAIN published
    BY <1>3 DEF BrokerTypes
  <2>2. published'[e.seq] = published[e.seq] /\ e.seq \in 1 .. Len(published')
    BY <1>1, <1>3, <2>1 DEF Grown
  <2> QED BY <1>3, <2>2 DEF Sound
<1>4. CASE /\ e.snapshot /\ e.seq \in 0 .. Len(published)
           /\ Covers(e.alerts, e.seq, stored, published)
  <2>1. Covers(e.alerts, e.seq, stored', published')
    BY <1>1, <1>4, CoversGrown
  <2> QED BY <1>1, <1>4, <2>1 DEF Sound
<1> QED BY <1>2, <1>3, <1>4 DEF Sound

\* While the stream only grows, what is on the wire, what is shown and what a reader has
\* read stay true of it.
LEMMA GrownKeeps ==
  ASSUME StreamTypes, StreamTypes', MadeBefore, Carried, Seen, Paged, Grown,
         UNCHANGED <<wire, cursor, last, shown, page, strayed>>
  PROVE  Carried' /\ Seen' /\ Paged'
<1> USE DEF StreamTypes
<1>1. Carried'
  <2>1. ASSUME NEW i \in DOMAIN wire
        PROVE  Sound(wire[i], stored', published')
    <3>1. wire[i] \in Envelope /\ Sound(wire[i], stored, published)
      BY DEF ViewTypes, Carried
    <3> QED BY <3>1, SoundGrown
  <2> QED BY <2>1 DEF Carried
<1>2. Seen'
  <2>1. SUFFICES ASSUME ~strayed
                 PROVE  last <= Len(published') /\ Covers(shown, last, stored', published')
    BY <2>1 DEF Seen, Sequence
  <2>2. last \in Int /\ last <= Len(published) /\ Covers(shown, last, stored, published)
    BY <2>1 DEF Seen, ViewTypes, Sequence
  <2>3. Covers(shown, last, stored', published')
    BY <2>2, CoversGrown
  <2> QED BY <2>2, <2>3 DEF Grown, BrokerTypes
<1>3. Paged'
  <2>1. ASSUME NEW row \in 1 .. Len(stored) - page.next
        PROVE  row \in 1 .. Len(stored') - page.next /\ stored'[row] = stored[row]
    <3>0. page.next \in Nat
      BY DEF ViewTypes, Page
    <3>1. Len(stored) <= Len(stored') /\ Len(stored) \in Nat /\ Len(stored') \in Nat
          /\ page.next \in Nat
      BY <3>0, SMTT(30) DEF Grown, FeedTypes
    <3>2. row \in DOMAIN stored
      BY <3>1 DEF FeedTypes
    <3> QED BY <3>1, <3>2 DEF Grown
  <2>2. PagesCoverAll'
    BY DEF Paged, PagesCoverAll
  <2> QED BY <2>1, <2>2 DEF Paged
<1> QED BY <1>1, <1>2, <1>3

\* A stream that does not change has grown by nothing.
LEMMA Same ==
  ASSUME UNCHANGED <<stored, published>>, FeedTypes, BrokerTypes
  PROVE  Grown
<1>1. Len(stored) \in Nat /\ Len(published) \in Nat
  BY DEF FeedTypes, BrokerTypes
<1> QED BY <1>1 DEF Grown

-----------------------------------------------------------------------------
(* The steps, by what they do to the stream.                               *)

\* Nothing of the stream changes, unless the dashboard loads the first page.
Quiet == /\ UNCHANGED <<feedVars, brokerVars, at, wire, cursor, last, page, strayed>>
         /\ shown' \in {shown, Listing(0)}
\* The connection goes.
Gone == /\ at' = NoConn /\ wire' = <<>>
        /\ UNCHANGED <<feedVars, brokerVars, cursor, last, shown, page, strayed>>
\* A connection comes.
Opened(k) == /\ Subscribe(k)
             /\ UNCHANGED <<feedVars, published, cursor, last, shown, page, strayed>>
\* An envelope arrives.
Taken == /\ wire # <<>> /\ Head(wire) # Closed /\ cursor' = Head(wire).seq
         /\ Reduce(Head(wire)) /\ wire' = Tail(wire)
         /\ UNCHANGED <<feedVars, brokerVars, at, page, strayed>>

\* Every step is one of these.
LEMMA Steps ==
  ASSUME StreamTypes, [Next]_vars
  PROVE  /\ Attached'
         /\ \/ Quiet \/ Gone \/ Taken
            \/ \E k \in Conn : Opened(k)
            \/ \E k \in Conn : Send(k)
            \/ ApiStores \/ ApiAppends \/ LoopEmits \/ DrainCopies
            \/ DrainClears \/ Signal
            \/ ReadPage \/ Reload \/ Demonstrate \/ Restart
<1> USE DEF Attached, feedVars, brokerVars, sessionVars, gateVars, linkVars, viewVars
<1>1. Attached
  BY DEF StreamTypes
<1>2. CASE Lapse \/ OtherLogin \/ PostureChanges \/ Retry \/ UNCHANGED vars
  BY <1>1, <1>2 DEF Lapse, OtherLogin, PostureChanges, Retry, vars, Quiet
<1>3. CASE Load
  BY <1>1, <1>3 DEF Load, Quiet
<1>4. CASE Connect
  <2>1. CASE \E k \in Vacant : Subscribe(k)
    <3>1. PICK k \in Vacant : Subscribe(k)
      BY <2>1
    <3>2. k \in Conn
      BY DEF Vacant
    <3>3. UNCHANGED <<feedVars, published, viewVars, page, strayed>>
      BY <1>4 DEF Connect
    <3>4. Opened(k) /\ Attached'
      BY <3>1, <3>3 DEF Opened, Subscribe
    <3> QED BY <3>2, <3>4
  <2>2. CASE phase' \in {"login", "paused"} /\ UNCHANGED <<queue, listed, serving, at, wire>>
    <3>1. UNCHANGED <<feedVars, published, viewVars, page, strayed>> /\ at = NoConn
      BY <1>1, <1>4 DEF Connect
    <3> QED BY <2>2, <3>1 DEF Quiet
  <2> QED BY <1>4, <2>1, <2>2 DEF Connect
<1>5. CASE Login \/ Logout \/ Drop
  BY <1>5 DEF Login, Logout, Drop, Disconnected, Gone
<1>6. CASE Poll
  <2>1. CASE Disconnected("blocked") \/ Disconnected("loading")
    BY <1>6, <2>1 DEF Poll, Disconnected, Gone
  <2>2. CASE UNCHANGED linkVars
    BY <1>1, <1>6, <2>2 DEF Poll, Quiet
  <2> QED BY <1>6, <2>1, <2>2 DEF Poll
<1>7. CASE Receive
  <2>1. CASE Head(wire) = Closed
    BY <1>7, <2>1 DEF Receive, Disconnected, Gone
  <2>2. CASE Head(wire) # Closed
    BY <1>1, <1>7, <2>2 DEF Receive, Taken
  <2> QED BY <2>1, <2>2
<1>8. CASE Reload \/ Demonstrate \/ Restart
  BY <1>8 DEF Reload, Demonstrate, Restart, Disconnected
<1>9. CASE ReadPage
  BY <1>1, <1>9 DEF ReadPage
<1>10. CASE ApiStores \/ ApiAppends \/ LoopEmits \/ DrainCopies \/ DrainClears \/ Signal
  BY <1>1, <1>10 DEF ApiStores, ApiAppends, LoopEmits, DrainCopies, DrainClears, Signal
<1>11. ASSUME NEW k \in Conn, Send(k)
       PROVE  Attached'
  BY <1>1, <1>11 DEF Send
<1> QED BY <1>2, <1>3, <1>4, <1>5, <1>6, <1>7, <1>8, <1>9, <1>10, <1>11
        DEF Next, Emit, Drain, Serve, Dashboard

\* Two sequences of numbers, one after the other.
LEMMA TwoSequences ==
  ASSUME NEW s \in Seq(Nat), NEW t \in Seq(Nat)
  PROVE  s \o t \in Seq(Nat) /\ Len(s \o t) = Len(s) + Len(t)
  OBVIOUS

\* What a broker publishes goes to the end of the stream and of every queue with room.
LEMMA PublishIs ==
  ASSUME BrokerTypes, NEW batch \in Seq(Nat), Publish(batch)
  PROVE  /\ published' \in Seq(Nat) /\ Len(published') = Len(published) + Len(batch)
         /\ \A i \in DOMAIN published : i \in DOMAIN published' /\ published'[i] = published[i]
         /\ \A i \in DOMAIN published' :
              i \in DOMAIN published \/ \E j \in DOMAIN batch : published'[i] = batch[j]
         /\ listed' \subseteq listed /\ DOMAIN queue' = Conn
         /\ \A k \in Conn :
              /\ queue'[k] \in Seq(Nat)
              /\ k \notin listed => queue'[k] = queue[k]
              /\ k \in listed \ listed' => queue'[k] = <<SlowClient>>
              /\ k \in listed' =>
                   /\ Len(queue'[k]) = Len(queue[k]) + Len(batch)
                   /\ \A i \in DOMAIN queue'[k] :
                        queue'[k][i] = IF i <= Len(queue[k]) THEN queue[k][i]
                                       ELSE Len(published) + (i - Len(queue[k]))
<1> DEFINE slow == Slow(Len(batch))
           news == [i \in DOMAIN batch |-> Sequence + i]
<1>1. /\ published' = published \o batch /\ listed' = listed \ slow
      /\ queue' = [k \in Conn |-> IF k \in slow THEN <<SlowClient>>
                                  ELSE IF k \in listed THEN queue[k] \o news ELSE queue[k]]
  BY DEF Publish
<1>2. slow \subseteq listed /\ listed \subseteq Conn
  BY DEF Slow, BrokerTypes
<1>3. Sequence \in Nat /\ Len(batch) \in Nat /\ DOMAIN batch = 1 .. Len(batch)
  BY DEF BrokerTypes, Sequence
<1>4. news \in Seq(Nat) /\ Len(news) = Len(batch)
  BY <1>3
<1>5. \A i \in 1 .. Len(batch) : news[i] = Sequence + i
  BY <1>3
<1> HIDE DEF slow, news
<1>6. ASSUME NEW k \in Conn
      PROVE  /\ queue'[k] \in Seq(Nat)
             /\ k \notin listed => queue'[k] = queue[k]
             /\ k \in listed \ listed' => queue'[k] = <<SlowClient>>
             /\ k \in listed' =>
                  /\ Len(queue'[k]) = Len(queue[k]) + Len(batch)
                  /\ \A i \in DOMAIN queue'[k] :
                       queue'[k][i] = IF i <= Len(queue[k]) THEN queue[k][i]
                                      ELSE Len(published) + (i - Len(queue[k]))
  <2>1. queue[k] \in Seq(Nat)
    BY DEF BrokerTypes
  <2>2. CASE k \in slow
    <3>0. k \in listed /\ k \notin listed'
      BY <1>1, <1>2, <2>2
    <3>1. queue'[k] = <<SlowClient>>
      BY <1>1, <2>2
    <3>2. <<SlowClient>> \in Seq(Nat)
      BY DEF SlowClient
    <3> QED BY <3>0, <3>1, <3>2
  <2>3. CASE k \notin slow /\ k \in listed
    <3>1. queue'[k] = queue[k] \o news
      BY <1>1, <2>3
    <3>2. /\ queue[k] \o news \in Seq(Nat)
          /\ Len(queue[k] \o news) = Len(queue[k]) + Len(batch)
      <4>1. queue[k] \o news \in Seq(Nat) /\ Len(queue[k] \o news) = Len(queue[k]) + Len(news)
        BY <1>4, <2>1, TwoSequences
      <4> QED BY <1>4, <4>1
    <3>3. ASSUME NEW i \in 1 .. Len(queue[k]) + Len(batch)
          PROVE  (queue[k] \o news)[i] = IF i <= Len(queue[k]) THEN queue[k][i]
                                         ELSE Len(published) + (i - Len(queue[k]))
      <4>1. CASE i <= Len(queue[k])
        BY <1>4, <2>1, <4>1
      <4>2. CASE ~(i <= Len(queue[k]))
        <5>1. i - Len(queue[k]) \in 1 .. Len(batch)
          BY <1>3, <2>1, <4>2
        <5>2. (queue[k] \o news)[i] = news[i - Len(queue[k])]
          BY <1>4, <2>1, <4>2
        <5> QED BY <1>5, <4>2, <5>1, <5>2 DEF Sequence
      <4> QED BY <4>1, <4>2
    <3>4. DOMAIN (queue[k] \o news) = 1 .. Len(queue[k]) + Len(batch)
      BY <3>2
    <3> QED BY <1>1, <2>3, <3>1, <3>2, <3>3, <3>4
  <2>4. CASE k \notin slow /\ k \notin listed
    <3>1. queue'[k] = queue[k] /\ k \notin listed'
      BY <1>1, <2>4
    <3> QED BY <2>1, <2>4, <3>1
  <2> QED BY <2>2, <2>3, <2>4
<1>7. /\ published' \in Seq(Nat) /\ Len(published') = Len(published) + Len(batch)
      /\ \A i \in DOMAIN published : i \in DOMAIN published' /\ published'[i] = published[i]
      /\ \A i \in DOMAIN published' :
           i \in DOMAIN published \/ \E j \in DOMAIN batch : published'[i] = batch[j]
  <2>1. published \in Seq(Nat)
    BY DEF BrokerTypes
  <2>2. published \o batch \in Seq(Nat) /\ Len(published \o batch) = Len(published) + Len(batch)
    BY <2>1
  <2>3. \A i \in 1 .. Len(published) : (published \o batch)[i] = published[i]
    BY <2>1
  <2>4. ASSUME NEW i \in 1 .. Len(published) + Len(batch), i \notin 1 .. Len(published)
        PROVE  i - Len(published) \in DOMAIN batch
               /\ (published \o batch)[i] = batch[i - Len(published)]
    BY <1>3, <2>1, <2>4
  <2> QED BY <1>1, <2>1, <2>2, <2>3, <2>4, SMTT(30)
<1> QED BY <1>1, <1>6, <1>7

-----------------------------------------------------------------------------
\* A row is appended to the table.
LEMMA StoreIs ==
  ASSUME FeedTypes, MadeBefore, Store(made + 1)
  PROVE  /\ made' \in Nat /\ made' = made + 1 /\ stored' \in Seq(Nat)
         /\ Len(stored) <= Len(stored')
         /\ \A row \in DOMAIN stored : row \in DOMAIN stored' /\ stored'[row] = stored[row]
         /\ \A row \in DOMAIN stored' : row \in DOMAIN stored \/ stored'[row] > made
<1>1. made' = made + 1 /\ stored' = Append(stored, made + 1)
  BY DEF Store
<1>2. made \in Nat /\ stored \in Seq(Nat)
  BY DEF FeedTypes
<1>3. stored' \in Seq(Nat) /\ Len(stored') = Len(stored) + 1
  BY <1>1, <1>2
<1>4. \A row \in 1 .. Len(stored) : stored'[row] = stored[row]
  BY <1>1, <1>2
<1>5. stored'[Len(stored) + 1] = made + 1
  BY <1>1, <1>2
<1>6. \A row \in 1 .. Len(stored) + 1 : row \in 1 .. Len(stored) \/ row = Len(stored) + 1
  BY <1>2
<1> QED BY <1>1, <1>2, <1>3, <1>4, <1>5, <1>6

\* What waits to be published is a sequence of alerts that are made.
LEMMA Waiting ==
  ASSUME FeedTypes, MadeBefore, NEW a \in Nat, a <= made
  PROVE  Append(pending, a) \in Seq(Nat) /\ NoneAhead(Append(pending, a))
<1>1. pending \in Seq(Nat)
  BY DEF FeedTypes
<1>2. Append(pending, a) \in Seq(Nat) /\ Len(Append(pending, a)) = Len(pending) + 1
  BY <1>1
<1>3. \A i \in 1 .. Len(pending) : Append(pending, a)[i] = pending[i] /\ pending[i] <= made
  BY <1>1 DEF MadeBefore, NoneAhead
<1>4. Append(pending, a)[Len(pending) + 1] = a
  BY <1>1
<1>5. \A i \in 1 .. Len(pending) + 1 : i \in 1 .. Len(pending) \/ i = Len(pending) + 1
  BY <1>1
<1> QED BY <1>2, <1>3, <1>4, <1>5 DEF NoneAhead

\* An alert is stored, queued or taken to be published; the stream has not moved.
LEMMA FeedKeeps ==
  ASSUME StreamInv, Attached', ApiStores \/ ApiAppends \/ LoopEmits \/ DrainCopies
  PROVE  StreamInv'
<1> USE DEF feedVars, brokerVars, linkVars, viewVars
<1>1. FeedTypes /\ BrokerTypes /\ ViewTypes /\ MadeBefore
  BY DEF StreamInv, StreamTypes
<1>2. UNCHANGED <<published, queue, listed, serving, at, wire, cursor, last, shown, page, strayed>>
  BY DEF ApiStores, ApiAppends, LoopEmits, DrainCopies
<1>3. BrokerTypes' /\ ViewTypes'
  BY <1>1, <1>2 DEF BrokerTypes, ViewTypes
<1>4. FeedTypes' /\ MadeBefore' /\ Grown
  <2>1. CASE ApiStores
    <3>1. Store(made + 1) /\ held' = made + 1 /\ UNCHANGED <<pending, taken, published>>
      BY <2>1 DEF ApiStores
    <3>2. made \in Nat /\ FeedTypes'
      BY <1>1, <3>1, StoreIs DEF FeedTypes
    <3>3. MadeBefore'
      <4>1. \A ids \in Seq(Nat) : NoneAhead(ids) => \A i \in DOMAIN ids : ids[i] <= made + 1
        BY <3>2 DEF NoneAhead
      <4>2. pending \in Seq(Nat) /\ published \in Seq(Nat)
            /\ (taken # <<>> => taken[1] \in Seq(Nat))
        BY <1>1 DEF FeedTypes, BrokerTypes
      <4>3. made' = made + 1
        BY <1>1, <3>1, StoreIs
      <4> QED BY <1>1, <3>1, <3>2, <4>1, <4>2, <4>3 DEF MadeBefore, NoneAhead
    <3>4. Grown
      BY <1>1, <3>1, StoreIs DEF Grown, BrokerTypes
    <3> QED BY <3>2, <3>3, <3>4
  <2>2. CASE ApiAppends
    <3>1. pending' = Append(pending, held) /\ held' = 0
          /\ UNCHANGED <<made, stored, taken, published>>
      BY <2>2 DEF ApiAppends
    <3>2. held \in Nat /\ held <= made
      BY <1>1 DEF FeedTypes, MadeBefore
    <3>3. pending' \in Seq(Nat) /\ NoneAhead(Append(pending, held))
      BY <1>1, <3>1, <3>2, Waiting
    <3>4. FeedTypes'
      BY <1>1, <3>1, <3>3 DEF FeedTypes
    <3>5. MadeBefore'
      BY <1>1, <3>1, <3>3 DEF MadeBefore, NoneAhead, FeedTypes
    <3> QED BY <1>1, <1>2, <3>1, <3>4, <3>5, Same
  <2>3. CASE LoopEmits
    <3>1. Store(made + 1) /\ pending' = Append(pending, made + 1)
          /\ UNCHANGED <<held, taken, published>> /\ taken = <<>>
      BY <2>3 DEF LoopEmits
    <3>2. made \in Nat /\ made' = made + 1
      BY <1>1, <3>1, StoreIs DEF FeedTypes
    <3>3. pending' \in Seq(Nat) /\ Len(pending') = Len(pending) + 1
      BY <1>1, <3>1, <3>2 DEF FeedTypes
    <3>4. \A i \in DOMAIN pending' : pending'[i] <= made + 1
      <4>1. \A i \in 1 .. Len(pending) : pending'[i] = pending[i] /\ pending[i] <= made
            /\ pending[i] \in Nat
        BY <1>1, <3>1 DEF MadeBefore, NoneAhead, FeedTypes
      <4>2. pending'[Len(pending) + 1] = made + 1
        BY <1>1, <3>1 DEF FeedTypes
      <4>3. \A i \in 1 .. Len(pending) + 1 : i \in 1 .. Len(pending) \/ i = Len(pending) + 1
        BY <1>1 DEF FeedTypes
      <4> QED BY <3>2, <3>3, <4>1, <4>2, <4>3
    <3>5. FeedTypes'
      BY <1>1, <3>1, <3>2, <3>3, StoreIs DEF FeedTypes
    <3>6. held <= made + 1 /\ \A i \in DOMAIN published : published[i] <= made + 1
      <4>1. \A i \in DOMAIN published : published[i] \in Nat /\ published[i] <= made
        BY <1>1 DEF MadeBefore, NoneAhead, BrokerTypes
      <4>2. held \in Nat /\ held <= made
        BY <1>1 DEF MadeBefore, FeedTypes
      <4> QED BY <3>2, <4>1, <4>2
    <3>7. MadeBefore'
      BY <3>1, <3>2, <3>4, <3>6 DEF MadeBefore, NoneAhead
    <3>8. Grown
      BY <1>1, <3>1, StoreIs DEF Grown, BrokerTypes
    <3> QED BY <3>5, <3>7, <3>8
  <2>4. CASE DrainCopies
    <3>1. taken' = <<pending>> /\ UNCHANGED <<made, stored, held, pending, published>>
      BY <2>4 DEF DrainCopies
    <3>2. taken'[1] = pending /\ pending \in Seq(Nat)
      BY <1>1, <3>1 DEF FeedTypes
    <3>3. FeedTypes' /\ MadeBefore'
      BY <1>1, <3>1, <3>2 DEF FeedTypes, MadeBefore, NoneAhead
    <3> QED BY <1>1, <1>2, <3>1, <3>3, Same
  <2> QED BY <2>1, <2>2, <2>3, <2>4
<1>5. Carried' /\ Seen' /\ Paged'
  BY <1>2, <1>3, <1>4, GrownKeeps DEF StreamInv, StreamTypes
<1>6. Queues' /\ Following'
  BY <1>2 DEF StreamInv, Queues, Following, Due, Sequence
<1> QED BY <1>3, <1>4, <1>5, <1>6 DEF StreamInv, StreamTypes

\* A place in a queue that a batch was appended to is of the queue or of the batch.
LEMMA InTheBatch ==
  \A p, b, q, i \in Nat :
    i >= 1 /\ i <= q + b /\ ~(i <= q) => p + (i - q) \in 1 .. p + b
  OBVIOUS

\* A batch that is published follows what every open queue holds; a queue without room
\* is replaced by the mark that its client was too slow.
LEMMA PublishKeeps ==
  ASSUME StreamInv, NEW batch \in Seq(Nat), Publish(batch),
         UNCHANGED <<serving, at, wire, cursor, last, shown, page, strayed>>
  PROVE  BrokerTypes' /\ ViewTypes' /\ Queues' /\ Following'
<1>1. BrokerTypes /\ ViewTypes /\ Queues /\ Following
  BY DEF StreamInv, StreamTypes
<1>2. /\ published' \in Seq(Nat) /\ Len(published') = Len(published) + Len(batch)
      /\ listed' \subseteq listed /\ DOMAIN queue' = Conn
      /\ \A k \in Conn : queue'[k] \in Seq(Nat)
  BY <1>1, PublishIs
<1>3. /\ Len(published) \in Nat /\ Len(batch) \in Nat /\ Len(published') \in Nat
      /\ listed \subseteq Conn /\ serving \subseteq Conn
  BY <1>1, <1>2 DEF BrokerTypes
<1>4. BrokerTypes' /\ ViewTypes'
  <2>1. queue' \in [Conn -> Seq(Nat)]
    <3>1. \E batches : queue' = [k \in Conn |-> batches[k]]
      <4>1. queue' = [k \in Conn |-> queue'[k]]
        BY DEF Publish
      <4> QED BY <4>1
    <3> QED BY <1>2, <3>1
  <2> QED BY <1>1, <1>2, <2>1 DEF BrokerTypes, ViewTypes
<1>5. ASSUME NEW k \in listed'
      PROVE  /\ k \in listed /\ k \in Conn
             /\ queue[k] \in Seq(Nat) /\ queue'[k] \in Seq(Nat)
             /\ Len(queue'[k]) = Len(queue[k]) + Len(batch)
             /\ \A i \in DOMAIN queue'[k] :
                  queue'[k][i] = IF i <= Len(queue[k]) THEN queue[k][i]
                                 ELSE Len(published) + (i - Len(queue[k]))
  BY <1>1, <1>2, <1>3, PublishIs DEF BrokerTypes
<1>6. Queues'
  <2>1. ASSUME NEW k \in serving, k \in listed', NEW i \in DOMAIN queue'[k]
        PROVE  queue'[k][i] \in 1 .. Len(published')
    <3>0. /\ DOMAIN queue'[k] = 1 .. Len(queue'[k]) /\ Len(queue'[k]) = Len(queue[k]) + Len(batch)
          /\ Len(queue[k]) \in Nat
      BY <1>5, <2>1
    <3>1. i \in Nat /\ i >= 1 /\ i <= Len(queue[k]) + Len(batch) /\ Len(queue[k]) \in Nat
      BY <1>3, <2>1, <3>0
    <3>2. CASE i <= Len(queue[k])
      <4>1. i \in DOMAIN queue[k] /\ queue'[k][i] = queue[k][i]
        BY <1>5, <2>1, <3>1, <3>2
      <4>2. queue[k][i] \in 1 .. Len(published)
        BY <1>1, <1>5, <2>1, <4>1 DEF Queues, Sequence
      <4> QED BY <1>2, <1>3, <4>1, <4>2
    <3>3. CASE ~(i <= Len(queue[k]))
      <4>1. queue'[k][i] = Len(published) + (i - Len(queue[k]))
        BY <1>5, <2>1, <3>3
      <4>2. Len(published) + (i - Len(queue[k])) \in 1 .. Len(published) + Len(batch)
        BY <1>3, <3>1, <3>3, InTheBatch
      <4> QED BY <1>2, <4>1, <4>2
    <3> QED BY <3>2, <3>3
  <2>2. ASSUME NEW k \in serving, k \notin listed'
        PROVE  queue'[k] = <<SlowClient>>
    <3>1. k \in Conn
      BY <1>3
    <3>2. CASE k \in listed
      BY <1>1, <2>2, <3>1, <3>2, PublishIs
    <3>3. CASE k \notin listed
      BY <1>1, <2>2, <3>1, <3>3, PublishIs DEF Queues
    <3> QED BY <3>2, <3>3
  <2> QED BY <2>1, <2>2 DEF Queues, Sequence
<1>7. Following'
  <2> SUFFICES ASSUME at \in listed'
               PROVE  /\ \A i \in DOMAIN wire : wire[i].seq = Due + i - 1
                      /\ \A i \in DOMAIN queue'[at] : queue'[at][i] = Due + Len(wire) + i - 1
                      /\ Due + Len(wire) + Len(queue'[at]) = Len(published') + 1
                      /\ wire = <<>> => cursor >= 0
    BY DEF Following, Due, Sequence
  <2> DEFINE d == Due
             w == Len(wire)
             q == Len(queue[at])
             p == Len(published)
             b == Len(batch)
  <2>1. /\ \A i \in DOMAIN wire : wire[i].seq = Due + i - 1
        /\ \A i \in DOMAIN queue[at] : queue[at][i] = Due + Len(wire) + i - 1
        /\ Due + Len(wire) + Len(queue[at]) = Len(published) + 1
        /\ wire = <<>> => cursor >= 0
    BY <1>1, <1>2 DEF Following, Sequence
  <2>2. Due \in Int /\ Len(wire) \in Nat
    <3>1. wire \in Seq(Envelope) /\ cursor \in Int
      BY <1>1 DEF ViewTypes
    <3>2. wire # <<>> => wire[1] \in Envelope
      BY <3>1
    <3> QED BY <3>1, <3>2 DEF Due, Envelope
  <2>3. Len(queue[at]) \in Nat
    BY <1>5
  <2>4. Due + Len(wire) + Len(queue'[at]) = Len(published') + 1
    <3>1. Len(queue'[at]) = Len(queue[at]) + Len(batch)
      BY <1>5
    <3>2. Due + Len(wire) + (Len(queue[at]) + Len(batch)) = (Len(published) + Len(batch)) + 1
      <4>1. d \in Int /\ w \in Nat /\ q \in Nat /\ p \in Nat /\ b \in Nat /\ d + w + q = p + 1
        BY <1>3, <2>1, <2>2, <2>3
      <4>2. d + w + (q + b) = (p + b) + 1
        <5> HIDE DEF d, w, q, p, b
        <5> QED BY <4>1
      <4> QED BY <4>2
    <3> QED BY <1>2, <3>1, <3>2
  <2>5. ASSUME NEW i \in DOMAIN queue'[at]
        PROVE  queue'[at][i] = Due + Len(wire) + i - 1
    <3>1. i \in Nat /\ i >= 1
      BY <1>5
    <3>2. CASE i <= Len(queue[at])
      <4>1. i \in DOMAIN queue[at]
        BY <1>5, <3>1, <3>2
      <4> QED BY <1>5, <2>1, <3>2, <4>1
    <3>3. CASE ~(i <= Len(queue[at]))
      <4>1. queue'[at][i] = Len(published) + (i - Len(queue[at]))
        BY <1>5, <3>3
      <4>2. Len(published) + (i - Len(queue[at])) = Due + Len(wire) + i - 1
        <5>1. d \in Int /\ w \in Nat /\ q \in Nat /\ p \in Nat /\ d + w + q = p + 1
          BY <1>3, <2>1, <2>2, <2>3
        <5>2. p + (i - q) = d + w + i - 1
          <6> HIDE DEF d, w, q, p
          <6> QED BY <3>1, <5>1
        <5> QED BY <5>2
      <4> QED BY <4>1, <4>2
    <3> QED BY <3>2, <3>3
  <2> QED BY <2>1, <2>4, <2>5
<1> QED BY <1>4, <1>6, <1>7

\* The event loop publishes what it has taken.
LEMMA DrainKeeps ==
  ASSUME StreamInv, Attached', DrainClears
  PROVE  StreamInv'
<1>1. FeedTypes /\ BrokerTypes /\ ViewTypes /\ MadeBefore
  BY DEF StreamInv, StreamTypes
<1>2. /\ taken # <<>> /\ pending' = <<>> /\ taken' = <<>> /\ Publish(Head(taken))
      /\ UNCHANGED <<made, stored, held, serving, at, wire, cursor, last, shown, page, strayed>>
  BY DEF DrainClears, linkVars, viewVars
<1>3. PICK batch \in Seq(Nat) : taken = <<batch>>
  BY <1>1, <1>2 DEF FeedTypes
<1>4. Publish(batch) /\ \A j \in DOMAIN batch : batch[j] <= made
  BY <1>1, <1>2, <1>3 DEF MadeBefore, NoneAhead
<1>5. BrokerTypes' /\ ViewTypes' /\ Queues' /\ Following'
  BY <1>2, <1>4, PublishKeeps
<1>6. FeedTypes'
  BY <1>1, <1>2 DEF FeedTypes
<1>7. /\ \A i \in DOMAIN published : i \in DOMAIN published' /\ published'[i] = published[i]
      /\ \A i \in DOMAIN published' : published'[i] <= made
      /\ Len(published) <= Len(published')
  <2>1. /\ Len(published') = Len(published) + Len(batch)
        /\ \A i \in DOMAIN published : i \in DOMAIN published' /\ published'[i] = published[i]
        /\ \A i \in DOMAIN published' :
             i \in DOMAIN published \/ \E j \in DOMAIN batch : published'[i] = batch[j]
    BY <1>1, <1>4, PublishIs
  <2>2. Len(published) <= Len(published')
    BY <1>1, <2>1 DEF BrokerTypes
  <2>3. \A i \in DOMAIN published : published[i] <= made
    BY <1>1 DEF MadeBefore, NoneAhead
  <2> QED BY <1>4, <2>1, <2>2, <2>3
<1>8. MadeBefore' /\ Grown
  <2>1. Len(stored) <= Len(stored)
    BY <1>1 DEF FeedTypes
  <2> QED BY <1>1, <1>2, <1>7, <2>1 DEF MadeBefore, NoneAhead, Grown
<1>9. Carried' /\ Seen' /\ Paged'
  BY <1>2, <1>5, <1>6, <1>8, GrownKeeps DEF StreamInv, StreamTypes
<1> QED BY <1>5, <1>6, <1>8, <1>9 DEF StreamInv, StreamTypes

\* A signal is published past the list, stored or not.
LEMMA SignalKeeps ==
  ASSUME StreamInv, Attached', Signal
  PROVE  StreamInv'
<1>1. FeedTypes /\ BrokerTypes /\ ViewTypes /\ MadeBefore
  BY DEF StreamInv, StreamTypes
<1>2. /\ made' = made + 1 /\ stored' \in {stored, Append(stored, made + 1)}
      /\ Publish(<<made + 1>>)
      /\ UNCHANGED <<held, pending, taken, serving, at, wire, cursor, last, shown, page, strayed>>
  BY DEF Signal, linkVars, viewVars
<1>3. /\ made \in Nat /\ <<made + 1>> \in Seq(Nat)
      /\ \A j \in DOMAIN <<made + 1>> : <<made + 1>>[j] = made + 1
  BY <1>1 DEF FeedTypes
<1>4. BrokerTypes' /\ ViewTypes' /\ Queues' /\ Following'
  BY <1>2, <1>3, PublishKeeps
<1>5. /\ stored' \in Seq(Nat) /\ Len(stored) <= Len(stored')
      /\ \A row \in DOMAIN stored : row \in DOMAIN stored' /\ stored'[row] = stored[row]
      /\ \A row \in DOMAIN stored' : row \in DOMAIN stored \/ stored'[row] > made
  <2>1. CASE stored' = stored
    BY <1>1, <2>1 DEF FeedTypes
  <2>2. CASE stored' = Append(stored, made + 1)
    BY <1>1, <1>2, <2>2, StoreIs DEF Store
  <2> QED BY <1>2, <2>1, <2>2
<1>6. FeedTypes'
  BY <1>1, <1>2, <1>3, <1>5 DEF FeedTypes
<1>7. /\ \A i \in DOMAIN published : i \in DOMAIN published' /\ published'[i] = published[i]
      /\ \A i \in DOMAIN published' : i \in DOMAIN published \/ published'[i] = made + 1
      /\ Len(published) <= Len(published')
  <2>1. /\ Len(published') = Len(published) + Len(<<made + 1>>)
        /\ \A i \in DOMAIN published : i \in DOMAIN published' /\ published'[i] = published[i]
        /\ \A i \in DOMAIN published' :
             i \in DOMAIN published \/ \E j \in DOMAIN <<made + 1>> : published'[i] = <<made + 1>>[j]
    BY <1>1, <1>2, <1>3, PublishIs
  <2>2. Len(published) <= Len(published')
    BY <1>1, <2>1 DEF BrokerTypes
  <2> QED BY <1>3, <2>1, <2>2
<1>8. \A i \in DOMAIN published' : published'[i] <= made + 1
  <2>1. \A i \in DOMAIN published : published[i] \in Nat /\ published[i] <= made
    BY <1>1 DEF MadeBefore, NoneAhead, BrokerTypes
  <2> QED BY <1>3, <1>7, <2>1
<1>9. \A ids \in Seq(Nat) : NoneAhead(ids) => \A i \in DOMAIN ids : ids[i] <= made + 1
  BY <1>3 DEF NoneAhead
<1>10. pending \in Seq(Nat) /\ (taken # <<>> => taken[1] \in Seq(Nat)) /\ held \in Nat
  BY <1>1 DEF FeedTypes
<1>11. held <= made + 1
  BY <1>1, <1>3, <1>10 DEF MadeBefore
<1>12. MadeBefore'
  BY <1>1, <1>2, <1>8, <1>9, <1>10, <1>11 DEF MadeBefore, NoneAhead
<1>13. Grown
  BY <1>5, <1>7 DEF Grown
<1>14. Carried' /\ Seen' /\ Paged'
  BY <1>2, <1>4, <1>6, <1>13, GrownKeeps DEF StreamInv, StreamTypes
<1> QED BY <1>4, <1>6, <1>12, <1>14 DEF StreamInv, StreamTypes

\* Nothing happens to the stream; the first page shows what it has to.
LEMMA QuietKeeps ==
  ASSUME StreamInv, Attached', Quiet
  PROVE  StreamInv'
<1>1. FeedTypes /\ BrokerTypes /\ ViewTypes
  BY DEF StreamInv, StreamTypes
<1>2. UNCHANGED <<made, stored, held, pending, taken, published, queue, listed, serving, at, wire,
                  cursor, last, page, strayed>>
  BY DEF Quiet, feedVars, brokerVars
<1>3. FeedTypes' /\ BrokerTypes' /\ MadeBefore'
  BY <1>2 DEF StreamInv, StreamTypes, FeedTypes, BrokerTypes, MadeBefore, NoneAhead
<1>4. shown' \in Seq(Nat)
  BY <1>1, ListingIs DEF Quiet, FeedTypes, ViewTypes
<1>5. ViewTypes'
  BY <1>1, <1>2, <1>4 DEF ViewTypes
<1>6. Queues' /\ Following' /\ Carried'
  BY <1>2 DEF StreamInv, Queues, Following, Carried, Due, Sequence
<1>7. Paged'
  BY <1>2 DEF StreamInv, Paged, PagesCoverAll
<1>8. Seen'
  <2>1. CASE shown' = shown
    BY <1>2, <2>1 DEF StreamInv, Seen, Sequence
  <2>2. CASE shown' = Listing(0)
    <3>1. Covers(shown', last, stored, published)
      BY <1>1, <2>2, ListingCovers DEF FeedTypes
    <3> QED BY <1>2, <3>1 DEF StreamInv, Seen, Sequence
  <2> QED BY <2>1, <2>2 DEF Quiet
<1> QED BY <1>3, <1>5, <1>6, <1>7, <1>8 DEF StreamInv, StreamTypes

\* There is no connection that would be owed anything.
LEMMA NoneOpen ==
  ASSUME at' = NoConn, wire' = <<>>, BrokerTypes'
  PROVE  Following' /\ Carried'
<1>1. at' \notin listed'
  BY StreamAssumption DEF BrokerTypes
<1> QED BY <1>1 DEF Following, Carried

\* The connection goes with what was on its way.
LEMMA GoneKeeps ==
  ASSUME StreamInv, Attached', Gone
  PROVE  StreamInv'
<1>1. /\ at' = NoConn /\ wire' = <<>>
      /\ UNCHANGED <<made, stored, held, pending, taken, published, queue, listed, serving,
                     cursor, last, shown, page, strayed>>
  BY DEF Gone, feedVars, brokerVars
<1>2. FeedTypes' /\ BrokerTypes' /\ MadeBefore' /\ Queues'
  BY <1>1 DEF StreamInv, StreamTypes, FeedTypes, BrokerTypes, MadeBefore, NoneAhead, Queues, Sequence
<1>3. wire' \in Seq(Envelope)
  BY <1>1
<1>4. ViewTypes'
  BY <1>1, <1>3 DEF StreamInv, StreamTypes, ViewTypes
<1>5. Seen' /\ Paged'
  BY <1>1 DEF StreamInv, Seen, Paged, PagesCoverAll, Sequence
<1>6. Following' /\ Carried'
  BY <1>1, <1>2, NoneOpen
<1> QED BY <1>2, <1>4, <1>5, <1>6 DEF StreamInv, StreamTypes

\* The parts that a step of the server to its clients cannot touch.
LEMMA ServerKeeps ==
  ASSUME StreamInv,
         UNCHANGED <<made, stored, held, pending, taken, published, cursor, last, shown, page, strayed>>
  PROVE  FeedTypes' /\ MadeBefore' /\ Seen' /\ Paged'
  BY DEF StreamInv, StreamTypes, FeedTypes, MadeBefore, NoneAhead, Seen, Paged, PagesCoverAll,
         Sequence

\* A sequence is prolonged by one.
LEMMA Prolonged ==
  ASSUME NEW S, NEW s \in Seq(S), NEW e \in S
  PROVE  /\ Append(s, e) \in Seq(S) /\ Len(Append(s, e)) = Len(s) + 1 /\ Append(s, e) # <<>>
         /\ \A i \in DOMAIN Append(s, e) : IF i <= Len(s) THEN i \in DOMAIN s
                                                           ELSE i = Len(s) + 1
         /\ \A i \in DOMAIN s : Append(s, e)[i] = s[i]
         /\ Append(s, e)[Len(s) + 1] = e /\ Len(s) \in Nat /\ DOMAIN s = 1 .. Len(s)
<1>1. Append(s, e) \in Seq(S) /\ Len(Append(s, e)) = Len(s) + 1 /\ Len(s) \in Nat
  OBVIOUS
<1>2. \A i \in DOMAIN s : Append(s, e)[i] = s[i]
  OBVIOUS
<1>3. Append(s, e)[Len(s) + 1] = e /\ Append(s, e) # <<>>
  OBVIOUS
<1> QED BY <1>1, <1>2, <1>3

\* A sequence loses its first element.
LEMMA Shortened ==
  ASSUME NEW S, NEW s \in Seq(S), s # <<>>
  PROVE  /\ Head(s) = s[1] /\ Head(s) \in S /\ 1 \in DOMAIN s
         /\ Tail(s) \in Seq(S) /\ Len(Tail(s)) = Len(s) - 1 /\ Len(s) \in Nat
         /\ \A i \in DOMAIN Tail(s) : i + 1 \in DOMAIN s /\ Tail(s)[i] = s[i + 1]
  OBVIOUS

\* The number that is due next is a number.
LEMMA DueIs == ViewTypes => Due \in Int
<1> SUFFICES ASSUME ViewTypes PROVE Due \in Int
  OBVIOUS
<1>1. wire \in Seq(Envelope) /\ cursor \in Int
  BY DEF ViewTypes
<1>2. wire # <<>> => wire[1] \in Envelope
  BY <1>1
<1> QED BY <1>1, <1>2 DEF Due, Envelope

\* The next event of a queue is moved to the wire: what is owed stays the same.
LEMMA EventKeeps ==
  ASSUME StreamInv, Attached', NEW k \in serving, queue[k] # <<>>, k = at,
         Head(queue[k]) # SlowClient,
         wire' = Append(wire, Event(Head(queue[k]))),
         queue' = [queue EXCEPT ![k] = Tail(@)],
         UNCHANGED <<made, stored, held, pending, taken, published, listed, serving, at,
                     cursor, last, shown, page, strayed>>
  PROVE  StreamInv'
<1> DEFINE h == Head(queue[k])
           d == Due
           w == Len(wire)
           q == Len(queue[k])
<1>1. FeedTypes /\ BrokerTypes /\ ViewTypes /\ Queues /\ Following /\ Carried
  BY DEF StreamInv, StreamTypes
<1>2. k \in Conn /\ queue[k] \in Seq(Nat) /\ wire \in Seq(Envelope) /\ published \in Seq(Nat)
  BY <1>1 DEF BrokerTypes, ViewTypes
<1>3. /\ h = queue[k][1] /\ 1 \in DOMAIN queue[k] /\ Tail(queue[k]) \in Seq(Nat)
      /\ Len(Tail(queue[k])) = q - 1 /\ q \in Nat
      /\ \A i \in DOMAIN Tail(queue[k]) :
           i + 1 \in DOMAIN queue[k] /\ Tail(queue[k])[i] = queue[k][i + 1]
  BY <1>2, Shortened
<1>4. k \in listed /\ at \in listed
  <2>1. k \notin listed => h = SlowClient
    BY <1>1 DEF Queues
  <2> QED BY <2>1
<1>5. h \in 1 .. Sequence
  BY <1>1, <1>3, <1>4 DEF Queues
<1>6. Event(h) \in Envelope /\ Event(h).seq = h /\ ~Event(h).snapshot
      /\ Event(h).alerts = <<published[h]>>
  BY <1>2, <1>5, EventIs
<1>7. /\ wire' \in Seq(Envelope) /\ Len(wire') = w + 1 /\ wire' # <<>> /\ w \in Nat
      /\ \A i \in DOMAIN wire' : IF i <= w THEN i \in DOMAIN wire ELSE i = w + 1
      /\ \A i \in DOMAIN wire : wire'[i] = wire[i]
      /\ wire'[w + 1] = Event(h) /\ DOMAIN wire = 1 .. w
  <2> DEFINE e == Event(h)
  <2>1. wire' = Append(wire, e) /\ e \in Envelope /\ wire \in Seq(Envelope)
    BY <1>2, <1>6
  <2> HIDE DEF e
  <2> QED BY <2>1, Prolonged DEF e
<1>8. /\ queue' \in [Conn -> Seq(Nat)] /\ queue'[k] = Tail(queue[k])
      /\ \A c \in Conn : c # k => queue'[c] = queue[c]
  BY <1>1, <1>2, <1>3 DEF BrokerTypes
<1>9. /\ \A i \in DOMAIN wire : wire[i].seq = d + i - 1
      /\ \A i \in DOMAIN queue[k] : queue[k][i] = d + w + i - 1
      /\ d + w + q = Sequence + 1
      /\ wire = <<>> => cursor >= 0
  BY <1>1, <1>4 DEF Following
<1>10. d \in Int /\ Sequence \in Nat
  BY <1>1, <1>2, DueIs DEF Sequence
<1>11. wire'[1] = (IF wire = <<>> THEN Event(h) ELSE wire[1])
  <2>1. CASE wire = <<>>
    <3>1. w = 0
      BY <2>1
    <3>2. wire'[0 + 1] = Event(h)
      BY <1>7, <3>1
    <3> QED BY <2>1, <3>2
  <2>2. CASE wire # <<>>
    <3>1. 1 \in DOMAIN wire
      BY <1>2, <2>2
    <3> QED BY <1>7, <2>2, <3>1
  <2> QED BY <2>1, <2>2
<1>12. Due' = d
  BY <1>6, <1>7, <1>11 DEF Due
<1>13. FeedTypes' /\ MadeBefore' /\ Seen' /\ Paged'
  BY ServerKeeps
<1>14. BrokerTypes' /\ ViewTypes'
  BY <1>1, <1>7, <1>8 DEF BrokerTypes, ViewTypes
<1>15. Queues'
  <2>1. ASSUME NEW c \in serving', c \in listed', NEW i \in DOMAIN queue'[c]
        PROVE  queue'[c][i] \in 1 .. Sequence'
    <3>1. CASE c = k
      <4>1. i + 1 \in DOMAIN queue[k] /\ queue'[c][i] = queue[k][i + 1]
        BY <1>3, <1>8, <2>1, <3>1
      <4> QED BY <1>1, <1>4, <4>1 DEF Queues, Sequence
    <3>2. CASE c # k
      <4>1. c \in Conn /\ c \in serving /\ c \in listed
        BY <1>1, <2>1 DEF BrokerTypes
      <4>2. queue'[c] = queue[c]
        BY <1>8, <3>2, <4>1
      <4> QED BY <1>1, <2>1, <4>1, <4>2 DEF Queues, Sequence
    <3> QED BY <3>1, <3>2
  <2>2. ASSUME NEW c \in serving', c \notin listed'
        PROVE  queue'[c] = <<SlowClient>>
    <3>1. c \in Conn /\ c \in serving /\ c \notin listed /\ c # k
      BY <1>1, <1>4, <2>2 DEF BrokerTypes
    <3> QED BY <1>1, <1>8, <3>1 DEF Queues
  <2> QED BY <2>1, <2>2 DEF Queues
<1> HIDE DEF h, d, w, q
<1>16. h = d + w
  <2>1. h = d + w + 1 - 1
    BY <1>3, <1>9
  <2> QED BY <1>7, <1>10, <2>1
<1>17. Following'
  <2>1. ASSUME NEW i \in DOMAIN wire'
        PROVE  wire'[i].seq = d + i - 1
    <3>1. CASE i <= w
      BY <1>7, <1>9, <2>1, <3>1
    <3>2. CASE ~(i <= w)
      <4>1. i = w + 1 /\ wire'[i] = Event(h)
        BY <1>7, <2>1, <3>2
      <4>2. d + (w + 1) - 1 = d + w
        BY <1>7, <1>10
      <4> QED BY <1>6, <1>16, <4>1, <4>2
    <3> QED BY <3>1, <3>2
  <2>2. ASSUME NEW i \in DOMAIN queue'[k]
        PROVE  queue'[k][i] = d + (w + 1) + i - 1
    <3>1. i + 1 \in DOMAIN queue[k] /\ queue'[k][i] = queue[k][i + 1] /\ i \in Int
      BY <1>2, <1>3, <1>8, <2>2
    <3>2. queue'[k][i] = d + w + (i + 1) - 1
      BY <1>9, <3>1
    <3> QED BY <1>7, <1>10, <3>1, <3>2
  <2>3. d + (w + 1) + Len(queue'[k]) = Sequence + 1
    <3>1. Len(queue'[k]) = q - 1
      BY <1>3, <1>8
    <3>2. d + (w + 1) + (q - 1) = d + w + q
      BY <1>3, <1>7, <1>10
    <3> QED BY <1>9, <3>1, <3>2
  <2> QED BY <1>7, <1>12, <2>1, <2>2, <2>3 DEF Following, Sequence
<1>18. Carried'
  <2>1. ASSUME NEW i \in DOMAIN wire'
        PROVE  Sound(wire'[i], stored, published) /\ (wire'[i].snapshot => i = 1)
    <3>1. CASE i <= w
      BY <1>1, <1>7, <2>1, <3>1 DEF Carried
    <3>2. CASE ~(i <= w)
      <4>1. wire'[i] = Event(h)
        BY <1>7, <2>1, <3>2
      <4>2. Sound(Event(h), stored, published)
        BY <1>5, <1>6 DEF Sound, Sequence
      <4> QED BY <1>6, <4>1, <4>2
    <3> QED BY <3>1, <3>2
  <2>2. ~wire'[1].snapshot /\ wire'[1] # Closed => cursor >= 0
    BY <1>1, <1>9, <1>11 DEF Carried
  <2> QED BY <2>1, <2>2 DEF Carried
<1> QED BY <1>13, <1>14, <1>15, <1>17, <1>18 DEF StreamInv, StreamTypes

\* A route ends: its client was too slow, or is gone.
LEMMA CloseKeeps ==
  ASSUME StreamInv, Attached', NEW k \in serving,
         wire' = (IF k = at THEN Append(wire, Closed) ELSE wire),
         queue' = [queue EXCEPT ![k] = <<>>],
         listed' = listed \ {k}, serving' = serving \ {k},
         UNCHANGED <<made, stored, held, pending, taken, published, at,
                     cursor, last, shown, page, strayed>>
  PROVE  StreamInv'
<1>1. FeedTypes /\ BrokerTypes /\ ViewTypes /\ Queues /\ Following /\ Carried
  BY DEF StreamInv, StreamTypes
<1>2. k \in Conn /\ wire \in Seq(Envelope) /\ published \in Seq(Nat) /\ stored \in Seq(Nat)
  BY <1>1 DEF BrokerTypes, ViewTypes, FeedTypes
<1>3. Closed \in Envelope /\ ~Closed.snapshot
  BY <1>2, SnapshotIs
<1>4. FeedTypes' /\ MadeBefore' /\ Seen' /\ Paged'
  BY ServerKeeps
<1>5. /\ queue' \in [Conn -> Seq(Nat)]
      /\ \A c \in Conn : c # k => queue'[c] = queue[c]
  <2>1. <<>> \in Seq(Nat)
    OBVIOUS
  <2> QED BY <1>1, <1>2, <2>1 DEF BrokerTypes
<1>6. wire' \in Seq(Envelope)
  BY <1>2, <1>3, Prolonged
<1>7. BrokerTypes' /\ ViewTypes'
  BY <1>1, <1>5, <1>6 DEF BrokerTypes, ViewTypes
<1>8. Queues'
  <2>1. \A c \in serving' : c \in Conn /\ c # k /\ c \in serving /\ (c \in listed' <=> c \in listed)
    BY <1>1 DEF BrokerTypes
  <2> QED BY <1>1, <1>5, <2>1 DEF Queues, Sequence
<1>9. Following'
  <2> SUFFICES ASSUME at \in listed'
               PROVE  Following'
    BY DEF Following
  <2>1. at # k /\ at \in listed /\ at \in Conn /\ wire' = wire
    BY <1>1 DEF BrokerTypes
  <2>2. queue'[at] = queue[at]
    BY <1>5, <2>1
  <2> QED BY <1>1, <2>1, <2>2 DEF Following, Due, Sequence
<1>10. Carried'
  <2>1. CASE k # at
    BY <1>1, <2>1 DEF Carried
  <2>2. CASE k = at
    <3> DEFINE w == Len(wire)
    <3>1. /\ wire' \in Seq(Envelope) /\ Len(wire') = w + 1 /\ wire' # <<>> /\ w \in Nat
          /\ \A i \in DOMAIN wire' : IF i <= w THEN i \in DOMAIN wire ELSE i = w + 1
          /\ \A i \in DOMAIN wire : wire'[i] = wire[i]
          /\ wire'[w + 1] = Closed /\ DOMAIN wire = 1 .. w
      BY <1>2, <1>3, <2>2, Prolonged, SMTT(30)
    <3>2. ASSUME NEW i \in DOMAIN wire'
          PROVE  Sound(wire'[i], stored, published) /\ (wire'[i].snapshot => i = 1)
      <4>1. CASE i <= w
        BY <1>1, <3>1, <3>2, <4>1 DEF Carried
      <4>2. CASE ~(i <= w)
        <5>1. wire'[i] = Closed
          BY <3>1, <3>2, <4>2
        <5> QED BY <1>3, <5>1 DEF Sound
      <4> QED BY <4>1, <4>2
    <3>3. ~wire'[1].snapshot /\ wire'[1] # Closed => cursor >= 0
      <4>1. CASE wire = <<>>
        <5>1. w = 0
          BY <4>1
        <5>2. wire'[0 + 1] = Closed
          BY <3>1, <5>1
        <5> QED BY <5>2
      <4>2. CASE wire # <<>>
        <5>1. 1 \in DOMAIN wire
          BY <1>2, <4>2
        <5> QED BY <1>1, <3>1, <4>2, <5>1 DEF Carried
      <4> QED BY <4>1, <4>2
    <3> QED BY <3>2, <3>3 DEF Carried
  <2> QED BY <2>1, <2>2
<1> QED BY <1>4, <1>7, <1>8, <1>9, <1>10 DEF StreamInv, StreamTypes

\* What a route does with the next item of its queue.
LEMMA SendKeeps ==
  ASSUME StreamInv, Attached', NEW k \in Conn, Send(k)
  PROVE  StreamInv'
<1>1. /\ k \in serving /\ queue[k] # <<>>
      /\ UNCHANGED <<made, stored, held, pending, taken, published, at,
                     cursor, last, shown, page, strayed>>
  BY DEF Send, feedVars, viewVars
<1>2. CASE k = at /\ Head(queue[k]) # SlowClient
  <2>1. /\ wire' = Append(wire, Event(Head(queue[k])))
        /\ queue' = [queue EXCEPT ![k] = Tail(@)] /\ UNCHANGED <<listed, serving>>
    BY <1>2 DEF Send
  <2> QED BY <1>1, <1>2, <2>1, EventKeeps
<1>3. CASE ~(k = at /\ Head(queue[k]) # SlowClient)
  <2>1. /\ wire' = (IF k = at THEN Append(wire, Closed) ELSE wire)
        /\ queue' = [queue EXCEPT ![k] = <<>>]
        /\ listed' = listed \ {k} /\ serving' = serving \ {k}
    BY <1>3 DEF Send
  <2> QED BY <1>1, <2>1, CloseKeeps
<1> QED BY <1>2, <1>3

\* A new connection is owed what follows the dashboard's cursor, or a snapshot of all.
LEMMA OpenKeeps ==
  ASSUME StreamInv, Attached', NEW k \in Conn, Opened(k)
  PROVE  StreamInv'
<1>1. FeedTypes /\ BrokerTypes /\ ViewTypes /\ Queues
  BY DEF StreamInv, StreamTypes
<1>2. /\ queue' = [queue EXCEPT ![k] = <<>>]
      /\ listed' = listed \cup {k} /\ serving' = serving \cup {k}
      /\ at' = k /\ wire' = Initial(cursor)
      /\ UNCHANGED <<made, stored, held, pending, taken, published, cursor, last, shown, page,
                     strayed>>
  BY DEF Opened, Subscribe, feedVars
<1>3. stored \in Seq(Nat) /\ published \in Seq(Nat) /\ cursor \in Nat \cup {-1}
  BY <1>1 DEF FeedTypes, BrokerTypes, ViewTypes
<1>4. /\ wire' \in Seq(Envelope)
      /\ Replayable(cursor) =>
           /\ Len(wire') = Sequence - cursor
           /\ \A i \in DOMAIN wire' : cursor + i \in 1 .. Sequence /\ wire'[i] = Event(cursor + i)
      /\ ~Replayable(cursor) => wire' = <<Snapshot>>
  BY <1>2, <1>3, InitialIs
<1>5. FeedTypes' /\ MadeBefore' /\ Seen' /\ Paged'
  BY <1>2, ServerKeeps
<1>6. /\ queue' \in [Conn -> Seq(Nat)] /\ queue'[k] = <<>>
      /\ \A c \in Conn : c # k => queue'[c] = queue[c]
  <2>1. <<>> \in Seq(Nat)
    OBVIOUS
  <2> QED BY <1>1, <1>2, <2>1 DEF BrokerTypes
<1>7. BrokerTypes' /\ ViewTypes'
  BY <1>1, <1>2, <1>4, <1>6 DEF BrokerTypes, ViewTypes
<1>8. Queues'
  <2>1. \A c \in serving' : c # k => c \in Conn /\ c \in serving /\ (c \in listed' <=> c \in listed)
    BY <1>1, <1>2 DEF BrokerTypes
  <2>2. k \in listed' /\ DOMAIN queue'[k] = {}
    BY <1>2, <1>6
  <2> QED BY <1>1, <1>2, <1>6, <2>1, <2>2 DEF Queues, Sequence
<1>9. Len(queue'[k]) = 0 /\ DOMAIN queue'[k] = {}
  BY <1>6
<1>10. Following' /\ Carried'
  <2>1. CASE Replayable(cursor)
    <3>1. cursor \in Nat /\ Sequence \in Nat
      BY <1>3, <2>1, KeptIs
    <3>2. ASSUME NEW i \in DOMAIN wire'
          PROVE  /\ wire'[i].seq = cursor + i /\ ~wire'[i].snapshot
                 /\ Sound(wire'[i], stored, published)
      <4>1. cursor + i \in 1 .. Sequence /\ wire'[i] = Event(cursor + i)
        BY <1>4, <2>1, <3>2
      <4> DEFINE n == cursor + i
      <4>2. n \in 1 .. Sequence /\ wire'[i] = Event(n)
        BY <4>1
      <4> HIDE DEF n
      <4>3. Event(n).seq = n /\ ~Event(n).snapshot /\ Event(n).alerts = <<published[n]>>
        BY <1>3, <4>2, EventIs
      <4>4. Sound(Event(n), stored, published)
        BY <4>2, <4>3 DEF Sound, Sequence
      <4> QED BY <4>2, <4>3, <4>4 DEF n
    <3>3. wire' # <<>> => 1 \in DOMAIN wire'
      BY <1>4
    <3>4. Due' = cursor + 1
      BY <1>2, <3>2, <3>3 DEF Due
    <3>5. \A i \in DOMAIN wire' : wire'[i].seq = (cursor + 1) + i - 1
      <4>1. \A i \in DOMAIN wire' : i \in Int
        BY <1>4
      <4> QED BY <3>1, <3>2, <4>1
    <3>6. (cursor + 1) + Len(wire') + Len(queue'[k]) = Sequence + 1
      BY <1>4, <1>9, <2>1, <3>1
    <3>7. Following'
      <4>1. \A i \in DOMAIN wire' : wire'[i].seq = Due' + i - 1
        BY <3>4, <3>5
      <4>2. Due' + Len(wire') + Len(queue'[k]) = Len(published') + 1
        BY <1>2, <3>4, <3>6 DEF Sequence
      <4>3. cursor' >= 0
        BY <1>2, <3>1
      <4> QED BY <1>2, <1>9, <4>1, <4>2, <4>3 DEF Following, Sequence
    <3>8. Carried'
      BY <1>2, <3>1, <3>2 DEF Carried
    <3> QED BY <3>7, <3>8
  <2>2. CASE ~Replayable(cursor)
    <3> DEFINE e == Snapshot
    <3>1. /\ e \in Envelope /\ e.seq = Sequence /\ e.snapshot /\ e.alerts = Listing(0)
          /\ wire' = <<e>> /\ Sequence \in Nat
      BY <1>3, <1>4, <2>2, SnapshotIs DEF Sequence
    <3>2. Covers(e.alerts, e.seq, stored, published)
      BY <1>3, <3>1, ListingCovers
    <3>3. Sound(e, stored, published)
      BY <3>1, <3>2 DEF Sound, Sequence
    <3> HIDE DEF e
    <3>4. Len(wire') = 1 /\ wire'[1] = e /\ wire' # <<>> /\ DOMAIN wire' = {1}
      BY <3>1
    <3>5. Due' = Sequence
      BY <3>1, <3>4 DEF Due
    <3>6. Following'
      <4>1. \A i \in DOMAIN wire' : wire'[i].seq = Due' + i - 1
        BY <3>1, <3>4, <3>5
      <4>2. Due' + Len(wire') + Len(queue'[k]) = Len(published') + 1
        <5>1. Len(wire') = 1 /\ Len(queue'[k]) = 0 /\ Due' = Sequence /\ Sequence \in Nat
          BY <1>9, <3>1, <3>4, <3>5
        <5>2. Due' + Len(wire') + Len(queue'[k]) = Sequence + 1
          BY <5>1
        <5> QED BY <1>2, <5>2 DEF Sequence
      <4> QED BY <1>2, <1>9, <3>4, <4>1, <4>2 DEF Following, Sequence
    <3>7. Carried'
      BY <1>2, <3>1, <3>3, <3>4 DEF Carried
    <3> QED BY <3>6, <3>7
  <2> QED BY <2>1, <2>2
<1> QED BY <1>5, <1>7, <1>8, <1>10 DEF StreamInv, StreamTypes

\* An event puts its alert before the others: they cover one number more.
LEMMA OneMore ==
  ASSUME published \in Seq(Nat), shown \in Seq(Nat), last \in Nat,
         last + 1 \in 1 .. Sequence, Covers(shown, last, stored, published)
  PROVE  Covers(<<published[last + 1]>> \o shown, last + 1, stored, published)
<1> DEFINE n == last + 1
           more == <<published[n]>> \o shown
<1>1. published[n] \in Nat
  BY DEF Sequence
<1>2. DOMAIN more = 1 .. Len(shown) + 1 /\ Len(shown) \in Nat /\ DOMAIN shown = 1 .. Len(shown)
  BY <1>1
<1>3. more[1] = published[n] /\ \A i \in DOMAIN shown : more[i + 1] = shown[i]
  <2> DEFINE x == published[n]
  <2>1. x \in Nat
    BY <1>1
  <2> HIDE DEF x
  <2>2. <<x>> \in Seq(Nat) /\ Len(<<x>>) = 1
    BY <2>1
  <2>3. (<<x>> \o shown)[1] = x
    BY <2>2
  <2>4. \A i \in 1 .. Len(shown) : (<<x>> \o shown)[i + 1] = shown[i]
    BY <2>2
  <2> QED BY <1>2, <2>3, <2>4 DEF x
<1> HIDE DEF more
<1>4. published[n] \in ToSet(more)
  BY <1>2, <1>3, ToSetIs
<1>5. \A x : x \in ToSet(shown) => x \in ToSet(more)
  <2> SUFFICES ASSUME NEW i \in DOMAIN shown
               PROVE  shown[i] \in ToSet(more)
    BY ToSetIs
  <2>1. i + 1 \in DOMAIN more /\ more[i + 1] = shown[i]
    BY SMTT(30), <1>2, <1>3
  <2> QED BY <2>1, ToSetIs
<1>6. \A m \in 1 .. n : m = n \/ m \in 1 .. last
  OBVIOUS
<1> HIDE DEF n
<1>7. Covers(more, n, stored, published)
  BY <1>4, <1>5, <1>6 DEF Covers
<1> QED BY <1>7 DEF more, n

\* What the dashboard does with an envelope it receives.
LEMMA TakenKeeps ==
  ASSUME StreamInv, Attached', Taken
  PROVE  StreamInv'
<1> DEFINE e == Head(wire)
<1>1. FeedTypes /\ BrokerTypes /\ ViewTypes /\ Following /\ Carried /\ Seen
  BY DEF StreamInv, StreamTypes
<1>2. /\ wire # <<>> /\ e # Closed /\ cursor' = e.seq /\ Reduce(e) /\ wire' = Tail(wire)
      /\ UNCHANGED <<made, stored, held, pending, taken, published, queue, listed, serving,
                     at, page, strayed>>
  BY DEF Taken, feedVars, brokerVars
<1>3. wire \in Seq(Envelope) /\ shown \in Seq(Nat) /\ last \in Nat \cup {-1}
      /\ cursor \in Nat \cup {-1} /\ published \in Seq(Nat)
  BY <1>1 DEF ViewTypes, BrokerTypes
<1>4. /\ e = wire[1] /\ e \in Envelope /\ 1 \in DOMAIN wire
      /\ wire' \in Seq(Envelope) /\ Len(wire') = Len(wire) - 1 /\ Len(wire) \in Nat
      /\ \A i \in DOMAIN wire' : i + 1 \in DOMAIN wire /\ wire'[i] = wire[i + 1]
  BY <1>2, <1>3, Shortened
<1>5. \A i \in DOMAIN wire' : /\ Sound(wire'[i], stored, published) /\ ~wire'[i].snapshot
  <2> SUFFICES ASSUME NEW i \in DOMAIN wire'
               PROVE  Sound(wire'[i], stored, published) /\ ~wire'[i].snapshot
    OBVIOUS
  <2>1. i \in 1 .. Len(wire')
    BY <1>4
  <2>2. i + 1 # 1
    BY <2>1
  <2> QED BY <1>1, <1>4, <2>2 DEF Carried
<1> HIDE DEF e
<1>6. e.seq \in Int /\ e.snapshot \in BOOLEAN /\ e.alerts \in Seq(Nat)
  BY <1>4 DEF Envelope
<1>7. Sound(e, stored, published) /\ Sequence \in Nat
  <2>1. Sound(wire[1], stored, published)
    BY <1>1, <1>4 DEF Carried
  <2> QED BY <1>3, <1>4, <2>1 DEF Sequence
<1>8. e.seq \in Nat /\ e.seq <= Sequence
  BY <1>2, <1>7 DEF Sound, Sequence
<1>9. FeedTypes' /\ BrokerTypes' /\ MadeBefore' /\ Queues'
  BY <1>2 DEF StreamInv, StreamTypes, FeedTypes, BrokerTypes, MadeBefore, NoneAhead, Queues,
              Sequence
<1>10. Paged'
  BY <1>2 DEF StreamInv, Paged, PagesCoverAll
<1>11. Carried'
  BY <1>2, <1>5, <1>8 DEF Carried
<1>12. Following'
  <2> SUFFICES ASSUME at \in listed
               PROVE  Following'
    BY <1>2 DEF Following
  <2> DEFINE d == Due
             w == Len(wire)
             q == Len(queue[at])
  <2>1. /\ \A i \in DOMAIN wire : wire[i].seq = d + i - 1
        /\ \A i \in DOMAIN queue[at] : queue[at][i] = d + w + i - 1
        /\ d + w + q = Sequence + 1
    BY <1>1 DEF Following
  <2>2. d \in Int /\ w \in Nat /\ q \in Nat
    <3>1. at \in Conn /\ queue[at] \in Seq(Nat)
      BY <1>1 DEF BrokerTypes
    <3> QED BY <1>1, <1>3, <3>1, DueIs
  <2>3. e.seq = d + 1 - 1
    BY <1>4, <2>1
  <2>4. Due' = e.seq + 1
    <3>1. wire' # <<>> => 1 \in DOMAIN wire'
      BY <1>4
    <3> QED BY <1>2, <1>5, <3>1 DEF Due
  <2> HIDE DEF d, w, q
  <2>5. Due' = d + 1
    BY <2>2, <2>3, <2>4
  <2>6. ASSUME NEW i \in DOMAIN wire'
        PROVE  wire'[i].seq = (d + 1) + i - 1
    <3>1. i + 1 \in DOMAIN wire /\ wire'[i] = wire[i + 1] /\ i \in Int
      BY <1>4
    <3>2. wire[i + 1].seq = d + (i + 1) - 1
      BY <2>1, <3>1
    <3> QED BY <2>2, <3>1, <3>2
  <2>7. ASSUME NEW i \in DOMAIN queue[at]
        PROVE  queue[at][i] = (d + 1) + (w - 1) + i - 1
    <3>1. i \in Int
      BY <1>1 DEF BrokerTypes
    <3> QED BY <2>1, <2>2, <3>1
  <2>8. (d + 1) + (w - 1) + Len(queue[at]) = Sequence + 1
    <3>1. (d + 1) + (w - 1) + q = d + w + q
      BY <2>2
    <3> QED BY <2>1, <3>1 DEF q
  <2>9. Len(wire') = w - 1
    BY <1>4 DEF w
  <2> QED BY <1>2, <1>8, <2>5, <2>6, <2>7, <2>8, <2>9 DEF Following, Sequence
<1>13. ViewTypes'
  <2>1. last' \in {last, e.seq} /\ shown' \in {shown, e.alerts, e.alerts \o shown}
    BY <1>2 DEF Reduce
  <2>2. e.alerts \o shown \in Seq(Nat)
    BY <1>3, <1>6, TwoSequences
  <2>3. shown' \in Seq(Nat)
    BY <1>3, <1>6, <2>1, <2>2
  <2> QED BY <1>1, <1>2, <1>3, <1>4, <1>8, <2>1, <2>3 DEF ViewTypes
<1>14. Seen'
  <2> SUFFICES ASSUME ~strayed
               PROVE  /\ last' \in Nat /\ last' <= Sequence
                      /\ Covers(shown', last', stored, published)
    BY <1>2, <1>8 DEF Seen, Sequence
  <2>1. (cursor = -1 <=> last = -1) /\ last <= Sequence /\ Covers(shown, last, stored, published)
    BY <1>1 DEF Seen
  <2>2. CASE e.seq <= last /\ UNCHANGED <<last, shown, gap>>
    BY <1>3, <1>8, <2>1, <2>2
  <2>3. CASE last >= 0 /\ UNCHANGED <<last, shown>>
    BY <1>3, <2>1, <2>3
  <2>4. CASE /\ e.seq > last /\ (last < 0 \/ e.seq = last + 1) /\ last' = e.seq
             /\ shown' = IF e.snapshot THEN e.alerts ELSE e.alerts \o shown
    <3>1. CASE e.snapshot
      <4>1. Covers(e.alerts, e.seq, stored, published)
        BY <1>2, <1>7, <3>1 DEF Sound
      <4> QED BY <1>8, <2>4, <3>1, <4>1
    <3>2. CASE ~e.snapshot
      <4>1. e.seq \in 1 .. Sequence /\ e.alerts = <<published[e.seq]>>
        BY <1>2, <1>7, <3>2 DEF Sound, Sequence
      <4>2. cursor >= 0
        BY <1>1, <1>2, <1>4, <3>2 DEF Carried
      <4>3. last \in Nat
        BY <1>3, <2>1, <4>2
      <4>4. e.seq = last + 1
        BY <2>4, <4>3
      <4>5. Covers(<<published[last + 1]>> \o shown, last + 1, stored, published)
        BY <1>3, <2>1, <4>1, <4>3, <4>4, OneMore
      <4>6. shown' = <<published[last + 1]>> \o shown /\ last' = last + 1
        BY <2>4, <3>2, <4>1, <4>4
      <4> QED BY <1>8, <2>4, <4>5, <4>6
    <3> QED BY <1>6, <3>1, <3>2
  <2> QED BY <1>2, <2>2, <2>3, <2>4 DEF Reduce
<1> QED BY <1>9, <1>10, <1>11, <1>12, <1>13, <1>14 DEF StreamInv, StreamTypes

\* What a reader that has got to some offset still has to see, after one page more.
LEMMA PageKeeps ==
  ASSUME stored \in Seq(Nat), NEW offset \in Nat, NEW row \in 1 .. Len(stored) - offset
  PROVE  \/ stored[row] \in ToSet(Listing(offset))
         \/ row \in 1 .. Len(stored) - (offset + PageSize)
<1> DEFINE n == Len(stored)
<1>1. n \in Nat /\ PageSize \in Nat /\ row \in DOMAIN stored
  BY StreamAssumption
<1>2. row \in Nat /\ row >= 1 /\ row <= n - offset
  BY <1>1
<1>3. CASE n - row < offset + PageSize
  <2>1. n - row >= offset
    BY <1>1, <1>2
  <2> QED BY <1>1, <1>3, <2>1, ListingIs
<1>4. CASE ~(n - row < offset + PageSize)
  <2> HIDE DEF n
  <2>1. row \in 1 .. n - (offset + PageSize)
    BY <1>1, <1>2, <1>4
  <2> QED BY <2>1 DEF n
<1> QED BY <1>3, <1>4

\* A reader that gets one page more has only what is past it still to see.
LEMMA ReadKeeps ==
  ASSUME StreamInv, Attached', ReadPage
  PROVE  StreamInv'
<1>1. FeedTypes /\ BrokerTypes /\ ViewTypes /\ Paged
  BY DEF StreamInv, StreamTypes
<1>2. UNCHANGED <<made, stored, held, pending, taken, published, queue, listed, serving, at, wire,
                  cursor, last, shown, strayed>>
  BY DEF ReadPage, feedVars, brokerVars, linkVars, viewVars
<1>3. FeedTypes' /\ BrokerTypes' /\ MadeBefore' /\ Queues' /\ Following' /\ Carried' /\ Seen'
  BY <1>2 DEF StreamInv, StreamTypes, FeedTypes, BrokerTypes, MadeBefore, NoneAhead, Queues,
              Following, Carried, Seen, Due, Sequence
<1>4. stored \in Seq(Nat) /\ page \in Page /\ PageSize \in Nat /\ Len(stored) \in Nat
  BY <1>1, StreamAssumption DEF FeedTypes, ViewTypes
<1>5. page.next \in Nat /\ page.got \in SUBSET Nat /\ page.due \in SUBSET Nat
  BY <1>4 DEF Page
<1>6. ToSet(stored) \in SUBSET Nat /\ ToSet(Listing(0)) \in SUBSET Nat
      /\ ToSet(Listing(page.next)) \in SUBSET Nat
  BY <1>4, <1>5, ToSetNat, ListingIs
<1>7. page' \in Page /\ Paged'
  <2>1. CASE page' = page
    BY <1>2, <1>4, <1>1, <2>1 DEF Paged, PagesCoverAll
  <2>2. CASE FirstPage
    <3>1. page' = [got |-> ToSet(Listing(0)), next |-> PageSize, due |-> ToSet(stored),
                   more |-> Len(stored) > PageSize]
      BY <2>2 DEF FirstPage
    <3>2. /\ page'.got = ToSet(Listing(0)) /\ page'.next = PageSize
          /\ page'.due = ToSet(stored) /\ page'.more = (Len(stored) > PageSize)
      BY <3>1
    <3>3. page' \in Page
      BY <1>4, <1>6, <3>1 DEF Page
    <3>4. ASSUME NEW id \in ToSet(stored)
          PROVE  \/ id \in ToSet(Listing(0))
                 \/ \E row \in 1 .. Len(stored) - PageSize : stored[row] = id
      <4>1. PICK row \in DOMAIN stored : stored[row] = id
        BY ToSetIs
      <4>2. row \in 1 .. Len(stored) - 0
        BY <1>4, <4>1
      <4>3. stored[row] \in ToSet(Listing(0)) \/ row \in 1 .. Len(stored) - (0 + PageSize)
        BY <1>4, <4>2, PageKeeps
      <4>4. Len(stored) - (0 + PageSize) = Len(stored) - PageSize
        BY <1>4
      <4> QED BY <4>1, <4>3, <4>4
    <3>5. PagesCoverAll'
      <4> SUFFICES ASSUME ~(Len(stored) > PageSize)
                   PROVE  ToSet(stored) \subseteq ToSet(Listing(0))
        BY <3>2 DEF PagesCoverAll
      <4>1. 1 .. Len(stored) - PageSize = {}
        BY <1>4
      <4> QED BY <3>4, <4>1
    <3> QED BY <1>2, <3>2, <3>3, <3>4, <3>5 DEF Paged
  <2>3. CASE NextPage
    <3> DEFINE next == page.next + PageSize
    <3>1. page' = [page EXCEPT !.got = @ \cup ToSet(Listing(page.next)),
                               !.next = @ + PageSize,
                               !.more = Len(stored) > page.next + PageSize]
      BY <2>3 DEF NextPage
    <3>2. /\ page'.got = page.got \cup ToSet(Listing(page.next)) /\ page'.next = next
          /\ page'.due = page.due /\ page'.more = (Len(stored) > next)
      BY <1>4, <3>1 DEF Page
    <3>3. page' \in Page
      <4>1. page.got \cup ToSet(Listing(page.next)) \in SUBSET Nat
        BY <1>5, <1>6
      <4>2. next \in Nat /\ (Len(stored) > next) \in BOOLEAN
        BY <1>4, <1>5
      <4> QED BY <1>4, <3>1, <4>1, <4>2 DEF Page
    <3>4. ASSUME NEW id \in page.due
          PROVE  \/ id \in page.got \cup ToSet(Listing(page.next))
                 \/ \E row \in 1 .. Len(stored) - next : stored[row] = id
      <4>1. id \in page.got \/ \E row \in 1 .. Len(stored) - page.next : stored[row] = id
        BY <1>1 DEF Paged
      <4>2. ASSUME NEW row \in 1 .. Len(stored) - page.next, stored[row] = id
            PROVE  id \in ToSet(Listing(page.next)) \/ row \in 1 .. Len(stored) - next
        BY <1>4, <1>5, <4>2, PageKeeps
      <4> QED BY <4>1, <4>2
    <3>5. PagesCoverAll'
      <4> SUFFICES ASSUME ~(Len(stored) > next)
                   PROVE  page.due \subseteq page.got \cup ToSet(Listing(page.next))
        BY <3>2 DEF PagesCoverAll
      <4>1. 1 .. Len(stored) - next = {}
        BY <1>4, <1>5
      <4> QED BY <3>4, <4>1
    <3> QED BY <1>2, <3>2, <3>3, <3>4, <3>5 DEF Paged
  <2> QED BY <2>1, <2>2, <2>3 DEF ReadPage
<1>8. ViewTypes'
  BY <1>1, <1>2, <1>7 DEF ViewTypes
<1> QED BY <1>3, <1>7, <1>8 DEF StreamInv, StreamTypes

\* Nothing is shown of an empty stream, nor has to be.
LEMMA NothingSeen ==
  ASSUME NEW alerts, NEW n \in Int, n <= 0, NEW rows, NEW events
  PROVE  Covers(alerts, n, rows, events)
<1>1. 1 .. n = {}
  OBVIOUS
<1> QED BY <1>1 DEF Covers

\* The dashboard starts again, from nothing or from a demonstration, or the process does.
LEMMA ResetKeeps ==
  ASSUME StreamInv, Attached', Reload \/ Demonstrate \/ Restart
  PROVE  StreamInv'
<1> USE DEF Disconnected, feedVars, brokerVars, viewVars
<1>1. FeedTypes /\ BrokerTypes /\ ViewTypes
  BY DEF StreamInv, StreamTypes
<1>2. at' = NoConn /\ wire' = <<>> /\ wire' \in Seq(Envelope)
  <2>1. at' = NoConn /\ wire' = <<>>
    BY DEF Reload, Demonstrate, Restart
  <2> QED BY <2>1
<1>3. UNCHANGED <<made, stored, page>>
  BY DEF Reload, Demonstrate, Restart
<1>4. CASE Reload \/ Demonstrate
  <2>1. UNCHANGED <<held, pending, taken, published, queue, listed, serving>>
    BY <1>4 DEF Reload, Demonstrate
  <2>2. FeedTypes' /\ BrokerTypes' /\ MadeBefore' /\ Queues' /\ Paged'
    BY <1>3, <2>1 DEF StreamInv, StreamTypes, FeedTypes, BrokerTypes, MadeBefore, NoneAhead,
                      Queues, Sequence, Paged, PagesCoverAll
  <2>3. Following' /\ Carried'
    BY <1>2, <2>2, NoneOpen
  <2>4. ViewTypes' /\ Seen'
    <3>1. CASE Reload
      <4>1. cursor' = -1 /\ last' = -1 /\ shown' = <<>> /\ shown' \in Seq(Nat)
        BY <3>1 DEF Reload
      <4>2. strayed' \in BOOLEAN
        BY <3>1, Zenon DEF Reload
      <4>3. Len(published') \in Nat /\ last' <= Len(published')
        BY <2>2, <4>1 DEF BrokerTypes
      <4>4. Covers(shown', last', stored', published')
        BY <4>1, NothingSeen
      <4>5. ViewTypes'
        BY <1>1, <1>2, <1>3, <4>1, <4>2 DEF ViewTypes
      <4> QED BY <4>1, <4>3, <4>4, <4>5 DEF Seen, Sequence
    <3>2. CASE Demonstrate
      <4>1. last' = 1 /\ UNCHANGED <<cursor, shown>> /\ strayed'
        BY <3>2 DEF Demonstrate
      <4>2. strayed' \in BOOLEAN
        BY <3>2, Zenon DEF Demonstrate
      <4>3. ViewTypes'
        BY <1>1, <1>2, <1>3, <4>1, <4>2 DEF ViewTypes
      <4> QED BY <4>1, <4>3 DEF Seen
    <3> QED BY <1>4, <3>1, <3>2
  <2> QED BY <2>2, <2>3, <2>4 DEF StreamInv, StreamTypes
<1>5. CASE Restart
  <2>1. /\ held' = 0 /\ pending' = <<>> /\ taken' = <<>> /\ published' = <<>>
        /\ queue' = [k \in Conn |-> <<>>] /\ listed' = {} /\ serving' = {}
        /\ strayed' = (cursor >= 0 \/ last >= 0) /\ UNCHANGED <<cursor, last, shown>>
    BY <1>5 DEF Restart
  <2>2. <<>> \in Seq(Nat) /\ DOMAIN <<>> = {} /\ Len(<<>>) = 0
    OBVIOUS
  <2>3. FeedTypes' /\ MadeBefore'
    BY <1>1, <1>3, <2>1, <2>2 DEF FeedTypes, MadeBefore, NoneAhead
  <2>4. BrokerTypes' /\ Queues'
    BY <2>1, <2>2 DEF BrokerTypes, Queues
  <2>5. Following' /\ Carried'
    BY <1>2, <2>4, NoneOpen
  <2>6. Paged'
    BY <1>3 DEF StreamInv, Paged, PagesCoverAll
  <2>7. strayed' \in BOOLEAN
    BY <2>1, Zenon
  <2>8. ViewTypes'
    BY <1>1, <1>2, <1>3, <2>1, <2>7 DEF ViewTypes
  <2>9. Seen'
    <3> SUFFICES ASSUME ~strayed'
                 PROVE  Seen'
      BY DEF Seen
    <3>1. cursor = -1 /\ last = -1
      <4>1. ~(cursor >= 0 \/ last >= 0)
        BY <2>1, Zenon
      <4> QED BY <1>1, <4>1 DEF ViewTypes
    <3>2. Covers(shown', last', stored', published')
      BY <2>1, <3>1, NothingSeen
    <3>3. last' <= Len(published')
      BY <2>1, <2>2, <3>1
    <3> QED BY <2>1, <3>1, <3>2, <3>3 DEF Seen, Sequence
  <2> QED BY <2>3, <2>4, <2>5, <2>6, <2>8, <2>9 DEF StreamInv, StreamTypes
<1> QED BY <1>4, <1>5

-----------------------------------------------------------------------------
\* A set of numbers that is not empty has a smallest one.
LEMMA MinIsIn ==
  ASSUME NEW I \in SUBSET Nat, I # {}
  PROVE  Min(I) \in I
<1>1. IsWellFoundedOn(OpToRel(<, Nat), Nat)
  BY NatLessThanWellFounded
<1>2. PICK x \in I : \A y \in I : ~(<<y, x>> \in OpToRel(<, Nat))
  BY <1>1, WFMin
<1>3. \A y \in I : x <= y
  <2> SUFFICES ASSUME NEW y \in I, y < x
               PROVE  FALSE
    OBVIOUS
  <2>1. <<y, x>> \in OpToRel(<, Nat)
    BY DEF OpToRel
  <2> QED BY <1>2, <2>1
<1> QED BY <1>3 DEF Min

\* Two sequences, one after the other.
LEMMA OneAfterTheOther ==
  ASSUME NEW s \in Seq(Int), NEW t \in Seq(Int)
  PROVE  /\ DOMAIN (s \o t) = 1 .. Len(s) + Len(t) /\ Len(s \o t) = Len(s) + Len(t)
         /\ \A i \in 1 .. Len(s) + Len(t) :
              (s \o t)[i] = IF i <= Len(s) THEN s[i] ELSE t[i - Len(s)]
<1>1. s \o t \in Seq(Int) /\ Len(s \o t) = Len(s) + Len(t)
  OBVIOUS
<1>2. \A i \in 1 .. Len(s) + Len(t) :
        (s \o t)[i] = IF i <= Len(s) THEN s[i] ELSE t[i - Len(s)]
  OBVIOUS
<1> QED BY <1>1, <1>2

\* The first row of an alert, if there is one.
LEMMA RowIs ==
  ASSUME NEW rows \in Seq(Nat), NEW a, SelectInSeq(rows, LAMBDA id : id = a) # 0
  PROVE  /\ SelectInSeq(rows, LAMBDA id : id = a) \in DOMAIN rows
         /\ rows[SelectInSeq(rows, LAMBDA id : id = a)] = a
<1> DEFINE I == {i \in 1 .. Len(rows) : rows[i] = a}
<1>1. SelectInSeq(rows, LAMBDA id : id = a) = IF I # {} THEN Min(I) ELSE 0
  BY DEF SelectInSeq
<1>2. I # {} /\ I \in SUBSET Nat
  BY <1>1
<1>3. Min(I) \in I
  BY <1>2, MinIsIn
<1> QED BY <1>1, <1>2, <1>3

\* The invariant holds at the start and is kept by every step.
LEMMA StreamStart == Init => StreamInv
<1> SUFFICES ASSUME Init
             PROVE  StreamInv
  OBVIOUS
<1>1. <<>> \in Seq(Nat) /\ DOMAIN <<>> = {} /\ Len(<<>>) = 0 /\ <<>> \in Seq(Envelope)
  OBVIOUS
<1>2. FeedTypes /\ MadeBefore
  <2>1. Before \in Nat
    BY StreamAssumption
  <2>2. [id \in 1 .. Before |-> id] \in Seq(Nat)
    BY <2>1
  <2> QED BY <1>1, <2>1, <2>2 DEF Init, FeedTypes, MadeBefore, NoneAhead
<1>3. BrokerTypes /\ Queues
  BY <1>1 DEF Init, BrokerTypes, Queues
<1>4. strayed \in BOOLEAN
  BY Zenon DEF Init
<1>5. page = [got |-> {}, next |-> 0, due |-> {}, more |-> FALSE]
  BY DEF Init
<1>6. page \in Page /\ Paged
  BY <1>5 DEF Page, Paged, PagesCoverAll
<1>7. ViewTypes /\ Attached
  BY <1>1, <1>4, <1>6 DEF Init, ViewTypes, Attached
<1>8. Following /\ Carried
  <2>1. at \notin listed
    BY DEF Init
  <2> QED BY <1>1, <2>1 DEF Init, Following, Carried
<1>9. Seen
  <2>1. Covers(shown, last, stored, published)
    BY NothingSeen DEF Init
  <2> QED BY <1>1, <2>1 DEF Init, Seen, Sequence
<1> QED BY <1>2, <1>3, <1>6, <1>7, <1>8, <1>9 DEF StreamInv, StreamTypes

\* Whatever the step.
LEMMA StreamStep == StreamInv /\ [Next]_vars => StreamInv'
<1> SUFFICES ASSUME StreamInv, [Next]_vars
             PROVE  StreamInv'
  OBVIOUS
<1>1. /\ Attached'
      /\ \/ Quiet \/ Gone \/ Taken
         \/ \E k \in Conn : Opened(k)
         \/ \E k \in Conn : Send(k)
         \/ ApiStores \/ ApiAppends \/ LoopEmits \/ DrainCopies
         \/ DrainClears \/ Signal
         \/ ReadPage \/ Reload \/ Demonstrate \/ Restart
  BY Steps DEF StreamInv
<1>2. CASE ApiStores \/ ApiAppends \/ LoopEmits \/ DrainCopies
  BY <1>1, <1>2, FeedKeeps
<1>3. CASE DrainClears
  BY <1>1, <1>3, DrainKeeps
<1>4. CASE Signal
  BY <1>1, <1>4, SignalKeeps
<1>5. CASE \E k \in Conn : Send(k)
  BY <1>1, <1>5, SendKeeps
<1>6. CASE \E k \in Conn : Opened(k)
  BY <1>1, <1>6, OpenKeeps
<1>7. CASE Taken
  BY <1>1, <1>7, TakenKeeps
<1>8. CASE Quiet \/ Gone
  BY <1>1, <1>8, QuietKeeps, GoneKeeps
<1>9. CASE ReadPage
  BY <1>1, <1>9, ReadKeeps
<1>10. CASE Reload \/ Demonstrate \/ Restart
  BY <1>1, <1>10, ResetKeeps
<1> QED BY <1>1, <1>2, <1>3, <1>4, <1>5, <1>6, <1>7, <1>8, <1>9, <1>10

(* What is on its way to an open client and in its queue is, from a       *)
(* snapshot or from the dashboard's cursor, every number up to the last,  *)
(* for every capacity and history, across slow clients and restarts.      *)
THEOREM StreamIsWholeAlways == Spec => []StreamIsWhole
<1>1. StreamInv => StreamIsWhole
  <2> SUFFICES ASSUME StreamInv, phase = "open", at \in listed
               PROVE  /\ \A i \in DOMAIN ([j \in DOMAIN wire |-> wire[j].seq] \o queue[at]) :
                           ([j \in DOMAIN wire |-> wire[j].seq] \o queue[at])[i] = Due + i - 1
                      /\ Due + Len([j \in DOMAIN wire |-> wire[j].seq] \o queue[at])
                           = Sequence + 1
    BY DEF StreamIsWhole, Due
  <2> DEFINE sent == [j \in DOMAIN wire |-> wire[j].seq]
             rest == queue[at]
             w == Len(wire)
             q == Len(rest)
             d == Due
  <2>1. wire \in Seq(Envelope) /\ rest \in Seq(Nat) /\ d \in Int
    BY DueIs DEF StreamInv, StreamTypes, ViewTypes, BrokerTypes
  <2>2. /\ \A i \in DOMAIN wire : wire[i].seq = d + i - 1
        /\ \A i \in DOMAIN rest : rest[i] = d + w + i - 1
        /\ d + w + q = Sequence + 1
    BY DEF StreamInv, Following
  <2>3. sent \in Seq(Int) /\ Len(sent) = w /\ w \in Nat
    <3>1. \A i \in 1 .. w : wire[i].seq \in Int
      <4>1. \A i \in 1 .. w : wire[i] \in Envelope
        BY <2>1
      <4> QED BY <4>1 DEF Envelope
    <3>2. sent \in [1 .. w -> Int] /\ DOMAIN sent = 1 .. w /\ w \in Nat
      BY <2>1, <3>1
    <3> HIDE DEF sent, w
    <3> QED BY <3>2
  <2>4. \A i \in 1 .. w : sent[i] = d + i - 1
    BY <2>1, <2>2
  <2>5. rest \in Seq(Int) /\ q \in Nat /\ DOMAIN rest = 1 .. q
    BY <2>1
  <2> HIDE DEF sent, rest, w, d
  <2>6. /\ DOMAIN (sent \o rest) = 1 .. w + q /\ Len(sent \o rest) = w + q
        /\ \A i \in 1 .. w + q : (sent \o rest)[i] = IF i <= w THEN sent[i] ELSE rest[i - w]
    BY <2>3, <2>5, OneAfterTheOther
  <2>7. ASSUME NEW i \in 1 .. w + q
        PROVE  (sent \o rest)[i] = d + i - 1
    <3>1. CASE i <= w
      BY <2>3, <2>4, <2>6, <3>1
    <3>2. CASE ~(i <= w)
      <4>1. i - w \in 1 .. q /\ w + (i - w) = i
        BY <2>3, <2>5, <3>2
      <4>2. rest[i - w] = d + w + (i - w) - 1
        BY <2>2, <2>5, <4>1
      <4> QED BY <2>1, <2>3, <2>6, <3>2, <4>1, <4>2
    <3> QED BY <3>1, <3>2
  <2>8. d + (w + q) = Sequence + 1
    BY <2>1, <2>2, <2>3, <2>5
  <2> QED BY <2>6, <2>7, <2>8 DEF sent, rest, w, d
<1> QED BY <1>1, StreamStart, StreamStep, PTL DEF Spec

(* The dashboard shows every stored event of the stream it has followed,  *)
(* up to its last number, unless a page of newer rows has come since:     *)
(* whatever was replayed, replaced by a snapshot or loaded again.         *)
THEOREM NothingMissedAlways == Spec => []NothingMissed
<1>1. StreamInv => NothingMissed
  <2> SUFFICES ASSUME StreamInv, ~strayed, NEW n \in 1 .. last,
                      SelectInSeq(stored, LAMBDA id : id = published[n]) # 0
               PROVE  \/ published[n] \in ToSet(shown)
                      \/ Len(stored) - SelectInSeq(stored, LAMBDA id : id = published[n])
                           >= PageSize
    BY DEF NothingMissed
  <2> DEFINE row == SelectInSeq(stored, LAMBDA id : id = published[n])
  <2>1. row \in DOMAIN stored /\ stored[row] = published[n]
    BY RowIs DEF StreamInv, StreamTypes, FeedTypes
  <2>2. Covers(shown, last, stored, published)
    BY DEF StreamInv, Seen
  <2> HIDE DEF row
  <2>3. published[n] \in ToSet(shown) \/ Len(stored) - row >= PageSize
    BY <2>1, <2>2 DEF Covers
  <2> QED BY <2>3 DEF row
<1> QED BY <1>1, StreamStart, StreamStep, PTL DEF Spec

(* A reader that pages to the end has read every alert there was when it  *)
(* began, for every page size, however many were stored meanwhile.        *)
THEOREM PagesCoverAllAlways == Spec => []PagesCoverAll
<1>1. StreamInv => PagesCoverAll
  BY DEF StreamInv, Paged
<1> QED BY <1>1, StreamStart, StreamStep, PTL DEF Spec
=============================================================================
