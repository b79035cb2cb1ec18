----------------------------- MODULE StorageProofs ---------------------------
(***************************************************************************)
(* Proofs about the storage service and its audit outbox, for any number   *)
(* of threads and operator tools, days, writes, crashes and I/O errors: an *)
(* operation that returns has its records in the log, the tables and the   *)
(* records tell one history, the outbox and the log implement AuditTrail,  *)
(* and, when one process writes the log, its files always verify unless a  *)
(* write was cut in the middle.                                            *)
(***************************************************************************)
EXTENDS StorageService, SequenceTheorems, TLAPS

\* What a record says of a row: its table, key and value.
Table == {"users", "sessions", "drill_sessions", "segments", "decisions",
          "verification_anchors", "alerts", "storage_metadata", "models",
          "update_candidates", "retention"}
Val == UserState \cup Outcome \cup Disposition
         \cup {"open", "drill", "ended", "NONE", "A2", "raised", "acknowledged", "0", "1",
               "rotated", "set", "model", "COMPLETED"}
Fact == Table \X Key \X Val
Record == [id : RecordId, fact : Fact]
OutboxRow == [no : Nat, id : RecordId, day : Nat, sent : BOOLEAN]
File == Seq(RecordId \cup {Torn})
Place == {"idle", "failed", "read", "append", "mark", "rotate", "unlink", "report"}

-----------------------------------------------------------------------------
(* The inductive invariant, in parts: what every variable ranges over, where *)
(* a record is on its way to the log, what the rows say of the ids in use.   *)

LogTypes == /\ committed \in Seq(Record) /\ written \in Seq(RecordId)
            /\ outbox \in SUBSET OutboxRow
FileTypes == /\ plain \in [Day -> File] /\ zipped \in [Day -> File]
             /\ ids \in [Process -> SUBSET RecordId]
             /\ today \in Day /\ damaged \in BOOLEAN
ThreadTypes == /\ pc \in [Thread -> Place] /\ rows \in [Thread -> SUBSET OutboxRow]
               /\ owes \in [Thread -> Nat]
               /\ up \in [Process -> {"up", "opening", "down"}]

\* No two records have one id: what the unique keys of the tables are worth.
QueuedOnce == \A i, j \in DOMAIN committed : committed[i].id = committed[j].id => i = j

LogIsPrefix == /\ Len(written) <= Len(committed)
               /\ \A i \in DOMAIN written : written[i] = committed[i].id

\* A row of the outbox is the record of its place, and is marked once logged.
InPlace(row) == row.no \in DOMAIN committed /\ row.id = committed[row.no].id
OutboxInPlace == \A row \in outbox : InPlace(row) /\ (row.sent => row.no <= Len(written))
RestIsPending == \A k \in DOMAIN committed :
                   k > Len(written) => \E row \in outbox : row.no = k /\ ~row.sent

\* What a thread still has to deliver has no gap above the end of the log.
NoGap(t) == \A row \in rows[t] :
              /\ InPlace(row)
              /\ \A k \in DOMAIN committed :
                   Len(written) < k /\ k < row.no => \E other \in rows[t] : other.no = k
MarksLogged(t) == pc[t] = "mark" => \A row \in rows[t] :
                                      IsNext(row, t) => row.no <= Len(written)
Owed(t) ==
    /\ owes[t] <= Len(committed)
    /\ pc[t] = "idle" => owes[t] <= Len(written)
    /\ pc[t] \in {"append", "mark"} =>
         \A k \in DOMAIN committed : Len(written) < k /\ k <= owes[t]
                                       => \E row \in rows[t] : row.no = k
Delivering(t) == NoGap(t) /\ MarksLogged(t) /\ Owed(t)

\* No process knows, and no file holds, a record that was never logged.
KnownIsLogged == \A p \in Process : ids[p] \subseteq Range(written)
FilesAreLogged == \A d \in Day : /\ Range(plain[d]) \subseteq Range(written) \cup {Torn}
                                 /\ Range(zipped[d]) \subseteq Range(written) \cup {Torn}

LogInv == /\ LogTypes /\ FileTypes /\ ThreadTypes
          /\ LogIsPrefix /\ OutboxInPlace /\ RestIsPending
          /\ (\A t \in Thread : Delivering(t))
          /\ KnownIsLogged /\ FilesAreLogged

\* Of a row that makes an id unique, the row itself: it is there, it is ended, its
\* revision is that of its last record.
Ended(table, key) == \E r \in db : r.table = table /\ r.key = key /\ r.val = "ended"
RowOf(id) ==
    /\ id[1] \in {"user-state", "admin", "challenge", "retention"} => id[3] <= Len(committed)
    /\ id = <<"session-start", "s2", Once>> => Has("sessions", "s2")
    /\ id = <<"drill-session", "s2", Once>> => Has("drill_sessions", "s2")
    /\ id = <<"segment-start", "g2", Once>> => Has("segments", "g2")
    /\ id = <<"segment-end", "g", Once>> => Ended("segments", "g")
    /\ id = <<"session-end", "s", Once>> => Ended("sessions", "s")
    /\ id = <<"verification", "a", Once>> => Has("verification_anchors", "a")
    /\ id = <<"model", "m", Once>> => Has("models", "m")
    /\ id[1] = "update" /\ id[2] = "c" =>
         \E r \in db : r.table = "update_candidates" /\ r.key = "c" /\ id[3] <= r.rev
IdsHaveRows == \A i \in DOMAIN committed : RowOf(committed[i].id)

TableInv == /\ \A r \in db : r.rev \in Nat /\ r.day \in Nat
            /\ \A r, q \in db : r.table = q.table /\ r.key = q.key => r = q
            /\ QueuedOnce /\ IdsHaveRows /\ RowsAreAudited

IInv == LogInv /\ TableInv

-----------------------------------------------------------------------------
(* The log of a single process: the lock, and the files under it.            *)

Busy(t) == pc[t] \notin {"idle", "failed"}
Holds(t) == pc[t] \in {"rotate", "unlink"}
OneHolder == \A t, u \in Thread : Holds(t) /\ Holds(u) => t = u
Awake == /\ up["backend"] = "down" => \A t \in Thread : ~Busy(t)
         /\ up["backend"] = "opening" =>
              /\ \A t, u \in Thread : Busy(t) /\ Busy(u) => t = u
              /\ \A t \in Thread : pc[t] \in {"idle", "failed", "read", "append", "mark"}
Apart(f, g) == Range(f) \cap Range(g) = {}
FilesVerify ==
    /\ \A d \in Day : Whole(plain[d]) /\ Whole(zipped[d])
    /\ \A d, e \in Day : d # e => /\ Apart(plain[d], plain[e]) /\ Apart(zipped[d], zipped[e])
                                  /\ Apart(plain[d], zipped[e])
    /\ \A d \in Day : \/ Apart(plain[d], zipped[d])
                      \/ InHand(d) /\ ~Expired(d) /\ \E t \in Thread : pc[t] = "unlink"
AllKnown == up["backend"] # "down" => \A d \in Day : /\ Range(plain[d]) \subseteq ids["backend"]
                                                    /\ Range(zipped[d]) \subseteq ids["backend"]
ChainInv == OneHolder /\ Awake /\ (~damaged => FilesVerify /\ AllKnown)

-----------------------------------------------------------------------------
(* Lemmas about lines and sequences.                                         *)

(* What a sequence holds after one is appended.                            *)
LEMMA RangeAppend ==
  ASSUME NEW S, NEW s \in Seq(S), NEW x \in S
  PROVE  /\ Append(s, x) \in Seq(S)
         /\ Range(Append(s, x)) = Range(s) \cup {x}
         /\ DOMAIN Append(s, x) = 1 .. Len(s) + 1
         /\ \A i \in DOMAIN s : Append(s, x)[i] = s[i]
         /\ Append(s, x)[Len(s) + 1] = x
<1>1. /\ Append(s, x) \in Seq(S) /\ Len(Append(s, x)) = Len(s) + 1
      /\ DOMAIN Append(s, x) = 1 .. Len(s) + 1 /\ DOMAIN s = 1 .. Len(s) /\ Len(s) \in Nat
      /\ \A i \in 1 .. Len(s) : Append(s, x)[i] = s[i]
      /\ Append(s, x)[Len(s) + 1] = x
  OBVIOUS
<1>2. Range(Append(s, x)) \subseteq Range(s) \cup {x}
  BY <1>1 DEF Range
<1>3. Range(s) \subseteq Range(Append(s, x)) /\ x \in Range(Append(s, x))
  BY <1>1 DEF Range
<1> QED BY <1>1, <1>2, <1>3

(* A new element leaves it without repetition.                             *)
LEMMA InjectiveAppend ==
  ASSUME NEW S, NEW s \in Seq(S), NEW x \in S, IsInjective(s), x \notin Range(s)
  PROVE  IsInjective(Append(s, x))
BY RangeAppend DEF IsInjective, Range

(* What two files hold together.                                           *)
LEMMA RangeConcat ==
  ASSUME NEW S, NEW s \in Seq(S), NEW r \in Seq(S)
  PROVE  Range(s \o r) = Range(s) \cup Range(r)
<1>1. /\ DOMAIN (s \o r) = 1 .. Len(s) + Len(r) /\ DOMAIN s = 1 .. Len(s) /\ DOMAIN r = 1 .. Len(r)
      /\ Len(s) \in Nat /\ Len(r) \in Nat
      /\ \A i \in 1 .. Len(s) + Len(r) : (s \o r)[i] = IF i <= Len(s) THEN s[i] ELSE r[i - Len(s)]
  BY ConcatProperties, LenProperties
<1>2. ASSUME NEW y \in Range(s \o r) PROVE y \in Range(s) \cup Range(r)
  BY <1>1 DEF Range
<1>3. ASSUME NEW y \in Range(s) PROVE y \in Range(s \o r)
  BY <1>1 DEF Range
<1>4. ASSUME NEW y \in Range(r) PROVE y \in Range(s \o r)
  <2>1. PICK i \in 1 .. Len(r) : y = r[i]
    BY <1>1 DEF Range
  <2>2. i + Len(s) \in 1 .. Len(s) + Len(r) /\ (s \o r)[i + Len(s)] = y
    BY <1>1, <2>1
  <2> QED BY <1>1, <2>2 DEF Range
<1> QED BY <1>2, <1>3, <1>4

(* A file with nothing in it.                                              *)
LEMMA EmptyFile == /\ <<>> \in File /\ Range(<<>>) = {} /\ Whole(<<>>)
BY DEF File, Range, Whole, IsInjective

\* What is on disk, file by file.
LEMMA OnDiskIs ==
  ASSUME FileTypes
  PROVE  \A x : x \in OnDisk <=> \E d \in Day : x \in Range(plain[d]) \/ x \in Range(zipped[d])
<1>1. ASSUME NEW d \in Day PROVE Range(Lines(d)) = Range(plain[d]) \cup Range(zipped[d])
  <2>1. plain[d] \in Seq(RecordId \cup {Torn}) /\ zipped[d] \in Seq(RecordId \cup {Torn})
    BY DEF FileTypes, File
  <2> QED BY <2>1, RangeConcat DEF Lines
<1> QED BY <1>1 DEF OnDisk

\* A file has no line exactly when its range is empty.
LEMMA EmptyLines ==
  ASSUME NEW f \in File
  PROVE  f = <<>> <=> Range(f) = {}
<1>1. f \in Seq(RecordId \cup {Torn}) /\ DOMAIN f = 1 .. Len(f) /\ Len(f) \in Nat
  BY DEF File
<1>2. ASSUME f # <<>> PROVE Range(f) # {}
  <2>1. Len(f) # 0 /\ 1 \in DOMAIN f
    BY <1>1, <1>2, EmptySeq
  <2> QED BY <2>1 DEF Range
<1> QED BY <1>2 DEF Range

-----------------------------------------------------------------------------
(* Every step keeps the types.                                               *)

Types == LogTypes /\ FileTypes /\ ThreadTypes

(* A record is committed.                                                  *)
LEMMA QueueTypes ==
  ASSUME Types, NEW t \in Thread, NEW id \in RecordId,
         NEW fact \in Fact, Queue(t, id, fact)
  PROVE  Types'
<1> DEFINE row == [no |-> Len(committed) + 1, id |-> id, day |-> today, sent |-> FALSE]
           record == [id |-> id, fact |-> fact]
<1>1. row \in OutboxRow /\ record \in Record
  BY AuditAssumption DEF Types, LogTypes, FileTypes, OutboxRow, Record, Day
<1>2. Append(committed, record) \in Seq(Record)
  BY <1>1, RangeAppend DEF Types, LogTypes
<1>3. LogTypes'
  BY <1>1, <1>2 DEF Queue, Types, LogTypes, fileVars
<1>4. FileTypes'
  BY DEF Queue, Types, FileTypes, fileVars
<1>5. ThreadTypes'
  BY DEF Queue, Types, ThreadTypes, Place
<1> QED BY <1>3, <1>4, <1>5 DEF Types

(* An operation raises.                                                    *)
LEMMA RaiseTypes ==
  ASSUME Types, NEW t \in Thread, Raise(t)
  PROVE  /\ pc' \in [Thread -> Place] /\ rows' \in [Thread -> SUBSET OutboxRow]
         /\ up' \in [Process -> {"up", "opening", "down"}]
<1>1. Proc(t) \in Process
  BY DEF Process
<1> QED BY <1>1 DEF Types, ThreadTypes, Place, Raise

(* A process has opened its log.                                           *)
LEMMA OpenedTypes ==
  ASSUME Types, NEW t \in Thread, Opened(t) \/ UNCHANGED up
  PROVE  up' \in [Process -> {"up", "opening", "down"}]
<1>1. Proc(t) \in Process
  BY DEF Process
<1> QED BY <1>1 DEF Types, ThreadTypes, Opened

(* A process takes note of ids.                                            *)
LEMMA KnowTypes ==
  ASSUME Types, NEW t \in Thread, NEW known \in SUBSET RecordId, Know(t, known)
  PROVE  ids' \in [Process -> SUBSET RecordId]
<1>1. Proc(t) \in Process
  BY DEF Process
<1> QED BY <1>1 DEF Types, FileTypes, Know

(* A line is added to a file.                                              *)
LEMMA TornTypes ==
  ASSUME Types, NEW d \in Day, NEW line \in RecordId \cup {Torn}
  PROVE  [plain EXCEPT ![d] = Append(plain[d], line)] \in [Day -> File]
<1>1. plain[d] \in Seq(RecordId \cup {Torn})
  BY DEF Types, FileTypes, File
<1>2. Append(plain[d], line) \in File
  BY <1>1, RangeAppend DEF File
<1> QED BY <1>2 DEF Types, FileTypes

(* The steps of a flush.                                                   *)
LEMMA FlushTypes ==
  ASSUME Types, NEW t \in Thread, FlushStep(t)
  PROVE  Types'
<1>1. CASE ReadPending(t)
  <2>1. ThreadTypes'
    <3>1. up' \in [Process -> {"up", "opening", "down"}]
      BY <1>1, OpenedTypes DEF ReadPending
    <3>2. {row \in outbox : ~row.sent} \in SUBSET OutboxRow /\ Len(committed) \in Nat
      BY DEF Types, LogTypes
    <3>3. pc' \in [Thread -> Place]
      BY <1>1 DEF ReadPending, Types, ThreadTypes, Place
    <3> QED BY <1>1, <3>1, <3>2, <3>3 DEF ReadPending, Types, ThreadTypes
  <2>2. LogTypes' /\ FileTypes'
    BY <1>1 DEF ReadPending, fileVars, Types, LogTypes, FileTypes
  <2> QED BY <2>1, <2>2 DEF Types
<1>2. CASE AppendRow(t)
  <2>1. PICK row \in rows[t] : Repeated(t, row) \/ WriteLine(t, row) \/ RefuseLine(t, row)
    BY <1>2 DEF AppendRow
  <2>2. row.id \in RecordId /\ t \in Thread /\ Proc(t) \in Process
    BY DEF Types, ThreadTypes, OutboxRow, Process
  <2>3. LogTypes' /\ FileTypes'
    <3>1. CASE WriteLine(t, row)
      <4>1. plain' \in [Day -> File]
        BY <2>2, <3>1, TornTypes DEF WriteLine, Types, FileTypes
      <4>2. ids' \in [Process -> SUBSET RecordId]
        BY <2>2, <3>1, KnowTypes DEF WriteLine, Types, FileTypes
      <4>3. written' \in Seq(RecordId)
        BY <2>2, <3>1, RangeAppend DEF WriteLine, Types, LogTypes
      <4> QED BY <1>2, <3>1, <4>1, <4>2, <4>3 DEF AppendRow, WriteLine, Types, FileTypes, LogTypes
    <3>2. CASE ~WriteLine(t, row)
      BY <1>2, <2>1, <3>2 DEF AppendRow, Repeated, RefuseLine, fileVars, Types, FileTypes, LogTypes
    <3> QED BY <3>1, <3>2
  <2>4. ThreadTypes'
    <3>1. CASE RefuseLine(t, row)
      BY <1>2, <3>1, RaiseTypes DEF AppendRow, RefuseLine, Types, ThreadTypes
    <3>2. CASE Repeated(t, row) \/ WriteLine(t, row)
      BY <1>2, <3>2 DEF AppendRow, Repeated, WriteLine, Types, ThreadTypes, Place
    <3> QED BY <2>1, <3>1, <3>2
  <2> QED BY <2>3, <2>4 DEF Types
<1>3. CASE MarkRow(t)
  <2>1. PICK row \in rows[t] : Taken(t, row) /\ outbox' = MarkedSent(row.no)
    BY <1>3 DEF MarkRow
  <2>2. outbox' \in SUBSET OutboxRow
    BY <2>1 DEF MarkedSent, Types, LogTypes, OutboxRow
  <2>3. up' \in [Process -> {"up", "opening", "down"}]
    BY <2>1, OpenedTypes DEF Taken
  <2>4. pc' \in [Thread -> Place] /\ rows' \in [Thread -> SUBSET OutboxRow]
    BY <2>1 DEF Taken, Types, ThreadTypes, Place
  <2> QED BY <1>3, <2>2, <2>3, <2>4 DEF MarkRow, fileVars, Types, LogTypes, FileTypes, ThreadTypes
<1> QED BY <1>1, <1>2, <1>3 DEF FlushStep

(* The steps of a rotation, and retention.                                 *)
LEMMA RotateTypes ==
  ASSUME Types, NEW t \in Thread, RotateStep(t) \/ DeleteRows(t)
  PROVE  Types'
<1>0. <<>> \in File /\ OnDisk \ {Torn} \in SUBSET RecordId
  <2>1. Types => FileTypes
    BY DEF Types
  <2>2. \A d \in Day : /\ Range(plain[d]) \subseteq RecordId \cup {Torn}
                       /\ Range(zipped[d]) \subseteq RecordId \cup {Torn}
    BY DEF Types, FileTypes, File, Range
  <2> QED BY <2>1, <2>2, OnDiskIs, EmptyFile
<1>1. CASE DeleteFile(t)
  BY <1>0, <1>1 DEF DeleteFile, Types, LogTypes, FileTypes, ThreadTypes
<1>2. CASE Compress(t)
  <2>1. PICK d \in Day : IF Whole(plain[d])
              THEN /\ zipped' = [zipped EXCEPT ![d] = plain[d]]
                   /\ pc' = [pc EXCEPT ![t] = "unlink"]
                   /\ UNCHANGED <<rows, up>>
              ELSE Raise(t) /\ UNCHANGED zipped
    BY <1>2 DEF Compress
  <2>2. zipped' \in [Day -> File]
    BY <2>1 DEF Types, FileTypes
  <2>3. /\ pc' \in [Thread -> Place] /\ rows' \in [Thread -> SUBSET OutboxRow]
        /\ up' \in [Process -> {"up", "opening", "down"}]
    <3>1. CASE Raise(t)
      BY <3>1, RaiseTypes
    <3>2. CASE ~Raise(t)
      BY <2>1, <3>2 DEF Types, ThreadTypes, Place
    <3> QED BY <3>1, <3>2
  <2> QED BY <1>2, <2>2, <2>3 DEF Compress, Types, LogTypes, FileTypes, ThreadTypes
<1>3. CASE Unlink(t)
  BY <1>0, <1>3 DEF Unlink, Types, LogTypes, FileTypes, ThreadTypes, Place
<1>4. CASE Rotated(t)
  <2>1. CASE Verifiable
    <3>1. \A d \in Day : Torn \notin Range(plain[d]) /\ Torn \notin Range(zipped[d])
      BY <2>1 DEF Verifiable, Whole
    <3>2. OnDisk \in SUBSET RecordId
      BY <1>0, <3>1, OnDiskIs DEF Types
    <3>3. ids' \in [Process -> SUBSET RecordId]
      BY <1>4, <2>1, <3>2, KnowTypes DEF Rotated
    <3> QED BY <1>4, <2>1, <3>3 DEF Rotated, Types, LogTypes, FileTypes, ThreadTypes, Place
  <2>2. CASE ~Verifiable
    BY <1>4, <2>2, RaiseTypes DEF Rotated, Types, LogTypes, FileTypes, ThreadTypes
  <2> QED BY <2>1, <2>2
<1>5. CASE DeleteRows(t)
  BY <1>5 DEF DeleteRows, fileVars, Types, LogTypes, FileTypes, ThreadTypes, Place
<1> QED BY <1>1, <1>2, <1>3, <1>4, <1>5 DEF RotateStep

(* A write fails.                                                          *)
LEMMA TroubleTypes ==
  ASSUME Types, NEW t \in Thread, Trouble(t)
  PROVE  Types'
<1>1. Raise(t)
  BY DEF Trouble, AppendFails, MarkFails, RotateFails
<1>2. plain' \in [Day -> File] /\ damaged' \in BOOLEAN
  <2>1. CASE AppendFails(t)
    BY <2>1, TornTypes DEF AppendFails, Types, FileTypes
  <2>2. CASE MarkFails(t) \/ RotateFails(t)
    BY <2>2 DEF MarkFails, RotateFails, fileVars, Types, FileTypes
  <2> QED BY <2>1, <2>2 DEF Trouble
<1>3. UNCHANGED <<zipped, ids, written, outbox, today, committed, owes>>
  BY DEF Trouble, AppendFails, MarkFails, RotateFails, fileVars
<1> QED BY <1>1, <1>2, <1>3, RaiseTypes DEF Types, LogTypes, FileTypes, ThreadTypes

(* A process is killed or opens its log, and days pass.                    *)
LEMMA RestartTypes ==
  ASSUME Types, (\E p \in Process : Crash(p)) \/ (\E t \in Thread : Open(t)) \/ NextDay
  PROVE  Types'
<1>1. ASSUME NEW p \in Process, Crash(p) PROVE Types'
  <2>1. plain' \in [Day -> File] /\ damaged' \in BOOLEAN
    BY <1>1, TornTypes DEF Crash, Types, FileTypes
  <2> QED BY <1>1, <2>1 DEF Crash, Types, LogTypes, FileTypes, ThreadTypes, Place
<1>2. ASSUME NEW t \in Thread, Open(t) PROVE Types'
  <2>0. Proc(t) \in Process
    BY DEF Process
  <2>1. \A d \in Day : /\ Range(plain[d]) \subseteq RecordId /\ Range(zipped[d]) \subseteq RecordId
    BY <1>2 DEF Open, Verifiable, Whole, Types, FileTypes, File, Range
  <2>2. ids' \in [Process -> SUBSET RecordId]
    BY <1>2, <2>1, OnDiskIs, KnowTypes DEF Open, Types
  <2>3. ThreadTypes'
    BY <1>2, <2>0 DEF Open, Types, ThreadTypes, Place
  <2> QED BY <1>2, <2>2, <2>3 DEF Open, Types, LogTypes, FileTypes
<1>3. CASE NextDay
  <2>1. today' \in Day
    BY <1>3, AuditAssumption DEF NextDay, Day, Types, FileTypes
  <2> QED BY <1>3, <2>1 DEF NextDay, fileVars, Types, LogTypes, FileTypes, ThreadTypes
<1> QED BY <1>1, <1>2, <1>3

-----------------------------------------------------------------------------
(* Delivery: LogInv is kept by every step of a thread, a process or the      *)
(* clock, and by a transaction that queues a record.                         *)

\* The two logs only grow.
Grows == /\ DOMAIN committed \subseteq DOMAIN committed'
         /\ \A i \in DOMAIN committed : committed'[i] = committed[i]
         /\ Len(committed) <= Len(committed') /\ Len(written) <= Len(written')

(* With nothing committed or written, what was logged still is.            *)
LEMMA Same ==
  ASSUME LogTypes, UNCHANGED <<committed, written>>
  PROVE  Grows
BY DEF Grows, LogTypes

\* A thread that does not flush in a step stays as it was, or stops in between.
LEMMA KeepsDelivering ==
  ASSUME LogInv, Types', Grows, NEW u \in Thread,
         \/ rows'[u] = rows[u] /\ pc'[u] = pc[u] /\ owes'[u] = owes[u]
         \/ /\ rows'[u] \in {rows[u], {}} /\ pc'[u] \notin {"append", "mark"}
            /\ owes'[u] = owes[u] \/ owes'[u] = 0
            /\ pc'[u] = "idle" => pc[u] = "idle" \/ owes'[u] = 0
  PROVE  Delivering(u)'
<1>1. NoGap(u) /\ MarksLogged(u) /\ Owed(u)
  BY DEF LogInv, Delivering
<1>2. /\ Len(committed) \in Nat /\ Len(committed') \in Nat /\ Len(written) \in Nat
      /\ Len(written') \in Nat /\ DOMAIN committed = 1 .. Len(committed)
      /\ DOMAIN committed' = 1 .. Len(committed') /\ owes[u] \in Nat /\ owes'[u] \in Nat
  BY DEF LogInv, Types, LogTypes, ThreadTypes
<1>3. rows[u] \subseteq OutboxRow /\ rows'[u] \subseteq rows[u]
  BY DEF LogInv, ThreadTypes
<1>4. NoGap(u)'
  <2>1. ASSUME NEW row \in rows'[u]
        PROVE  /\ InPlace(row)'
               /\ \A k \in DOMAIN committed' :
                    Len(written') < k /\ k < row.no => \E other \in rows'[u] : other.no = k
    <3>1. rows'[u] = rows[u] /\ row \in rows[u] /\ row.no \in Nat
      BY <1>3, <2>1 DEF OutboxRow
    <3>2. InPlace(row)'
      BY <1>1, <3>1 DEF NoGap, InPlace, Grows
    <3>3. ASSUME NEW k \in DOMAIN committed', Len(written') < k, k < row.no
          PROVE  k \in DOMAIN committed /\ Len(written) < k
      BY <1>1, <1>2, <3>1, <3>3 DEF NoGap, InPlace, Grows
    <3> QED BY <1>1, <3>1, <3>2, <3>3 DEF NoGap
  <2> QED BY <2>1 DEF NoGap
<1>5. MarksLogged(u)'
  BY <1>1, <1>2, <1>3 DEF MarksLogged, IsNext, Grows, OutboxRow
<1>6. Owed(u)'
  <2>1. owes'[u] <= Len(committed') /\ (pc'[u] = "idle" => owes'[u] <= Len(written'))
    BY <1>1, <1>2 DEF Owed, Grows
  <2>2. ASSUME pc'[u] \in {"append", "mark"}, NEW k \in DOMAIN committed',
               Len(written') < k, k <= owes'[u]
        PROVE  \E row \in rows'[u] : row.no = k
    <3>1. rows'[u] = rows[u] /\ pc'[u] = pc[u] /\ owes'[u] = owes[u]
      BY <2>2
    <3>2. k \in DOMAIN committed /\ Len(written) < k /\ k <= owes[u]
      BY <1>1, <1>2, <2>2, <3>1 DEF Owed, Grows
    <3> QED BY <1>1, <2>2, <3>1, <3>2 DEF Owed
  <2> QED BY <2>1, <2>2 DEF Owed
<1> QED BY <1>4, <1>5, <1>6 DEF Delivering

\* A row leaves the outbox only when it is marked: what is not logged stays.
LEMMA OutboxShrinks ==
  ASSUME LogInv, UNCHANGED <<committed, written>>,
         outbox' \subseteq outbox, \A row \in outbox \ outbox' : row.sent
  PROVE  (OutboxInPlace /\ RestIsPending)'
BY DEF LogInv, OutboxInPlace, RestIsPending, InPlace

(* A committed record is pending, and owed.                                *)
LEMMA QueueDelivers ==
  ASSUME LogInv, NEW t \in Thread, NEW id \in RecordId,
         NEW fact \in Fact, Queue(t, id, fact)
  PROVE  LogInv'
<1> DEFINE new == [no |-> Len(committed) + 1, id |-> id, day |-> today, sent |-> FALSE]
           record == [id |-> id, fact |-> fact]
<1>1. Types /\ Types'
  BY QueueTypes DEF LogInv, Types
<1>2. /\ Len(committed) \in Nat /\ DOMAIN committed = 1 .. Len(committed) /\ Len(written) \in Nat
      /\ LogIsPrefix /\ OutboxInPlace /\ RestIsPending /\ DOMAIN written = 1 .. Len(written)
  BY DEF LogInv, LogTypes
<1>3. \/ UNCHANGED <<outbox, committed>>
      \/ /\ outbox' = outbox \cup {new} /\ committed' = Append(committed, record)
         /\ DOMAIN committed' = 1 .. Len(committed) + 1 /\ Len(committed') = Len(committed) + 1
         /\ \A i \in DOMAIN committed : committed'[i] = committed[i]
         /\ committed'[Len(committed) + 1].id = id
  <2>1. record \in Record /\ committed \in Seq(Record)
    BY DEF Record, LogInv, LogTypes
  <2>2. /\ DOMAIN Append(committed, record) = 1 .. Len(committed) + 1
        /\ \A i \in DOMAIN committed : Append(committed, record)[i] = committed[i]
        /\ Append(committed, record)[Len(committed) + 1] = record
        /\ Len(Append(committed, record)) = Len(committed) + 1
    BY <2>1, RangeAppend
  <2> QED BY <2>2 DEF Queue
<1> HIDE DEF new, record
<1>4. UNCHANGED <<plain, zipped, ids, written, rows, owes>>
  BY DEF Queue, fileVars
<1>5. Grows
  BY <1>2, <1>3, <1>4 DEF Grows
<1>6. LogIsPrefix'
  BY <1>2, <1>3, <1>4 DEF LogIsPrefix
<1>7. OutboxInPlace' /\ RestIsPending'
  <2>1. CASE UNCHANGED <<outbox, committed>>
    BY <1>2, <1>4, <2>1 DEF OutboxInPlace, RestIsPending, InPlace
  <2>2. CASE ~UNCHANGED <<outbox, committed>>
    <3>1. new.no = Len(committed) + 1 /\ new.id = id /\ ~new.sent
      BY DEF new
    <3>2. OutboxInPlace'
      BY <1>2, <1>3, <1>4, <2>2, <3>1 DEF OutboxInPlace, InPlace
    <3>3. RestIsPending'
      BY <1>2, <1>3, <1>4, <2>2, <3>1 DEF RestIsPending
    <3> QED BY <3>2, <3>3
  <2> QED BY <2>1, <2>2
<1>8. ASSUME NEW u \in Thread PROVE Delivering(u)'
  <2>1. \/ rows'[u] = rows[u] /\ pc'[u] = pc[u] /\ owes'[u] = owes[u]
        \/ rows'[u] = rows[u] /\ pc'[u] = "read" /\ owes'[u] = owes[u]
    BY <1>1, <1>4 DEF Queue, Types, ThreadTypes
  <2> QED BY <1>1, <1>5, <2>1, KeepsDelivering
<1>9. KnownIsLogged' /\ FilesAreLogged'
  BY <1>4 DEF LogInv, KnownIsLogged, FilesAreLogged
<1> QED BY <1>1, <1>6, <1>7, <1>8, <1>9 DEF LogInv, Types

(* A flush reads all that is pending.                                      *)
LEMMA ReadDelivers ==
  ASSUME LogInv, NEW t \in Thread, ReadPending(t)
  PROVE  LogInv'
<1> DEFINE pending == {row \in outbox : ~row.sent}
<1>1. Types /\ Types'
  BY FlushTypes DEF LogInv, Types, FlushStep
<1>2. /\ UNCHANGED <<plain, zipped, ids, written, outbox, committed>>
      /\ rows' = [rows EXCEPT ![t] = pending]
      /\ pc' = [pc EXCEPT ![t] = IF pending = {} THEN "idle" ELSE "append"]
      /\ owes' = [owes EXCEPT ![t] = Len(committed)]
  BY DEF ReadPending, fileVars
<1>3. /\ Len(committed) \in Nat /\ DOMAIN committed = 1 .. Len(committed) /\ Len(written) \in Nat
      /\ LogIsPrefix /\ OutboxInPlace /\ RestIsPending
      /\ pending \in SUBSET OutboxRow
  BY DEF LogInv, LogTypes
<1>4. ASSUME NEW u \in Thread PROVE Delivering(u)'
  <2>1. CASE u # t
    <3>1. rows'[u] = rows[u] /\ pc'[u] = pc[u] /\ owes'[u] = owes[u]
      BY <1>1, <1>2, <2>1 DEF Types, ThreadTypes
    <3> QED BY <1>1, <1>2, <3>1, KeepsDelivering, Same DEF Types
  <2>2. CASE u = t
    <3>1. rows'[t] = pending /\ owes'[t] = Len(committed)
          /\ pc'[t] = IF pending = {} THEN "idle" ELSE "append"
      BY <1>1, <1>2 DEF Types, ThreadTypes
    <3>2. NoGap(t)'
      BY <1>2, <1>3, <3>1 DEF NoGap, OutboxInPlace, RestIsPending, InPlace
    <3>3. MarksLogged(t)'
      BY <3>1 DEF MarksLogged
    <3>4. Owed(t)'
      <4>1. ASSUME pending = {} PROVE Len(committed) <= Len(written)
        <5>1. SUFFICES ASSUME Len(written) < Len(committed) PROVE FALSE
          BY <1>3
        <5>2. Len(committed) \in DOMAIN committed
          BY <1>3, <5>1
        <5>3. PICK row \in outbox : row.no = Len(committed) /\ ~row.sent
          BY <1>3, <5>1, <5>2 DEF RestIsPending
        <5> QED BY <4>1, <5>3
      <4> QED BY <1>2, <1>3, <3>1, <4>1 DEF Owed, RestIsPending
    <3> QED BY <2>2, <3>2, <3>3, <3>4 DEF Delivering
  <2> QED BY <2>1, <2>2
<1>5. (LogIsPrefix /\ OutboxInPlace /\ RestIsPending /\ KnownIsLogged /\ FilesAreLogged)'
  BY <1>2 DEF LogInv, LogIsPrefix, OutboxInPlace, RestIsPending, KnownIsLogged, FilesAreLogged,
     InPlace
<1> QED BY <1>1, <1>4, <1>5 DEF LogInv, Types

\* The row a thread comes to is logged already, or is the first that is not.
LEMMA NextIsFirst ==
  ASSUME LogInv, NEW t \in Thread, NEW row \in rows[t], IsNext(row, t)
  PROVE  /\ row.no \in DOMAIN committed /\ row.id = committed[row.no].id
         /\ row.no <= Len(written) + 1
         /\ row.no <= Len(written) => row.id \in Range(written)
<1>1. /\ Len(committed) \in Nat /\ DOMAIN committed = 1 .. Len(committed) /\ Len(written) \in Nat
      /\ DOMAIN written = 1 .. Len(written) /\ LogIsPrefix /\ NoGap(t)
      /\ rows[t] \subseteq OutboxRow
  BY DEF LogInv, LogTypes, ThreadTypes, Delivering
<1>2. row.no \in DOMAIN committed /\ row.id = committed[row.no].id
  BY <1>1 DEF NoGap, InPlace
<1>3. row.no <= Len(written) + 1
  <2>1. SUFFICES ASSUME Len(written) + 1 < row.no PROVE FALSE
    BY <1>1, <1>2
  <2>2. PICK other \in rows[t] : other.no = Len(written) + 1
    BY <1>1, <1>2, <2>1 DEF NoGap
  <2>3. row.no <= other.no
    BY DEF IsNext
  <2> QED BY <1>1, <1>2, <2>1, <2>2, <2>3
<1>4. row.no <= Len(written) => row.id \in Range(written)
  BY <1>1, <1>2 DEF LogIsPrefix, Range
<1> QED BY <1>2, <1>3, <1>4

(* A row that is appended is the next one of the log.                      *)
LEMMA AppendDelivers ==
  ASSUME LogInv, QueuedOnce, NEW t \in Thread, AppendRow(t)
  PROVE  LogInv'
<1>1. Types /\ Types'
  BY FlushTypes DEF LogInv, Types, FlushStep
<1>2. PICK row \in rows[t] : /\ IsNext(row, t)
                             /\ Repeated(t, row) \/ WriteLine(t, row) \/ RefuseLine(t, row)
  BY DEF AppendRow
<1>3. /\ Len(committed) \in Nat /\ DOMAIN committed = 1 .. Len(committed) /\ Len(written) \in Nat
      /\ DOMAIN written = 1 .. Len(written) /\ written \in Seq(RecordId)
      /\ LogIsPrefix /\ OutboxInPlace /\ RestIsPending /\ rows[t] \subseteq OutboxRow
      /\ row.id \in RecordId /\ row.no \in Nat
  BY <1>2 DEF LogInv, LogTypes, ThreadTypes, OutboxRow
<1>4. /\ row.no \in DOMAIN committed /\ row.id = committed[row.no].id
      /\ row.no <= Len(written) + 1
  BY <1>2, NextIsFirst
<1>5. row.id \in Range(written) => row.no <= Len(written)
  BY <1>3, <1>4 DEF LogIsPrefix, QueuedOnce, Range
<1>6. UNCHANGED <<outbox, committed, owes>>
  BY DEF AppendRow
<1>7. ASSUME Repeated(t, row) \/ WriteLine(t, row),
             Grows, row.no <= Len(written')
      PROVE  \A u \in Thread : Delivering(u)'
  <2>1. UNCHANGED rows /\ pc' = [pc EXCEPT ![t] = "mark"] /\ pc[t] = "append"
    BY <1>7 DEF Repeated, WriteLine, AppendRow
  <2>2. ASSUME NEW u \in Thread, u # t PROVE Delivering(u)'
    <3>1. rows'[u] = rows[u] /\ pc'[u] = pc[u] /\ owes'[u] = owes[u]
      BY <1>1, <1>6, <2>1, <2>2 DEF Types, ThreadTypes
    <3> QED BY <1>1, <1>7, <3>1, KeepsDelivering
  <2>3. Delivering(t)'
    <3>1. NoGap(t) /\ Owed(t)
      BY DEF LogInv, Delivering
    <3>2. Len(written') \in Nat /\ Len(written) <= Len(written')
      BY <1>1, <1>7 DEF Types, LogTypes, Grows
    <3>3. NoGap(t)'
      BY <1>3, <1>6, <2>1, <3>1, <3>2 DEF NoGap, InPlace, OutboxRow
    <3>4. MarksLogged(t)'
      BY <1>2, <1>3, <1>7, <2>1, <3>2 DEF MarksLogged, IsNext, OutboxRow
    <3>5. pc'[t] = "mark"
      BY <1>1, <2>1 DEF Types, ThreadTypes
    <3>6. Owed(t)'
      BY <1>3, <1>6, <2>1, <3>1, <3>2, <3>5 DEF Owed
    <3> QED BY <3>3, <3>4, <3>6 DEF Delivering
  <2> QED BY <2>2, <2>3
<1>8. CASE Repeated(t, row)
  <2>1. UNCHANGED <<plain, zipped, ids, written>> /\ row.id \in Range(written)
    <3>1. Proc(t) \in Process /\ row.id \in ids[Proc(t)]
      BY <1>8 DEF Process, Repeated
    <3> QED BY <1>8, <3>1 DEF Repeated, fileVars, LogInv, KnownIsLogged
  <2>2. Grows
    BY <1>1, <1>6, <2>1, Same DEF Types
  <2>3. \A u \in Thread : Delivering(u)'
    BY <1>5, <1>7, <1>8, <2>1, <2>2
  <2> QED BY <1>1, <1>3, <1>6, <2>1, <2>3
          DEF LogInv, Types, LogIsPrefix, OutboxInPlace, RestIsPending, KnownIsLogged,
              FilesAreLogged, InPlace
<1>9. CASE WriteLine(t, row)
  <2>1. /\ Range(written') = Range(written) \cup {row.id} /\ row.no <= Len(written')
        /\ Len(written') \in Nat /\ DOMAIN written' = 1 .. Len(written')
        /\ Len(written) <= Len(written')
        /\ \A k \in 1 .. Len(written') :
             IF k <= Len(written) THEN written'[k] = written[k]
                                  ELSE k = row.no /\ written'[k] = row.id
    <3>1. CASE row.id \in Range(written)
      BY <1>3, <1>5, <1>9, <3>1 DEF WriteLine
    <3>2. CASE row.id \notin Range(written)
      <4>1. written' = Append(written, row.id) /\ Len(written') = Len(written) + 1
        BY <1>3, <1>9, <3>2 DEF WriteLine
      <4>2. ~(row.no <= Len(written))
        BY <1>2, <3>2, NextIsFirst
      <4> QED BY <1>3, <1>4, <4>1, <4>2, RangeAppend
    <3> QED BY <3>1, <3>2
  <2>2. Grows
    BY <1>3, <1>6, <2>1 DEF Grows
  <2>3. \A u \in Thread : Delivering(u)'
    BY <1>7, <1>9, <2>1, <2>2
  <2>4. LogIsPrefix'
    BY <1>3, <1>4, <1>6, <2>1 DEF LogIsPrefix
  <2>5. OutboxInPlace' /\ RestIsPending'
    BY <1>3, <1>6, <2>1 DEF OutboxInPlace, RestIsPending, InPlace, LogInv, LogTypes, OutboxRow
  <2>6. KnownIsLogged'
    <3>1. ids' = [ids EXCEPT ![Proc(t)] = ids[Proc(t)] \cup {row.id}]
      BY <1>9 DEF WriteLine, Know
    <3> QED BY <1>1, <2>1, <3>1 DEF LogInv, KnownIsLogged, Types, FileTypes
  <2>7. FilesAreLogged'
    <3>1. plain[today] \in Seq(RecordId \cup {Torn}) /\ today \in Day
      BY <1>1 DEF Types, FileTypes, File
    <3>2. Range(Append(plain[today], row.id)) = Range(plain[today]) \cup {row.id}
      BY <1>3, <3>1, RangeAppend
    <3>3. plain' = [plain EXCEPT ![today] = Append(plain[today], row.id)] /\ UNCHANGED zipped
      BY <1>9 DEF WriteLine
    <3> QED BY <1>1, <2>1, <3>1, <3>2, <3>3 DEF LogInv, FilesAreLogged, Types, FileTypes
  <2> QED BY <1>1, <2>3, <2>4, <2>5, <2>6, <2>7 DEF LogInv, Types
<1>10. CASE RefuseLine(t, row)
  <2>1. UNCHANGED <<plain, zipped, ids, written>> /\ Raise(t)
    BY <1>10 DEF RefuseLine, fileVars
  <2>2. ASSUME NEW u \in Thread PROVE Delivering(u)'
    <3>1. \/ rows'[u] = rows[u] /\ pc'[u] = pc[u] /\ owes'[u] = owes[u]
          \/ rows'[u] = {} /\ pc'[u] = "failed" /\ owes'[u] = owes[u]
      BY <1>1, <1>6, <2>1 DEF Raise, Types, ThreadTypes
    <3> QED BY <1>1, <1>6, <2>1, <3>1, KeepsDelivering, Same DEF Types
  <2>3. (LogIsPrefix /\ OutboxInPlace /\ RestIsPending)'
    BY <1>3, <1>6, <2>1 DEF LogIsPrefix, OutboxInPlace, RestIsPending, InPlace
  <2>4. (KnownIsLogged /\ FilesAreLogged)'
    BY <2>1 DEF LogInv, KnownIsLogged, FilesAreLogged
  <2> QED BY <1>1, <2>2, <2>3, <2>4 DEF LogInv, Types
<1> QED BY <1>2, <1>8, <1>9, <1>10

(* A row that is marked is in the log.                                     *)
LEMMA MarkDelivers ==
  ASSUME LogInv, NEW t \in Thread, MarkRow(t)
  PROVE  LogInv'
<1>1. Types /\ Types'
  BY FlushTypes DEF LogInv, Types, FlushStep
<1>2. PICK row \in rows[t] : IsNext(row, t) /\ Taken(t, row) /\ outbox' = MarkedSent(row.no)
  BY DEF MarkRow
<1>3. /\ Len(committed) \in Nat /\ DOMAIN committed = 1 .. Len(committed) /\ Len(written) \in Nat
      /\ LogIsPrefix /\ OutboxInPlace /\ RestIsPending /\ rows[t] \subseteq OutboxRow
      /\ outbox \subseteq OutboxRow
      /\ NoGap(t) /\ Owed(t) /\ row.no <= Len(written) /\ row.no \in Nat
  BY <1>2 DEF LogInv, LogTypes, ThreadTypes, OutboxRow, Delivering, MarksLogged, MarkRow
<1>4. /\ UNCHANGED <<plain, zipped, ids, written, committed, owes>>
      /\ rows' = [rows EXCEPT ![t] = rows[t] \ {row}]
      /\ pc' = [pc EXCEPT ![t] = IF rows[t] = {row} THEN "idle" ELSE "append"]
  BY <1>2 DEF MarkRow, Taken, fileVars
<1>5. OutboxInPlace' /\ RestIsPending'
  <2>1. ASSUME NEW q \in outbox'
        PROVE  \E r \in outbox : q.no = r.no /\ q.id = r.id /\ (q.sent => r.sent \/ r.no = row.no)
    <3>1. PICK r \in outbox : q = IF r.no = row.no THEN [r EXCEPT !.sent = TRUE] ELSE r
      BY <1>2 DEF MarkedSent
    <3>2. r \in OutboxRow
      BY <1>3
    <3> QED BY <3>1, <3>2 DEF OutboxRow
  <2>2. OutboxInPlace'
    BY <1>3, <1>4, <2>1 DEF OutboxInPlace, InPlace
  <2>3. ASSUME NEW k \in DOMAIN committed, k > Len(written)
        PROVE  \E r \in outbox' : r.no = k /\ ~r.sent
    <3>1. PICK r \in outbox : r.no = k /\ ~r.sent
      BY <1>3, <2>3 DEF RestIsPending
    <3>2. r.no # row.no
      BY <1>3, <2>3, <3>1
    <3> QED BY <1>2, <3>1, <3>2 DEF MarkedSent
  <2> QED BY <1>4, <2>2, <2>3 DEF RestIsPending
<1>6. ASSUME NEW u \in Thread PROVE Delivering(u)'
  <2>1. CASE u # t
    <3>1. rows'[u] = rows[u] /\ pc'[u] = pc[u] /\ owes'[u] = owes[u]
      BY <1>1, <1>4, <2>1 DEF Types, ThreadTypes
    <3> QED BY <1>1, <1>4, <3>1, KeepsDelivering, Same DEF Types
  <2>2. CASE u = t
    <3>1. /\ rows'[t] = rows[t] \ {row} /\ owes'[t] = owes[t] /\ owes[t] \in Nat
          /\ pc'[t] = IF rows[t] = {row} THEN "idle" ELSE "append"
      BY <1>1, <1>4 DEF Types, ThreadTypes
    <3>2. NoGap(t)'
      BY <1>3, <1>4, <3>1 DEF NoGap, InPlace
    <3>3. MarksLogged(t)'
      BY <3>1 DEF MarksLogged
    <3>4. Owed(t)'
      <4>1. ASSUME NEW k \in DOMAIN committed, Len(written) < k, k <= owes[t]
            PROVE  \E r \in rows[t] \ {row} : r.no = k
        <5>1. PICK r \in rows[t] : r.no = k
          BY <1>3, <4>1 DEF Owed, MarkRow
        <5> QED BY <1>3, <4>1, <5>1
      <4>2. rows[t] = {row} => owes[t] <= Len(written)
        <5>1. SUFFICES ASSUME rows[t] = {row}, ~(owes[t] <= Len(written)) PROVE FALSE
          OBVIOUS
        <5>2. Len(written) + 1 \in DOMAIN committed /\ Len(written) + 1 <= owes[t]
          BY <1>3, <3>1, <5>1 DEF Owed
        <5> QED BY <1>3, <4>1, <5>1, <5>2
      <4> QED BY <1>3, <1>4, <3>1, <4>1, <4>2 DEF Owed
    <3> QED BY <2>2, <3>2, <3>3, <3>4 DEF Delivering
  <2> QED BY <2>1, <2>2
<1> QED BY <1>1, <1>3, <1>4, <1>5, <1>6
        DEF LogInv, Types, LogIsPrefix, KnownIsLogged, FilesAreLogged

(* Rotation moves lines between files, retention takes marked rows.        *)
LEMMA RotateDelivers ==
  ASSUME LogInv, NEW t \in Thread, RotateStep(t) \/ DeleteRows(t)
  PROVE  LogInv'
<1>1. Types /\ Types'
  BY RotateTypes DEF LogInv, Types
<1>2. UNCHANGED <<committed, written, owes>>
  BY DEF RotateStep, DeleteFile, Compress, Unlink, Rotated, DeleteRows, fileVars
<1>3. ASSUME NEW u \in Thread PROVE Delivering(u)'
  <2>1. \/ rows'[u] = rows[u] /\ pc'[u] = pc[u]
        \/ rows'[u] \in {rows[u], {}} /\ pc'[u] \in {"rotate", "unlink", "report", "failed"}
    <3>1. CASE Raise(t)
      BY <1>1, <3>1 DEF Raise, Types, ThreadTypes
    <3>2. CASE ~Raise(t)
      BY <1>1, <3>2
         DEF RotateStep, DeleteFile, Compress, Unlink, Rotated, DeleteRows, Types, ThreadTypes
    <3> QED BY <3>1, <3>2
  <2> QED BY <1>1, <1>2, <2>1, KeepsDelivering, Same DEF Types
<1>4. (OutboxInPlace /\ RestIsPending)'
  <2>1. outbox' \subseteq outbox /\ \A row \in outbox \ outbox' : row.sent
    BY DEF RotateStep, DeleteFile, Compress, Unlink, Rotated, DeleteRows
  <2> QED BY <1>2, <2>1, OutboxShrinks
<1>5. FilesAreLogged'
  <2>1. \A d \in Day : /\ plain'[d] \in {plain[d], <<>>}
                       /\ zipped'[d] \in {zipped[d], plain[d], <<>>}
    BY <1>1 DEF RotateStep, DeleteFile, Compress, Unlink, Rotated, DeleteRows, fileVars,
                Types, FileTypes
  <2>2. Range(<<>>) = {}
    BY EmptyFile
  <2> QED BY <1>2, <2>1, <2>2 DEF LogInv, FilesAreLogged
<1>6. KnownIsLogged'
  <2>1. CASE Rotated(t) /\ Verifiable
    <3>1. \A d \in Day : Torn \notin Range(plain[d]) /\ Torn \notin Range(zipped[d])
      BY <2>1 DEF Verifiable, Whole
    <3>2. OnDisk \subseteq Range(written)
      BY <1>1, <3>1, OnDiskIs DEF Types, LogInv, FilesAreLogged
    <3>3. ids' = [ids EXCEPT ![Proc(t)] = OnDisk]
      BY <2>1 DEF Rotated, Know
    <3> QED BY <1>1, <1>2, <3>2, <3>3 DEF LogInv, KnownIsLogged, Types, FileTypes
  <2>2. CASE ~(Rotated(t) /\ Verifiable)
    <3>1. UNCHANGED ids
      BY <2>2 DEF RotateStep, DeleteFile, Compress, Unlink, Rotated, DeleteRows, fileVars
    <3> QED BY <1>2, <3>1 DEF LogInv, KnownIsLogged
  <2> QED BY <2>1, <2>2
<1>7. LogIsPrefix'
  BY <1>2 DEF LogInv, LogIsPrefix
<1> QED BY <1>1, <1>3, <1>4, <1>5, <1>6, <1>7 DEF LogInv, Types

\* A cut line is no record.
LEMMA TornIsLogged ==
  ASSUME LogInv, Types', UNCHANGED <<written, zipped>>,
         plain' = plain \/ plain' = [plain EXCEPT ![today] = Append(plain[today], Torn)]
  PROVE  FilesAreLogged'
<1>1. Types /\ plain[today] \in Seq(RecordId \cup {Torn}) /\ today \in Day
  BY DEF LogInv, Types, FileTypes, File
<1>2. Range(Append(plain[today], Torn)) = Range(plain[today]) \cup {Torn}
  BY <1>1, RangeAppend
<1>3. ASSUME NEW d \in Day
      PROVE  Range(plain'[d]) \subseteq Range(plain[d]) \cup {Torn}
  BY <1>1, <1>2 DEF Types, FileTypes
<1> QED BY <1>3 DEF LogInv, FilesAreLogged

(* A write that fails leaves its row pending.                              *)
LEMMA TroubleDelivers ==
  ASSUME LogInv, NEW t \in Thread, Trouble(t)
  PROVE  LogInv'
<1>1. Types /\ Types'
  BY TroubleTypes DEF LogInv, Types
<1>2. Raise(t) /\ UNCHANGED <<zipped, ids, written, outbox, committed, owes>>
  BY DEF Trouble, AppendFails, MarkFails, RotateFails, fileVars
<1>3. ASSUME NEW u \in Thread PROVE Delivering(u)'
  <2>1. \/ rows'[u] = rows[u] /\ pc'[u] = pc[u] /\ owes'[u] = owes[u]
        \/ rows'[u] = {} /\ pc'[u] = "failed" /\ owes'[u] = owes[u]
    BY <1>1, <1>2 DEF Raise, Types, ThreadTypes
  <2> QED BY <1>1, <1>2, <2>1, KeepsDelivering, Same DEF Types
<1>4. FilesAreLogged'
  <2>1. plain' = plain \/ plain' = [plain EXCEPT ![today] = Append(plain[today], Torn)]
    BY DEF Trouble, AppendFails, MarkFails, RotateFails, fileVars
  <2> QED BY <1>1, <1>2, <2>1, TornIsLogged
<1>5. (LogIsPrefix /\ OutboxInPlace /\ RestIsPending /\ KnownIsLogged)'
  BY <1>2 DEF LogInv, LogIsPrefix, OutboxInPlace, RestIsPending, KnownIsLogged, InPlace
<1> QED BY <1>1, <1>3, <1>4, <1>5 DEF LogInv, Types

(* A killed process owes nothing, and one that opens knows only what was   *)
(* logged.                                                                 *)
LEMMA RestartDelivers ==
  ASSUME LogInv, (\E p \in Process : Crash(p)) \/ (\E t \in Thread : Open(t)) \/ NextDay
  PROVE  LogInv'
<1>1. Types /\ Types'
  BY RestartTypes DEF LogInv, Types
<1>2. UNCHANGED <<zipped, written, outbox, committed>>
  BY DEF Crash, Open, NextDay, fileVars
<1>3. ASSUME NEW u \in Thread PROVE Delivering(u)'
  <2>1. \/ rows'[u] = rows[u] /\ pc'[u] = pc[u] /\ owes'[u] = owes[u]
        \/ /\ rows'[u] \in {rows[u], {}} /\ pc'[u] \in {"idle", "read"} /\ owes'[u] = 0
    <3>1. ASSUME NEW p \in Process, Crash(p) PROVE <2>1
      BY <3>1 DEF Crash
    <3>2. ASSUME NEW t \in Thread, Open(t) PROVE <2>1
      BY <3>2 DEF Open
    <3>3. CASE NextDay
      BY <3>3 DEF NextDay
    <3> QED BY <3>1, <3>2, <3>3
  <2> QED BY <1>1, <1>2, <2>1, KeepsDelivering, Same DEF Types
<1>4. FilesAreLogged'
  <2>1. plain' = plain \/ plain' = [plain EXCEPT ![today] = Append(plain[today], Torn)]
    BY DEF Crash, Open, NextDay, fileVars
  <2> QED BY <1>1, <1>2, <2>1, TornIsLogged
<1>5. KnownIsLogged'
  <2>1. ASSUME NEW p \in Process, Crash(p) PROVE KnownIsLogged'
    BY <1>1, <1>2, <2>1 DEF Crash, LogInv, KnownIsLogged, Types, FileTypes
  <2>2. ASSUME NEW t \in Thread, Open(t) PROVE KnownIsLogged'
    <3>1. \A d \in Day : Torn \notin Range(plain[d]) /\ Torn \notin Range(zipped[d])
      BY <2>2 DEF Open, Verifiable, Whole
    <3>2. OnDisk \subseteq Range(written)
      BY <1>1, <3>1, OnDiskIs DEF Types, LogInv, FilesAreLogged
    <3>3. ids' = [ids EXCEPT ![Proc(t)] = OnDisk]
      BY <2>2 DEF Open, Know
    <3> QED BY <1>1, <1>2, <3>2, <3>3 DEF LogInv, KnownIsLogged, Types, FileTypes
  <2>3. CASE NextDay
    BY <1>2, <2>3 DEF NextDay, fileVars, LogInv, KnownIsLogged
  <2> QED BY <2>1, <2>2, <2>3
<1>6. (LogIsPrefix /\ OutboxInPlace /\ RestIsPending)'
  BY <1>2 DEF LogInv, LogIsPrefix, OutboxInPlace, RestIsPending, InPlace
<1> QED BY <1>1, <1>3, <1>4, <1>5, <1>6 DEF LogInv, Types

-----------------------------------------------------------------------------
(* The tables: a write keeps what the rows say of the ids in use, and its    *)
(* record is the last one about its row.                                     *)

Audit == {"users", "sessions", "segments", "alerts", "models", "storage_metadata",
          "update_candidates"}
TableTypes == /\ \A r \in db : r.rev \in Nat /\ r.day \in Nat
              /\ \A r, q \in db : r.table = q.table /\ r.key = q.key => r = q

(* The row of a key, when there is one.                                    *)
LEMMA RowFound ==
  ASSUME NEW table, NEW key, Has(table, key)
  PROVE  Row(table, key) \in db /\ Row(table, key).table = table /\ Row(table, key).key = key
BY DEF Has, Row

(* The tables after a row is written.                                      *)
LEMMA Revised ==
  ASSUME TableTypes, today \in Day, NEW table, NEW key, NEW val,
         NEW n \in Nat, db' = Revise(table, key, val, n)
  PROVE  /\ TableTypes'
         /\ \E r \in db' : r.table = table /\ r.key = key /\ r.val = val /\ r.rev = n
         /\ \A r \in db' : r.table = table /\ r.key = key => r.val = val /\ r.rev = n
         /\ \A r : r.table # table \/ r.key # key => (r \in db' <=> r \in db)
<1> DEFINE day == IF Has(table, key) THEN Row(table, key).day ELSE today
           new == [table |-> table, key |-> key, val |-> val, rev |-> n, day |-> day]
<1>1. day \in Nat
  <2>1. Has(table, key) => Row(table, key) \in db
    BY RowFound
  <2> QED BY <2>1, AuditAssumption DEF TableTypes, Day
<1>2. /\ new.day \in Nat /\ new.table = table /\ new.key = key /\ new.val = val /\ new.rev = n
  BY <1>1
<1>3. db' = {r \in db : ~(r.table = table /\ r.key = key)} \cup {new}
  BY DEF Revise
<1> HIDE DEF new
<1> QED BY <1>2, <1>3 DEF TableTypes

\* The rows an id rests on outlive a write, for no write reopens what has ended and
\* no revision goes back.
Careful(table, key, val, n) ==
    /\ table = "segments" /\ key = "g" => val = "ended"
    /\ table = "sessions" /\ key = "s" => val = "ended"
    /\ \A r \in db : r.table = "update_candidates" /\ r.key = "c" /\ table = r.table /\ key = r.key
                       => r.rev <= n

(* A careful write leaves the rows that make earlier ids unique.           *)
LEMMA RowsRemain ==
  ASSUME TableTypes, today \in Day, NEW table, NEW key, NEW val,
         NEW n \in Nat, db' = Revise(table, key, val, n), Careful(table, key, val, n),
         Len(committed) \in Nat, Len(committed') \in Nat, Len(committed) <= Len(committed'),
         NEW id \in RecordId, RowOf(id)
  PROVE  RowOf(id)'
<1>1. /\ \E r \in db' : r.table = table /\ r.key = key /\ r.val = val /\ r.rev = n
      /\ \A r : r.table # table \/ r.key # key => (r \in db' <=> r \in db)
      /\ TableTypes'
  BY Revised
<1>2. ASSUME NEW tb, NEW k PROVE /\ Has(tb, k) => Has(tb, k)'
                                 /\ Ended(tb, k) /\ (table = tb /\ key = k => val = "ended")
                                      => Ended(tb, k)'
  BY <1>1 DEF Has, Ended
<1>3. id[3] \in Nat
  BY DEF RecordId
<1>4. ASSUME id[1] = "update", id[2] = "c"
      PROVE  \E r \in db' : r.table = "update_candidates" /\ r.key = "c" /\ id[3] <= r.rev
  <2>1. PICK r \in db : r.table = "update_candidates" /\ r.key = "c" /\ id[3] <= r.rev
    BY <1>4 DEF RowOf
  <2>2. r.rev \in Nat
    BY DEF TableTypes
  <2>3. CASE table = "update_candidates" /\ key = "c"
    <3>1. r.rev <= n
      BY <2>1, <2>3 DEF Careful
    <3> QED BY <1>1, <1>3, <2>1, <2>2, <2>3, <3>1
  <2>4. CASE ~(table = "update_candidates" /\ key = "c")
    BY <1>1, <2>1, <2>4
  <2> QED BY <2>3, <2>4
<1>5. id[1] \in {"user-state", "admin", "challenge", "retention"} => id[3] <= Len(committed')
  BY <1>3 DEF RowOf
<1> QED BY <1>2, <1>4, <1>5 DEF RowOf, Careful

\* A row id has its record only once: a record with a new id is queued.
LEMMA NewIsQueued ==
  ASSUME LogInv, NEW t \in Thread, NEW id \in RecordId, NEW fact \in Fact,
         Queue(t, id, fact), \A i \in DOMAIN committed : committed[i].id # id
  PROVE  /\ Len(committed') = Len(committed) + 1 /\ DOMAIN committed' = 1 .. Len(committed) + 1
         /\ committed' = Append(committed, [id |-> id, fact |-> fact])
         /\ \A i \in DOMAIN committed : committed'[i] = committed[i]
         /\ committed'[Len(committed) + 1].id = id /\ committed'[Len(committed) + 1].fact = fact
<1>1. \A row \in outbox : row.id # id
  BY DEF LogInv, OutboxInPlace, InPlace
<1>2. [id |-> id, fact |-> fact] \in Record /\ committed \in Seq(Record)
  BY DEF Record, LogInv, LogTypes
<1>3. committed' = Append(committed, [id |-> id, fact |-> fact])
  BY <1>1 DEF Queue
<1>4. Len(committed') = Len(committed) + 1
  BY <1>2, <1>3
<1> QED BY <1>2, <1>3, <1>4, RangeAppend

(* A write with its record: the id is new and the row is there.            *)
LEMMA AuditedKeeps ==
  ASSUME LogInv, TableInv, NEW t \in Thread,
         NEW kind \in Kind, NEW table \in Table, NEW key \in Key, NEW val \in Val,
         NEW n \in Nat, NEW rev \in Nat,
         db' = Revise(table, key, val, rev), Careful(table, key, val, rev),
         Queue(t, <<kind, key, n>>, <<table, key, val>>),
         \A i \in DOMAIN committed : committed[i].id # <<kind, key, n>>,
         n = Len(committed) + 1 \/ kind \notin {"user-state", "admin", "challenge", "retention"},
         Len(committed') = Len(committed) + 1 => RowOf(<<kind, key, n>>)'
  PROVE  TableInv'
<1> DEFINE id == <<kind, key, n>>
           new == Len(committed) + 1
<1>0. id \in RecordId /\ <<table, key, val>> \in Fact
  BY DEF RecordId, Fact
<1>1. /\ Len(committed') = new /\ DOMAIN committed' = 1 .. new
      /\ \A i \in DOMAIN committed : committed'[i] = committed[i]
      /\ committed'[new].id = id /\ committed'[new].fact = <<table, key, val>>
  BY <1>0, NewIsQueued
<1>2. /\ Len(committed) \in Nat /\ DOMAIN committed = 1 .. Len(committed) /\ today \in Day
      /\ TableTypes /\ QueuedOnce /\ IdsHaveRows /\ RowsAreAudited
      /\ committed \in Seq(Record)
  BY DEF LogInv, LogTypes, FileTypes, TableInv, TableTypes
<1>3. /\ TableTypes'
      /\ \A r \in db' : r.table = table /\ r.key = key => r.val = val
      /\ \A r : r.table # table \/ r.key # key => (r \in db' <=> r \in db)
  <2>1. TableTypes /\ today \in Day /\ db' = Revise(table, key, val, rev)
    BY <1>2
  <2> QED BY <2>1, Revised
<1>4. QueuedOnce'
  BY <1>1, <1>2, SMTT(20) DEF QueuedOnce
<1>5. IdsHaveRows'
  <2>1. ASSUME NEW i \in DOMAIN committed' PROVE RowOf(committed[i].id)'
    <3>1. CASE i = new
      <4>1. committed'[i].id = <<kind, key, n>> /\ RowOf(<<kind, key, n>>)'
        BY <1>1, <3>1
      <4> QED BY <4>1 DEF RowOf
    <3>2. CASE i # new
      <4>1. i \in DOMAIN committed /\ committed'[i] = committed[i]
        BY <1>1, <1>2, <3>2
      <4>2. PICK old \in RecordId : old = committed[i].id
        <5>1. committed[i] \in Record
          BY <1>2, <4>1
        <5> QED BY <5>1 DEF Record
      <4>3. RowOf(old)
        BY <1>2, <4>1, <4>2 DEF IdsHaveRows
      <4>4. RowOf(old)'
        BY <1>1, <1>2, <4>3, RowsRemain
      <4> QED BY <4>1, <4>2, <4>4 DEF RowOf
    <3> QED BY <3>1, <3>2
  <2> QED BY <2>1 DEF IdsHaveRows
<1>6. RowsAreAudited'
  <2>1. ASSUME NEW r \in db', r.table \in Audit PROVE IsAudited(r)'
    <3>1. CASE r.table = table /\ r.key = key
      <4>1. new \in DOMAIN committed' /\ r.val = val
        BY <1>1, <1>2, <1>3, <3>1
      <4> QED BY SMTT(30), <1>1, <1>2, <3>1, <4>1 DEF IsAudited
    <3>2. CASE r.table # table \/ r.key # key
      <4>1. r \in db /\ IsAudited(r)
        BY <1>2, <1>3, <2>1, <3>2 DEF RowsAreAudited, Audit
      <4>2. PICK i \in DOMAIN committed :
              /\ committed[i].fact[1] = r.table /\ committed[i].fact[2] = r.key
              /\ committed[i].fact[3] = r.val
              /\ \A j \in DOMAIN committed :
                   committed[j].fact[1] = r.table /\ committed[j].fact[2] = r.key => j <= i
        BY <4>1 DEF IsAudited
      <4>3. /\ committed'[i] = committed[i] /\ i \in DOMAIN committed'
            /\ \A j \in DOMAIN committed' :
                 committed'[j].fact[1] = r.table /\ committed'[j].fact[2] = r.key => j <= i
        <5>1. ~(committed'[new].fact[1] = r.table /\ committed'[new].fact[2] = r.key)
          BY <1>1, <3>2
        <5> QED BY <1>1, <1>2, <4>2, <5>1
      <4> QED BY <4>2, <4>3 DEF IsAudited
    <3> QED BY <3>1, <3>2
  <2> QED BY <2>1 DEF RowsAreAudited, Audit
<1> QED BY <1>3, <1>4, <1>5, <1>6 DEF TableInv, TableTypes

\* A record whose id has a time or a uuid is new, and rests on no row.
LEMMA FreshKeeps ==
  ASSUME LogInv, TableInv, NEW t \in Thread,
         NEW kind \in {"user-state", "admin", "challenge", "retention"},
         NEW table \in Table \ {"sessions", "segments", "update_candidates"},
         NEW key \in Key, NEW val \in Val, Audited(t, kind, Fresh, table, key, val)
  PROVE  TableInv' /\ LogInv'
<1>1. PICK n \in Nat : n = Len(committed) + 1
  BY DEF LogInv, LogTypes
<1>2. kind \in Kind /\ table \in Table
  BY DEF Kind
<1>3. <<kind, key, n>> \in RecordId /\ <<table, key, val>> \in Fact
  BY <1>2 DEF RecordId, Fact
<1>4. Queue(t, <<kind, key, n>>, <<table, key, val>>) /\ db' = Revise(table, key, val, 1)
  BY <1>1 DEF Audited, Put, Fresh
<1>5. \A i \in DOMAIN committed : committed[i].id # <<kind, key, n>>
  <2>1. ASSUME NEW i \in DOMAIN committed, committed[i].id = <<kind, key, n>> PROVE FALSE
    <3>1. RowOf(committed[i].id) /\ Len(committed) \in Nat
      BY DEF TableInv, IdsHaveRows, LogInv, LogTypes
    <3> QED BY <1>1, <2>1, <3>1 DEF RowOf
  <2> QED BY <2>1
<1>6. Careful(table, key, val, 1)
  BY DEF Careful
<1>7. Len(committed') = Len(committed) + 1 => RowOf(<<kind, key, n>>)'
  BY <1>1 DEF RowOf
<1>8. LogInv'
  BY <1>3, <1>4, QueueDelivers
<1>9. TableInv'
  BY <1>1, <1>2, <1>4, <1>5, <1>6, <1>7, AuditedKeeps, ZenonT(30)
<1> QED BY <1>8, <1>9

\* The row that makes the id of a record unique is the one that is written with it.
Rests(kind, table, val) ==
    /\ kind = "session-start" => table = "sessions"
    /\ kind = "drill-session" => table = "drill_sessions"
    /\ kind = "segment-start" => table = "segments"
    /\ kind = "segment-end" => table = "segments" /\ val = "ended"
    /\ kind = "session-end" => table = "sessions" /\ val = "ended"
    /\ kind = "verification" => table = "verification_anchors"
    /\ kind = "model" => table = "models"

(* Such a write when its record can come only once.                        *)
LEMMA OnceKeeps ==
  ASSUME LogInv, TableInv, NEW t \in Thread,
         NEW kind \in Kind \ {"user-state", "admin", "challenge", "retention", "update"},
         NEW table \in Table, NEW key \in Key, NEW val \in Val,
         Audited(t, kind, Once, table, key, val),
         IsNew(kind, key), Careful(table, key, val, 1), Rests(kind, table, val)
  PROVE  TableInv' /\ LogInv'
<1>1. PICK n \in Nat : n = Once
  BY DEF Once
<1>2. kind \in Kind
  OBVIOUS
<1>3. <<kind, key, n>> \in RecordId /\ <<table, key, val>> \in Fact
  BY <1>2 DEF RecordId, Fact
<1>4. Queue(t, <<kind, key, n>>, <<table, key, val>>) /\ db' = Revise(table, key, val, 1)
  BY <1>1 DEF Audited, Put
<1>5. \A i \in DOMAIN committed : committed[i].id # <<kind, key, n>>
  BY <1>1 DEF IsNew
<1>6. RowOf(<<kind, key, n>>)'
  <2>1. \E r \in db' : r.table = table /\ r.key = key /\ r.val = val
    <3>1. TableTypes /\ today \in Day
      BY DEF TableInv, TableTypes, LogInv, FileTypes
    <3> QED BY <1>4, <3>1, Revised
  <2> QED BY <2>1 DEF RowOf, Rests, Has, Ended
<1>7. LogInv'
  BY <1>3, <1>4, QueueDelivers
<1>8. TableInv'
  BY <1>2, <1>4, <1>5, <1>6, AuditedKeeps
<1> QED BY <1>7, <1>8

\* A write to a table that is not audited, or one whose record is queued already,
\* changes nothing that is audited.
LEMMA PlainKeeps ==
  ASSUME LogInv, TableInv, UNCHANGED committed, NEW table, NEW key, NEW val,
         db' = Put(table, key, val), table \notin Audit
  PROVE  TableInv'
<1>1. /\ TableTypes /\ today \in Day /\ Len(committed) \in Nat
      /\ \A i \in DOMAIN committed : committed[i] \in Record
  BY DEF TableInv, TableTypes, LogInv, FileTypes, LogTypes
<1>2. db' = Revise(table, key, val, 1) /\ Careful(table, key, val, 1)
  BY DEF Put, Careful, Audit
<1>3. TableTypes' /\ \A r : r.table # table \/ r.key # key => (r \in db' <=> r \in db)
  BY <1>1, <1>2, Revised
<1>4. IdsHaveRows'
  <2>1. ASSUME NEW i \in DOMAIN committed' PROVE RowOf(committed[i].id)'
    <3>1. PICK id \in RecordId : id = committed[i].id
      BY <1>1 DEF Record
    <3>2. RowOf(id)
      BY <3>1 DEF TableInv, IdsHaveRows
    <3>3. RowOf(id)'
      BY <1>1, <1>2, <3>2, RowsRemain
    <3> QED BY <3>1, <3>3 DEF RowOf
  <2> QED BY <2>1 DEF IdsHaveRows
<1>5. RowsAreAudited'
  BY <1>3 DEF TableInv, RowsAreAudited, IsAudited, Audit
<1>6. QueuedOnce'
  BY DEF TableInv, QueuedOnce
<1> QED BY <1>3, <1>4, <1>5, <1>6 DEF TableInv, TableTypes

(* A write that leaves the audit side alone.                               *)
LEMMA SvcUnchanged ==
  ASSUME LogInv, UNCHANGED auditVars
  PROVE  LogInv'
<1>1. Types'
  BY DEF auditVars, LogInv, Types, LogTypes, FileTypes, ThreadTypes
<1>2. (LogIsPrefix /\ OutboxInPlace /\ RestIsPending /\ KnownIsLogged /\ FilesAreLogged)'
  BY DEF auditVars, LogInv, LogIsPrefix, OutboxInPlace, RestIsPending, KnownIsLogged,
         FilesAreLogged, InPlace
<1>3. \A u \in Thread : Delivering(u)'
  BY DEF auditVars, LogInv, Delivering, NoGap, MarksLogged, Owed, IsNext, InPlace
<1> QED BY <1>1, <1>2, <1>3 DEF LogInv, Types

\* An id whose row is not there has not been used.
LEMMA UnusedId ==
  ASSUME TableInv, NEW kind, NEW key, ~RowOf(<<kind, key, Once>>)
  PROVE  IsNew(kind, key)
BY DEF IsNew, TableInv, IdsHaveRows

(* The writes whose record comes once.                                     *)
LEMMA OnceWritesKeep ==
  ASSUME LogInv, TableInv, NEW t \in Thread,
         \/ CreateSession(t) \/ DeclareDrill(t) \/ CreateSegment(t) \/ EndSegment(t)
         \/ EndSession(t) \/ StoreDecision(t) \/ RecordVerification(t) \/ StoreAlert(t)
         \/ StoreModel(t)
  PROVE  TableInv' /\ LogInv'
<1> USE DEF Kind, Table, Key, Val, Careful, Rests
<1>1. CASE CreateSession(t)
  <2>1. Audited(t, "session-start", Once, "sessions", "s2", "open") /\ IsNew("session-start", "s2")
    BY <1>1, UnusedId DEF CreateSession, RowOf
  <2> QED BY <2>1, OnceKeeps
<1>2. CASE DeclareDrill(t)
  <2>1. Audited(t, "drill-session", Once, "drill_sessions", "s2", "drill") /\ IsNew("drill-session", "s2")
    BY <1>2, UnusedId DEF DeclareDrill, RowOf
  <2> QED BY <2>1, OnceKeeps
<1>3. CASE CreateSegment(t)
  <2>1. Audited(t, "segment-start", Once, "segments", "g2", "open") /\ IsNew("segment-start", "g2")
    BY <1>3, UnusedId DEF CreateSegment, RowOf
  <2> QED BY <2>1, OnceKeeps
<1>4. CASE EndSegment(t)
  <2>0. ~Ended("segments", "g")
    BY <1>4, RowFound DEF EndSegment, Ended, TableInv
  <2>1. Audited(t, "segment-end", Once, "segments", "g", "ended") /\ IsNew("segment-end", "g")
    BY <1>4, <2>0, UnusedId DEF EndSegment, RowOf
  <2> QED BY <2>1, OnceKeeps
<1>5. CASE EndSession(t)
  <2>0. ~Ended("sessions", "s")
    BY <1>5, RowFound DEF EndSession, Ended, TableInv
  <2>1. Audited(t, "session-end", Once, "sessions", "s", "ended") /\ IsNew("session-end", "s")
    BY <1>5, <2>0, UnusedId DEF EndSession, RowOf
  <2> QED BY <2>1, OnceKeeps
<1>6. CASE StoreDecision(t)
  <2>1. Audited(t, "risk-decision", Once, "decisions", "d", "NONE") /\ IsNew("risk-decision", "d")
    BY <1>6 DEF StoreDecision
  <2> QED BY <2>1, OnceKeeps
<1>7. CASE RecordVerification(t)
  <2>1. Audited(t, "verification", Once, "verification_anchors", "a", "A2") /\ IsNew("verification", "a")
    BY <1>7, UnusedId DEF RecordVerification, RowOf
  <2> QED BY <2>1, OnceKeeps
<1>8. CASE StoreAlert(t)
  <2>1. Audited(t, "alert", Once, "alerts", "al", "raised") /\ IsNew("alert", "al")
    BY <1>8 DEF StoreAlert
  <2> QED BY <2>1, OnceKeeps
<1>9. CASE StoreModel(t)
  <2>1. Audited(t, "model", Once, "models", "m", "model") /\ IsNew("model", "m")
    BY <1>9, UnusedId DEF StoreModel, RowOf
  <2> QED BY <2>1, OnceKeeps
<1> QED BY <1>1, <1>2, <1>3, <1>4, <1>5, <1>6, <1>7, <1>8, <1>9

(* The writes whose record is numbered.                                    *)
LEMMA FreshWritesKeep ==
  ASSUME LogInv, TableInv, NEW t \in Thread,
         UpsertUser(t) \/ AcknowledgeAlert(t) \/ SetShadowMode(t) \/ SetChallenge(t)
  PROVE  TableInv' /\ LogInv'
<1> USE DEF Table, Key, Val
<1>1. CASE UpsertUser(t)
  <2>1. PICK val \in UserState : Audited(t, "user-state", Fresh, "users", "u", val)
    BY <1>1 DEF UpsertUser
  <2>2. val \in Val
    OBVIOUS
  <2> QED BY <2>1, <2>2, FreshKeeps
<1>2. CASE AcknowledgeAlert(t)
  <2>1. Audited(t, "admin", Fresh, "alerts", "al", "acknowledged")
    BY <1>2 DEF AcknowledgeAlert
  <2> QED BY <2>1, FreshKeeps
<1>3. CASE SetShadowMode(t)
  <2>1. PICK val \in {"0", "1"} : Audited(t, "admin", Fresh, "storage_metadata", "admin_shadow_mode", val)
    BY <1>3 DEF SetShadowMode
  <2>2. val \in Val
    OBVIOUS
  <2> QED BY <2>1, <2>2, FreshKeeps
<1>4. CASE SetChallenge(t)
  <2>1. PICK val \in {"rotated", "set"} : Audited(t, "challenge", Fresh, "storage_metadata", "security_challenge", val)
    BY <1>4 DEF SetChallenge
  <2>2. val \in Val
    OBVIOUS
  <2> QED BY <2>1, <2>2, FreshKeeps
<1> QED BY <1>1, <1>2, <1>3, <1>4

\* A candidate's record has the next revision of its row, which no record has.
LEMMA CandidateKeeps ==
  ASSUME LogInv, TableInv, NEW t \in Thread, StoreCandidate(t)
  PROVE  TableInv' /\ LogInv'
<1>1. PICK n \in Nat : n = IF Has("update_candidates", "c")
                            THEN Row("update_candidates", "c").rev + 1 ELSE 1
  BY RowFound DEF TableInv
<1>2. PICK val \in Disposition : /\ db' = Revise("update_candidates", "c", val, n)
                                 /\ Queue(t, <<"update", "c", n>>, <<"update_candidates", "c", val>>)
  BY <1>1 DEF StoreCandidate
<1>3. "update" \in Kind /\ "c" \in Key /\ "update_candidates" \in Table /\ val \in Val
  BY DEF Kind, Key, Table, Val
<1>4. \A r \in db : r.table = "update_candidates" /\ r.key = "c" => r.rev < n
  BY <1>1, RowFound DEF TableInv, Has
<1>5. Careful("update_candidates", "c", val, n)
  BY <1>4 DEF Careful, TableInv
<1>6. \A i \in DOMAIN committed : committed[i].id # <<"update", "c", n>>
  <2>1. ASSUME NEW i \in DOMAIN committed, committed[i].id = <<"update", "c", n>> PROVE FALSE
    <3>1. RowOf(<<"update", "c", n>>)
      BY <2>1 DEF TableInv, IdsHaveRows
    <3>2. \E r \in db : r.table = "update_candidates" /\ r.key = "c" /\ n <= r.rev
      BY <3>1 DEF RowOf
    <3> QED BY <1>4, <3>2 DEF TableInv
  <2> QED BY <2>1
<1>7. RowOf(<<"update", "c", n>>)'
  <2>1. TableTypes /\ today \in Day
    BY DEF TableInv, TableTypes, LogInv, FileTypes
  <2>2. \E r \in db' : r.table = "update_candidates" /\ r.key = "c" /\ r.rev = n
    BY <1>2, <2>1, Revised
  <2> QED BY <2>2 DEF RowOf
<1>8. <<"update", "c", n>> \in RecordId /\ <<"update_candidates", "c", val>> \in Fact
  BY <1>3 DEF RecordId, Fact
<1>9. LogInv'
  BY <1>2, <1>8, QueueDelivers
<1> QED BY <1>2, <1>3, <1>5, <1>6, <1>7, <1>9, AuditedKeeps

(* An outcome changes a decision without a record.                         *)
LEMMA OutcomeKeeps ==
  ASSUME LogInv, TableInv, NEW t \in Thread, RecordOutcome(t)
  PROVE  TableInv' /\ LogInv'
<1>1. PICK o \in Outcome :
        /\ Audited(t, "action-outcome", Once, "decisions", "d", o)
        /\ \/ IsNew("action-outcome", "d")
           \/ \E row \in outbox : row.id = <<"action-outcome", "d", Once>>
  BY DEF RecordOutcome
<1>2. o \in Val /\ "decisions" \in Table /\ "d" \in Key /\ "action-outcome" \in Kind
  BY DEF Val, Table, Key, Kind
<1>3. CASE IsNew("action-outcome", "d")
  BY <1>1, <1>2, <1>3, OnceKeeps DEF Careful, Rests
<1>4. CASE \E row \in outbox : row.id = <<"action-outcome", "d", Once>>
  <2>1. /\ Queue(t, <<"action-outcome", "d", Once>>, <<"decisions", "d", o>>)
        /\ db' = Put("decisions", "d", o) /\ UNCHANGED committed
    BY <1>1, <1>4 DEF Audited, Queue
  <2>2. <<"action-outcome", "d", Once>> \in RecordId /\ <<"decisions", "d", o>> \in Fact
    BY <1>2 DEF RecordId, Fact, Once
  <2>3. TableInv'
    BY <2>1, PlainKeeps DEF Audit
  <2> QED BY <2>1, <2>2, <2>3, QueueDelivers
<1> QED BY <1>1, <1>3, <1>4

(* The writes that need no record.                                         *)
LEMMA PlainWritesKeep ==
  ASSUME LogInv, TableInv, NEW t \in Thread,
         StoreWindow(t) \/ StoreScore(t) \/ RegisterApp(t) \/ RecordSystem(t)
  PROVE  TableInv' /\ LogInv'
<1>1. \E table \in {"feature_windows", "scores", "app_registry", "system_metrics"} :
        \E key, val : Unaudited(Put(table, key, val))
  BY DEF StoreWindow, StoreScore, RegisterApp, RecordSystem
<1>2. PICK table \in {"feature_windows", "scores", "app_registry", "system_metrics"} :
        \E key, val : Unaudited(Put(table, key, val))
  BY <1>1
<1>3. PICK key, val : db' = Put(table, key, val) /\ UNCHANGED auditVars
  BY <1>2 DEF Unaudited
<1>4. UNCHANGED committed /\ table \notin Audit
  BY <1>2, <1>3 DEF auditVars, Audit
<1> QED BY <1>3, <1>4, PlainKeeps, SvcUnchanged

(* Every write.                                                            *)
LEMMA WriteKeeps ==
  ASSUME IInv, NEW t \in Thread, Write(t)
  PROVE  IInv'
BY OnceWritesKeep, FreshWritesKeep, CandidateKeeps, OutcomeKeeps, PlainWritesKeep
   DEF IInv, Write

\* Retention takes no row that an id or an audited table rests on but alerts.
LEMMA RetentionKeeps ==
  ASSUME IInv, NEW t \in Thread, RunRetention(t)
  PROVE  IInv'
<1>1. LogInv'
  BY RotateDelivers DEF IInv, RunRetention
<1>2. /\ UNCHANGED committed /\ db' \subseteq db
      /\ \A r \in db : r.table \notin Aging => r \in db'
  BY DEF RunRetention, DeleteRows
<1>3. IdsHaveRows'
  BY <1>2, SMTT(20) DEF IInv, TableInv, IdsHaveRows, RowOf, Has, Ended, Aging
<1>4. (QueuedOnce /\ RowsAreAudited)'
  BY <1>2 DEF IInv, TableInv, QueuedOnce, RowsAreAudited, IsAudited
<1> QED BY <1>1, <1>2, <1>3, <1>4 DEF IInv, TableInv

(* A rotation reports what it deleted.                                     *)
LEMMA ReportKeeps ==
  ASSUME IInv, NEW t \in Thread, Report(t)
  PROVE  IInv'
<1>1. PICK n \in Nat : n = Len(committed) + 1
  BY DEF IInv, LogInv, LogTypes
<1>2. Queue(t, <<"retention", "r", n>>, <<"retention", "r", "COMPLETED">>) /\ UNCHANGED db
  BY <1>1 DEF Report, Fresh
<1>3. <<"retention", "r", n>> \in RecordId /\ <<"retention", "r", "COMPLETED">> \in Fact
  BY DEF RecordId, Fact, Kind, Key, Table, Val
<1>4. LogInv'
  BY <1>2, <1>3, QueueDelivers DEF IInv
<1>5. \A i \in DOMAIN committed : committed[i].id # <<"retention", "r", n>>
  <2>1. ASSUME NEW i \in DOMAIN committed, committed[i].id = <<"retention", "r", n>> PROVE FALSE
    <3>1. RowOf(<<"retention", "r", n>>)
      BY <2>1 DEF IInv, TableInv, IdsHaveRows
    <3>2. Len(committed) \in Nat
      BY DEF IInv, LogInv, LogTypes
    <3> QED BY <1>1, <3>1, <3>2 DEF RowOf
  <2> QED BY <2>1
<1>6. /\ Len(committed') = n /\ DOMAIN committed' = 1 .. n
      /\ Len(committed) \in Nat /\ DOMAIN committed = 1 .. Len(committed)
      /\ \A i \in DOMAIN committed : committed'[i] = committed[i]
      /\ committed'[n].id = <<"retention", "r", n>>
      /\ committed'[n].fact = <<"retention", "r", "COMPLETED">>
  <2>1. Len(committed) \in Nat /\ DOMAIN committed = 1 .. Len(committed) /\ LogInv
    BY DEF IInv, LogInv, LogTypes
  <2>2. /\ Len(committed') = Len(committed) + 1 /\ DOMAIN committed' = 1 .. Len(committed) + 1
        /\ \A i \in DOMAIN committed : committed'[i] = committed[i]
        /\ committed'[Len(committed) + 1].id = <<"retention", "r", n>>
        /\ committed'[Len(committed) + 1].fact = <<"retention", "r", "COMPLETED">>
    BY <1>2, <1>3, <1>5, <2>1, NewIsQueued
  <2> QED BY <1>1, <2>1, <2>2
<1>7. QueuedOnce'
  BY <1>1, <1>5, <1>6 DEF IInv, TableInv, QueuedOnce
<1>8. IdsHaveRows'
  <2>1. ASSUME NEW i \in DOMAIN committed' PROVE RowOf(committed[i].id)'
    <3>1. CASE i = n
      BY <1>1, <1>6, <3>1 DEF RowOf
    <3>2. CASE i # n
      <4>1. i \in DOMAIN committed /\ committed'[i] = committed[i] /\ committed[i] \in Record
        BY <1>1, <1>6, <3>2 DEF IInv, LogInv, LogTypes
      <4>2. RowOf(committed[i].id) /\ committed[i].id[3] \in Nat
        BY <4>1 DEF IInv, TableInv, IdsHaveRows, Record, RecordId
      <4> QED BY <1>1, <1>2, <1>6, <4>1, <4>2 DEF RowOf, Has, Ended
    <3> QED BY <3>1, <3>2
  <2> QED BY <2>1 DEF IdsHaveRows
<1>9. RowsAreAudited'
  <2>1. ASSUME NEW r \in db, r.table \in Audit, IsAudited(r) PROVE IsAudited(r)'
    <3>1. PICK i \in DOMAIN committed :
            /\ committed[i].fact[1] = r.table /\ committed[i].fact[2] = r.key
            /\ committed[i].fact[3] = r.val
            /\ \A j \in DOMAIN committed :
                 committed[j].fact[1] = r.table /\ committed[j].fact[2] = r.key => j <= i
      BY <2>1 DEF IsAudited
    <3>2. \A j \in DOMAIN committed' :
            committed'[j].fact[1] = r.table /\ committed'[j].fact[2] = r.key => j <= i
      <4>1. committed'[n].fact[1] # r.table
        BY <1>6, <2>1 DEF Audit
      <4> QED BY <1>1, <1>6, <3>1, <4>1
    <3> QED BY <1>1, <1>6, <3>1, <3>2 DEF IsAudited
  <2> QED BY <1>2, <2>1 DEF IInv, TableInv, RowsAreAudited, Audit
<1> QED BY <1>2, <1>4, <1>7, <1>8, <1>9 DEF IInv, TableInv

-----------------------------------------------------------------------------
(* The invariant of the service.                                             *)

(* What the three first records are.                                       *)
LEMMA First3Is ==
  /\ First3 \in Seq(Record) /\ Len(First3) = 3 /\ DOMAIN First3 = 1 .. 3
  /\ First3[1].id = <<"user-state", "u", 0>> /\ First3[1].fact = <<"users", "u", "ACTIVE">>
  /\ First3[2].id = <<"session-start", "s", 0>> /\ First3[2].fact = <<"sessions", "s", "open">>
  /\ First3[3].id = <<"segment-start", "g", 0>> /\ First3[3].fact = <<"segments", "g", "open">>
<1> DEFINE a == [id |-> <<"user-state", "u", 0>>, fact |-> <<"users", "u", "ACTIVE">>]
           b == [id |-> <<"session-start", "s", 0>>, fact |-> <<"sessions", "s", "open">>]
           c == [id |-> <<"segment-start", "g", 0>>, fact |-> <<"segments", "g", "open">>]
<1>1. /\ <<"user-state", "u", 0>> \in RecordId /\ <<"session-start", "s", 0>> \in RecordId
      /\ <<"segment-start", "g", 0>> \in RecordId
  BY DEF RecordId, Kind, Key
<1>2. /\ <<"users", "u", "ACTIVE">> \in Fact /\ <<"sessions", "s", "open">> \in Fact
      /\ <<"segments", "g", "open">> \in Fact
  BY DEF Fact, Table, Key, Val, UserState
<1>3. a \in Record /\ b \in Record /\ c \in Record
  BY <1>1, <1>2 DEF Record
<1>4. /\ a.id = <<"user-state", "u", 0>> /\ a.fact = <<"users", "u", "ACTIVE">>
      /\ b.id = <<"session-start", "s", 0>> /\ b.fact = <<"sessions", "s", "open">>
      /\ c.id = <<"segment-start", "g", 0>> /\ c.fact = <<"segments", "g", "open">>
  OBVIOUS
<1>5. First3 = <<a, b, c>>
  BY DEF First3
<1> HIDE DEF a, b, c
<1>6. <<a, b, c>> \in Seq(Record) /\ Len(<<a, b, c>>) = 3
      /\ <<a, b, c>>[1] = a /\ <<a, b, c>>[2] = b /\ <<a, b, c>>[3] = c
  BY <1>3
<1> QED BY <1>4, <1>5, <1>6

(* The invariant at the start.                                             *)
LEMMA InitKeeps ==
  ASSUME Init
  PROVE  IInv
<1>1. /\ committed = First3 /\ written = [i \in DOMAIN First3 |-> First3[i].id]
      /\ outbox = {[no |-> i, id |-> First3[i].id, day |-> 0, sent |-> TRUE] : i \in DOMAIN First3}
      /\ plain = [d \in Day |-> IF d = 0 THEN written ELSE <<>>] /\ zipped = [d \in Day |-> <<>>]
      /\ ids = [p \in Process |-> IF p = "backend" THEN Range(written) ELSE {}]
      /\ pc = [t \in Thread |-> "idle"] /\ rows = [t \in Thread |-> {}]
      /\ owes = [t \in Thread |-> 0] /\ damaged = FALSE /\ today = 0
      /\ up = [p \in Process |-> IF p = "backend" THEN "up" ELSE "down"]
  BY DEF Init, AuditInit
<1>2. /\ First3 \in Seq(Record) /\ Len(First3) = 3 /\ DOMAIN First3 = 1 .. 3
      /\ \A i \in 1 .. 3 : First3[i] \in Record /\ First3[i].id \in RecordId
  <2>1. ASSUME NEW i \in 1 .. 3 PROVE First3[i] \in Record /\ First3[i].id \in RecordId
    <3>1. First3[i] \in Record
      BY First3Is, ElementOfSeq
    <3> QED BY <3>1 DEF Record
  <2> QED BY <2>1, First3Is
<1>3. /\ written \in Seq(RecordId) /\ Len(written) = 3 /\ DOMAIN written = 1 .. 3
      /\ \A i \in 1 .. 3 : written[i] = committed[i].id
  <2>1. written = [i \in 1 .. 3 |-> First3[i].id]
    BY <1>1, <1>2
  <2> QED BY <1>1, <1>2, <2>1
<1>4. LogTypes
  <2>1. outbox \in SUBSET OutboxRow
    <3>1. ASSUME NEW i \in 1 .. 3
          PROVE  [no |-> i, id |-> First3[i].id, day |-> 0, sent |-> TRUE] \in OutboxRow
      <4>1. First3[i].id \in RecordId /\ i \in Nat
        BY <1>2
      <4> QED BY <4>1 DEF OutboxRow
    <3> QED BY <1>1, <1>2, <3>1
  <2> QED BY <1>1, <1>2, <1>3, <2>1 DEF LogTypes
<1>5. Range(written) \subseteq RecordId
  <2>1. ASSUME NEW i \in 1 .. 3 PROVE written[i] \in RecordId
    BY <1>3, ElementOfSeq
  <2> QED BY <1>3, <2>1 DEF Range
<1>6. FileTypes
  <2>1. written \in File /\ <<>> \in File
    <3>1. written \in Seq(RecordId \cup {Torn})
      BY <1>3, SeqMonotonic
    <3> QED BY <3>1, EmptyFile DEF File
  <2>2. 0 \in Day
    BY AuditAssumption DEF Day
  <2> QED BY <1>1, <1>5, <2>1, <2>2 DEF FileTypes
<1>7. ThreadTypes
  BY <1>1 DEF ThreadTypes, Place
<1>8. LogIsPrefix /\ OutboxInPlace /\ RestIsPending
  BY <1>1, <1>2, <1>3 DEF LogIsPrefix, OutboxInPlace, RestIsPending, InPlace
<1>9. \A t \in Thread : Delivering(t)
  BY <1>1, <1>2, <1>3 DEF Delivering, NoGap, MarksLogged, Owed
<1>10. KnownIsLogged /\ FilesAreLogged
  BY <1>1, EmptyFile DEF KnownIsLogged, FilesAreLogged
<1>11. TableInv
  <2>1. (\A r \in db : r.rev \in Nat /\ r.day \in Nat)
        /\ (\A r, q \in db : r.table = q.table /\ r.key = q.key => r = q)
    BY DEF Init, Stored
  <2>2. QueuedOnce
    BY <1>1, <1>2, First3Is DEF QueuedOnce
  <2>3. IdsHaveRows
    BY <1>1, <1>2, First3Is DEF IdsHaveRows, RowOf, Once
  <2>4. RowsAreAudited
    <3>1. ASSUME NEW r \in db, r.table \in Audit
          PROVE  \E i \in 1 .. 3 : /\ r.table = First3[i].fact[1] /\ r.key = First3[i].fact[2]
                                   /\ r.val = First3[i].fact[3]
      BY <3>1, First3Is DEF Init, Stored, Audit
    <3>2. \A i, j \in 1 .. 3 : First3[i].fact[1] = First3[j].fact[1] => i = j
      BY First3Is
    <3>3. ASSUME NEW r \in db, r.table \in Audit PROVE IsAudited(r)
      BY <1>1, <1>2, <3>1, <3>2, <3>3 DEF IsAudited
    <3> QED BY <3>3 DEF RowsAreAudited, Audit
  <2> QED BY <2>1, <2>2, <2>3, <2>4 DEF TableInv
<1> QED BY <1>4, <1>6, <1>7, <1>8, <1>9, <1>10, <1>11 DEF IInv, LogInv

(* Tables that nobody writes.                                              *)
LEMMA TablesStay ==
  ASSUME TableInv, UNCHANGED <<db, committed>>
  PROVE  TableInv'
BY DEF TableInv, QueuedOnce, IdsHaveRows, RowOf, Has, Ended, RowsAreAudited, IsAudited

(* Every step keeps the invariant.                                         *)
LEMMA StepKeeps ==
  ASSUME IInv, [Next]_svcVars
  PROVE  IInv'
<1>1. ASSUME NEW t \in Thread, Write(t) PROVE IInv'
  BY <1>1, WriteKeeps
<1>2. ASSUME NEW t \in Thread, RunRetention(t) PROVE IInv'
  BY <1>2, RetentionKeeps
<1>3. ASSUME NEW t \in Thread, Report(t) PROVE IInv'
  BY <1>3, ReportKeeps
<1>4. ASSUME NEW t \in Thread, FlushStep(t) \/ RotateStep(t) \/ Trouble(t) \/ Open(t),
             UNCHANGED <<db, writes>>
      PROVE  IInv'
  <2>1. UNCHANGED committed
    BY <1>4 DEF FlushStep, ReadPending, AppendRow, MarkRow, RotateStep, DeleteFile, Compress,
       Unlink, Rotated, Trouble, AppendFails, MarkFails, RotateFails, Open
  <2>2. LogInv'
    BY <1>4, ReadDelivers, AppendDelivers, MarkDelivers, RotateDelivers, TroubleDelivers,
       RestartDelivers DEF IInv, TableInv, FlushStep
  <2> QED BY <1>4, <2>1, <2>2, TablesStay DEF IInv
<1>5. ASSUME (\E p \in Process : Crash(p)) \/ NextDay, UNCHANGED <<db, writes>>
      PROVE  IInv'
  <2>1. UNCHANGED committed
    BY <1>5 DEF Crash, NextDay
  <2> QED BY <1>5, <2>1, RestartDelivers, TablesStay DEF IInv
<1>6. CASE UNCHANGED svcVars
  <2>1. UNCHANGED auditVars /\ UNCHANGED <<db, committed>>
    BY <1>6 DEF svcVars, auditVars
  <2> QED BY <2>1, SvcUnchanged, TablesStay DEF IInv
<1> QED BY <1>1, <1>2, <1>3, <1>4, <1>5, <1>6 DEF Next

\* The strengthening of what the runs check: records are on their way to the log
\* in order and without a gap, and every row has its record.
THEOREM StorageInvariant == Spec => []IInv
<1>1. Init => IInv
  BY InitKeeps
<1>2. IInv /\ [Next]_svcVars => IInv'
  BY StepKeeps
<1> QED BY <1>1, <1>2, PTL DEF Spec

\* flush_audit: an operation that returns has every record committed before its
\* flush in the log, whichever thread put it there.
THEOREM ReturnsLogged == Spec => []SuccessMeansLogged
<1>1. IInv => SuccessMeansLogged
  <2>1. SUFFICES ASSUME IInv, NEW t \in Thread, pc[t] = "idle" PROVE Len(written) >= owes[t]
    BY DEF SuccessMeansLogged
  <2>2. owes[t] <= Len(written) /\ owes[t] \in Nat /\ Len(written) \in Nat
    BY <2>1 DEF IInv, LogInv, Delivering, Owed, LogTypes, ThreadTypes
  <2> QED BY <2>2
<1> QED BY <1>1, StorageInvariant, PTL

\* Every write of the store: the tables and the audit records tell one history, for
\* no record id is used again.
THEOREM TablesAreAudited == Spec => []RowsAreAudited
<1>1. IInv => RowsAreAudited
  BY DEF IInv, TableInv
<1> QED BY <1>1, StorageInvariant, PTL

-----------------------------------------------------------------------------
(* The outbox and the log implement AuditTrail.                              *)

Ids == [i \in DOMAIN committed |-> committed[i].id]
Kept == OnDisk \ {Torn}

IdsOf(queue) == [i \in DOMAIN queue |-> queue[i].id]

(* The ids of a sequence of records.                                       *)
LEMMA IdsOfAre ==
  ASSUME NEW queue \in Seq(Record)
  PROVE  /\ IdsOf(queue) \in Seq(RecordId) /\ Len(IdsOf(queue)) = Len(queue)
         /\ DOMAIN IdsOf(queue) = 1 .. Len(queue) /\ Len(queue) \in Nat
         /\ \A i \in 1 .. Len(queue) : IdsOf(queue)[i] = queue[i].id /\ queue[i].id \in RecordId
<1>1. Len(queue) \in Nat /\ DOMAIN queue = 1 .. Len(queue)
  BY LenProperties
<1>2. ASSUME NEW i \in 1 .. Len(queue) PROVE queue[i].id \in RecordId
  <2>1. queue[i] \in Record
    BY ElementOfSeq
  <2> QED BY <2>1 DEF Record
<1>3. PICK n \in Nat : n = Len(queue)
  BY <1>1
<1>4. IdsOf(queue) = [i \in 1 .. n |-> queue[i].id]
  BY <1>1, <1>3 DEF IdsOf
<1>5. IdsOf(queue) \in [1 .. n -> RecordId]
  BY <1>2, <1>3, <1>4
<1>6. IdsOf(queue) \in Seq(RecordId)
  BY <1>5, SeqDef
<1>7. DOMAIN IdsOf(queue) = 1 .. n /\ \A i \in 1 .. n : IdsOf(queue)[i] = queue[i].id
  BY <1>4
<1>8. Len(IdsOf(queue)) = n
  BY <1>3, <1>6, <1>7, LenProperties
<1> HIDE DEF IdsOf
<1> QED BY <1>1, <1>2, <1>3, <1>6, <1>7, <1>8

(* The ids of what is committed.                                           *)
LEMMA IdsAre ==
  /\ LogTypes => /\ Ids \in Seq(RecordId) /\ Len(Ids) = Len(committed)
                 /\ DOMAIN Ids = 1 .. Len(committed)
                 /\ \A i \in 1 .. Len(committed) : /\ Ids[i] = committed[i].id
                                                   /\ Ids[i] \in RecordId
  /\ LogTypes' => /\ Ids' \in Seq(RecordId) /\ Len(Ids') = Len(committed')
                  /\ DOMAIN Ids' = 1 .. Len(committed')
                  /\ \A i \in 1 .. Len(committed') : /\ Ids'[i] = committed'[i].id
                                                     /\ Ids'[i] \in RecordId
<1>1. PICK c : c = committed
  OBVIOUS
<1>2. PICK d : d = committed'
  OBVIOUS
<1> QED BY <1>1, <1>2, IdsOfAre DEF LogTypes, Ids, IdsOf

(* What the files keep.                                                    *)
LEMMA KeptIs ==
  /\ LogInv => \A x : x \in Kept <=>
                 x # Torn /\ \E d \in Day : x \in Range(plain[d]) \/ x \in Range(zipped[d])
  /\ LogInv' => \A x : x \in Kept' <=>
                  x # Torn /\ \E d \in Day : x \in Range(plain'[d]) \/ x \in Range(zipped'[d])
<1>1. LogInv => \A x : x \in Kept <=>
                  x # Torn /\ \E d \in Day : x \in Range(plain[d]) \/ x \in Range(zipped[d])
  BY OnDiskIs DEF LogInv, Kept
<1>2. ASSUME LogInv'
      PROVE  \A x : x \in Kept' <=>
               x # Torn /\ \E d \in Day : x \in Range(plain'[d]) \/ x \in Range(zipped'[d])
  <2>1. ASSUME NEW d \in Day
        PROVE  Range(Lines(d)') = Range(plain'[d]) \cup Range(zipped'[d])
    <3>1. plain' \in [Day -> File] /\ zipped' \in [Day -> File]
      BY <1>2 DEF LogInv, FileTypes, Day
    <3>2. PICK f, g \in Seq(RecordId \cup {Torn}) : f = plain'[d] /\ g = zipped'[d]
      BY <3>1 DEF File
    <3>3. Lines(d)' = f \o g
      BY <3>2 DEF Lines
    <3>4. Range(f \o g) = Range(f) \cup Range(g)
      BY RangeConcat
    <3> QED BY <3>2, <3>3, <3>4
  <2>2. \A x : x \in OnDisk' <=> \E d \in Day : x \in Range(Lines(d)')
    BY DEF OnDisk
  <2> QED BY <2>1, <2>2 DEF Kept
<1> QED BY <1>1, <1>2

(* What was written is a sequence of ids.                                  *)
LEMMA WrittenAre ==
  ASSUME LogInv
  PROVE  /\ Len(written) \in Nat /\ DOMAIN written = 1 .. Len(written)
         /\ Range(written) \subseteq RecordId /\ Torn \notin Range(written)
<1>1. Len(written) \in Nat /\ DOMAIN written = 1 .. Len(written)
  BY LenProperties DEF LogInv, LogTypes
<1>2. ASSUME NEW i \in DOMAIN written PROVE written[i] \in RecordId
  BY <1>1, ElementOfSeq DEF LogInv, LogTypes
<1>3. Range(written) \subseteq RecordId
  BY <1>2 DEF Range
<1> QED BY <1>1, <1>3, StorageAssumption

(* The first state is one of the trail.                                    *)
LEMMA TrailStarts ==
  ASSUME Init
  PROVE  Trail!TrailInit
<1>1. IInv
  BY InitKeeps
<1>2. /\ committed = First3 /\ written = [i \in DOMAIN First3 |-> First3[i].id]
      /\ plain = [d \in Day |-> IF d = 0 THEN written ELSE <<>>]
      /\ zipped = [d \in Day |-> <<>>]
  BY DEF Init, AuditInit
<1>3. 0 \in Day
  BY AuditAssumption DEF Day
<1>4. \A x : x \in Kept <=> x \in Range(written)
  <2>1. \A x : x \in Kept <=> x # Torn /\ \E d \in Day : x \in Range(plain[d]) \/ x \in Range(zipped[d])
    BY <1>1, KeptIs DEF IInv
  <2>2. Torn \notin Range(written)
    BY <1>1, WrittenAre DEF IInv
  <2> QED BY <1>2, <1>3, <2>1, <2>2, EmptyFile
<1>5. Kept = {written[i] : i \in DOMAIN written}
  BY <1>4 DEF Range
<1>6. written = Ids
  BY <1>2 DEF Ids
<1> QED BY <1>5, <1>6 DEF Trail!TrailInit, Kept, Ids

\* A transaction that queues a record commits one that was never committed before.
LEMMA QueueCommits ==
  ASSUME IInv, IInv', NEW t \in Thread, NEW id, NEW fact, Queue(t, id, fact)
  PROVE  Trail!Commit \/ UNCHANGED <<committed, written, Kept>>
<1>1. UNCHANGED <<plain, zipped, written>>
  BY DEF Queue, fileVars
<1>2. UNCHANGED Kept
  BY <1>1 DEF Kept, OnDisk, Lines
<1>3. CASE UNCHANGED committed
  BY <1>1, <1>2, <1>3
<1>4. CASE committed' = Append(committed, [id |-> id, fact |-> fact])
  <2> DEFINE x == [id |-> id, fact |-> fact]
  <2>1. committed \in Seq(Record \cup {x})
    BY SeqMonotonic DEF IInv, LogInv, LogTypes
  <2>2. x.id = id
    OBVIOUS
  <2>3. committed' = Append(committed, x)
    BY <1>4
  <2> HIDE DEF x
  <2>4. PICK n \in Nat : n = Len(committed)
    BY <2>1, LenProperties
  <2>5. /\ DOMAIN committed = 1 .. n /\ DOMAIN committed' = 1 .. n + 1 /\ Len(committed') = n + 1
        /\ committed'[n + 1] = x /\ \A i \in 1 .. n : committed'[i] = committed[i]
    BY <2>1, <2>3, <2>4, RangeAppend
  <2>6. LogTypes /\ LogTypes' /\ QueuedOnce'
    BY DEF IInv, LogInv, TableInv
  <2>7. /\ Ids \in Seq(RecordId) /\ Len(Ids) = n /\ DOMAIN Ids = 1 .. n
        /\ \A i \in 1 .. n : Ids[i] = committed[i].id
    BY <2>4, <2>6, IdsAre
  <2>8. /\ Ids' \in Seq(RecordId) /\ Len(Ids') = n + 1 /\ DOMAIN Ids' = 1 .. n + 1
        /\ \A i \in 1 .. n + 1 : Ids'[i] = committed'[i].id /\ Ids'[i] \in RecordId
    BY <2>5, <2>6, IdsAre
  <2>9. n + 1 \in 1 .. n + 1 /\ \A i \in 1 .. n : i \in 1 .. n + 1
    OBVIOUS
  <2>10. Ids'[n + 1] \in RecordId /\ \A i \in 1 .. n : Ids'[i] = Ids[i]
    BY <2>5, <2>7, <2>8, <2>9
  <2>11. Ids' = Append(Ids, Ids'[n + 1])
    <3>1. PICK y \in RecordId : y = Ids'[n + 1]
      BY <2>10
    <3>2. /\ Append(Ids, y) \in Seq(RecordId) /\ DOMAIN Append(Ids, y) = 1 .. n + 1
          /\ \A i \in 1 .. n : Append(Ids, y)[i] = Ids[i]
          /\ Append(Ids, y)[n + 1] = y /\ Len(Append(Ids, y)) = n + 1
      BY <2>7, RangeAppend
    <3>3. \A i \in 1 .. n + 1 : Append(Ids, y)[i] = Ids'[i]
      BY <2>10, <3>1, <3>2
    <3>4. Append(Ids, y) = Ids'
      BY <2>8, <3>2, <3>3, SeqEqual
    <3> QED BY <3>1, <3>4
  <2>12. \A i \in 1 .. n : Ids[i] # Ids'[n + 1]
    <3>1. \A i, j \in 1 .. n + 1 : committed'[i].id = committed'[j].id => i = j
      BY <2>5, <2>6 DEF QueuedOnce
    <3>2. \A i \in 1 .. n : committed'[i].id # committed'[n + 1].id
      BY <2>9, <3>1
    <3> QED BY <2>5, <2>7, <2>8, <2>9, <3>2
  <2>13. /\ Len(Ids') = Len(Ids) + 1 /\ Ids' = Append(Ids, Ids'[Len(Ids')])
         /\ \A i \in DOMAIN Ids : Ids[i] # Ids'[Len(Ids')]
    BY <2>7, <2>8, <2>11, <2>12
  <2> QED BY <1>1, <1>2, <2>13 DEF Trail!Commit, Ids, Kept
<1> QED BY <1>3, <1>4 DEF Queue

\* A line that is written is the log's next record, or one that retention took.
LEMMA AppendRowDelivers ==
  ASSUME IInv, IInv', NEW t \in Thread, AppendRow(t)
  PROVE  Trail!Deliver \/ Trail!Redeliver \/ UNCHANGED <<committed, written, Kept>>
<1>1. PICK row \in rows[t] : /\ IsNext(row, t)
                             /\ Repeated(t, row) \/ WriteLine(t, row) \/ RefuseLine(t, row)
  BY DEF AppendRow
<1>2. UNCHANGED committed
  BY DEF AppendRow
<1>3. CASE UNCHANGED <<plain, zipped, written>>
  BY <1>2, <1>3 DEF Kept, OnDisk, Lines
<1>4. CASE WriteLine(t, row)
  <2>1. /\ LogInv /\ LogInv' /\ FileTypes /\ LogTypes
        /\ today \in Day /\ plain[today] \in Seq(RecordId \cup {Torn})
        /\ plain \in [Day -> File]
    BY DEF IInv, LogInv, FileTypes, File
  <2>2. /\ row.no \in DOMAIN committed /\ row.id = committed[row.no].id
        /\ row.no <= Len(written) + 1
        /\ row.no <= Len(written) => row.id \in Range(written)
    BY <1>1, <2>1, NextIsFirst
  <2>3. PICK id \in RecordId : id = row.id /\ id # Torn
    <3>1. Len(committed) \in Nat /\ DOMAIN committed = 1 .. Len(committed)
      BY <2>1, LenProperties DEF LogTypes
    <3>2. row.id \in RecordId
      BY <2>1, <2>2, <3>1, IdsAre
    <3> QED BY <3>2, StorageAssumption
  <2>4. /\ plain' = [plain EXCEPT ![today] = Append(plain[today], id)] /\ UNCHANGED zipped
        /\ written' = IF id \in Range(written) THEN written ELSE Append(written, id)
    BY <1>4, <2>3 DEF WriteLine
  <2>5. Range(Append(plain[today], id)) = Range(plain[today]) \cup {id}
    BY <2>1, RangeAppend
  <2>6. \A d \in Day : Range(plain'[d]) = IF d = today THEN Range(plain[d]) \cup {id}
                                                      ELSE Range(plain[d])
    BY <2>1, <2>4, <2>5
  <2>7. \A x : x \in Kept' <=> x \in Kept \cup {id}
    <3>1. \A x : x \in Kept <=> /\ x # Torn
                                /\ \E d \in Day : x \in Range(plain[d]) \/ x \in Range(zipped[d])
      BY <2>1, KeptIs
    <3>2. \A x : x \in Kept' <=> /\ x # Torn
                                 /\ \E d \in Day : x \in Range(plain'[d]) \/ x \in Range(zipped'[d])
      BY <2>1, KeptIs
    <3> QED BY <2>1, <2>3, <2>4, <2>6, <3>1, <3>2
  <2>8. Kept' = Kept \cup {id}
    BY <2>7
  <2>9. CASE id \in Range(written)
    <3>1. PICK i \in DOMAIN written : written[i] = id
      BY <2>9 DEF Range
    <3>2. CASE id \in Kept
      BY <1>2, <2>4, <2>8, <2>9, <3>2
    <3>3. CASE id \notin Kept
      <4>1. written[i] \notin Kept /\ Kept' = Kept \cup {written[i]} /\ UNCHANGED <<Ids, written>>
        BY <1>2, <2>4, <2>8, <2>9, <3>1, <3>3 DEF Ids
      <4> QED BY <4>1 DEF Trail!Redeliver, Kept, Ids
    <3> QED BY <3>2, <3>3
  <2>10. CASE id \notin Range(written)
    <3>1. Len(written) \in Nat /\ row.no \in Nat /\ DOMAIN committed = 1 .. Len(committed)
          /\ Len(committed) \in Nat
      BY <2>1, <2>2, LenProperties DEF LogTypes
    <3>2. row.no = Len(written) + 1 /\ Len(written) < Len(committed)
      BY <2>2, <2>3, <2>10, <3>1
    <3>3. Len(Ids) = Len(committed) /\ Ids[Len(written) + 1] = id
      BY <2>1, <2>2, <2>3, <3>1, <3>2, IdsAre
    <3>4. /\ Len(written) < Len(Ids) /\ written' = Append(written, Ids[Len(written) + 1])
          /\ Kept' = Kept \cup {Ids[Len(written) + 1]} /\ UNCHANGED Ids
      BY <1>2, <2>4, <2>8, <2>10, <3>2, <3>3 DEF Ids
    <3> QED BY <3>4 DEF Trail!Deliver, Kept, Ids
  <2> QED BY <2>9, <2>10
<1> QED BY <1>1, <1>3, <1>4 DEF Repeated, RefuseLine, fileVars

\* Rotation takes no record into the log; it may take records out of it.
LEMMA RotateExpires ==
  ASSUME IInv, IInv', NEW t \in Thread, RotateStep(t)
  PROVE  Trail!Expire
<1>1. UNCHANGED <<committed, written>>
  BY DEF RotateStep, DeleteFile, Compress, Unlink, Rotated, fileVars
<1>2. FileTypes /\ LogInv /\ LogInv'
  BY DEF IInv, LogInv
<1>3. \A x : x \in Kept <=> /\ x # Torn
                            /\ \E d \in Day : x \in Range(plain[d]) \/ x \in Range(zipped[d])
  BY <1>2, KeptIs
<1>4. \A x : x \in Kept' <=> /\ x # Torn
                             /\ \E d \in Day : x \in Range(plain'[d]) \/ x \in Range(zipped'[d])
  BY <1>2, KeptIs
<1>5. \A d \in Day : /\ Range(plain'[d]) \subseteq Range(plain[d])
                     /\ Range(zipped'[d]) \subseteq Range(plain[d]) \cup Range(zipped[d])
  <2>1. plain \in [Day -> File] /\ zipped \in [Day -> File] /\ Range(<<>>) = {}
    BY <1>2, EmptyFile DEF FileTypes
  <2>2. CASE DeleteFile(t)
    <3>1. PICK d \in Day : plain' = [plain EXCEPT ![d] = <<>>] /\ zipped' = [zipped EXCEPT ![d] = <<>>]
      BY <2>2 DEF DeleteFile
    <3> QED BY <2>1, <3>1
  <2>3. CASE Compress(t)
    <3>1. /\ UNCHANGED plain
          /\ \E d \in Day : zipped' = [zipped EXCEPT ![d] = plain[d]] \/ UNCHANGED zipped
      BY <2>3 DEF Compress
    <3> QED BY <2>1, <3>1
  <2>4. CASE Unlink(t)
    <3>1. PICK d \in Day : plain' = [plain EXCEPT ![d] = <<>>] /\ UNCHANGED zipped
      BY <2>4 DEF Unlink
    <3> QED BY <2>1, <3>1
  <2>5. CASE Rotated(t)
    BY <2>5 DEF Rotated
  <2> QED BY <2>2, <2>3, <2>4, <2>5 DEF RotateStep
<1>6. Kept' \in SUBSET Kept
  BY <1>3, <1>4, <1>5
<1> QED BY <1>1, <1>6 DEF Trail!Expire, Kept, Ids

\* A line cut short takes no record into the log.
LEMMA CutKeeps ==
  ASSUME IInv, IInv', UNCHANGED <<committed, written, zipped>>,
         plain' = plain \/ plain' = [plain EXCEPT ![today] = Append(plain[today], Torn)]
  PROVE  UNCHANGED <<committed, written, Kept>>
<1>1. /\ LogInv /\ LogInv' /\ today \in Day /\ plain[today] \in Seq(RecordId \cup {Torn})
      /\ plain \in [Day -> File]
  BY DEF IInv, LogInv, FileTypes, File
<1>2. \A x : x # Torn => \A d \in Day : x \in Range(plain'[d]) <=> x \in Range(plain[d])
  <2>1. Range(Append(plain[today], Torn)) = Range(plain[today]) \cup {Torn}
    BY <1>1, RangeAppend
  <2>2. ASSUME NEW x, x # Torn, NEW d \in Day PROVE x \in Range(plain'[d]) <=> x \in Range(plain[d])
    <3>1. CASE plain' = plain
      BY <3>1
    <3>2. CASE plain' = [plain EXCEPT ![today] = Append(plain[today], Torn)]
      BY <1>1, <2>1, <2>2, <3>2
    <3> QED BY <3>1, <3>2
  <2> QED BY <2>2
<1>3. \A x : x \in Kept <=> /\ x # Torn
                            /\ \E d \in Day : x \in Range(plain[d]) \/ x \in Range(zipped[d])
  BY <1>1, KeptIs
<1>4. \A x : x \in Kept' <=> /\ x # Torn
                             /\ \E d \in Day : x \in Range(plain'[d]) \/ x \in Range(zipped'[d])
  BY <1>1, KeptIs
<1>5. Kept' = Kept
  BY <1>2, <1>3, <1>4
<1> QED BY <1>5

(* Every step is one of the trail, or none.                                *)
LEMMA StepOfTrail ==
  ASSUME IInv, IInv', [Next]_svcVars
  PROVE  \/ Trail!Commit \/ Trail!Deliver \/ Trail!Expire \/ Trail!Redeliver
         \/ UNCHANGED <<committed, written, Kept>>
<1>1. CASE UNCHANGED <<committed, written, plain, zipped>>
  BY <1>1 DEF Kept, OnDisk, Lines
<1>2. ASSUME NEW t \in Thread, Write(t) \/ Report(t)
      PROVE  (\E id, fact : Queue(t, id, fact)) \/ UNCHANGED <<committed, written, plain, zipped>>
  BY <1>2 DEF Write, Report, UpsertUser, CreateSession, DeclareDrill, CreateSegment, EndSegment,
     EndSession, StoreWindow, StoreScore, StoreDecision, RecordOutcome, RecordVerification,
     StoreAlert, AcknowledgeAlert, SetShadowMode, SetChallenge, StoreModel, StoreCandidate,
     RegisterApp, RecordSystem, Audited, Unaudited, auditVars
<1>3. ASSUME NEW t \in Thread, RunRetention(t) \/ ReadPending(t) \/ MarkRow(t) \/ Open(t)
                                 \/ MarkFails(t) \/ RotateFails(t)
      PROVE  UNCHANGED <<committed, written, plain, zipped>>
  BY <1>3 DEF RunRetention, DeleteRows, ReadPending, MarkRow, Open, MarkFails, RotateFails, fileVars
<1>4. ASSUME (\E t \in Thread : AppendFails(t)) \/ (\E p \in Process : Crash(p))
      PROVE  UNCHANGED <<committed, written, Kept>>
  <2>1. /\ UNCHANGED <<committed, written, zipped>>
        /\ plain' = plain \/ plain' = [plain EXCEPT ![today] = Append(plain[today], Torn)]
    BY <1>4 DEF AppendFails, Crash
  <2> QED BY <2>1, CutKeeps
<1>5. CASE NextDay
  BY <1>1, <1>5 DEF NextDay, fileVars
<1>6. CASE UNCHANGED svcVars
  BY <1>1, <1>6 DEF svcVars, auditVars
<1>7. ASSUME NEW t \in Thread, Write(t) \/ Report(t)
      PROVE  Trail!Commit \/ UNCHANGED <<committed, written, Kept>>
  BY <1>1, <1>2, <1>7, QueueCommits DEF Kept, OnDisk, Lines
<1>8. ASSUME NEW t \in Thread, FlushStep(t) \/ RotateStep(t) \/ Trouble(t) \/ Open(t)
                                 \/ RunRetention(t)
      PROVE  \/ Trail!Deliver \/ Trail!Expire \/ Trail!Redeliver
             \/ UNCHANGED <<committed, written, Kept>>
  <2>1. \/ RunRetention(t) \/ ReadPending(t) \/ MarkRow(t) \/ Open(t)
        \/ MarkFails(t) \/ RotateFails(t) \/ AppendRow(t) \/ RotateStep(t) \/ AppendFails(t)
    BY <1>8 DEF FlushStep, Trouble
  <2> QED BY <1>3, <1>4, <2>1, AppendRowDelivers, RotateExpires DEF Kept, OnDisk, Lines
<1> QED BY <1>4, <1>5, <1>6, <1>7, <1>8 DEF Next

\* flush_audit over the outbox, with failed appends and marks, crashes, restarts and
\* rotation, implements one log in the order of commit that takes every record once.
THEOREM OutboxImplementsTrail == Spec => InOrderOnce
<1>1. Init => Trail!TrailInit
  BY TrailStarts
<1>2. IInv /\ IInv' /\ [Next]_svcVars =>
        [Trail!Commit \/ Trail!Deliver \/ Trail!Expire \/ Trail!Redeliver]_<<Ids, written, Kept>>
  <2>1. UNCHANGED committed => UNCHANGED Ids
    BY DEF Ids
  <2> QED BY <2>1, StepOfTrail
<1>3. IInv /\ IInv' /\ [Next]_svcVars =>
        [Trail!Commit \/ Trail!Deliver \/ Trail!Expire \/ Trail!Redeliver]_
          <<[i \in DOMAIN committed |-> committed[i].id], written, OnDisk \ {Torn}>>
  BY <1>2 DEF Ids, Kept
<1> QED BY <1>1, <1>3, StorageInvariant, PTL DEF Spec, InOrderOnce, Trail!TrailSpec

-----------------------------------------------------------------------------
(* The log of a single process: while no operator tool has the store open    *)
(* beside the backend, the one lock covers every append and every rotation.  *)

(* Without tools the backend is the only process.                          *)
LEMMA OneProcess ==
  ASSUME Tools = {}
  PROVE  (\A t \in Thread : Proc(t) = "backend") /\ Process = {"backend"}
BY AuditAssumption DEF Proc, Process

(* Its lock is free when no thread holds it.                               *)
LEMMA FreeIs ==
  ASSUME Tools = {}
  PROVE  /\ Free("backend") <=> \A t \in Thread : ~Holds(t)
         /\ LockFree => Free("backend")
BY OneProcess DEF Free, LockFree, Holds

\* The lock: one thread rotates at a time, a process that is not up does nothing else.
LEMMA LockSteps ==
  ASSUME Tools = {}, Types, OneHolder, Awake, NEW t \in Thread, NEW place \in Place,
         pc' = [pc EXCEPT ![t] = place],
         place \in {"rotate", "unlink"} => Holds(t) \/ Free("backend"),
         \/ UNCHANGED up /\ up["backend"] = "up"
         \/ UNCHANGED up /\ Busy(t) /\ place \in {"append", "mark"}
         \/ up' = [up EXCEPT !["backend"] = "up"]
         \/ /\ up' = [up EXCEPT !["backend"] = IF @ = "opening" THEN "down" ELSE @]
            /\ Busy(t) /\ place = "failed"
  PROVE  OneHolder' /\ Awake'
<1>1. pc \in [Thread -> Place] /\ up \in [{"backend"} -> {"up", "opening", "down"}]
  BY OneProcess DEF Types, ThreadTypes
<1>2. OneHolder'
  BY <1>1, FreeIs DEF OneHolder, Holds
<1>3. up["backend"] = "down" => ~Busy(t)
  BY DEF Awake
<1>4. CASE UNCHANGED up /\ up["backend"] = "up"
  BY <1>2, <1>4 DEF Awake
<1>5. CASE UNCHANGED up /\ Busy(t) /\ place \in {"append", "mark"}
  BY <1>1, <1>2, <1>3, <1>5 DEF Awake, Busy
<1>6. CASE up' = [up EXCEPT !["backend"] = "up"]
  BY <1>1, <1>2, <1>6 DEF Awake
<1>7. CASE /\ up' = [up EXCEPT !["backend"] = IF @ = "opening" THEN "down" ELSE @]
           /\ Busy(t) /\ place = "failed"
  BY <1>1, <1>2, <1>3, <1>7 DEF Awake, Busy
<1> QED BY <1>4, <1>5, <1>6, <1>7

(* A thread that works is one of a running process.                        *)
LEMMA AwakeIs ==
  ASSUME Tools = {}, Types, Awake, NEW t \in Thread
  PROVE  /\ Busy(t) => up["backend"] # "down"
         /\ pc[t] \in {"rotate", "unlink", "report"} => up["backend"] = "up"
BY OneProcess DEF Awake, Busy, Types, ThreadTypes

\* A step that leaves the files alone, of a thread that is not about to unlink one.
LEMMA FilesStay ==
  ASSUME FilesVerify, AllKnown, UNCHANGED <<plain, zipped, ids, today>>,
         \A t \in Thread : pc[t] = "unlink" => pc'[t] = "unlink",
         up'["backend"] # "down" => up["backend"] # "down"
  PROVE  FilesVerify' /\ AllKnown'
BY DEF FilesVerify, AllKnown, Whole, Apart, InHand, Due, Expired, Old, Lines

\* With nobody about to unlink, no line is in two files.
Settled == \A d \in Day : Whole(plain[d]) /\ Whole(zipped[d])
           /\ \A e \in Day : /\ Apart(plain[d], zipped[e])
                             /\ d # e => Apart(plain[d], plain[e]) /\ Apart(zipped[d], zipped[e])

(* With nobody about to unlink, no line is twice.                          *)
LEMMA SettledIs ==
  ASSUME FilesVerify, \A t \in Thread : pc[t] # "unlink"
  PROVE  Settled
BY DEF Settled, FilesVerify

(* Files that are apart verify.                                            *)
LEMMA SettledVerifies ==
  /\ Settled => Verifiable
  /\ Settled' => FilesVerify'
BY DEF Settled, Verifiable, FilesVerify, Apart

(* A commit touches no file.                                               *)
LEMMA QueueChains ==
  ASSUME Tools = {}, Types, ChainInv, NEW t \in Thread, NEW id, NEW fact, Queue(t, id, fact),
         Ready(t) \/ pc[t] = "report"
  PROVE  ChainInv'
<1>1. /\ pc' = [pc EXCEPT ![t] = "read"] /\ pc \in [Thread -> Place] /\ "read" \in Place
      /\ UNCHANGED <<plain, zipped, ids, today, up, damaged>>
  BY DEF Queue, fileVars, Types, ThreadTypes, Place
<1>2. up["backend"] = "up" /\ pc[t] # "unlink"
  BY OneProcess, AwakeIs DEF Ready, ChainInv
<1>3. OneHolder' /\ Awake'
  BY <1>1, <1>2, LockSteps DEF ChainInv
<1>4. ASSUME ~damaged PROVE FilesVerify' /\ AllKnown'
  BY <1>1, <1>2, <1>4, FilesStay DEF ChainInv
<1> QED BY <1>1, <1>3, <1>4 DEF ChainInv

\* An exception between two steps leaves the files as they are.
LEMMA RaiseChains ==
  ASSUME Tools = {}, Types, ChainInv, NEW t \in Thread, Raise(t), Busy(t),
         UNCHANGED <<plain, zipped, ids, today>>,
         damaged' = damaged \/ damaged' = TRUE,
         ~damaged' => pc[t] # "unlink"
  PROVE  ChainInv'
<1>1. /\ pc' = [pc EXCEPT ![t] = "failed"] /\ pc \in [Thread -> Place] /\ "failed" \in Place
      /\ up' = [up EXCEPT !["backend"] = IF @ = "opening" THEN "down" ELSE @]
      /\ up \in [{"backend"} -> {"up", "opening", "down"}]
  BY OneProcess DEF Raise, Types, ThreadTypes, Place
<1>2. OneHolder' /\ Awake'
  BY <1>1, LockSteps DEF ChainInv
<1>3. ASSUME ~damaged' PROVE FilesVerify' /\ AllKnown'
  <2>1. ~damaged /\ FilesVerify /\ AllKnown
    BY <1>3 DEF ChainInv
  <2>2. \A u \in Thread : pc[u] = "unlink" => pc'[u] = "unlink"
    BY <1>1, <1>3
  <2>3. up'["backend"] # "down" => up["backend"] # "down"
    BY <1>1
  <2> QED BY <2>1, <2>2, <2>3, FilesStay
<1> QED BY <1>2, <1>3 DEF ChainInv

(* Nor do reading and marking.                                             *)
LEMMA ReadChains ==
  ASSUME Tools = {}, Types, ChainInv, NEW t \in Thread, ReadPending(t) \/ MarkRow(t)
  PROVE  ChainInv'
<1>1. Opened(t) => up' = [up EXCEPT !["backend"] = "up"]
  BY OneProcess DEF Opened
<1>2. \/ pc' = [pc EXCEPT ![t] = "idle"] /\ Opened(t)
      \/ pc' = [pc EXCEPT ![t] = "append"] /\ UNCHANGED up
  <2>1. CASE ReadPending(t)
    <3> DEFINE pending == {row \in outbox : ~row.sent}
    <3>1. /\ pc' = [pc EXCEPT ![t] = IF pending = {} THEN "idle" ELSE "append"]
          /\ IF pending = {} THEN Opened(t) ELSE UNCHANGED up
      BY <2>1 DEF ReadPending
    <3> HIDE DEF pending
    <3> QED BY <3>1
  <2>2. CASE MarkRow(t)
    <3>1. PICK row \in rows[t] : Taken(t, row)
      BY <2>2 DEF MarkRow
    <3>2. CASE rows[t] = {row}
      BY <3>1, <3>2 DEF Taken
    <3>3. CASE rows[t] # {row}
      BY <3>1, <3>3 DEF Taken
    <3> QED BY <3>2, <3>3
  <2> QED BY <2>1, <2>2
<1>3. /\ pc \in [Thread -> Place] /\ "idle" \in Place /\ "append" \in Place
      /\ pc[t] \in {"read", "mark"}
      /\ UNCHANGED <<plain, zipped, ids, today, damaged>>
      /\ up \in [{"backend"} -> {"up", "opening", "down"}]
  BY OneProcess DEF ReadPending, MarkRow, fileVars, Types, ThreadTypes, Place
<1>4. Busy(t) /\ up["backend"] # "down"
  BY <1>3, AwakeIs DEF Busy, ChainInv
<1>5. OneHolder' /\ Awake'
  <2>1. CASE pc' = [pc EXCEPT ![t] = "idle"] /\ Opened(t)
    BY <1>1, <1>3, <2>1, LockSteps DEF ChainInv
  <2>2. CASE pc' = [pc EXCEPT ![t] = "append"] /\ UNCHANGED up
    BY <1>3, <1>4, <2>2, LockSteps DEF ChainInv
  <2> QED BY <1>2, <2>1, <2>2
<1>6. ASSUME ~damaged PROVE FilesVerify' /\ AllKnown'
  <2>1. \A u \in Thread : pc[u] = "unlink" => pc'[u] = "unlink"
    BY <1>2, <1>3
  <2> QED BY <1>3, <1>4, <1>6, <2>1, FilesStay DEF ChainInv
<1> QED BY <1>3, <1>5, <1>6 DEF ChainInv

\* A line is written only where no file has it, for the log knows every line on disk.
LEMMA WriteChains ==
  ASSUME Tools = {}, Types, ChainInv, NEW t \in Thread, AppendRow(t)
  PROVE  ChainInv'
<1>1. PICK row \in rows[t] : Repeated(t, row) \/ WriteLine(t, row) \/ RefuseLine(t, row)
  BY DEF AppendRow
<1>2. /\ pc[t] = "append" /\ Free("backend") /\ UNCHANGED <<today, damaged>>
      /\ pc \in [Thread -> Place] /\ "mark" \in Place /\ Busy(t)
      /\ up \in [{"backend"} -> {"up", "opening", "down"}]
  BY OneProcess DEF AppendRow, Types, ThreadTypes, Place, Busy
<1>3. up["backend"] # "down"
  BY <1>2, AwakeIs DEF ChainInv
<1>4. CASE RefuseLine(t, row)
  BY <1>2, <1>4, RaiseChains DEF RefuseLine, fileVars
<1>5. CASE Repeated(t, row) \/ WriteLine(t, row)
  <2>1. pc' = [pc EXCEPT ![t] = "mark"] /\ UNCHANGED <<up, zipped>>
    BY <1>5 DEF Repeated, WriteLine, fileVars
  <2>2. OneHolder' /\ Awake'
    BY <1>2, <2>1, LockSteps DEF ChainInv
  <2>3. ASSUME ~damaged, Repeated(t, row) PROVE FilesVerify' /\ AllKnown'
    <3>1. UNCHANGED <<plain, zipped, ids, today>>
      BY <1>2, <2>3 DEF Repeated, fileVars
    <3> QED BY <1>2, <2>1, <2>3, <3>1, FilesStay DEF ChainInv
  <2>4. ASSUME ~damaged, WriteLine(t, row) PROVE FilesVerify' /\ AllKnown'
    <3>1. FilesVerify /\ AllKnown /\ Settled
      <4>1. \A u \in Thread : pc[u] # "unlink"
        BY <1>2, FreeIs DEF Holds
      <4> QED BY <2>4, <4>1, SettledIs DEF ChainInv
    <3>2. PICK id \in RecordId : id = row.id /\ id # Torn
      <4>1. row \in OutboxRow
        BY DEF Types, ThreadTypes
      <4> QED BY <4>1, StorageAssumption DEF OutboxRow
    <3>3. /\ id \notin ids["backend"]
          /\ plain' = [plain EXCEPT ![today] = Append(plain[today], id)]
          /\ ids' = [ids EXCEPT !["backend"] = ids["backend"] \cup {id}]
      BY <2>4, <3>2, OneProcess DEF WriteLine, Know
    <3>4. /\ today \in Day /\ plain[today] \in Seq(RecordId \cup {Torn})
          /\ plain \in [Day -> File] /\ ids \in [{"backend"} -> SUBSET RecordId]
      BY OneProcess DEF Types, FileTypes, File
    <3>5. \A d \in Day : id \notin Range(plain[d]) /\ id \notin Range(zipped[d])
      BY <1>3, <3>1, <3>3 DEF AllKnown
    <3>6. Range(Append(plain[today], id)) = Range(plain[today]) \cup {id}
      BY <3>4, RangeAppend
    <3>7. Whole(Append(plain[today], id))
      <4>1. IsInjective(plain[today]) /\ Torn \notin Range(plain[today])
        BY <3>1, <3>4 DEF Settled, Whole
      <4>2. IsInjective(Append(plain[today], id))
        <5>1. id \in RecordId \cup {Torn} /\ id \notin Range(plain[today])
          BY <3>4, <3>5
        <5> QED BY <3>4, <4>1, <5>1, InjectiveAppend
      <4> QED BY <3>2, <3>6, <4>1, <4>2 DEF Whole
    <3>8. \A d \in Day : /\ plain'[d] = IF d = today THEN Append(plain[today], id) ELSE plain[d]
                         /\ zipped'[d] = zipped[d]
      BY <2>1, <3>3, <3>4
    <3>9. \A d \in Day : Range(plain'[d]) = IF d = today THEN Range(plain[d]) \cup {id}
                                                        ELSE Range(plain[d])
      BY <3>6, <3>8
    <3>10. Settled'
      <4>1. \A d \in Day : Whole(plain'[d]) /\ Whole(zipped'[d])
        BY <3>1, <3>7, <3>8 DEF Settled
      <4>2. \A d, e \in Day : /\ Apart(plain'[d], zipped'[e])
                              /\ d # e => /\ Apart(plain'[d], plain'[e])
                                          /\ Apart(zipped'[d], zipped'[e])
        BY <3>1, <3>5, <3>8, <3>9, ZenonT(30) DEF Settled, Apart
      <4> QED BY <4>1, <4>2 DEF Settled, Whole, Apart
    <3>11. AllKnown'
      BY <1>3, <2>1, <3>1, <3>3, <3>4, <3>8, <3>9 DEF AllKnown
    <3> QED BY <3>10, <3>11, SettledVerifies
  <2> QED BY <1>2, <1>5, <2>2, <2>3, <2>4 DEF ChainInv
<1> QED BY <1>1, <1>4, <1>5

\* Rotation: a file is deleted, or is on disk twice between its compression and its
\* unlinking, in the hand of the one thread that holds the lock.
LEMMA RotateChains ==
  ASSUME Tools = {}, Types, ChainInv, NEW t \in Thread, RotateStep(t)
  PROVE  ChainInv'
<1>1. /\ pc \in [Thread -> Place] /\ plain \in [Day -> File] /\ zipped \in [Day -> File]
      /\ ids \in [{"backend"} -> SUBSET RecordId]
      /\ up \in [{"backend"} -> {"up", "opening", "down"}]
      /\ "rotate" \in Place /\ "unlink" \in Place /\ "report" \in Place
  BY OneProcess DEF Types, FileTypes, ThreadTypes, Place
<1>2. pc[t] \in {"rotate", "unlink"} /\ Holds(t) /\ Busy(t) /\ up["backend"] = "up"
  <2>1. pc[t] \in {"rotate", "unlink"}
    BY DEF RotateStep, DeleteFile, Compress, Unlink, Rotated
  <2> QED BY <2>1, AwakeIs DEF Holds, Busy, ChainInv
<1>3. \A u \in Thread : pc[u] = "unlink" => u = t
  BY <1>2 DEF ChainInv, OneHolder, Holds
<1>4. ASSUME pc[t] = "rotate", FilesVerify PROVE Settled
  BY <1>3, <1>4, SettledIs
<1>5. Range(<<>>) = {} /\ Whole(<<>>)
  BY EmptyFile
<1>6. CASE DeleteFile(t)
  <2>1. PICK d \in Day : /\ plain' = [plain EXCEPT ![d] = <<>>]
                         /\ zipped' = [zipped EXCEPT ![d] = <<>>]
    BY <1>6 DEF DeleteFile
  <2>2. pc[t] = "rotate" /\ UNCHANGED <<pc, up, ids, damaged>>
    BY <1>6 DEF DeleteFile
  <2>3. OneHolder' /\ Awake'
    BY <2>2 DEF ChainInv, OneHolder, Awake, Holds, Busy
  <2>4. ASSUME ~damaged PROVE FilesVerify' /\ AllKnown'
    <3>1. Settled /\ AllKnown
      BY <1>4, <2>2, <2>4 DEF ChainInv
    <3>2. \A e \in Day : /\ plain'[e] = IF e = d THEN <<>> ELSE plain[e]
                         /\ zipped'[e] = IF e = d THEN <<>> ELSE zipped[e]
      BY <1>1, <2>1
    <3>3. Settled'
      BY <1>5, <3>1, <3>2 DEF Settled, Apart, Whole
    <3>4. AllKnown'
      BY <1>5, <2>2, <3>1, <3>2 DEF AllKnown
    <3> QED BY <3>3, <3>4, SettledVerifies
  <2> QED BY <2>2, <2>3, <2>4 DEF ChainInv
<1>7. CASE Compress(t)
  <2>1. PICK d \in Day : /\ InHand(d) /\ ~Expired(d)
                         /\ \/ /\ Whole(plain[d]) /\ zipped' = [zipped EXCEPT ![d] = plain[d]]
                               /\ pc' = [pc EXCEPT ![t] = "unlink"] /\ UNCHANGED up
                            \/ Raise(t) /\ UNCHANGED zipped
    BY <1>7 DEF Compress
  <2>2. pc[t] = "rotate" /\ UNCHANGED <<plain, ids, today, damaged>>
    BY <1>7 DEF Compress
  <2>3. CASE Raise(t) /\ UNCHANGED zipped
    BY <1>2, <2>2, <2>3, RaiseChains
  <2>4. CASE /\ Whole(plain[d]) /\ zipped' = [zipped EXCEPT ![d] = plain[d]]
             /\ pc' = [pc EXCEPT ![t] = "unlink"] /\ UNCHANGED up
    <3>1. OneHolder' /\ Awake'
      BY <1>1, <1>2, <2>4, LockSteps DEF ChainInv
    <3>2. ASSUME ~damaged PROVE FilesVerify' /\ AllKnown'
      <4>1. Settled /\ AllKnown
        BY <1>4, <2>2, <3>2 DEF ChainInv
      <4>2. \A e \in Day : /\ plain'[e] = plain[e]
                           /\ zipped'[e] = IF e = d THEN plain[d] ELSE zipped[e]
        BY <1>1, <2>2, <2>4
      <4>3. AllKnown'
        BY <2>2, <2>4, <4>1, <4>2 DEF AllKnown
      <4>4. \A e \in Day : Whole(plain'[e]) /\ Whole(zipped'[e])
        BY <4>1, <4>2 DEF Settled
      <4>5. \A c, e \in Day : c # e => /\ Apart(plain'[c], plain'[e])
                                       /\ Apart(zipped'[c], zipped'[e])
                                       /\ Apart(plain'[c], zipped'[e])
        BY <4>1, <4>2 DEF Settled, Apart
      <4>6. \A e \in Day : e # d => Apart(plain'[e], zipped'[e])
        BY <4>1, <4>2 DEF Settled, Apart
      <4>7. InHand(d)' /\ ~Expired(d)'
        <5>1. d \in Due /\ Old(d) /\ plain[d] # <<>> /\ \A e \in Due : d <= e
          BY <2>1 DEF InHand, Due
        <5>2. ~Expired(d)' /\ Old(d)' /\ plain'[d] # <<>>
          BY <2>1, <2>2, <4>2, <5>1 DEF Expired, Old
        <5>3. d \in Due'
          BY <5>2 DEF Due
        <5>4. ASSUME NEW e \in Day, e \in Due' PROVE d <= e
          <6>1. CASE e = d
            BY <6>1 DEF Day
          <6>2. CASE e # d
            <7>1. e \in Due
              BY <2>2, <4>2, <5>4, <6>2 DEF Due, Expired, Old, Lines
            <7> QED BY <5>1, <7>1
          <6> QED BY <6>1, <6>2
        <5> QED BY <5>2, <5>3, <5>4 DEF InHand, Due
      <4>8. \E u \in Thread : pc'[u] = "unlink"
        BY <1>1, <2>4
      <4>9. FilesVerify'
        BY <4>4, <4>5, <4>6, <4>7, <4>8 DEF FilesVerify
      <4> QED BY <4>3, <4>9
    <3> QED BY <2>2, <3>1, <3>2 DEF ChainInv
  <2> QED BY <2>1, <2>3, <2>4
<1>8. CASE Unlink(t)
  <2>1. PICK d \in Day : InHand(d) /\ plain' = [plain EXCEPT ![d] = <<>>]
    BY <1>8 DEF Unlink
  <2>2. /\ pc' = [pc EXCEPT ![t] = "rotate"] /\ UNCHANGED <<zipped, ids, up, damaged>>
    BY <1>8 DEF Unlink
  <2>3. OneHolder' /\ Awake'
    BY <1>1, <1>2, <2>2, LockSteps DEF ChainInv
  <2>4. ASSUME ~damaged PROVE FilesVerify' /\ AllKnown'
    <3>1. FilesVerify /\ AllKnown
      BY <2>4 DEF ChainInv
    <3>2. \A e \in Day : /\ plain'[e] = IF e = d THEN <<>> ELSE plain[e]
                         /\ zipped'[e] = zipped[e]
      BY <1>1, <2>1, <2>2
    <3>3. \A e \in Day : InHand(e) => e = d
      BY <2>1 DEF InHand, Due, Day
    <3>4. Settled'
      <4>1. \A e \in Day : Whole(plain'[e]) /\ Whole(zipped'[e])
        BY <1>5, <3>1, <3>2 DEF FilesVerify
      <4>2. \A e \in Day : Apart(plain'[e], zipped'[e])
        BY <1>5, <3>1, <3>2, <3>3 DEF FilesVerify, Apart
      <4>3. \A c, e \in Day : c # e => /\ Apart(plain'[c], plain'[e])
                                       /\ Apart(zipped'[c], zipped'[e])
                                       /\ Apart(plain'[c], zipped'[e])
        BY <1>5, <3>1, <3>2 DEF FilesVerify, Apart
      <4> QED BY <4>1, <4>2, <4>3 DEF Settled
    <3>5. AllKnown'
      BY <1>5, <2>2, <3>1, <3>2 DEF AllKnown
    <3> QED BY <3>4, <3>5, SettledVerifies
  <2> QED BY <2>2, <2>3, <2>4 DEF ChainInv
<1>9. CASE Rotated(t)
  <2>1. pc[t] = "rotate" /\ UNCHANGED <<plain, zipped, today, damaged>>
    BY <1>9 DEF Rotated
  <2>2. CASE Raise(t) /\ UNCHANGED ids
    BY <1>2, <2>1, <2>2, RaiseChains
  <2>3. CASE Know(t, OnDisk) /\ pc' = [pc EXCEPT ![t] = "report"] /\ UNCHANGED up
    <3>1. OneHolder' /\ Awake'
      BY <1>1, <1>2, <2>3, LockSteps DEF ChainInv
    <3>2. ids'["backend"] = OnDisk
      BY <1>1, <2>3, OneProcess DEF Know
    <3>3. AllKnown'
      BY <2>1, <3>2, OnDiskIs DEF AllKnown, Types
    <3>4. ASSUME ~damaged PROVE FilesVerify'
      <4>1. Settled
        BY <1>4, <2>1, <3>4 DEF ChainInv
      <4>2. Settled'
        BY <2>1, <4>1 DEF Settled, Whole, Apart
      <4> QED BY <4>2, SettledVerifies
    <3> QED BY <2>1, <3>1, <3>3, <3>4 DEF ChainInv
  <2> QED BY <1>9, <2>2, <2>3 DEF Rotated
<1> QED BY <1>6, <1>7, <1>8, <1>9 DEF RotateStep

(* A write that fails tears a line or nothing.                             *)
LEMMA TroubleChains ==
  ASSUME Tools = {}, Types, ChainInv, NEW t \in Thread, Trouble(t)
  PROVE  ChainInv'
<1>1. Raise(t) /\ Busy(t) /\ UNCHANGED <<zipped, ids, today>>
  BY DEF Trouble, AppendFails, MarkFails, RotateFails, Writing, Busy, fileVars
<1>2. CASE AppendFails(t)
  <2>1. PICK cut \in BOOLEAN :
          /\ plain' = IF cut THEN [plain EXCEPT ![today] = Append(@, Torn)] ELSE plain
          /\ damaged' = (damaged \/ cut)
    BY <1>2 DEF AppendFails
  <2>2. CASE ~cut
    <3>1. pc[t] = "append" /\ plain' = plain /\ (damaged' = damaged \/ damaged' = TRUE)
      BY <1>2, <2>1, <2>2 DEF AppendFails, Writing, Types, FileTypes
    <3> QED BY <1>1, <3>1, RaiseChains
  <2>3. CASE cut
    <3>1. /\ pc' = [pc EXCEPT ![t] = "failed"] /\ pc \in [Thread -> Place] /\ "failed" \in Place
          /\ up' = [up EXCEPT !["backend"] = IF @ = "opening" THEN "down" ELSE @]
      BY <1>1, OneProcess DEF Raise, Types, ThreadTypes, Place
    <3>2. OneHolder' /\ Awake'
      BY <1>1, <3>1, LockSteps DEF ChainInv
    <3> QED BY <2>1, <2>3, <3>2 DEF ChainInv
  <2> QED BY <2>2, <2>3
<1>3. CASE MarkFails(t)
  <2>1. pc[t] = "mark" /\ UNCHANGED <<plain, damaged>>
    BY <1>3 DEF MarkFails, fileVars
  <2> QED BY <1>1, <2>1, RaiseChains
<1>4. CASE RotateFails(t)
  <2>1. /\ UNCHANGED plain /\ (damaged' = damaged \/ damaged' = TRUE)
        /\ ~damaged' => pc[t] # "unlink"
    BY <1>4 DEF RotateFails, fileVars, Types, FileTypes
  <2> QED BY <1>1, <2>1, RaiseChains
<1> QED BY <1>2, <1>3, <1>4 DEF Trouble

(* A process that opens its log learns every id in it.                     *)
LEMMA RestartChains ==
  ASSUME Tools = {}, Types, ChainInv,
         (\E p \in Process : Crash(p)) \/ (\E t \in Thread : Open(t)) \/ NextDay
  PROVE  ChainInv'
<1>1. /\ pc \in [Thread -> Place] /\ ids \in [{"backend"} -> SUBSET RecordId]
      /\ up \in [{"backend"} -> {"up", "opening", "down"}] /\ damaged \in BOOLEAN
  BY OneProcess DEF Types, FileTypes, ThreadTypes
<1>2. CASE \E p \in Process : Crash(p)
  <2>1. Crash("backend")
    BY <1>2, OneProcess
  <2>2. PICK cut \in BOOLEAN :
          /\ plain' = IF cut THEN [plain EXCEPT ![today] = Append(@, Torn)] ELSE plain
          /\ damaged' = (\/ damaged \/ cut
                         \/ \E t \in Thread : Proc(t) = "backend" /\ pc[t] = "unlink")
    BY <2>1 DEF Crash
  <2>3. /\ up' = [up EXCEPT !["backend"] = "down"] /\ UNCHANGED zipped
        /\ pc' = [t \in Thread |-> IF Proc(t) = "backend" THEN "idle" ELSE pc[t]]
    BY <2>1 DEF Crash
  <2>4. \A t \in Thread : pc'[t] = "idle"
    BY <2>3, OneProcess
  <2>5. OneHolder' /\ Awake' /\ AllKnown'
    BY <1>1, <2>3, <2>4 DEF OneHolder, Awake, AllKnown, Holds, Busy
  <2>6. ASSUME ~damaged' PROVE FilesVerify'
    <3>1. ~damaged /\ plain' = plain /\ \A t \in Thread : pc[t] # "unlink"
      BY <2>2, <2>6, OneProcess
    <3>2. Settled
      BY <3>1, SettledIs DEF ChainInv
    <3>3. Settled'
      BY <2>3, <3>1, <3>2 DEF Settled, Whole, Apart
    <3> QED BY <3>3, SettledVerifies
  <2> QED BY <2>5, <2>6 DEF ChainInv
<1>3. CASE \E t \in Thread : Open(t)
  <2>1. PICK t \in Thread : Open(t)
    BY <1>3
  <2>2. /\ up["backend"] = "down" /\ up' = [up EXCEPT !["backend"] = "opening"]
        /\ ids' = [ids EXCEPT !["backend"] = OnDisk] /\ UNCHANGED <<plain, zipped, damaged>>
        /\ pc' = [u \in Thread |-> IF u = t THEN "read" ELSE "idle"]
    BY <2>1, OneProcess DEF Open, Know
  <2>3. OneHolder' /\ Awake'
    BY <1>1, <2>2 DEF OneHolder, Awake, Holds, Busy
  <2>4. AllKnown'
    BY <1>1, <2>2, OnDiskIs DEF AllKnown, Types
  <2>5. ASSUME ~damaged PROVE FilesVerify'
    <3>1. \A u \in Thread : pc[u] # "unlink"
      BY <2>2 DEF ChainInv, Awake, Busy
    <3>2. Settled
      BY <2>5, <3>1, SettledIs DEF ChainInv
    <3>3. Settled'
      BY <2>2, <3>2 DEF Settled, Whole, Apart
    <3> QED BY <3>3, SettledVerifies
  <2> QED BY <2>2, <2>3, <2>4, <2>5 DEF ChainInv
<1>4. CASE NextDay
  <2>1. /\ UNCHANGED <<plain, zipped, ids, pc, up, damaged>> /\ \A u \in Thread : pc[u] # "unlink"
    BY <1>4 DEF NextDay, fileVars
  <2>2. OneHolder' /\ Awake' /\ (~damaged => AllKnown')
    BY <2>1 DEF ChainInv, OneHolder, Awake, Holds, Busy, AllKnown
  <2>3. ASSUME ~damaged PROVE FilesVerify'
    <3>1. Settled
      BY <2>1, <2>3, SettledIs DEF ChainInv
    <3>2. Settled'
      BY <2>1, <3>1 DEF Settled, Whole, Apart
    <3> QED BY <3>2, SettledVerifies
  <2> QED BY <2>1, <2>2, <2>3 DEF ChainInv
<1> QED BY <1>2, <1>3, <1>4

(* The files at the start.                                                 *)
LEMMA InitChains ==
  ASSUME Tools = {}, Init
  PROVE  ChainInv
<1>1. IInv
  BY InitKeeps
<1>2. /\ plain = [d \in Day |-> IF d = 0 THEN written ELSE <<>>]
      /\ zipped = [d \in Day |-> <<>>] /\ ids = [p \in Process |-> Range(written)]
      /\ pc = [t \in Thread |-> "idle"] /\ up = [p \in Process |-> "up"]
      /\ written = [i \in DOMAIN First3 |-> First3[i].id]
  BY OneProcess DEF Init, AuditInit
<1>3. Range(<<>>) = {} /\ Whole(<<>>) /\ Torn \notin Range(written)
  BY <1>1, EmptyFile, WrittenAre DEF IInv
<1>4. IsInjective(written)
  <2>1. \A i, j \in 1 .. 3 : First3[i].id = First3[j].id => i = j
    BY First3Is
  <2> QED BY <1>2, <2>1, First3Is DEF IsInjective
<1>5. \A d \in Day : /\ plain[d] = IF d = 0 THEN written ELSE <<>>
                     /\ zipped[d] = <<>>
  BY <1>2
<1>6. \A d \in Day : Whole(plain[d]) /\ Whole(zipped[d])
  BY <1>3, <1>4, <1>5 DEF Whole
<1>7. Settled
  BY <1>3, <1>5, <1>6 DEF Settled, Apart
<1>8. OneHolder /\ Awake
  BY <1>2, OneProcess DEF OneHolder, Awake, Holds, Busy
<1>9. FilesVerify
  BY <1>7 DEF Settled, FilesVerify
<1>10. AllKnown
  BY <1>2, <1>3, <1>5, OneProcess DEF AllKnown
<1> QED BY <1>8, <1>9, <1>10 DEF ChainInv

(* Every step keeps the files in order.                                    *)
LEMMA StepChains ==
  ASSUME Tools = {}, IInv, ChainInv, [Next]_svcVars
  PROVE  ChainInv'
<1>1. Types
  BY DEF IInv, LogInv, Types
<1>2. CASE UNCHANGED auditVars
  BY <1>2 DEF auditVars, ChainInv, OneHolder, Holds, Awake, Busy, FilesVerify, AllKnown, Whole,
     Apart, InHand, Due, Expired, Old, Lines
<1>3. ASSUME NEW t \in Thread, (Ready(t) /\ Write(t)) \/ Report(t)
      PROVE  \/ UNCHANGED auditVars
             \/ (\E id, fact : Queue(t, id, fact)) /\ (Ready(t) \/ pc[t] = "report")
  BY <1>3 DEF Write, Report, UpsertUser, CreateSession, DeclareDrill, CreateSegment, EndSegment,
     EndSession, StoreWindow, StoreScore, StoreDecision, RecordOutcome, RecordVerification,
     StoreAlert, AcknowledgeAlert, SetShadowMode, SetChallenge, StoreModel, StoreCandidate,
     RegisterApp, RecordSystem, Audited, Unaudited
<1>4. ASSUME NEW t \in Thread, (Ready(t) /\ Write(t)) \/ Report(t) PROVE ChainInv'
  BY <1>1, <1>2, <1>3, <1>4, QueueChains
<1>5. ASSUME NEW t \in Thread, RunRetention(t) PROVE ChainInv'
  <2>1. /\ up["backend"] = "up" /\ pc[t] \in {"idle", "failed"} /\ Free("backend")
        /\ pc' = [pc EXCEPT ![t] = "rotate"] /\ pc \in [Thread -> Place] /\ "rotate" \in Place
        /\ UNCHANGED <<plain, zipped, ids, today, up, damaged>>
    BY <1>1, <1>5, OneProcess
       DEF RunRetention, DeleteRows, Ready, fileVars, Types, ThreadTypes, Place
  <2>2. OneHolder' /\ Awake'
    BY <1>1, <2>1, LockSteps DEF ChainInv
  <2>3. ASSUME ~damaged PROVE FilesVerify' /\ AllKnown'
    BY <2>1, <2>3, FilesStay DEF ChainInv
  <2> QED BY <2>1, <2>2, <2>3 DEF ChainInv
<1>6. ASSUME NEW t \in Thread, FlushStep(t) \/ RotateStep(t) \/ Trouble(t) \/ Open(t)
      PROVE  ChainInv'
  BY <1>1, <1>6, ReadChains, WriteChains, RotateChains, TroubleChains, RestartChains
     DEF FlushStep
<1>7. CASE (\E p \in Process : Crash(p)) \/ NextDay
  BY <1>1, <1>7, RestartChains
<1>8. CASE UNCHANGED svcVars
  BY <1>2, <1>8 DEF svcVars
<1> QED BY <1>4, <1>5, <1>6, <1>7, <1>8 DEF Next

\* AuditLog of the backend's process: nothing but a write cut in the middle leaves files
\* that the next start refuses, and the running log knows every id on disk.
THEOREM ChainStaysIntact == Tools = {} => (Spec => []ChainIntact)
<1> SUFFICES ASSUME Tools = {} PROVE Spec => []ChainIntact
  OBVIOUS
<1>1. Init => ChainInv
  BY InitChains
<1>2. IInv /\ ChainInv /\ [Next]_svcVars => ChainInv'
  BY StepChains
<1>3. IInv /\ ChainInv => ChainIntact
  <2>1. SUFFICES ASSUME LogInv, ChainInv, ~damaged, LockFree
                 PROVE  /\ Verifiable
                        /\ up["backend"] # "down" => OnDisk \subseteq ids["backend"]
    BY DEF ChainIntact, IInv
  <2>2. FileTypes /\ FilesVerify /\ AllKnown /\ \A t \in Thread : pc[t] # "unlink"
    BY <2>1, FreeIs DEF LogInv, ChainInv, Holds
  <2>3. Verifiable
    BY <2>2, SettledIs, SettledVerifies
  <2>4. up["backend"] # "down" => OnDisk \subseteq ids["backend"]
    BY <2>2, OnDiskIs DEF AllKnown
  <2> QED BY <2>3, <2>4
<1> QED BY <1>1, <1>2, <1>3, StorageInvariant, PTL DEF Spec
=============================================================================
