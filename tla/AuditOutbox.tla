----------------------------- MODULE AuditOutbox ----------------------------
(***************************************************************************)
(* The way of an audit record from the transaction that queues it to the   *)
(* hash-chained daily file: the outbox table, the flush that follows every *)
(* commit, the append under the log's lock, rotation and retention, and    *)
(* what a crash or an I/O error leaves behind. A line is its record's id;  *)
(* a hash chain that does not verify is a line that was cut short.         *)
(***************************************************************************)
EXTENDS Naturals, Sequences, SequencesExt

CONSTANTS Thread,        \* the callers of the storage service
          Tools,         \* those that are operator tools, each a process of its own
          MaxDay,        \* bound: the last day of a run
          MaxTrouble,    \* bound: crashes and I/O errors of a run
          CompressAfter, DeleteAfter,  \* retention, in days
          Torn           \* a line cut short

ASSUME AuditAssumption == /\ Thread # {} /\ Tools \subseteq Thread
                          /\ MaxDay \in Nat /\ MaxTrouble \in Nat
                          /\ CompressAfter \in Nat \ {0}
                          /\ DeleteAfter \in Nat /\ CompressAfter <= DeleteAfter

VARIABLES outbox,        \* the rows of audit_outbox; no is outbox_id, AUTOINCREMENT
          plain, zipped, \* audit-<day>.jsonl and audit-<day>.jsonl.gz
          ids,           \* of each process, AuditLog._record_ids
          pc, rows,      \* of each thread; rows is its own SELECT of pending rows
          up,            \* each process: "down", "opening", "up"
          today, trouble,
          committed,     \* ghost: every record queued, in order of commit
          written,       \* ghost: every record logged, in order of its first line
          owes,          \* ghost: what was committed when the thread's flush began
          damaged        \* ghost: an append or a rotation was interrupted

auditVars == <<outbox, plain, zipped, ids, pc, rows, up, today, trouble,
               committed, written, owes, damaged>>
fileVars == <<plain, zipped, ids, written>>

Proc(t) == IF t \in Tools THEN t ELSE "backend"
Process == {Proc(t) : t \in Thread}
Day == 0 .. MaxDay
Lines(d) == plain[d] \o zipped[d]
Whole(file) == Torn \notin Range(file) /\ IsInjective(file)
OnDisk == UNION {Range(Lines(d)) : d \in Day}

\* verify_all: every chain verifies and no id is in two files.
Verifiable == /\ \A d \in Day : Whole(plain[d]) /\ Whole(zipped[d])
              /\ \A d, e \in Day :
                   /\ Range(plain[d]) \cap Range(zipped[e]) = {}
                   /\ d # e => /\ Range(plain[d]) \cap Range(plain[e]) = {}
                               /\ Range(zipped[d]) \cap Range(zipped[e]) = {}

Ready(t) == up[Proc(t)] = "up" /\ pc[t] \in {"idle", "failed"}
Free(p) == \A t \in Thread : Proc(t) = p => pc[t] \notin {"rotate", "unlink"}
LockFree == \A p \in Process : Free(p)
Know(t, known) == ids' = [ids EXCEPT ![Proc(t)] = known]
Opened(t) == up' = [up EXCEPT ![Proc(t)] = "up"]

\* An exception leaves the operation; in open() it leaves the process.
Raise(t) == /\ pc' = [pc EXCEPT ![t] = "failed"]
            /\ rows' = [rows EXCEPT ![t] = {}]
            /\ up' = [up EXCEPT ![Proc(t)] = IF @ = "opening" THEN "down" ELSE @]

-----------------------------------------------------------------------------
AuditInit(first) ==
    /\ outbox = {[no |-> i, id |-> first[i].id, day |-> 0, sent |-> TRUE] : i \in DOMAIN first}
    /\ committed = first
    /\ written = [i \in DOMAIN first |-> first[i].id]
    /\ plain = [d \in Day |-> IF d = 0 THEN written ELSE <<>>]
    /\ zipped = [d \in Day |-> <<>>]
    /\ ids = [p \in Process |-> IF p = "backend" THEN Range(written) ELSE {}]
    /\ pc = [t \in Thread |-> "idle"] /\ rows = [t \in Thread |-> {}]
    /\ up = [p \in Process |-> IF p = "backend" THEN "up" ELSE "down"] /\ today = 0 /\ trouble = 0
    /\ owes = [t \in Thread |-> 0] /\ damaged = FALSE

\* _queue_audit, ON CONFLICT(record_id) DO NOTHING, in the caller's
\* transaction; the flush follows the commit.
Queue(t, id, fact) ==
    /\ IF \E row \in outbox : row.id = id
         THEN UNCHANGED <<outbox, committed>>
         ELSE /\ outbox' = outbox \cup {[no |-> Len(committed) + 1, id |-> id,
                                         day |-> today, sent |-> FALSE]}
              /\ committed' = Append(committed, [id |-> id, fact |-> fact])
    /\ pc' = [pc EXCEPT ![t] = "read"]
    /\ UNCHANGED <<fileVars, rows, up, today, trouble, owes, damaged>>

ReadPending(t) ==
    /\ pc[t] = "read"
    /\ LET pending == {row \in outbox : ~row.sent}
       IN /\ rows' = [rows EXCEPT ![t] = pending]
          /\ pc' = [pc EXCEPT ![t] = IF pending = {} THEN "idle" ELSE "append"]
          /\ IF pending = {} THEN Opened(t) ELSE UNCHANGED up
    /\ owes' = [owes EXCEPT ![t] = Len(committed)]
    /\ UNCHANGED <<fileVars, outbox, today, trouble, committed, damaged>>

\* The thread goes through its rows in the order of outbox_id.
IsNext(row, t) == row \in rows[t] /\ \A other \in rows[t] : row.no <= other.no
Taken(t, row) ==
    /\ rows' = [rows EXCEPT ![t] = @ \ {row}]
    /\ pc' = [pc EXCEPT ![t] = IF rows[t] = {row} THEN "idle" ELSE "append"]
    /\ IF rows[t] = {row} THEN Opened(t) ELSE UNCHANGED up

\* A line goes to the file of the day on which it is written.
Repeated(t, row) ==
    /\ row.id \in ids[Proc(t)]
    /\ pc' = [pc EXCEPT ![t] = "mark"]
    /\ UNCHANGED <<fileVars, rows, up>>
WriteLine(t, row) ==
    /\ row.id \notin ids[Proc(t)] /\ Whole(plain[today])
    /\ plain' = [plain EXCEPT ![today] = Append(@, row.id)]
    /\ Know(t, ids[Proc(t)] \cup {row.id})
    /\ written' = IF row.id \in Range(written) THEN written ELSE Append(written, row.id)
    /\ pc' = [pc EXCEPT ![t] = "mark"]
    /\ UNCHANGED <<zipped, rows, up>>
RefuseLine(t, row) ==
    /\ row.id \notin ids[Proc(t)] /\ ~Whole(plain[today])
    /\ Raise(t)
    /\ UNCHANGED fileVars
AppendRow(t) ==
    /\ pc[t] = "append" /\ Free(Proc(t))
    /\ \E row \in rows[t] :
         IsNext(row, t) /\ (Repeated(t, row) \/ WriteLine(t, row) \/ RefuseLine(t, row))
    /\ UNCHANGED <<outbox, today, trouble, committed, owes, damaged>>

\* A write is under way: the next row's line, which the log does not know.
Writing(t) ==
    /\ pc[t] = "append" /\ Free(Proc(t)) /\ Whole(plain[today])
    /\ \E row \in rows[t] : IsNext(row, t) /\ row.id \notin ids[Proc(t)]

\* Mutants: a failed append is skipped; a failed append is swallowed.
AppendFails_skips(t) ==
    /\ Writing(t) /\ trouble < MaxTrouble
    /\ trouble' = trouble + 1
    /\ \E row \in rows[t] : IsNext(row, t) /\ Taken(t, row)
    /\ UNCHANGED <<fileVars, outbox, today, committed, owes, damaged>>
AppendFails_swallowed(t) ==
    /\ Writing(t) /\ trouble < MaxTrouble
    /\ trouble' = trouble + 1
    /\ rows' = [rows EXCEPT ![t] = {}] /\ pc' = [pc EXCEPT ![t] = "idle"] /\ Opened(t)
    /\ UNCHANGED <<fileVars, outbox, today, committed, owes, damaged>>

\* os.write raises, before or after it has written a part of the line.
AppendFails(t) ==
    /\ Writing(t) /\ trouble < MaxTrouble
    /\ trouble' = trouble + 1
    /\ \E cut \in BOOLEAN :
         /\ plain' = IF cut THEN [plain EXCEPT ![today] = Append(@, Torn)] ELSE plain
         /\ damaged' = (damaged \/ cut)
    /\ Raise(t)
    /\ UNCHANGED <<zipped, ids, written, outbox, today, committed, owes>>

MarkedSent(no) ==
    {IF row.no = no THEN [row EXCEPT !.sent = TRUE] ELSE row : row \in outbox}

MarkRow(t) ==
    /\ pc[t] = "mark"
    /\ \E row \in rows[t] : /\ IsNext(row, t) /\ Taken(t, row)
                            /\ outbox' = MarkedSent(row.no)
    /\ UNCHANGED <<fileVars, today, trouble, committed, owes, damaged>>

MarkFails(t) ==
    /\ pc[t] = "mark" /\ trouble < MaxTrouble
    /\ trouble' = trouble + 1
    /\ Raise(t)
    /\ UNCHANGED <<fileVars, outbox, today, committed, owes, damaged>>

-----------------------------------------------------------------------------
\* rotate_and_retain, under the log's lock, one file at a time. The current
\* day's file is never touched.
Expired(d) == d < today /\ d + DeleteAfter <= today
Old(d) == d < today /\ d + CompressAfter <= today
Due == {d \in Day : \/ Expired(d) /\ Lines(d) # <<>>
                    \/ ~Expired(d) /\ Old(d) /\ plain[d] # <<>>}
\* The file in hand: sorted(...) of the directory, the oldest first.
InHand(d) == d \in Due /\ \A e \in Due : d <= e

\* The transaction of run_retention; a row queued on the very day of the cutoff
\* is older than the cutoff or not, by the hour.
DeleteRows(t) ==
    /\ Ready(t) /\ Free(Proc(t)) /\ today >= CompressAfter
    /\ \E sameDay \in BOOLEAN :
         outbox' = {row \in outbox :
                      ~(row.sent /\ (\/ row.day + DeleteAfter < today
                                     \/ sameDay /\ row.day + DeleteAfter = today))}
    /\ pc' = [pc EXCEPT ![t] = "rotate"]
    /\ UNCHANGED <<fileVars, rows, up, today, trouble, committed, owes, damaged>>

DeleteFile(t) ==
    /\ pc[t] = "rotate"
    /\ \E d \in Day : /\ InHand(d) /\ Expired(d)
                     /\ plain' = [plain EXCEPT ![d] = <<>>]
                     /\ zipped' = [zipped EXCEPT ![d] = <<>>]
    /\ UNCHANGED <<ids, written, outbox, pc, rows, up, today, trouble, committed,
                   owes, damaged>>

\* os.replace puts the compressed file in place; the source is unlinked next.
Compress(t) ==
    /\ pc[t] = "rotate"
    /\ \E d \in Day :
         /\ InHand(d) /\ ~Expired(d)
         /\ IF Whole(plain[d])
              THEN /\ zipped' = [zipped EXCEPT ![d] = plain[d]]
                   /\ pc' = [pc EXCEPT ![t] = "unlink"]
                   /\ UNCHANGED <<rows, up>>
              ELSE Raise(t) /\ UNCHANGED zipped
    /\ UNCHANGED <<plain, ids, written, outbox, today, trouble, committed, owes, damaged>>

Unlink(t) ==
    /\ pc[t] = "unlink"
    /\ \E d \in Day : InHand(d) /\ plain' = [plain EXCEPT ![d] = <<>>]
    /\ pc' = [pc EXCEPT ![t] = "rotate"]
    /\ UNCHANGED <<zipped, ids, written, outbox, rows, up, today, trouble, committed,
                   owes, damaged>>

RotateFails(t) ==
    /\ pc[t] \in {"rotate", "unlink"} /\ Due # {} /\ trouble < MaxTrouble
    /\ trouble' = trouble + 1
    /\ damaged' = (damaged \/ pc[t] = "unlink")
    /\ Raise(t)
    /\ UNCHANGED <<fileVars, outbox, today, committed, owes>>

Rotated(t) ==
    /\ pc[t] = "rotate" /\ Due = {}
    /\ IF Verifiable
         THEN /\ Know(t, OnDisk)
              /\ pc' = [pc EXCEPT ![t] = "report"]
              /\ UNCHANGED <<rows, up>>
         ELSE Raise(t) /\ UNCHANGED ids
    /\ UNCHANGED <<plain, zipped, written, outbox, today, trouble, committed, owes, damaged>>

-----------------------------------------------------------------------------
\* A process dies; an append or a rotation in progress stays half done.
Crash(p) ==
    /\ up[p] # "down" /\ trouble < MaxTrouble
    /\ trouble' = trouble + 1
    /\ \E cut \in BOOLEAN :
         /\ cut => \E t \in Thread : Proc(t) = p /\ Writing(t)
         /\ plain' = IF cut THEN [plain EXCEPT ![today] = Append(@, Torn)] ELSE plain
         /\ damaged' = (\/ damaged \/ cut
                        \/ \E t \in Thread : Proc(t) = p /\ pc[t] = "unlink")
    /\ up' = [up EXCEPT ![p] = "down"] /\ ids' = [ids EXCEPT ![p] = {}]
    /\ pc' = [t \in Thread |-> IF Proc(t) = p THEN "idle" ELSE pc[t]]
    /\ rows' = [t \in Thread |-> IF Proc(t) = p THEN {} ELSE rows[t]]
    /\ owes' = [t \in Thread |-> IF Proc(t) = p THEN 0 ELSE owes[t]]
    /\ UNCHANGED <<zipped, written, outbox, today, committed>>

\* Mutant: the log is opened without the ids it holds.
Open_forgets(t) ==
    /\ up[Proc(t)] = "down" /\ Verifiable
    /\ up' = [up EXCEPT ![Proc(t)] = "opening"]
    /\ Know(t, {})
    /\ pc' = [u \in Thread |-> IF u = t THEN "read" ELSE IF Proc(u) = Proc(t) THEN "idle" ELSE pc[u]]
    /\ owes' = [u \in Thread |-> IF Proc(u) = Proc(t) THEN 0 ELSE owes[u]]
    /\ UNCHANGED <<plain, zipped, written, outbox, rows, today, trouble, committed, damaged>>

\* open(): the log is verified, then what an earlier process left is flushed.
Open(t) ==
    /\ up[Proc(t)] = "down" /\ Verifiable
    /\ up' = [up EXCEPT ![Proc(t)] = "opening"]
    /\ Know(t, OnDisk)
    /\ pc' = [u \in Thread |-> IF u = t THEN "read"
                               ELSE IF Proc(u) = Proc(t) THEN "idle" ELSE pc[u]]
    /\ owes' = [u \in Thread |-> IF Proc(u) = Proc(t) THEN 0 ELSE owes[u]]
    /\ UNCHANGED <<plain, zipped, written, outbox, rows, today, trouble, committed, damaged>>

\* An operation takes no day: midnight falls between operations.
NextDay ==
    /\ today < MaxDay
    /\ \A t \in Thread : pc[t] \in {"idle", "failed"}
    /\ today' = today + 1
    /\ UNCHANGED <<fileVars, outbox, pc, rows, up, trouble, committed, owes, damaged>>

FlushStep(t) == ReadPending(t) \/ AppendRow(t) \/ MarkRow(t)
RotateStep(t) == DeleteFile(t) \/ Compress(t) \/ Unlink(t) \/ Rotated(t)
Trouble(t) == AppendFails(t) \/ MarkFails(t) \/ RotateFails(t)

-----------------------------------------------------------------------------
Trail == INSTANCE AuditTrail
           WITH committed <- [i \in DOMAIN committed |-> committed[i].id],
                trail <- written,
                kept <- OnDisk \ {Torn}

\* The outbox and the log, over concurrent flushes, failed appends and marks,
\* crashes, restarts and rotation, are one log in the order of commit that takes
\* every record once: "Deliver committed outbox records idempotently to
\* append-only JSONL" (service.py:1028).
InOrderOnce == Trail!TrailSpec

\* An operation that returns has every record committed before its flush in the
\* log, whichever thread put it there.
SuccessMeansLogged ==
    \A t \in Thread : pc[t] = "idle" => Len(written) >= owes[t]

\* Nothing but an append or a rotation cut in the middle makes a log that the
\* next start refuses, and while the log runs it knows every id on disk.
ChainIntact ==
    /\ ~damaged /\ LockFree => Verifiable
    /\ ~damaged /\ LockFree /\ up["backend"] # "down" => OnDisk \subseteq ids["backend"]

\* "Append and fsync one record; repeated record IDs are idempotent"
\* (audit.py:112): a start after a crash finds a log it can go on with.
StartsAgain == up["backend"] = "down" => Verifiable

\* The same, of an operator tool that opens the store of a running backend: each has
\* its own set of ids and its own lock.
OneLogForAll == ~damaged /\ LockFree => Verifiable
=============================================================================
