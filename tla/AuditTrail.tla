----------------------------- MODULE AuditTrail -----------------------------
(***************************************************************************)
(* What the audit outbox and the audit log promise together: the log takes *)
(* what was committed, in the order of commit, and holds each record once. *)
(* Retention may take records out of it again; only such a record can ever *)
(* come back.                                                              *)
(***************************************************************************)
EXTENDS Naturals, Sequences

VARIABLES committed, \* the records of committed transactions, in order
          trail,     \* the records the log has ever taken, in order
          kept       \* the records the log holds

TrailInit == /\ trail = committed
             /\ kept = {trail[i] : i \in DOMAIN trail}

\* A transaction queues a record that no earlier one has queued.
Commit == /\ Len(committed') = Len(committed) + 1
          /\ committed' = Append(committed, committed'[Len(committed')])
          /\ \A i \in DOMAIN committed : committed[i] # committed'[Len(committed')]
          /\ UNCHANGED <<trail, kept>>

\* The log takes the next record it has never had.
Deliver == /\ Len(trail) < Len(committed)
           /\ trail' = Append(trail, committed[Len(trail) + 1])
           /\ kept' = kept \cup {committed[Len(trail) + 1]}
           /\ UNCHANGED committed

Expire == kept' \in SUBSET kept /\ UNCHANGED <<committed, trail>>

Redeliver == \E i \in DOMAIN trail : /\ trail[i] \notin kept
                                     /\ kept' = kept \cup {trail[i]}
                                     /\ UNCHANGED <<committed, trail>>

TrailSpec == /\ TrailInit
             /\ [][Commit \/ Deliver \/ Expire \/ Redeliver]_<<committed, trail, kept>>
=============================================================================
