--------------------------- MODULE StorageService ---------------------------
(***************************************************************************)
(* The storage service: every write is one transaction over the tables and *)
(* the outbox, followed by the flush of AuditOutbox. The database is a set *)
(* of rows; foreign keys, unique keys, row counts and the provenance rule  *)
(* are the guards, and a write whose guard fails raises and changes        *)
(* nothing. Rows carry the day they were stored, for retention.            *)
(***************************************************************************)
EXTENDS AuditOutbox

CONSTANTS MaxWrites,      \* bound: transactions of a run
          SyntheticOnly   \* the data policy of the store

\* A record id is a kind, a key and what else makes it unique.
Kind == {"user-state", "session-start", "drill-session", "segment-start", "segment-end",
         "session-end", "risk-decision", "action-outcome", "verification", "alert", "admin",
         "challenge", "model", "update", "retention"}
Key == {"u", "s", "s2", "g", "g2", "d", "a", "al", "m", "c", "r", "admin_shadow_mode",
        "security_challenge"}
RecordId == Kind \X Key \X Nat

ASSUME StorageAssumption == MaxWrites \in Nat /\ SyntheticOnly \in BOOLEAN
                            /\ Torn \notin RecordId

VARIABLES db, writes

svcVars == <<auditVars, db, writes>>

Provenance == {"SYNTHETIC", "PILOT"}
UserState == {"ENROLLING", "ACTIVE"}
\* The two ends of an asynchronously answered challenge: opened, then answered.
Outcome == {"CHALLENGE_OPENED", "CHALLENGE_FAILED"}
Disposition == {"QUARANTINED", "INVALIDATED"}

Has(table, key) == \E r \in db : r.table = table /\ r.key = key
Row(table, key) == CHOOSE r \in db : r.table = table /\ r.key = key
Revise(table, key, val, n) ==
    {r \in db : ~(r.table = table /\ r.key = key)}
      \cup {[table |-> table, key |-> key, val |-> val, rev |-> n,
             day |-> IF Has(table, key) THEN Row(table, key).day ELSE today]}

Put(table, key, val) == Revise(table, key, val, 1)

\* One transaction with its audit record. n is what the record's id has beside the
\* row's key: nothing (Once), or a time or a fresh uuid (Fresh), or a revision.
Once == 0
Fresh == Len(committed) + 1
\* A key that is itself a uuid is not used again, even when retention takes its row.
IsNew(kind, key) == \A i \in DOMAIN committed : committed[i].id # <<kind, key, Once>>
Audited(t, kind, n, table, key, val) ==
    /\ db' = Put(table, key, val)
    /\ Queue(t, <<kind, key, n>>, <<table, key, val>>)

\* A write that is not audited is not followed by a flush.
Unaudited(rows1) == db' = rows1 /\ UNCHANGED auditVars

MayHold(provenance) == SyntheticOnly <=> provenance = "SYNTHETIC"

-----------------------------------------------------------------------------
UpsertUser(t) ==
    \E s \in UserState :
      Audited(t, "user-state", Fresh, "users", "u", s)

CreateSession(t) ==
    /\ Has("users", "u") /\ ~Has("sessions", "s2")
    /\ Audited(t, "session-start", Once, "sessions", "s2", "open")

DeclareDrill(t) ==
    /\ Has("sessions", "s2") /\ ~Has("drill_sessions", "s2")
    /\ Audited(t, "drill-session", Once, "drill_sessions", "s2", "drill")

CreateSegment(t) ==
    /\ Has("sessions", "s2") /\ ~Has("segments", "g2")
    /\ Audited(t, "segment-start", Once, "segments", "g2", "open")

EndSegment(t) ==
    /\ Has("segments", "g") /\ Row("segments", "g").val = "open"
    /\ Audited(t, "segment-end", Once, "segments", "g", "ended")

EndSession(t) ==
    /\ Has("sessions", "s") /\ Row("sessions", "s").val = "open"
    /\ Audited(t, "session-end", Once, "sessions", "s", "ended")

StoreWindow(t) ==
    \E p \in Provenance :
      /\ MayHold(p) /\ Has("segments", "g") /\ ~Has("feature_windows", "w2")
      /\ Unaudited(Put("feature_windows", "w2", p))

\* The window is looked up for its provenance; retention may have taken it.
StoreScore(t) ==
    /\ Has("feature_windows", "w") /\ MayHold(Row("feature_windows", "w").val)
    /\ ~Has("scores", "w")
    /\ Unaudited(Put("scores", "w", "score"))

\* Two rows, risk_events and decisions, of which the second keeps the outcome.
StoreDecision(t) ==
    /\ Has("feature_windows", "w") /\ MayHold(Row("feature_windows", "w").val)
    /\ IsNew("risk-decision", "d")
    /\ Audited(t, "risk-decision", Once, "decisions", "d", "NONE")

\* A challenge is answered, if at all, within its timeout, which is minutes: no
\* retention takes the record of its opening before.
RecordOutcome(t) ==
    \E o \in Outcome :
      /\ Has("decisions", "d") /\ today <= Row("decisions", "d").day + 1
      /\ \/ IsNew("action-outcome", "d")
         \/ \E row \in outbox : row.id = <<"action-outcome", "d", Once>>
      /\ Audited(t, "action-outcome", Once, "decisions", "d", o)

RecordVerification(t) ==
    /\ Has("sessions", "s") /\ ~Has("verification_anchors", "a")
    /\ Audited(t, "verification", Once, "verification_anchors", "a", "A2")

StoreAlert(t) ==
    /\ IsNew("alert", "al")
    /\ Audited(t, "alert", Once, "alerts", "al", "raised")

AcknowledgeAlert(t) ==
    /\ Has("alerts", "al")
    /\ Audited(t, "admin", Fresh, "alerts", "al", "acknowledged")

SetShadowMode(t) ==
    \E on \in {"0", "1"} :
      Audited(t, "admin", Fresh, "storage_metadata", "admin_shadow_mode", on)

\* The record says that the challenge was set, and whether it replaced one.
SetChallenge(t) ==
    LET rotated == IF Has("storage_metadata", "security_challenge") THEN "rotated" ELSE "set"
    IN Audited(t, "challenge", Fresh, "storage_metadata", "security_challenge", rotated)

StoreModel(t) ==
    /\ Has("users", "u") /\ ~Has("models", "m")
    /\ \E p \in Provenance : MayHold(p)
    /\ Audited(t, "model", Once, "models", "m", "model")

\* Mutant: the revision is not advanced.
StoreCandidate_sameRevision(t) ==
    /\ Has("segments", "g")
    /\ \E d \in Disposition : Audited(t, "update", Once, "update_candidates", "c", d)

\* The manager stores a candidate again with its next audit revision.
StoreCandidate(t) ==
    /\ Has("segments", "g")
    /\ \E d \in Disposition :
         LET n == IF Has("update_candidates", "c") THEN Row("update_candidates", "c").rev + 1
                                                  ELSE 1
         IN /\ db' = Revise("update_candidates", "c", d, n)
            /\ Queue(t, <<"update", "c", n>>, <<"update_candidates", "c", d>>)

RegisterApp(t) == Unaudited(Put("app_registry", "app", "PRODUCTIVITY"))

RecordSystem(t) == \E kind \in {"METRICS", "HEALTH"} :
                     Unaudited(Put("system_metrics", kind, kind))

Write(t) == \/ UpsertUser(t) \/ CreateSession(t) \/ DeclareDrill(t) \/ CreateSegment(t)
            \/ EndSegment(t) \/ EndSession(t) \/ StoreWindow(t) \/ StoreScore(t)
            \/ StoreDecision(t) \/ RecordOutcome(t) \/ RecordVerification(t)
            \/ StoreAlert(t) \/ AcknowledgeAlert(t) \/ SetShadowMode(t)
            \/ SetChallenge(t) \/ StoreModel(t) \/ StoreCandidate(t)
            \/ RegisterApp(t) \/ RecordSystem(t)

-----------------------------------------------------------------------------
\* run_retention: aged rows go in one transaction with the outbox rows;
\* decisions go with their risk event (ON DELETE CASCADE).
Aging == {"feature_windows", "scores", "decisions", "alerts", "system_metrics"}
RunRetention(t) ==
    /\ DeleteRows(t)
    /\ db' = {r \in db : ~(r.table \in Aging /\ r.day + DeleteAfter < today)}

Report(t) ==
    /\ pc[t] = "report"
    /\ Queue(t, <<"retention", "r", Fresh>>, <<"retention", "r", "COMPLETED">>)
    /\ UNCHANGED db

\* The database of a store in use: a user, an open session with an open segment
\* and a window, all of it audited.
First3 == << [id |-> <<"user-state", "u", 0>>, fact |-> <<"users", "u", "ACTIVE">>],
             [id |-> <<"session-start", "s", 0>>, fact |-> <<"sessions", "s", "open">>],
             [id |-> <<"segment-start", "g", 0>>, fact |-> <<"segments", "g", "open">>] >>
Stored(table, key, val) == [table |-> table, key |-> key, val |-> val, rev |-> 1, day |-> 0]

Init == /\ AuditInit(First3)
        /\ db = {Stored("users", "u", "ACTIVE"), Stored("sessions", "s", "open"),
                 Stored("segments", "g", "open"),
                 Stored("feature_windows", "w",
                        IF SyntheticOnly THEN "SYNTHETIC" ELSE "PILOT")}
        /\ writes = 0

Next == \/ \E t \in Thread :
             \/ /\ Ready(t) /\ writes < MaxWrites
                /\ Write(t)
                /\ writes' = writes + 1
             \/ /\ writes < MaxWrites
                /\ RunRetention(t)
                /\ writes' = writes + 1
             \/ Report(t) /\ UNCHANGED writes
             \/ (FlushStep(t) \/ RotateStep(t) \/ Trouble(t) \/ Open(t))
                  /\ UNCHANGED <<db, writes>>
        \/ ((\E p \in Process : Crash(p)) \/ NextDay) /\ UNCHANGED <<db, writes>>

Spec == Init /\ [][Next]_svcVars

-----------------------------------------------------------------------------
TypeOK == /\ \A row \in outbox : row.day \in Day /\ row.sent \in BOOLEAN
          /\ ids \in [Process -> SUBSET Range(written)]
          /\ pc \in [Thread -> {"idle", "failed", "read", "append", "mark", "rotate",
                                "unlink", "report"}]
          /\ up \in [Process -> {"up", "opening", "down"}] /\ today \in Day /\ writes \in 0 .. MaxWrites
          /\ \A r, q \in db : r.table = q.table /\ r.key = q.key => r = q

\* The last record committed about a row says what the row says.
IsAudited(r) ==
    LET about == {i \in DOMAIN committed : /\ committed[i].fact[1] = r.table
                                          /\ committed[i].fact[2] = r.key}
    IN \E i \in about : /\ \A j \in about : j <= i
                        /\ committed[i].fact[3] = r.val

\* Whoever reads a table and the audit log together reads one history: no record
\* is lost to a record id that was used before.
RowsAreAudited ==
    \A r \in db : r.table \in {"users", "sessions", "segments", "alerts", "models",
                               "storage_metadata", "update_candidates"}
                    => IsAudited(r)

\* "Attach the real adapter result to a previously audited policy decision"
\* (service.py:616): an outcome attached to a decision is in the audit records.
OutcomesAreAudited ==
    \A r \in db : r.table = "decisions" => IsAudited(r)
=============================================================================
