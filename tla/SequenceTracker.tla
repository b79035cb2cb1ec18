--------------------------- MODULE SequenceTracker ---------------------------
(***************************************************************************)
(* SequenceTracker (ingestion/ordering.py) and the counters the pipeline   *)
(* keeps of it (ingestion/pipeline.py).  An event is known by its sequence *)
(* number and its capture time.                                            *)
(*                                                                         *)
(* DUPLICATE and OUT_OF_ORDER below the expected number are one case here: *)
(* both are refused, and the ring of recent numbers only tells which of    *)
(* two counters to increment.                                              *)
(***************************************************************************)
EXTENDS Integers

CONSTANT None

VARIABLES
  first,        \* ghost: the first sequence number observed
  expected,     \* _expected, or None
  lastCapture,  \* _last_capture_us
  missing,      \* counters.missing_sequences
  verdict       \* the last OrderingResult: accepted or not

trackerVars == <<first, expected, lastCapture, missing, verdict>>

TrackerTypeOK(Captures) ==
  /\ first \in Nat \cup {None} /\ expected \in Nat \cup {None}
  /\ lastCapture \in Captures \cup {None}
  /\ missing \in Nat
  /\ verdict \in {"none", "accepted", "refused"}

TrackerInit ==
  /\ first = None /\ expected = None /\ lastCapture = None
  /\ missing = 0
  /\ verdict = "none"

Reset ==
  /\ first' = None /\ expected' = None /\ lastCapture' = None
  /\ missing' = 0
  /\ verdict' = "none"

ObserveFirst(e) ==
  /\ expected = None
  /\ first' = e.seq /\ expected' = e.seq + 1
  /\ lastCapture' = e.t
  /\ verdict' = "accepted"
  /\ UNCHANGED missing

ObserveLate(e) ==
  /\ expected # None /\ e.seq < expected
  /\ verdict' = "refused"
  /\ UNCHANGED <<first, expected, lastCapture, missing>>

(* Mutant: the gap includes the event that ends it.                        *)
ObserveNext_gap(e) ==
  /\ expected # None /\ e.seq >= expected
  /\ missing' = IF e.seq = expected THEN missing ELSE missing + e.seq + 1 - expected
  /\ expected' = e.seq + 1
  /\ IF e.t < lastCapture
     THEN verdict' = "refused" /\ UNCHANGED lastCapture
     ELSE verdict' = "accepted" /\ lastCapture' = e.t
  /\ UNCHANGED first

(* A capture time before the last accepted one is refused, and still moves *)
(* the expected number.                                                    *)
ObserveNext(e) ==
  /\ expected # None /\ e.seq >= expected
  /\ missing' = missing + e.seq - expected
  /\ expected' = e.seq + 1
  /\ IF e.t < lastCapture
     THEN verdict' = "refused" /\ UNCHANGED lastCapture
     ELSE verdict' = "accepted" /\ lastCapture' = e.t
  /\ UNCHANGED first

Observe(e) == ObserveFirst(e) \/ ObserveLate(e) \/ ObserveNext(e)
=============================================================================
