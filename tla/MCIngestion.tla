------------------------------ MODULE MCIngestion ------------------------------
(***************************************************************************)
(* Ingestion on short chunks, and the vectors of the windows it closes,    *)
(* Features, on all short streams of events.                               *)
(***************************************************************************)
EXTENDS Ingestion, Features

MCHand == [left |-> "L", upper |-> "L", right |-> "R"]
MCRow == [left |-> "HOME", upper |-> "UPPER", right |-> "HOME"]

-----------------------------------------------------------------------------
(* The shares of a window are, for each instant of it, the last change of  *)
(* focus no later: whatever the order in which the changes arrive, and     *)
(* they always add up to the whole of it ("exactly one unit of             *)
(* attributable focus").                                                   *)
Changes == [t : 0 .. 4, app : {"a", "b"}]
Timelines ==
  {<<>>} \cup {TimelineAdd(<<>>, e) : e \in Changes}
  \cup {TimelineAdd(TimelineAdd(<<>>, e), f) : e, f \in Changes}
  \cup {TimelineAdd(TimelineAdd(TimelineAdd(<<>>, e), f), g) : e, f, g \in Changes}

InFocus(timeline, t) ==
  LET past == {i \in DOMAIN timeline : timeline[i].t <= t}
  IN IF past = {} THEN Unattributed
     ELSE timeline[CHOOSE i \in past : \A j \in past : j <= i].app

ASSUME FocusIsWhole ==
  \A timeline \in Timelines, start \in 0 .. 4 : \A end \in start + 1 .. 5 :
    LET shares == FocusShares(timeline, start, end) IN
    /\ DOMAIN shares = {InFocus(timeline, t) : t \in start .. end - 1}
    /\ \A a \in DOMAIN shares :
         shares[a] = Cardinality({t \in start .. end - 1 : InFocus(timeline, t) = a})
    /\ Leading(shares) # {}
    /\ Switches(timeline, start, end) >= Cardinality(DOMAIN shares) - 1
-----------------------------------------------------------------------------
Keys == {"left", "upper", "right", "backspace"}
KeyEvents == {e \in [t : 0 .. 2, seq : {0}, down : BOOLEAN, repeat : BOOLEAN, of : {"left", "backspace"}] :
                e.repeat => e.down}
KeyStreams ==
  UNION {{s \in [1 .. n -> KeyEvents] : \A i \in 1 .. n - 1 : s[i].t <= s[i + 1].t} : n \in 0 .. 3}

(* No release is answered by a press after it, none twice, and a window    *)
(* that starts with the release of a key has no dwell of it.               *)
ASSUME PairsAreSound ==
  \A s \in KeyStreams :
    LET pairs == MatchPairs(s) IN
    /\ \A i \in DOMAIN pairs : pairs[i].down <= pairs[i].up
    /\ \A c \in Classes :
         /\ Len(SelectSeq(pairs, LAMBDA p : p.of = c))
              <= Len(SelectSeq(Downs(s), LAMBDA e : e.of = c))
         /\ Len(SelectSeq(pairs, LAMBDA p : p.of = c))
              <= Len(SelectSeq(s, LAMBDA e : ~e.down /\ e.of = c))
    /\ (s # <<>> /\ ~s[1].down) => MatchPairs(s) = MatchPairs(Tail(s))

Numbered(s) == {[s[i] EXCEPT !.seq = i] : i \in DOMAIN s}
PartOf(ratio) == ratio[1] >= 0 /\ ratio[1] <= (IF ratio[2] > 0 THEN ratio[2] ELSE 0)

(* The ratios of the contract are ratios, and the bursts are of keys that  *)
(* were pressed.                                                           *)
ASSUME RatiosAreBounded ==
  \A s \in KeyStreams :
    LET f == KeyboardFeatures(Numbered(s)) IN
    /\ PartOf(f.pause) /\ PartOf(f.backspace) /\ PartOf(f.rollover) /\ PartOf(f.homerow)
    /\ 2 * f.runs <= f.backspace[1]
    /\ FoldLeft(+, 0, f.bursts) <= f.typed
    /\ FoldLeft(+, 0, RunLengths(Downs(s), BurstGap)) = f.typed
    /\ \A t \in Range(f.flights) : t >= 0
    /\ Len(f.flights) <= f.typed
    /\ \A a, b \in DOMAIN f.transitions : a # b => f.transitions[a] \cap f.transitions[b] = {}
-----------------------------------------------------------------------------
Moves == [t : {0, 1, 4}, seq : {0}, x : 0 .. 1, y : 0 .. 1]
MoveStreams ==
  UNION {{s \in [1 .. n -> Moves] : \A i \in 1 .. n - 1 : s[i].t <= s[i + 1].t} : n \in 0 .. 3}

(* Segments are the moves, in order, cut exactly at the long gaps; a turn  *)
(* takes three of them.                                                    *)
ASSUME SegmentsPartition ==
  \A s \in MoveStreams :
    LET f == MouseFeatures(Numbered(s), {}, {})
        parts == f.segments
    IN
    /\ FlattenSeq(parts) = Ordered(Numbered(s))
    /\ Len(parts) = IF s = <<>> THEN 0
                       ELSE 1 + Cardinality({i \in DOMAIN Latencies(s) : Latencies(s)[i] > SegmentGap})
    /\ \A i \in DOMAIN parts :
         /\ f.pauses[i] <= Len(parts[i]) - 1
         /\ f.turns[i] = 0 \/ f.turns[i] + 2 <= Len(parts[i])

(* A modality is present exactly when there is enough of it, whatever the  *)
(* other (ADR-005).                                                        *)
ASSUME QualityIsPerModality ==
  \A keys, samples \in 0 .. 3 :
    /\ QualityLabel(keys, samples) \in {"FULL", "KBD_ONLY"} <=> keys >= MinKeystrokes
    /\ QualityLabel(keys, samples) \in {"FULL", "MOUSE_ONLY"} <=> samples >= MinMouseSamples
=============================================================================
