------------------------------- MODULE Features -------------------------------
(***************************************************************************)
(* What the vector of a window is computed from (ml/features): its share   *)
(* of focus, the pairing and grouping of its events, and its quality.  The *)
(* means and deviations taken of the times, and the physics of movement,   *)
(* are left out: here is what is counted in them.  An event is             *)
(*   [t, seq, down, repeat, of]  of is the class of a key, or the button,  *)
(*   [t, seq, x, y]              a move,                                   *)
(*   [t, seq, app]               a change of focus,                        *)
(* with the capture time t and the number seq the collector gave it.       *)
(***************************************************************************)
EXTENDS Integers, Sequences, FiniteSets, SequencesExt

CONSTANTS
  Classes,           \* key classes, and mouse buttons
  Hand, Row,         \* KEY_CLASS_HAND, KEY_CLASS_ROW
  Correction,        \* CORRECTION_CLASSES
  HomeRow,           \* HOME_ROW_CLASSES
  Unattributed,      \* _UNATTRIBUTED_APP_ID
  PauseThreshold, BurstGap, SegmentGap, MicroPause, DoubleClickGap,
  ScrollGap, MinKeystrokes, MinMouseSamples

ASSUME FeaturesAssumption ==
  /\ Hand \in [DOMAIN Row -> {"L", "R"}] /\ DOMAIN Row \subseteq Classes
  /\ Correction \subseteq Classes /\ HomeRow \subseteq DOMAIN Row
  /\ {PauseThreshold, BurstGap, SegmentGap, MicroPause, DoubleClickGap, ScrollGap,
      MinKeystrokes, MinMouseSamples} \subseteq Nat

Before(a, b) == a.t < b.t \/ (a.t = b.t /\ a.seq < b.seq)
Ordered(events) == SetToSortSeq(events, Before)

(* From each event to the next.                                            *)
Latencies(s) ==
  IF s = <<>> THEN <<>> ELSE [i \in 1 .. Len(s) - 1 |-> s[i + 1].t - s[i].t]
-----------------------------------------------------------------------------
(* Focus.                                                                  *)

(* _ContextTimeline.add: after what was captured no later, in the order    *)
(* of arrival.                                                             *)
TimelineAdd(timeline, e) ==
  LET index == Cardinality({i \in DOMAIN timeline : timeline[i].t <= e.t})
  IN InsertAt(timeline, index + 1, e)

(* _ContextTimeline.focus_shares, in time instead of fractions: the spans  *)
(* of a window between one change of focus and the next.                   *)
FocusShares(timeline, start, end) ==
  LET idx == Cardinality({i \in DOMAIN timeline : timeline[i].t <= start})
      last == Cardinality({i \in DOMAIN timeline : timeline[i].t < end})
      App(i) == IF i = 0 THEN Unattributed ELSE timeline[i].app
      From(i) == IF i = idx THEN start ELSE timeline[i].t
      Upto(i) == IF i = last THEN end ELSE timeline[i + 1].t
      Span(i) == Upto(i) - From(i)
  IN IF end <= start THEN [a \in {App(idx)} |-> 1]
     ELSE [a \in {App(i) : i \in {j \in idx .. last : Span(j) > 0}} |->
             MapThenSumSet(Span, {i \in idx .. last : App(i) = a})]

Switches(timeline, start, end) ==
  Cardinality({i \in DOMAIN timeline : start < timeline[i].t /\ timeline[i].t < end})

(* The applications that may lead a window: the code's max takes the first.*)
Leading(shares) == {a \in DOMAIN shares : \A b \in DOMAIN shares : shares[b] <= shares[a]}
-----------------------------------------------------------------------------
(* Keys and buttons.                                                       *)

(* A release answers the oldest press of its class that is still open: "in *)
(* a content-free schema", physical keys cannot be told apart.             *)
Matched(s, e) ==
  IF e.down THEN (IF e.repeat THEN s ELSE [s EXCEPT !.open[e.of] = Append(@, e.t)])
  ELSE IF s.open[e.of] = <<>> THEN s
  ELSE [open |-> [s.open EXCEPT ![e.of] = Tail(@)],
        pairs |-> Append(s.pairs, [of |-> e.of, down |-> Head(s.open[e.of]), up |-> e.t])]

MatchPairs(events) ==
  FoldLeft(Matched, [open |-> [c \in Classes |-> <<>>], pairs |-> <<>>], events).pairs

Downs(events) == SelectSeq(events, LAMBDA e : e.down /\ ~e.repeat)

(* From the last release to the next press, each release used once.        *)
Flown(s, e) ==
  IF ~e.down THEN [s EXCEPT !.up = {e.t}]
  ELSE IF e.repeat THEN s
  ELSE [up |-> {}, flights |-> s.flights \o SetToSeq({e.t - u : u \in s.up})]
Flights(events) == FoldLeft(Flown, [up |-> {}, flights |-> <<>>], events).flights

(* The lengths of the runs that a gap longer than limit ends: of typing    *)
(* bursts, those above one; of scrolling, all.                             *)
Grown(s, gap, limit) ==
  IF gap <= limit THEN [s EXCEPT !.current = @ + 1]
  ELSE [runs |-> Append(s.runs, s.current), current |-> 1]
RunLengths(events, limit) ==
  IF events = <<>> THEN <<>>
  ELSE LET s == FoldLeft(LAMBDA r, gap : Grown(r, gap, limit), [runs |-> <<>>, current |-> 1],
                         Latencies(events))
       IN Append(s.runs, s.current)
Bursts(downs) == SelectSeq(RunLengths(downs, BurstGap), LAMBDA n : n > 1)

Pauses(downs) == {i \in DOMAIN Latencies(downs) : Latencies(downs)[i] > PauseThreshold}

Corrections(downs) == {i \in DOMAIN downs : downs[i].of \in Correction}
\* Of at least two, each named by its first.
CorrectionRuns(downs) ==
  {i \in Corrections(downs) : i - 1 \notin Corrections(downs) /\ i + 1 \in Corrections(downs)}

(* Keys pressed before the one pressed before them was released.           *)
Rollovers(pairs) ==
  LET byDown == SetToSortSeq(DOMAIN pairs, LAMBDA i, j :
                               \/ pairs[i].down < pairs[j].down
                               \/ pairs[i].down = pairs[j].down /\ i < j)
  IN {i \in 1 .. Len(pairs) - 1 : pairs[byDown[i + 1]].down < pairs[byDown[i]].up}

(* The buckets of the transitions between letters (ADR-004).               *)
Transition(a, b) ==
  IF a.of \notin DOMAIN Row \/ b.of \notin DOMAIN Row THEN "none"
  ELSE IF Hand[a.of] # Hand[b.of] THEN "xhand"
  ELSE IF Row[a.of] = Row[b.of] THEN "samerow" ELSE "samehand"
Transitions(downs, bucket) ==
  {i \in 1 .. Len(downs) - 1 : Transition(downs[i], downs[i + 1]) = bucket}

Dwell(pairs, classes) ==
  MapThenSumSet(LAMBDA i : pairs[i].up - pairs[i].down,
                {i \in DOMAIN pairs : pairs[i].of \in classes})

(* compute_keyboard_features: what is counted, and the ratios as pairs of  *)
(* a part and its whole.                                                   *)
KeyboardFeatures(events) ==
  LET keys == Ordered(events)
      downs == Downs(keys)
      pairs == MatchPairs(keys)
  IN [typed       |-> Len(downs),
      pairs       |-> pairs,
      flights     |-> Flights(keys),
      bursts      |-> Bursts(downs),
      runs        |-> Cardinality(CorrectionRuns(downs)),
      pause       |-> <<Cardinality(Pauses(downs)), Len(Latencies(downs))>>,
      backspace   |-> <<Cardinality(Corrections(downs)), Len(downs)>>,
      rollover    |-> <<Cardinality(Rollovers(pairs)), Len(pairs) - 1>>,
      homerow     |-> <<Dwell(pairs, HomeRow), Dwell(pairs, Classes)>>,
      transitions |-> [b \in {"xhand", "samehand", "samerow"} |-> Transitions(downs, b)]]

DoubleClicks(downs) ==
  {i \in 1 .. Len(downs) - 1 :
     downs[i].of = downs[i + 1].of /\ Latencies(downs)[i] <= DoubleClickGap}
-----------------------------------------------------------------------------
(* Moves.                                                                  *)

(* _segment_moves.                                                         *)
Joined(segments, move) ==
  IF segments = <<>> \/ move.t - Last(Last(segments)).t > SegmentGap
    THEN Append(segments, <<move>>)
  ELSE Append(Front(segments), Append(Last(segments), move))
SegmentMoves(moves) == FoldLeft(Joined, <<>>, moves)

MicroPauses(segment) ==
  {i \in DOMAIN Latencies(segment) :
     MicroPause <= Latencies(segment)[i] /\ Latencies(segment)[i] < SegmentGap
       /\ Latencies(segment)[i] > 0}

(* The steps that have a direction, and those that turn by more than a     *)
(* right angle from the one before.                                        *)
Steps(segment) ==
  SelectSeq([i \in 1 .. Len(segment) - 1 |->
               [dt |-> segment[i + 1].t - segment[i].t,
                dx |-> segment[i + 1].x - segment[i].x, dy |-> segment[i + 1].y - segment[i].y]],
            LAMBDA s : s.dt > 0 /\ (s.dx # 0 \/ s.dy # 0))
DirectionChanges(segment) ==
  LET s == Steps(segment) IN
  {i \in 1 .. Len(s) - 1 : s[i].dx * s[i + 1].dx + s[i].dy * s[i + 1].dy < 0}

(* compute_mouse_features: of the moves, the buttons and the scrolls.      *)
MouseFeatures(moves, buttons, scrolls) ==
  LET cut == SegmentMoves(Ordered(moves))
      pressed == Ordered(buttons)
  IN [segments |-> cut,
      pauses   |-> [i \in DOMAIN cut |-> Cardinality(MicroPauses(cut[i]))],
      turns    |-> [i \in DOMAIN cut |-> Cardinality(DirectionChanges(cut[i]))],
      clicks   |-> Len(Downs(pressed)),
      held     |-> MatchPairs(pressed),
      doubles  |-> Cardinality(DoubleClicks(Downs(pressed))),
      scrolls  |-> RunLengths(Ordered(scrolls), ScrollGap)]
-----------------------------------------------------------------------------
(* _quality_label, and which blocks a window then has.                     *)
QualityLabel(keys, samples) ==
  LET typed == keys >= MinKeystrokes
      moved == samples >= MinMouseSamples
  IN CASE typed /\ moved   -> "FULL"
       [] typed /\ ~moved  -> "KBD_ONLY"
       [] ~typed /\ moved  -> "MOUSE_ONLY"
       [] ~typed /\ ~moved -> "INSUFFICIENT_DATA"
=============================================================================
