----------------------------- MODULE MCRiskEngine -----------------------------
(***************************************************************************)
(* RiskEngine on short histories and a short cooldown, and what comes      *)
(* before and beside it, Scoring and Evaluation, on small inputs.           *)
(***************************************************************************)
EXTENDS RiskEngine, Evaluation

MCBootstrap == [a \in Apps |-> IF a = "editor" THEN 90 ELSE 100]

Qualities == {"FULL", "KBD_ONLY", "MOUSE_ONLY", "INSUFFICIENT_DATA"}
SomeAnswers == {0, 10, 19, 20, 21, 35, 100} \cup {NoModel, Mismatch, Raises}
WindowAnswers == Qualities \X [Modalities -> SomeAnswers]

(* With both models loaded, an activation counts the windows the engine    *)
(* will judge, and no other: "in the unit RiskEngine breaches on"          *)
(* (enrollment/activate.py).                                               *)
ASSUME CountedAsJudged ==
  \A <<quality, answers>> \in WindowAnswers :
    (\A m \in Modalities : answers[m] \notin {NoModel, Mismatch})
      => (Counts(Ranks(quality, answers)) <=> Judged(quality, Score(quality, answers)))

(* A rejection it counts is a score from medium up, the boundary included: *)
(* "the inclusive comparison flips sides" (models/service.py).             *)
ASSUME MeasuredAsBreached ==
  \A <<quality, answers>> \in WindowAnswers :
    LET ranks == Ranks(quality, answers)
        score == Score(quality, answers)
    IN ~Refused(ranks) /\ Counts(ranks) /\ Judged(quality, score)
         => (Rejected(FusePercentiles(ranks)) <=> Breaches(Fusion(score)))

(* Calibration keeps the order of raw scores, and gives the best window of *)
(* the training set the whole scale.                                       *)
ASSUME CalibrationKeepsOrder ==
  \A reference \in [1 .. 3 -> 1 .. 3], raw \in 0 .. 4 :
    /\ Percentile(reference, raw) \in Percentiles
    /\ Percentile(reference, raw) <= Percentile(reference, raw + 1)
    /\ (\A i \in 1 .. 3 : reference[i] <= raw) => Percentile(reference, raw) = 100

(* A higher threshold accepts no more and rejects no fewer, so that the    *)
(* rates cross, and at an equal-error threshold no other does better.      *)
SomeScores == UNION {[1 .. n -> {0, 50, 100}] : n \in 1 .. 3}
ASSUME RatesCross ==
  \A genuine, impostor \in SomeScores :
    /\ \A t \in {0, 50, 100} :
         /\ FalseAcceptances(impostor, t + 1) <= FalseAcceptances(impostor, t)
         /\ FalseRejections(genuine, t + 1) >= FalseRejections(genuine, t)
    /\ (\A i \in DOMAIN genuine, j \in DOMAIN impostor : impostor[j] < genuine[i])
         => LET t == EqualErrorThreshold(genuine, impostor, 0 .. 101)
            IN FalseAcceptances(impostor, t) = 0 /\ FalseRejections(genuine, t) = 0

(* What the layer has learned after up to three windows at LOW.            *)
Parts == 2
Shares == {s \in [Apps -> 0 .. Parts] : s["editor"] + s["browser"] <= Parts}
RECURSIVE LayersAfter(_)
LayersAfter(n) ==
  IF n = 0 THEN {NothingLearned}
  ELSE LayersAfter(n - 1) \cup
       {ObserveGenuine(layer, shares, Parts, risk, FALSE) :
          layer \in LayersAfter(n - 1), shares \in Shares, risk \in {0, 30, 79}}
Layers == LayersAfter(3)

(* No application is given more evidence than there was, and no context    *)
(* ever takes a score out of the range of C3.                              *)
ASSUME EvidenceIsShared ==
  \A layer \in Layers :
    layer.apps["editor"].weight + layer.apps["browser"].weight <= layer.all.weight
ASSUME ContextIsBounded ==
  \A layer \in Layers, shares \in Shares, fused \in {0, 30, 79, 100} :
    LET assessment == Assess(layer, shares, Parts, 100) IN
    /\ assessment.confidence \in Floor .. 100
    /\ Adjust(assessment, fused) \in 0 .. 100
    /\ \A more \in {0, 30, 79, 100} :
         fused <= more => Adjust(assessment, fused) <= Adjust(assessment, more)

(* A drill is judged by what was learned before it and adds nothing.       *)
ASSUME DrillTeachesNothing ==
  \A layer \in LayersAfter(1), shares \in Shares :
    ObserveGenuine(layer, shares, Parts, 79, TRUE) = layer
-----------------------------------------------------------------------------
(* What the replay computes over a series is what the engine computes,     *)
(* "675/675" (tools/evaluation/replay_state_machine.py), and a window that *)
(* the tool skips instead of passing it on changes no other.               *)
Band(score) == IF score >= High THEN 2 ELSE IF score >= Medium THEN 1 ELSE 0

EngineStep(s, reading) ==
  IF reading = NoScore THEN [s EXCEPT !.levels = Append(@, Unavailable)]
  ELSE LET smoothed == Smooth(s.smoothed, reading)
           h == Appended(s.h, Band(smoothed))
           lvl == WithHysteresis(s.lvl, h, Candidate(h))
       IN [h |-> h, smoothed |-> smoothed, lvl |-> lvl, levels |-> Append(s.levels, lvl)]
EngineLevels(readings) ==
  FoldLeft(EngineStep, [h |-> <<>>, smoothed |-> NoScore, lvl |-> 0, levels |-> <<>>],
           readings).levels

Readings == [1 .. 9 -> {20, 100, NoScore}]
ASSUME ReplayFollows ==
  \A readings \in Readings :
    LET replayed == ReplayRiskLevels(readings) IN
    /\ replayed = EngineLevels(readings)
    /\ SelectSeq(replayed, LAMBDA l : l # Unavailable)
         = ReplayRiskLevels(SelectSeq(readings, LAMBDA r : r # NoScore))

(* Where both models answer, its readings are the windows the engine       *)
(* judges and their fused scores.                                          *)
ASSUME ReadAsJudged ==
  KeyboardWeight = MouseWeight =>
    \A <<quality, answers>> \in WindowAnswers :
      LET reading == ReplayReading(quality, answers)
          score == Score(quality, answers)
      IN (\A m \in Modalities : answers[m] \in Percentiles) =>
           /\ reading # NoScore <=> Judged(quality, score)
           /\ Judged(quality, score) =>
                2 * Fusion(score).sum = (200 - reading) * Fusion(score).weight
-----------------------------------------------------------------------------
Users == {"u", "v"}
SomeModels == Modalities \cup {"combined"}
Answering(x, y, z) ==
  [o \in Users |-> [m \in SomeModels |-> CASE m = "keyboard" -> x [] m = "mouse" -> y [] OTHER -> z]]

(* Corpora of two users over three days: the first's windows vary.         *)
Made(user, day, quality, real, answers) ==
  [user |-> user, day |-> day, quality |-> quality, real |-> real, segment |-> day,
   answers |-> answers]
WindowSets ==
  LET some == {Made("u", d, q, r, Answering(30, 60, 45)) : d \in 1 .. 3, q \in {"FULL", "KBD_ONLY"},
                                                          r \in BOOLEAN}
  IN {ws \in SUBSET some : Cardinality(ws) <= 4}

(* Of a split, nothing is lost and no day is on both sides; left out in    *)
(* turn, every day is tested once, and more days of enrollment take        *)
(* nothing back and nothing that is held out ("constant across every       *)
(* length").                                                               *)
ASSUME SplitsAreDisjoint ==
  \A ws \in WindowSets :
    /\ \A days \in SUBSET (1 .. 3) : \A s \in DayDisjointSplit(ws, days) :
         /\ s.train \cup s.test = ws /\ s.train # {} /\ s.test # {}
         /\ DistinctDays(s.train) \cap DistinctDays(s.test) = {}
    /\ LET folds == LeaveOneDayOut(ws) IN
         folds # {} => \A w \in ws : Cardinality({s \in folds : w \in s.test}) = 1
    /\ \A n \in 1 .. 3, d \in 1 .. 3 : \A s \in EnrollmentLengthSubset(ws, n, {d}) :
         /\ Cardinality(DistinctDays(s)) = n /\ d \notin DistinctDays(s)
         /\ \A less \in EnrollmentLengthSubset(ws, n - 1, {d}) : less \subseteq s

Promotions == {{}} \cup {{c} : c \in SUBSET {[segment |-> d, user |-> o, complete |-> b] :
                                              d \in {1}, o \in Users, b \in BOOLEAN}}
Admissions == {{}} \cup {{[participant |-> o, active |-> b, eligible |-> e, minWindows |-> 2, minDays |-> 1]} :
                         o \in Users, b \in BOOLEAN, e \in {{}, {1, 2}, {1, 2, 3}}}

(* Windows of a participant are in no model without evidence for each, and *)
(* of one kind; and the model of one vector, which trains on full windows, *)
(* never trains where one of the two models of a profile cannot.           *)
ASSUME TrainedAsAdmitted ==
  \A ws \in WindowSets, promotion \in Promotions, enrollment \in Admissions :
    LET outcome(m) == TrainOneClass("u", m, ws, promotion, enrollment) IN
    /\ TrainUserProfile("u", ws, promotion, enrollment) # {} =>
         /\ promotion = {} \/ enrollment = {}
         /\ \A w \in ws : w.real =>
              \/ \E c \in UNION promotion : c.segment = w.segment /\ c.complete
              \/ \E a \in enrollment : ~a.active /\ w.segment \in a.eligible
    /\ outcome("combined") = "TRAINED" =>
         \A m \in Modalities : outcome(m) = "TRAINED"
-----------------------------------------------------------------------------
(* A comparison of the two users, of whom each model may raise.            *)
Held(q, x, y) == Made("u", 2, q, FALSE, Answering(x, y, 45))
Corpora ==
  {[o \in Users |->
      IF o = "u" THEN {Made("u", 1, "FULL", FALSE, Answering(30, 60, 45)), Made("u", 1, first, FALSE, Answering(1, 2, 3)),
                       Held(q, x, 60), Held("MOUSE_ONLY", 5, y)}
      ELSE {Made("v", 1, "FULL", FALSE, Answering(10, 10, 10)), Made("v", 1, other, FALSE, Answering(2, 2, 2)),
            Made("v", 3, p, FALSE, Answering(x, 70, y))}] :
     first, other \in {"KBD_ONLY", "MOUSE_ONLY", "FULL"}, q, p \in {"FULL", "KBD_ONLY", "INSUFFICIENT_DATA"},
     x, y \in {20, 80, Raises}}

(* A user that is excluded has no rate in any arm and is nobody's          *)
(* impostor, although its keyboard model was kept; nobody is tested on a   *)
(* day of training; the arms that fuse score the same windows, of which    *)
(* one of them imputes what the others lack; and the matrix of acceptances *)
(* adds up to those of an owner.                                           *)
ASSUME ComparedAlike ==
  \A corpus \in Corpora :
    LET c == Comparison(corpus, [o \in Users |-> IF o = "u" THEN {2} ELSE {3}], {})
        cross(arm) == CrossEvaluation(arm, c.owners[arm], c.tests)
        handled(arm, q) == MissingModalityHandling(arm, c.owners[arm], c.tests, q)
    IN /\ DOMAIN c.tests = Users \ c.excluded
       /\ \A u \in DOMAIN c.trained : DistinctDays(c.trained[u]) \cap DistinctDays(c.tests[u]) = {}
       /\ \A arm \in Arms :
            /\ Measured(cross(arm)) \cap c.excluded = {}
            /\ \A u \in DOMAIN cross(arm) :
                 LET r == cross(arm)[u]  all == AllImpostor(arm, u, r) IN
                 /\ DOMAIN r.impostor \cap (c.excluded \cup {u}) = {}
                 /\ \A t \in {20, 45, 80} :
                      FalseAcceptances(all, t)
                        = MapThenSumSet(LAMBDA o : PairwiseFar(cross(arm), t)[u][o][1], DOMAIN r.impostor)
       /\ ~c.ended => \A u \in c.owners["single"] : \A w \in c.tests[u] :
            /\ w \in Scored("dual", u, c.tests[u]) => w \in Scored("single", u, c.tests[u])
            /\ MissingModality(w.quality) # {} =>
                 /\ w \in Scored("dual", u, c.tests[u])
                 /\ \E m \in Modalities : ArmScore(m, u, w) = NoScore
       /\ ~c.ended => \A q \in {"KBD_ONLY", "MOUSE_ONLY"} :
            /\ handled("dual", q).scored = handled("dual", q).windows
            /\ handled("single", q).windows \subseteq handled("dual", q).windows

(* There is no activation without a genuine measurement, an acceptance     *)
(* rate exactly when there is a cohort, and a cohort that scores below     *)
(* every genuine window is told apart without error (ADR-014).             *)
ASSUME FarNeedsCohort ==
  \A corpus \in Corpora, alone \in BOOLEAN :
    LET tests == [o \in (IF alone THEN {"u"} ELSE Users) |-> {w \in corpus[o] : w.day > 1}]
        metrics == ValidationMetrics("u", tests)
        genuine == Scores("dual", "u", tests["u"])
        cohort == IF alone THEN <<>> ELSE Scores("dual", "u", tests["v"])
    IN /\ metrics.known = {} <=> DOMAIN genuine = {}
       /\ "far" \in metrics.known <=> (DOMAIN genuine # {} /\ DOMAIN cohort # {})
       /\ metrics.frr <= Cardinality(DOMAIN genuine) /\ metrics.far <= Cardinality(DOMAIN cohort)
       /\ ("far" \in metrics.known /\ \A g \in DOMAIN genuine, i \in DOMAIN cohort : cohort[i] < genuine[g])
            => metrics.frr = 0 /\ metrics.far = 0
=============================================================================
