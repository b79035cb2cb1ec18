------------------------------- MODULE Scoring -------------------------------
(***************************************************************************)
(* From a window to the value the risk engine thresholds: what the models  *)
(* of a profile return for it (ml/training/common.py, models/service.py),  *)
(* their fusion (risk/engine.py) and the adjustment by context             *)
(* (risk/context.py); and how an activation measures the same windows      *)
(* (enrollment/activate.py, ml/evaluation).  Percentiles and risks are in  *)
(* hundredths; arithmetic is exact, or rounded down, where the code's      *)
(* floats round.                                                           *)
(***************************************************************************)
EXTENDS Integers, Sequences, FiniteSets, FiniteSetsExt

CONSTANTS
  KeyboardWeight, MouseWeight,  \* risk.keyboard_weight, risk.mouse_weight
  Medium,                       \* risk.medium_threshold
  Floor,                        \* context.confidence_floor
  MinObservations,              \* context.min_empirical_observations
  VarianceScale,                \* context.variance_scale
  MinScale,                     \* context.normalization_min_scale
  Apps,                         \* the applications a window may be spent in
  Bootstrap                     \* of each, the bootstrap weight of its category

ASSUME ScoringAssumption ==
  /\ KeyboardWeight \in Nat \ {0} /\ MouseWeight \in Nat \ {0}
  /\ Medium \in 1 .. 100 /\ Floor \in 1 .. 100 /\ MinScale \in 1 .. 100
  /\ MinObservations \in Nat \ {0} /\ VarianceScale \in Nat \ {0}
  /\ Bootstrap \in [Apps -> Floor .. 100]

Modalities == {"keyboard", "mouse"}

(* What a model makes of a window with features for it: there is no model, *)
(* it is of another schema, it raises, or it ranks the window.             *)
Percentiles == 0 .. 100
NoModel == -1
Mismatch == -2
Raises == -3
NoScore == -4
Answers == Percentiles \cup {NoModel, Mismatch, Raises}

(* PercentileCalibrator.transform: of the scores of the training windows,  *)
(* those the score reaches.                                                *)
Percentile(reference, raw) ==
  (100 * Cardinality({i \in DOMAIN reference : reference[i] <= raw})) \div Len(reference)

Clamp(low, x, high) == IF x < low THEN low ELSE IF x > high THEN high ELSE x
-----------------------------------------------------------------------------
(* The required modalities are those a window of a quality has features of.*)
Has(quality, m) ==
  \/ quality = "FULL"
  \/ quality = "KBD_ONLY" /\ m = "keyboard"
  \/ quality = "MOUSE_ONLY" /\ m = "mouse"

(* score_window looks at the schema first, then for the features.          *)
ScoreWindow(quality, m, answer) ==
  IF answer = Mismatch \/ Has(quality, m) THEN answer ELSE NoScore

(* _score_modality: no model is no score; everything else is caught.       *)
ScoreModality(quality, m, answer) ==
  LET result == IF answer = NoModel THEN NoScore ELSE ScoreWindow(quality, m, answer) IN
  IF result \in Percentiles THEN [status |-> "SCORED", risk |-> 100 - result]
  ELSE [status |-> IF result = NoScore THEN "UNAVAILABLE"
                   ELSE IF result = Mismatch THEN "SCHEMA_MISMATCH" ELSE "FAILED",
        risk |-> 0]

Score(quality, answers) == [m \in Modalities |-> ScoreModality(quality, m, answers[m])]

RequiredFailure(quality, score) ==
  \E m \in Modalities : Has(quality, m) /\ score[m].status # "SCORED"

(* The weighted mean of what is there, as a sum and the weight it is of.   *)
Part(there, value, weight) == IF there THEN value * weight ELSE 0
Mean(there, value) ==
  [sum |-> Part(there["keyboard"], value["keyboard"], KeyboardWeight)
             + Part(there["mouse"], value["mouse"], MouseWeight),
   weight |-> Part(there["keyboard"], 1, KeyboardWeight)
                + Part(there["mouse"], 1, MouseWeight)]

(* RiskEngine._fusion.                                                     *)
Fusion(score) ==
  Mean([m \in Modalities |-> score[m].status = "SCORED"], [m \in Modalities |-> score[m].risk])

(* The guards of process before it adjusts, smooths and thresholds.        *)
Judged(quality, score) ==
  /\ quality # "INSUFFICIENT_DATA"
  /\ ~RequiredFailure(quality, score)
  /\ Fusion(score).weight > 0

Breaches(risk) == risk.sum >= Medium * risk.weight
-----------------------------------------------------------------------------
(* _fused_window_percentiles: a mismatch ends the activation, a model that *)
(* raises drops the window, and so does having no score at all.            *)
Ranks(quality, answers) ==
  [m \in Modalities |-> IF answers[m] = NoModel THEN NoScore
                        ELSE ScoreWindow(quality, m, answers[m])]
Refused(ranks) == \E m \in Modalities : ranks[m] = Mismatch
Counts(ranks) ==
  /\ \A m \in Modalities : ranks[m] # Raises
  /\ \E m \in Modalities : ranks[m] # NoScore

(* fuse_percentile_scores: one score alone has no weight.                  *)
FusePercentiles(ranks) ==
  IF \A m \in Modalities : ranks[m] # NoScore
    THEN Mean([m \in Modalities |-> TRUE], ranks)
    ELSE [sum |-> ranks[CHOOSE m \in Modalities : ranks[m] # NoScore], weight |-> 1]

(* _frr_at_deployed_operating_point.                                       *)
Rejected(percentile) == percentile.sum <= (100 - Medium) * percentile.weight

(* compute_far_frr: a window is accepted from the threshold up.            *)
FalseRejections(genuine, threshold) == Cardinality({i \in DOMAIN genuine : genuine[i] < threshold})
FalseAcceptances(impostor, threshold) ==
  Cardinality({i \in DOMAIN impostor : impostor[i] >= threshold})

(* |FAR - FRR|, over the product of the two sizes.                         *)
Imbalance(genuine, impostor, t) ==
  LET d == FalseAcceptances(impostor, t) * Cardinality(DOMAIN genuine)
             - FalseRejections(genuine, t) * Cardinality(DOMAIN impostor)
  IN IF d < 0 THEN -d ELSE d

(* compute_eer, on a grid: the first of the thresholds that balance best.  *)
EqualErrorThreshold(genuine, impostor, grid) ==
  LET best == {t \in grid : \A u \in grid :
                 Imbalance(genuine, impostor, t) <= Imbalance(genuine, impostor, u)}
  IN CHOOSE t \in best : \A u \in best : t <= u
-----------------------------------------------------------------------------
(* EmpiricalStatistics: running moments, here as weighted sums, of which   *)
(* West's recurrence keeps the mean and the centred second one.            *)
Moments == [weight : Nat, sum : Nat, squares : Nat]
NoMoments == [weight |-> 0, sum |-> 0, squares |-> 0]
Update(s, risk, w) ==
  [weight |-> s.weight + w, sum |-> s.sum + w * risk, squares |-> s.squares + w * risk * risk]

MeanOf(s) == s.sum \div s.weight
\* In hundredths of a hundredth, over the square of the weight.
Spread(s) == s.squares * s.weight - s.sum * s.sum
Variance(s) == Spread(s) \div (s.weight * s.weight)
Root(v) == CHOOSE r \in 0 .. 100 : r * r <= v /\ (r + 1) * (r + 1) > v

(* The layer: the moments of each application and of all windows.  Shares  *)
(* of focus are whole parts of a window, whose number is "parts".          *)
NothingLearned == [apps |-> [a \in Apps |-> NoMoments], all |-> NoMoments]

(* observe_genuine, of a window the engine left at LOW.                    *)
ObserveGenuine(layer, shares, parts, risk, suspended) ==
  IF suspended THEN layer
  ELSE [apps |-> [a \in Apps |-> Update(layer.apps[a], risk, shares[a])],
        all |-> Update(layer.all, risk, parts)]

Enough(s, parts) == s.weight >= MinObservations * parts

(* _application_confidence.                                                *)
ApplicationConfidence(layer, a, parts) ==
  LET s == layer.apps[a] IN
  IF Enough(s, parts)
    THEN Clamp(Floor, 100 - (VarianceScale * Variance(s)) \div 100, 100)
    ELSE Clamp(Floor, Bootstrap[a], 100)

(* assess and _build_assessment.  What is not attributed to an application *)
(* leaves the weight of the dominant category.                             *)
Assess(layer, shares, parts, dominant) ==
  LET used == {a \in Apps : shares[a] > 0}
      total == MapThenSumSet(LAMBDA a : shares[a], used)
      known == {a \in used : Enough(layer.apps[a], parts)}
      Weighted(value(_), over) == MapThenSumSet(LAMBDA a : shares[a] * value(a), over) \div total
      covered == MapThenSumSet(LAMBDA a : shares[a], known)
  IN IF used = {}
       THEN [confidence |-> Clamp(Floor, dominant, 100), normal |-> FALSE]
     ELSE IF ~(2 * covered >= total /\ Enough(layer.all, parts))
       THEN [confidence |-> Clamp(Floor, Weighted(LAMBDA a : ApplicationConfidence(layer, a, parts),
                                                  used), 100),
             normal |-> FALSE]
     ELSE [confidence |-> Clamp(Floor, Weighted(LAMBDA a : ApplicationConfidence(layer, a, parts),
                                                used), 100),
           normal |-> TRUE,
           location |-> Weighted(LAMBDA a : MeanOf(layer.apps[a]), known),
           scale |-> Clamp(MinScale, Root(Weighted(LAMBDA a : Variance(layer.apps[a]), known)), 100),
           baseLocation |-> MeanOf(layer.all),
           baseScale |-> Clamp(MinScale, Root(Variance(layer.all)), 100)]

(* ContextAssessment.adjust.                                               *)
Adjust(assessment, fused) ==
  IF ~assessment.normal THEN (fused * assessment.confidence) \div 100
  ELSE Clamp(0, assessment.baseLocation
                  + ((fused - assessment.location) * assessment.baseScale) \div assessment.scale,
             100)
=============================================================================
