------------------------------ MODULE Evaluation ------------------------------
(***************************************************************************)
(* How models are trained and compared before one is chosen (ml/training,  *)
(* ml/evaluation), what a first activation measures (tools/enrollment),    *)
(* and the offline replay of the engine (tools/evaluation).  A window is a *)
(* record [user, day, quality, real, segment, answers]: real if it is of a *)
(* participant, not synthetic or public, and answers[u][m] what the model  *)
(* m of user u makes of it.  The numbers of a fitted model are left out.   *)
(***************************************************************************)
EXTENDS Scoring, Functions, SequencesExt

CONSTANTS
  High,                \* risk.high_threshold
  Alpha,               \* risk.ewma_alpha, in hundredths
  BreachK, BreachN,
  MinBaselineWindows   \* per_user_normalization.min_baseline_windows

ASSUME EvaluationAssumption ==
  /\ High \in Medium .. 100 /\ Alpha \in 1 .. 100
  /\ BreachK \in 1 .. BreachN /\ BreachN \in Nat /\ MinBaselineWindows \in Nat \ {0}
-----------------------------------------------------------------------------
(* Splitting by calendar day.  A split that is refused is {}.              *)

DistinctDays(ws) == {w.day : w \in ws}

DayDisjointSplit(ws, testDays) ==
  IF testDays = {} \/ ~(testDays \subseteq DistinctDays(ws)) \/ testDays = DistinctDays(ws) THEN {}
  ELSE {[train |-> {w \in ws : w.day \notin testDays}, test |-> {w \in ws : w.day \in testDays}]}

LeaveOneDayOut(ws) ==
  IF Cardinality(DistinctDays(ws)) < 2 THEN {}
  ELSE UNION {DayDisjointSplit(ws, {d}) : d \in DistinctDays(ws)}

(* The earliest n days that are not held out, or {} if there are fewer.    *)
EnrollmentLengthSubset(ws, n, holdout) ==
  LET remaining == DistinctDays(ws) \ holdout IN
  IF n > Cardinality(remaining) THEN {}
  ELSE {{w \in ws : w.day \in remaining /\ Cardinality({d \in remaining : d < w.day}) < n}}
-----------------------------------------------------------------------------
(* Training.                                                               *)

(* require_promotion_gate: of every segment of a participant, evidence     *)
(* that is complete.                                                       *)
RequirePromotionGate(user, ws, candidates) ==
  \A w \in ws :
    /\ w.user = user
    /\ w.real => \E c \in candidates : c.segment = w.segment /\ c.user = user /\ c.complete

(* require_enrollment_admission; Corpus models what makes a window of the  *)
(* manifest eligible.                                                      *)
EnrollmentGate(user, ws, a) ==
  /\ a.participant = user /\ ~a.active
  /\ \A w \in ws : w.user = user /\ w.segment \in a.eligible
  /\ Cardinality(ws) >= a.minWindows /\ Cardinality(DistinctDays(ws)) >= a.minDays

(* _admit_training_data.  "There is deliberately no fallback": each kind   *)
(* of evidence is a set of at most one.                                    *)
Admits(user, ws, promotion, enrollment) ==
  \/ enrollment = {} /\ RequirePromotionGate(user, ws, UNION promotion)
  \/ /\ promotion = {}
     /\ \E a \in enrollment : /\ ws = {} \/ \E w \in ws : w.real
                              /\ EnrollmentGate(user, ws, a)

(* build_feature_matrix: nothing is imputed.                               *)
Rows(ws, model) ==
  {w \in ws : IF model = "combined" THEN w.quality = "FULL" ELSE Has(w.quality, model)}

(* train_one_class_model: of one user, admitted, and enough.               *)
TrainOneClass(user, model, ws, promotion, enrollment) ==
  IF Cardinality({w.user : w \in ws}) > 1 \/ ~Admits(user, ws, promotion, enrollment) THEN "REFUSED"
  ELSE IF Cardinality(Rows(ws, model)) < MinBaselineWindows THEN "INSUFFICIENT"
  ELSE "TRAINED"

(* train_user_profile: a model that lacks data is skipped, nothing else.   *)
TrainUserProfile(user, ws, promotion, enrollment) ==
  {m \in Modalities : TrainOneClass(user, m, ws, promotion, enrollment) = "TRAINED"}
-----------------------------------------------------------------------------
(* Scores by one arm of a comparison: of keyboard, of mouse, of both fused,*)
(* or of the model of a single vector, which imputes what a window lacks.  *)
Arms == {"keyboard", "mouse", "dual", "single"}

ScoreSingleFused(quality, answer) ==
  IF answer = Mismatch THEN answer
  ELSE IF \A m \in Modalities : ~Has(quality, m) THEN NoScore ELSE answer
MissingModality(quality) ==
  IF \E m \in Modalities : Has(quality, m) THEN {m \in Modalities : ~Has(quality, m)} ELSE {}

DualRanks(w, owner) == [m \in Modalities |-> ScoreWindow(w.quality, m, w.answers[owner][m])]
\* In hundredths of the two weights together.
Whole(p) == p.sum * ((KeyboardWeight + MouseWeight) \div p.weight)

ArmScore(arm, owner, w) ==
  CASE arm = "dual" ->
         IF Refused(DualRanks(w, owner)) THEN Mismatch
         ELSE IF Counts(DualRanks(w, owner)) THEN Whole(FusePercentiles(DualRanks(w, owner)))
         ELSE NoScore
    [] arm = "single" -> ScoreSingleFused(w.quality, w.answers[owner]["combined"])
    [] arm \in Modalities -> ScoreWindow(w.quality, arm, w.answers[owner][arm])

(* A mismatch ends a comparison, and so does a single model that raises;   *)
(* elsewhere the window of which a model raises is left out.               *)
Scored(arm, owner, ws) == {w \in ws : ArmScore(arm, owner, w) \notin {NoScore, Mismatch, Raises}}
Aborted(arm, owner, ws) ==
  \E w \in ws : ArmScore(arm, owner, w) = Mismatch
                  \/ (arm = "single" /\ ArmScore(arm, owner, w) = Raises)
Scores(arm, owner, ws) == [w \in Scored(arm, owner, ws) |-> ArmScore(arm, owner, w)]

(* zero_effort_cross_evaluation and its two likenesses: tests are the held *)
(* out windows of each user, and a user without is no impostor.            *)
CrossEvaluation(arm, owners, tests) ==
  [u \in owners |->
     [genuine  |-> Scores(arm, u, IF u \in DOMAIN tests THEN tests[u] ELSE {}),
      impostor |-> [o \in {v \in DOMAIN tests \ {u} : Scored(arm, u, tests[v]) # {}} |->
                      Scores(arm, u, tests[o])]]]
AllImpostor(arm, u, r) == Scores(arm, u, UNION {DOMAIN r.impostor[o] : o \in DOMAIN r.impostor})

(* _eer_and_counts_from_cross: only of whom there is evidence of both.     *)
Measured(cross) == {u \in DOMAIN cross : DOMAIN cross[u].genuine # {} /\ DOMAIN cross[u].impostor # {}}

(* pairwise_far_matrix, each rate as a part and its whole.                 *)
PairwiseFar(cross, threshold) ==
  [u \in DOMAIN cross |-> [o \in DOMAIN cross[u].impostor |->
     <<FalseAcceptances(cross[u].impostor[o], threshold),
       Cardinality(DOMAIN cross[u].impostor[o])>>]]

(* _missing_modality_handling_dual and _single: of a quality, the windows  *)
(* of each user and those scored.  Here no arm leaves out what raises.     *)
MissingModalityHandling(arm, owners, tests, quality) ==
  LET of(u) == {w \in tests[u] : w.quality = quality}
      users == IF arm = "dual" THEN DOMAIN tests ELSE DOMAIN tests \cap owners
  IN [windows |-> UNION {of(u) : u \in users},
      scored  |-> UNION {Scored(arm, u, of(u)) : u \in users},
      ended   |-> \E u \in users : \E w \in of(u) :
                    IF arm = "dual" THEN \E m \in Modalities : DualRanks(w, u)[m] \in {Mismatch, Raises}
                    ELSE ArmScore(arm, u, w) \in {Mismatch, Raises}]

(* run_fusion_vs_single_model_comparison: "on the same day-disjoint split, *)
(* per user".  A user whose mouse model lacks data is excluded after the   *)
(* keyboard model was kept.                                                *)
Comparison(corpus, testDays, enrollment) ==
  LET users == DOMAIN corpus
      split(u) == DayDisjointSplit(corpus[u], testDays[u])
      train(u) == UNION {s.train : s \in split(u)}
      outcome(u, model) == TrainOneClass(u, model, train(u), {}, enrollment)
      tried == {u \in users : split(u) # {}}
      typed == {u \in tried : outcome(u, "keyboard") = "TRAINED"}
      both == {u \in typed : outcome(u, "mouse") = "TRAINED"}
      owners == [arm \in Arms |->
                   CASE arm = "keyboard" -> typed
                     [] arm \in {"mouse", "dual"} -> both
                     [] arm = "single" -> {u \in both : outcome(u, "combined") = "TRAINED"}]
      tests == [u \in both |-> UNION {s.test : s \in split(u)}]
  IN [ended    |-> \/ \E u \in tried : outcome(u, "keyboard") = "REFUSED"
                   \/ \E arm \in Arms : \E u \in owners[arm], v \in both : Aborted(arm, u, tests[v])
                   \/ \E arm \in {"dual", "single"}, q \in {"KBD_ONLY", "MOUSE_ONLY"} :
                        MissingModalityHandling(arm, owners[arm], tests, q).ended,
      excluded |-> users \ both,
      owners   |-> owners,
      trained  |-> [u \in both |-> train(u)],
      tests    |-> tests]

(* compute_roc_det_curve: from the lowest score to the highest, and a      *)
(* little above if there is but one.                                       *)
Grid(scores) ==
  LET low == Min(scores)  high == Max(scores) IN low .. (IF low = high THEN high + 1 ELSE high)

(* _measure_validation_metrics, of the fused score of windows: the rate of *)
(* rejections always, of acceptances with a cohort only, both as parts.    *)
ValidationMetrics(user, tests) ==
  LET genuine == Scores("dual", user, tests[user])
      others == UNION {tests[o] : o \in DOMAIN tests \ {user}}
      impostor == Scores("dual", user, others)
      weight == KeyboardWeight + MouseWeight
      threshold == EqualErrorThreshold(genuine, impostor, Grid(Range(genuine) \cup Range(impostor)))
  IN IF DOMAIN genuine = {} THEN [known |-> {}, frr |-> 0, far |-> 0]
     ELSE IF DOMAIN impostor = {}
       THEN [known |-> {"frr"},
             frr |-> Cardinality({w \in DOMAIN genuine :
                                    Rejected([sum |-> genuine[w], weight |-> weight])}),
             far |-> 0]
     ELSE [known |-> {"frr", "far"},
           frr |-> FalseRejections(genuine, threshold),
           far |-> FalseAcceptances(impostor, threshold)]
-----------------------------------------------------------------------------
(* Replay.                                                                 *)

(* _score_partition: a model that raises, or is not there, leaves the      *)
(* window to the other one, and the weights are even.  The percentile, in  *)
(* halves, or NoScore.                                                     *)
ReplayReading(quality, answers) ==
  LET rank(m) == IF answers[m] = NoModel THEN NoScore ELSE ScoreWindow(quality, m, answers[m])
      there == {m \in Modalities : rank(m) \notin {NoScore, Raises}}
  IN IF quality = "INSUFFICIENT_DATA" \/ there = {} THEN NoScore
     ELSE (2 \div Cardinality(there)) * MapThenSumSet(rank, there)

Unavailable == -1
Smooth(previous, adjusted) ==
  IF previous = NoScore THEN adjusted ELSE (Alpha * adjusted + (100 - Alpha) * previous) \div 100

(* replay_risk_levels: a reading is the fused risk of a window, or none.   *)
ReplayStart == [history |-> <<>>, smoothed |-> NoScore, level |-> 0, levels |-> <<>>]

ReplayLevel(history, level) ==
  LET Count(threshold) == Cardinality({i \in DOMAIN history : history[i] >= threshold})
      candidate == IF Count(High) >= BreachK THEN 2 ELSE IF Count(Medium) >= BreachK THEN 1 ELSE 0
      boundary == IF level = 2 THEN High ELSE Medium
  IN IF candidate >= level \/ (Len(history) >= BreachN /\ Count(boundary) = 0)
       THEN candidate ELSE level

ReplayStep(s, reading) ==
  IF reading = NoScore THEN [s EXCEPT !.levels = Append(@, Unavailable)]
  ELSE LET smoothed == Smooth(s.smoothed, reading)
           all == Append(s.history, smoothed)
           history == IF Len(all) > BreachN THEN Tail(all) ELSE all
           level == ReplayLevel(history, s.level)
       IN [history |-> history, smoothed |-> smoothed, level |-> level,
           levels |-> Append(s.levels, level)]

ReplayRiskLevels(readings) == FoldLeft(ReplayStep, ReplayStart, readings).levels
=============================================================================
