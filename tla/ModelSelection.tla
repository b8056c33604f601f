--------------------------- MODULE ModelSelection ---------------------------
(***************************************************************************)
(* The two choices that make a model of four candidates: the threshold of  *)
(* a candidate (select_threshold of ml/src/fraudguard_ml/training.py) and  *)
(* the candidate (select_validation_candidate of                           *)
(* notebooks/experiment_models.ipynb). A rate is an integer of Scale, of   *)
(* which the denominators that occur are divisors; a score is an integer.  *)
(***************************************************************************)
EXTENDS Integers, FiniteSets

LOCAL INSTANCE FiniteSetsExt

CONSTANT Scale

ASSUME ScaleAssumption == Scale \in Nat \ {0}

-----------------------------------------------------------------------------
(* Threshold selection on the samples of the validation split: target[s] is 0 or 1,
   score[s] what the model thinks of s. precision_recall_curve has one point for each
   score, binary_metrics predicts fraud from the threshold on. *)

Alerts(score, t) == {s \in DOMAIN score : score[s] >= t}
Frauds(target) == {s \in DOMAIN target : target[s] = 1}
TP(target, score, t) == Cardinality(Alerts(score, t) \cap Frauds(target))

Thresholds(score) == {score[s] : s \in DOMAIN score}

Precise(target, score, minPrecision, t) ==
    TP(target, score, t) * Scale >= minPrecision * Cardinality(Alerts(score, t))

(* F1 is 2 TP / (alerts + P) for P frauds. *)
F1AtLeast(target, score, t, u) ==
    LET P == Cardinality(Frauds(target))
    IN  TP(target, score, t) * (Cardinality(Alerts(score, u)) + P)
          >= TP(target, score, u) * (Cardinality(Alerts(score, t)) + P)

(* Of thresholds that are as good np.argmax takes the first, which is the lowest. *)
LowestOf(candidates) == CHOOSE t \in candidates : \A u \in candidates : t <= u

MaxRecall(target, score, candidates) ==
    {t \in candidates : \A u \in candidates : TP(target, score, t) >= TP(target, score, u)}

MaxF1(target, score, candidates) ==
    {t \in candidates : \A u \in candidates : F1AtLeast(target, score, t, u)}

(* Mutant: the threshold of the best F1 will always do. *)
SelectThresholdByF1(target, score, minPrecision) ==
    [threshold |-> LowestOf(MaxF1(target, score, Thresholds(score))), reason |-> "fallback_max_f1"]

SelectThreshold(target, score, minPrecision) ==
    LET precise == {t \in Thresholds(score) : Precise(target, score, minPrecision, t)}
    IN  IF precise # {}
        THEN [threshold |-> LowestOf(MaxRecall(target, score, precise)),
              reason    |-> "max_recall_at_min_precision"]
        ELSE [threshold |-> LowestOf(MaxF1(target, score, Thresholds(score))),
              reason    |-> "fallback_max_f1"]

(* precision_score with zero_division=0, and its like *)
Rate(n, d) == IF d = 0 THEN 0 ELSE (n * Scale) \div d

(* Recall grows with each fraud by one of as many, so the area under the steps of the
   curve is the mean of the precisions at the scores of the frauds. *)
AveragePrecision(target, score) ==
    LET At(s) == Rate(TP(target, score, score[s]),
                      Cardinality(Alerts(score, score[s])) * Cardinality(Frauds(target)))
    IN  MapThenSumSet(At, Frauds(target))

(* binary_metrics at the threshold that was selected: validation_metrics.json *)
ValidationMetrics(target, score, minPrecision) ==
    LET choice == SelectThreshold(target, score, minPrecision)
        t == choice.threshold
    IN  [threshold  |-> t,
         strategy   |-> choice.reason,
         precision  |-> Rate(TP(target, score, t), Cardinality(Alerts(score, t))),
         recall     |-> Rate(TP(target, score, t), Cardinality(Frauds(target))),
         pr_auc     |-> AveragePrecision(target, score),
         alert_rate |-> Rate(Cardinality(Alerts(score, t)), Cardinality(DOMAIN score))]

-----------------------------------------------------------------------------
(* Candidate selection: m[c] has the validation metrics of candidate c, kind[c] its
   kind of model, seconds[c] the time it took to train. *)

EligibleCandidates(m, minPrecision) == {c \in DOMAIN m : m[c].precision >= minPrecision}

(* Within the tolerance of the best is within the tolerance of each. Mutant: the best
   is sought among all candidates. *)
RecallPoolOfAll(m, minPrecision, tolerance) ==
    {c \in DOMAIN m : \A d \in DOMAIN m : m[c].recall >= m[d].recall - tolerance}

RecallPool(m, minPrecision, tolerance) ==
    {c \in EligibleCandidates(m, minPrecision) :
        \A d \in EligibleCandidates(m, minPrecision) : m[c].recall >= m[d].recall - tolerance}

AucPool(m, pool, tolerance) ==
    {c \in pool : \A d \in pool : m[c].pr_auc >= m[d].pr_auc - tolerance}

(* sort_values by alert rate, training time and candidate id *)
Cheaper(m, seconds, c, d) ==
    \/ m[c].alert_rate < m[d].alert_rate
    \/ m[c].alert_rate = m[d].alert_rate /\ seconds[c] < seconds[d]
    \/ m[c].alert_rate = m[d].alert_rate /\ seconds[c] = seconds[d] /\ c < d

Cheapest(m, seconds, pool) ==
    CHOOSE c \in pool : \A d \in pool \ {c} : Cheaper(m, seconds, c, d)

(* The cheapest of the pool, or the cheapest logistic regression in it: if the
   former is one they are the same. *)
Simpler(kind, pool) == {c \in pool : kind[c] = "logistic_regression"}

SelectCandidate(kind, m, seconds, minPrecision, recallTolerance, aucTolerance) ==
    LET pool == AucPool(m, RecallPool(m, minPrecision, recallTolerance), aucTolerance)
    IN  Cheapest(m, seconds, IF Simpler(kind, pool) # {} THEN Simpler(kind, pool) ELSE pool)
=============================================================================
