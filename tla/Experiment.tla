----------------------------- MODULE Experiment -----------------------------
(***************************************************************************)
(* scripts/run_experiment.sh, and with one candidate the training DAG      *)
(* (airflow/dags/fraudguard_training.py): one dbt build, one validation of *)
(* the mart, and then for each candidate a snapshot of its own and a       *)
(* model, while the scheduled build goes on rebuilding the mart. At last   *)
(* notebooks/experiment_models.ipynb compares the candidates, if they are  *)
(* comparable, and selects one. What the commands do with their files is   *)
(* in Training.                                                            *)
(***************************************************************************)
EXTENDS Marts, ModelSelection, Sequences

CONSTANTS Script,      \* the builder that is the script
          Kinds,       \* kinds of the candidates' models, in the script's order
          TrainEnd,    \* the split boundaries, the same in all configurations
          TestEnd,
          Truth,       \* targets of the validation split, by sample
          Scores,      \* scores the candidates' models may give the samples
          Seconds,     \* training times of the candidates
          MinPrecision, RecallTolerance, AucTolerance,
          None

Candidate == 1..Len(Kinds)

ASSUME ExperimentAssumption ==
    /\ Script \in Builders \ {Scheduled}
    /\ Kinds \in Seq({"logistic_regression", "xgboost"}) /\ Kinds # <<>>
    /\ MinPrecision \in Nat /\ RecallTolerance \in Nat /\ AucTolerance \in Nat
    /\ IsFiniteSet(DOMAIN Truth)
    /\ \A scores \in Scores : DOMAIN scores = Candidate
    /\ \A scores \in Scores : \A c \in Candidate : scores[c] \in [DOMAIN Truth -> Nat]

VARIABLES step,        \* what the script does next
          snapshots,   \* one for each candidate so far
          verdict      \* what the notebook selected, and from which metrics

scriptVars == <<step, snapshots, verdict>>
allVars == <<vars, scriptVars>>

-----------------------------------------------------------------------------
(* build_population_query and stream_snapshot: the rows up to test_end, and a
   fingerprint that is the xor of a hash of key, event time and label of each. The
   features are not in it. *)
Snapshot(mart) == [k \in {j \in DOMAIN mart : mart[j].payload.time <= TestEnd} |-> mart[k]]

Fingerprint(s) ==
    {[key |-> k, time |-> s[k].payload.time, fraud |-> s[k].label.fraud] : k \in DOMAIN s}

TrainKeys(s) == {k \in DOMAIN s : s[k].payload.time <= TrainEnd}
TrainFraud(s) == {k \in TrainKeys(s) : s[k].label.fraud = 1}

(* The notebook's assertions on the loaded metrics. Mutant: row counts will do. *)
ComparableByCounts(ss) ==
    \A i, j \in DOMAIN ss :
        /\ Cardinality(TrainKeys(ss[i])) = Cardinality(TrainKeys(ss[j]))
        /\ Cardinality(TrainFraud(ss[i])) = Cardinality(TrainFraud(ss[j]))

Comparable(ss) ==
    \A i, j \in DOMAIN ss :
        /\ Fingerprint(ss[i]) = Fingerprint(ss[j])
        /\ Cardinality(TrainKeys(ss[i])) = Cardinality(TrainKeys(ss[j]))
        /\ Cardinality(TrainFraud(ss[i])) = Cardinality(TrainFraud(ss[j]))

(* What the candidates' models say and what training makes of it. *)
Sheets ==
    {[scores |-> scores,
      metrics |-> [c \in Candidate |-> ValidationMetrics(Truth, scores[c], MinPrecision)]] :
        scores \in Scores}

(* PR-AUC is a part of Scale, as all rates are. It is a fold over a set, so that no proof
   here could say so; TLC does for the sheets it is given. *)
ASSUME SheetAssumption ==
    /\ Seconds \in [Candidate -> Nat]
    /\ \A sheet \in Sheets : \A c \in Candidate : sheet.metrics[c].pr_auc \in 0..Scale

-----------------------------------------------------------------------------
ExperimentInit ==
    /\ Init
    /\ step = "off"
    /\ snapshots = <<>>
    /\ verdict = None

Goto(next) == step' = next /\ UNCHANGED <<snapshots, verdict>>

(* Nobody looks at the snapshots of a script that failed. *)
End == step' = "end" /\ snapshots' = <<>> /\ UNCHANGED verdict

Launch ==
    /\ step = "off"
    /\ Start(Script)
    /\ Goto("build")

(* The script goes on when its build has succeeded, set -e ends it otherwise. *)
Build ==
    /\ step = "build"
    /\ Work(Script) \/ Fail(Script)
    /\ IF build'[Script].running THEN UNCHANGED scriptVars
       ELSE IF build[Script].done = Nodes THEN Goto("validate") ELSE End

(* validate_training_data_contract: what its query can find in a mart of these models, whose
   keys are all of the source it expects. The lineage relation is fct_transactions. *)
Validate ==
    /\ step = "validate"
    /\ LET rows == DOMAIN tables.ml_training_transactions
       IN  IF /\ rows # {} /\ rows \subseteq DOMAIN tables.fct_transactions \ BlankKeys
              /\ LabeledInDomain(tables.ml_training_transactions)
           THEN Goto("candidates") ELSE End
    /\ UNCHANGED vars

(* Snapshot and training of the next candidate. *)
RunCandidate ==
    /\ step = "candidates"
    /\ snapshots' = Append(snapshots, Snapshot(tables.ml_training_transactions))
    /\ step' = IF Len(snapshots') < Len(Kinds) THEN "candidates" ELSE "compare"
    /\ UNCHANGED <<vars, verdict>>

(* A command fails, for a split without frauds or for any other reason. *)
Abort ==
    /\ step \in {"validate", "candidates"}
    /\ End
    /\ UNCHANGED vars

(* "No candidate satisfies minimum validation precision" is the end, too. *)
Compare ==
    /\ step = "compare"
    /\ \/ /\ Comparable(snapshots)
          /\ \E sheet \in Sheets :
                /\ EligibleCandidates(sheet.metrics, MinPrecision) # {}
                /\ verdict' = [sheet |-> sheet, winner |->
                     SelectCandidate(Kinds, sheet.metrics, Seconds, MinPrecision, RecallTolerance, AucTolerance)]
          /\ step' = "end"
          /\ UNCHANGED snapshots
       \/ End
    /\ UNCHANGED vars

ExperimentNext ==
    \/ ((\E b \in Batch : Commit(b)) \/ Start(Scheduled) \/ Work(Scheduled) \/ Fail(Scheduled)) /\ UNCHANGED scriptVars
    \/ Launch \/ Build \/ Validate \/ RunCandidate \/ Abort \/ Compare

ExperimentSpec == ExperimentInit /\ [][ExperimentNext]_allVars

FairExperiment ==
    /\ ExperimentSpec
    /\ WF_allVars((Start(Scheduled) \/ Work(Scheduled)) /\ UNCHANGED scriptVars)

-----------------------------------------------------------------------------
(* "Experiment so sánh hai họ model trên cùng một population fingerprint": the
   candidates that are compared took the same rows out of the mart, features and all,
   though each has a snapshot of its own and the fingerprint does not cover features. *)
ComparedAlike ==
    verdict # None => \A i, j \in Candidate : snapshots[i] = snapshots[j]

(* No candidate that is precise enough beats the winner: none has a better recall
   by more than the tolerance, none that recalls as much a better PR-AUC by more
   than its tolerance, and none that is as good in both is simpler, or of the same
   kind and cheaper. *)
WinnerUnbeaten ==
    verdict # None =>
        LET w == verdict.winner
            m == verdict.sheet.metrics
        IN  /\ m[w].precision >= MinPrecision
            /\ \A c \in EligibleCandidates(m, MinPrecision) :
                  /\ m[c].recall <= m[w].recall + RecallTolerance
                  /\ m[c].recall >= m[w].recall => m[c].pr_auc <= m[w].pr_auc + AucTolerance
                  /\ m[c].recall >= m[w].recall /\ m[c].pr_auc >= m[w].pr_auc =>
                        /\ Kinds[w] = "xgboost" => Kinds[c] = "xgboost"
                        /\ Kinds[w] = Kinds[c] => m[c].alert_rate >= m[w].alert_rate

(* "max_recall_at_min_precision": whatever threshold one takes for whatever candidate,
   if it is precise enough it does not catch more frauds than the winner at its own, but
   for the tolerance. *)
NoFraudWasted ==
    verdict # None =>
        LET scores == verdict.sheet.scores
            w == verdict.winner
            caught == TP(Truth, scores[w], verdict.sheet.metrics[w].threshold)
        IN  \A c \in Candidate : \A t \in Thresholds(scores[c]) :
                Precise(Truth, scores[c], MinPrecision, t) =>
                    Rate(TP(Truth, scores[c], t) - caught, Cardinality(Frauds(Truth))) <= RecallTolerance

(* "to catch the last fraud, the system accepts about 9 false alerts for each right one"
   (notebook): the winner's alerts are needed for the frauds it catches, there is no
   threshold that catches as many with fewer. *)
NoNeedlessAlert ==
    verdict # None =>
        LET score == verdict.sheet.scores[verdict.winner]
            chosen == verdict.sheet.metrics[verdict.winner].threshold
        IN  \A t \in Thresholds(score) :
                TP(Truth, score, t) = TP(Truth, score, chosen) =>
                    Cardinality(Alerts(score, t)) >= Cardinality(Alerts(score, chosen))
=============================================================================
