---------------------------- MODULE MCExperiment ----------------------------
(***************************************************************************)
(* Instances of Experiment for TLC: the script with two candidates, and    *)
(* the training DAG with one.                                              *)
(***************************************************************************)
EXTENDS Experiment, TLC

CONSTANTS k1, k2, k3, k4, scheduled, script

RowAt(k, offset, payload) == [key |-> k, offset |-> offset, payload |-> payload]
Tx(time, amount) == [time |-> time, amount |-> amount]
Label(fraud, flagged) == [fraud |-> fraud, flagged |-> flagged]
MCInvalidAmount == {Tx(1, -5)}

(* The second batch of transactions has k1 with another amount at a lower offset and
   k2 again, and its batch id is that of the labels. The amount of k3 is negative,
   and k4, which is later than the end of the test split, has two labels. *)
MCLanded ==
    <<"transactions", 1>> :>
        {RowAt(k1, 2, Tx(1, 10)), RowAt(k2, 3, Tx(1, 20)), RowAt(k3, 5, Tx(1, -5)), RowAt(k4, 6, Tx(3, 7))} @@
    <<"transactions", 2>> :>
        {RowAt(k1, 1, Tx(1, 15)), RowAt(k2, 4, Tx(1, 20))} @@
    <<"labels", 2>> :>
        {RowAt(k1, 1, Label(1, 0)), RowAt(k2, 2, Label(0, 0)), RowAt(k3, 3, Label(1, 1)),
         RowAt(k4, 4, Label(0, 0)), RowAt(k4, 5, Label(0, 1))}

(* A transaction with an unknown type, the same with a known one at a lower offset, and
   its label. A key that is blank, or a flag of a label that is neither 0 nor 1, is refused
   for ever, so that a behaviour with one shows nothing. *)
MCFewLanded ==
    <<"transactions", 1>> :> {RowAt(k1, 2, Tx(1, 10))} @@
    <<"transactions", 2>> :> {RowAt(k1, 1, Tx(1, 15))} @@
    <<"labels", 2>> :> {RowAt(k1, 1, Label(1, 0))}
MCUnknownType == {Tx(1, 10)}

(* Without the tests that no row of MCLanded fails. *)
MCNodes == Models \cup {"assert_no_orphan_final_labels", "assert_training_candidate_partition"}

(* Without the summary, which nothing reads, and the tests that no row of MCFewLanded
   fails. *)
MCFewNodes ==
    (Models \cup Tests) \
    {"ml_training_exclusion_summary", "accepted_values_stg_transaction_labels",
     "accepted_values_fct_transaction_labels", "assert_business_keys_non_empty"}

MCKinds == <<"logistic_regression", "xgboost">>
MCOneKind == <<"xgboost">>

(* Scores of three frauds and three other samples, named for the ranks of the frauds. A
   precision of 3 / 5 is asked for. *)
MCTruth == <<1, 1, 1, 0, 0, 0>>
Ranks123 == <<6, 5, 4, 3, 2, 1>>
Ranks125 == <<6, 5, 2, 4, 3, 1>>
Ranks134 == <<6, 4, 3, 5, 2, 1>>
Ranks126 == <<6, 5, 1, 4, 3, 2>>
Ranks246 == <<5, 3, 1, 6, 4, 2>>

(* The second candidate ranks better by more than the tolerance, by less, is the only one
   with a precise threshold, or has one that catches the last fraud. *)
MCScores ==
    {<<Ranks134, Ranks123>>, <<Ranks134, Ranks125>>, <<Ranks246, Ranks126>>, <<Ranks126, Ranks125>>}

MCSeconds == <<2, 2>>
MCOneScore == {<<Ranks123>>}
MCOneSecond == <<2>>
=============================================================================
