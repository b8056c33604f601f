---------------------------- MODULE MCTraining ----------------------------
(***************************************************************************)
(* Instances of Training for TLC.                                          *)
(***************************************************************************)
EXTENDS Training, TLC

MCIdentifiers ==
    {"source", "event_id", "event_time", "step", "is_fraud", "transaction_type", "amount",
     "origin_account", "selected"}
MCRelations == {"ml.training", "core.fct"}

Column(name, type) == [name |-> name, type |-> type, nullable |-> FALSE]

Columns ==
    <<Column("source", <<"String">>), Column("event_id", <<"String">>),
      Column("event_time", <<"DateTime64">>), Column("step", <<"UInt16">>),
      Column("transaction_type", <<"String">>), Column("amount", <<"Decimal">>),
      Column("is_fraud", <<"UInt8">>)>>

MCSchema == [r \in {"ml.training"} |-> Columns]

(* The contract of the repository, one with a column more, one with the columns in
   another order and one that calls the target a feature. *)
Contract(columns, nonFeatures) ==
    [relation |-> "ml.training", lineage_relation |-> "core.fct", expected_columns |-> columns,
     primary_key |-> <<"source", "event_id">>, prohibited |-> <<"origin_account">>,
     non_features |-> nonFeatures, type_domain |-> <<"PAYMENT", "TRANSFER">>]

NonFeatures == <<"source", "event_id", "event_time", "step", "is_fraud">>

MCContracts ==
    [repository |-> Contract(Columns, NonFeatures),
     wider      |-> Contract(Append(Columns, Column("origin_account", <<"String">>)), NonFeatures),
     reordered  |-> Contract(<<Columns[2], Columns[1]>> \o SubSeq(Columns, 3, 7), NonFeatures),
     target     |-> Contract(Columns, SubSeq(NonFeatures, 1, 4))]

Experiment(features, train_end, validation_end, kind, rounds) ==
    [name |-> "selected",
     dataset |-> [relation |-> "ml.training", ids |-> <<"source", "event_id">>,
                  split_columns |-> <<"event_time", "step">>, features |-> features,
                  forbidden |-> <<"event_id", "origin_account">>],
     split |-> [train_end |-> train_end, validation_end |-> validation_end, test_end |-> 7],
     model |-> [kind |-> kind, n_estimators |-> 10, early_stopping_rounds |-> rounds,
                imbalance_strategy |-> "train_ratio"]]

Base == <<"transaction_type", "amount">>

(* One experiment which got other boundaries, rows 3 to 6 to another split, whose kind of
   model was changed, and which then got the event time as a feature; one with a feature
   no float64 can be made of. The others are refused: the target or a forbidden column as
   a feature, a feature twice, boundaries out of order, no end to boosting. *)
MCExperiments ==
    [base    |-> Experiment(Base, 3, 6, "logistic_regression", 5),
     moved   |-> Experiment(Base, 2, 4, "logistic_regression", 5),
     boosted |-> Experiment(Base, 3, 6, "xgboost", 5),
     timed   |-> Experiment(<<"amount", "event_time">>, 2, 4, "logistic_regression", 5),
     named   |-> Experiment(<<"amount", "source">>, 3, 6, "xgboost", 5),
     leaking |-> Experiment(<<"amount", "is_fraud">>, 3, 6, "xgboost", 5),
     account |-> Experiment(<<"event_id">>, 3, 6, "xgboost", 5),
     twice   |-> Experiment(<<"amount", "amount">>, 3, 6, "xgboost", 5),
     swapped |-> Experiment(Base, 6, 3, "xgboost", 5),
     endless |-> Experiment(Base, 3, 6, "xgboost", 10)]

Sample(time, fraud, flaws) ==
    [key |-> <<"paysim", 2 * time + fraud>>, time |-> time, fraud |-> fraud, type |-> "PAYMENT",
     flaws |-> flaws]

(* A row of either class at each time, rows past test_end among them. Those lost their
   place in fct_transactions to a build that overlapped. *)
MCRow ==
    <<Sample(1, 0, {}), Sample(1, 1, {}), Sample(3, 0, {}), Sample(3, 1, {}),
      Sample(5, 0, {}), Sample(5, 1, {}), Sample(7, 0, {}), Sample(7, 1, {}),
      Sample(8, 0, {"lineage"}), Sample(8, 1, {"lineage"})>>

(* What the mart may be built with. The second leaves the timed configuration without a
   validation split. *)
MCPopulations == {1..8, {1, 2, 5, 6, 7, 8, 9, 10}}

DirSymmetry == Permutations(Dirs) \cup Permutations(Runs)
=============================================================================
