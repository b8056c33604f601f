------------------------------- MODULE Marts -------------------------------
(***************************************************************************)
(* dbt: from the raw rows of committed batches to the training mart.       *)
(* Staging and intermediate models are views, the marts are tables: a      *)
(* build rebuilds one table after the other, each by a query of its own,   *)
(* and runs tests in between. Batches are loaded and committed meanwhile,  *)
(* in any order, and builds may overlap: the scheduled one, the one of the *)
(* training DAG and that of run_experiment.sh are in no common pool.       *)
(*                                                                         *)
(* A row is its business key, its place in Kafka and its payload. How      *)
(* often a row is in a raw table does not matter: models rank rows by      *)
(* place and count distinct payloads. Rows of batches that are not         *)
(* committed are there from the beginning. A batch has no place twice.     *)
(***************************************************************************)
EXTENDS Integers, FiniteSets

CONSTANTS Keys,            \* business keys: source and event_id
          Landed,          \* rows of a batch, by pipeline and batch id
          InvalidAmount,   \* transaction payloads with a negative amount
          InvalidBalance,  \* and with a negative balance
          OutOfDomain,     \* payloads with an unknown type, or a flag that is not 0 or 1
          BlankKeys,       \* keys with a blank source or event_id
          EmptyIds,        \* those with an event_id that is empty
          NoLabel,
          Builders,        \* the DAGs and scripts that run dbt build
          Scheduled,       \* the one of fraudguard_dbt_build
          Nodes,           \* the models and tests they select
          MaxFailures      \* how often a build may be killed or time out

Batch == DOMAIN Landed
Row == UNION {Landed[b] : b \in Batch}
Payload == {r.payload : r \in Row}
Pipelines == {"transactions", "labels"}

ASSUME MartsAssumption ==
    /\ Batch \subseteq Pipelines \X Nat
    /\ \A b \in Batch : \A r \in Landed[b] : r.key \in Keys /\ r.offset \in Nat
    /\ \A b \in Batch : \A r, q \in Landed[b] : r.offset = q.offset => r = q
    /\ IsFiniteSet(Row)
    /\ NoLabel \notin Payload \cup OutOfDomain
    /\ EmptyIds \subseteq BlankKeys
    /\ Scheduled \in Builders
    /\ MaxFailures \in Nat

VARIABLES
    committed,   \* batches with a success in ingestion_batches
    tables,      \* the marts, by name
    build,       \* by builder: finished nodes, tables queried and not yet exchanged
    failures

vars == <<committed, tables, build, failures>>

-----------------------------------------------------------------------------
(* Intermediate views *)

(* committed_rows: the join with int_committed_ingestion_batches is on pipeline and
   batch id. Mutant: on the batch id alone. *)
RowsWithBatch(batches) == UNION {{<<b[2], r>> : r \in Landed[b]} : b \in batches}

CommittedRowsOfAnyPipeline(pipeline) ==
    RowsWithBatch({b \in Batch : b[1] = pipeline /\ \E c \in committed : c[2] = b[2]})

CommittedRows(pipeline) ==
    RowsWithBatch({b \in committed : b[1] = pipeline})

RowsOf(pipeline, k) == {q \in CommittedRows(pipeline) : q[2].key = k}

Versions(pipeline, k) == {q[2].payload : q \in RowsOf(pipeline, k)}

(* canonical_rank = 1 *)
Before(p, q) ==
    \/ p[2].offset < q[2].offset
    \/ p[2].offset = q[2].offset /\ p[1] < q[1]

Canonical(rows) == CHOOSE p \in rows : \A q \in rows \ {p} : Before(p, q)

-----------------------------------------------------------------------------
(* Marts: what the query of each model returns. A table is a function of the keys
   it has a row for. *)

Present(pipeline) == {k \in Keys : RowsOf(pipeline, k) # {}}

(* has_payload_conflict: payload_version_count > 1. Mutant: a conflict is seen only
   between rows of one batch. *)
ConflictWithinBatch(pipeline, k) ==
    \E p, q \in RowsOf(pipeline, k) : p[1] = q[1] /\ p[2].payload # q[2].payload

Conflict(pipeline, k) == Cardinality(Versions(pipeline, k)) > 1

Fact(pipeline) ==
    [k \in Present(pipeline) |->
        [payload  |-> Canonical(RowsOf(pipeline, k))[2].payload,
         conflict |-> Conflict(pipeline, k)]]

(* fct_transactions_labeled: a left join, in which a key without a match has the
   defaults, and no label (has_final_label) is what has an empty event_id. *)
Labeled(tx, labels) ==
    [k \in DOMAIN tx |->
        [payload       |-> tx[k].payload,
         conflict      |-> tx[k].conflict,
         label         |-> IF k \in DOMAIN labels \ EmptyIds THEN labels[k].payload ELSE NoLabel,
         labelConflict |-> k \in DOMAIN labels /\ labels[k].conflict]]

(* is_training_eligible. Mutant: an invalid amount is left to the alert. *)
EligibleWithAnyAmount(row) ==
    /\ row.label # NoLabel
    /\ ~row.conflict
    /\ ~row.labelConflict
    /\ row.payload \notin InvalidBalance

Eligible(row) ==
    /\ row.label # NoLabel
    /\ ~row.conflict
    /\ ~row.labelConflict
    /\ row.payload \notin InvalidAmount
    /\ row.payload \notin InvalidBalance

(* training_exclusion_reason, and the partition test's idea of it *)
Reason(row) ==
    IF row.label = NoLabel THEN "missing_final_label"
    ELSE IF row.conflict THEN "transaction_payload_conflict"
    ELSE IF row.labelConflict THEN "label_payload_conflict"
    ELSE IF row.payload \in InvalidAmount THEN "invalid_amount"
    ELSE IF row.payload \in InvalidBalance THEN "invalid_balance"
    ELSE "eligible"

Reasons == {"missing_final_label", "transaction_payload_conflict", "label_payload_conflict",
            "invalid_amount", "invalid_balance", "eligible"}

Candidates(labeled) ==
    [k \in DOMAIN labeled |->
        [payload  |-> labeled[k].payload,
         label    |-> labeled[k].label,
         eligible |-> Eligible(labeled[k]),
         reason   |-> Reason(labeled[k])]]

TrainingRows(candidates) ==
    [k \in {j \in DOMAIN candidates : candidates[j].eligible} |->
        [payload |-> candidates[k].payload, label |-> candidates[k].label]]

Summary(candidates) ==
    [reason \in {candidates[k].reason : k \in DOMAIN candidates} |->
        Cardinality({k \in DOMAIN candidates : candidates[k].reason = reason})]

-----------------------------------------------------------------------------
(* The lineage dbt derives from ref(), tests among the nodes: a model waits for the
   tests of what it is built from. The accepted_values of a relation, for all its columns
   that have them, are one test. A not_null is none: no column admits a null. Nor are tests
   whose query repeats what load_batch has made sure of (assert_ingestion_quality_reconciles,
   the statuses and pipelines of the ledger). *)

Models == {"fct_transactions", "fct_transaction_labels", "fct_transactions_labeled",
           "ml_training_candidates", "ml_training_transactions", "ml_training_exclusion_summary"}
Tests == {"accepted_values_stg_transaction_labels", "accepted_values_fct_transactions",
          "accepted_values_fct_transaction_labels", "accepted_values_fct_transactions_labeled",
          "accepted_values_ml_training_candidates", "accepted_values_ml_training_transactions",
          "assert_business_keys_non_empty", "assert_no_orphan_final_labels",
          "assert_training_candidate_partition"}

(* Whoever selects a model selects its ancestors and the tests of all of them. An instance
   may leave out the summary, which nothing reads, and tests that its rows cannot fail. *)
ASSUME NodesAssumption ==
    /\ Nodes \subseteq Models \cup Tests
    /\ Models \ {"ml_training_exclusion_summary"} \subseteq Nodes
    /\ "assert_no_orphan_final_labels" \in Nodes

Facts == {"fct_transactions", "fct_transaction_labels"}

(* The relations a node reads. *)
Reads(node) ==
    CASE node \in Facts \cup {"accepted_values_stg_transaction_labels"} -> {}
      [] node = "accepted_values_fct_transactions" -> {"fct_transactions"}
      [] node = "accepted_values_fct_transaction_labels" -> {"fct_transaction_labels"}
      [] node \in {"assert_business_keys_non_empty", "assert_no_orphan_final_labels",
                   "fct_transactions_labeled"} -> Facts
      [] node \in {"accepted_values_fct_transactions_labeled", "ml_training_candidates"} ->
            {"fct_transactions_labeled"}
      [] node \in {"accepted_values_ml_training_candidates", "assert_training_candidate_partition",
                   "ml_training_transactions", "ml_training_exclusion_summary"} ->
            {"ml_training_candidates"}
      [] node = "accepted_values_ml_training_transactions" -> {"ml_training_transactions"}

(* The tests of what a model reads, those of a staging view that a fact reads included. *)
Gates(node) ==
    CASE node = "fct_transaction_labels" -> {"accepted_values_stg_transaction_labels"}
      [] node = "fct_transactions_labeled" ->
            {"accepted_values_fct_transactions", "accepted_values_fct_transaction_labels",
             "assert_business_keys_non_empty", "assert_no_orphan_final_labels"}
      [] node = "ml_training_candidates" -> {"accepted_values_fct_transactions_labeled"}
      [] node \in {"ml_training_transactions", "ml_training_exclusion_summary"} ->
            {"accepted_values_ml_training_candidates", "assert_training_candidate_partition"}
      [] OTHER -> {}

(* Mutant: the labeled transactions do not wait for the labels. *)
ParentsWithoutLabels(node) ==
    IF node = "fct_transactions_labeled" THEN {"fct_transactions"} ELSE Reads(node) \cup Gates(node)

Parents(node) == Reads(node) \cup Gates(node)

Query(model) ==
    CASE model = "fct_transactions" -> Fact("transactions")
      [] model = "fct_transaction_labels" -> Fact("labels")
      [] model = "fct_transactions_labeled" ->
            Labeled(tables.fct_transactions, tables.fct_transaction_labels)
      [] model = "ml_training_candidates" -> Candidates(tables.fct_transactions_labeled)
      [] model = "ml_training_transactions" -> TrainingRows(tables.ml_training_candidates)
      [] model = "ml_training_exclusion_summary" -> Summary(tables.ml_training_candidates)

InDomain(table) == \A k \in DOMAIN table : table[k].payload \notin OutOfDomain

LabeledInDomain(table) ==
    \A k \in DOMAIN table : {table[k].payload, table[k].label} \cap OutOfDomain = {}

(* A test passes when its query returns no row. The flags of labels are tested of all raw
   rows, committed or not. Only the marts' columns have tests of the type. *)
Passes(test) ==
    CASE test = "accepted_values_stg_transaction_labels" ->
            \A b \in Batch : b[1] = "labels" =>
                \A r \in Landed[b] : r.payload \notin OutOfDomain
      [] test = "accepted_values_fct_transactions" -> InDomain(tables.fct_transactions)
      [] test = "accepted_values_fct_transaction_labels" -> InDomain(tables.fct_transaction_labels)
      [] test = "accepted_values_fct_transactions_labeled" -> InDomain(tables.fct_transactions_labeled)
      [] test = "accepted_values_ml_training_candidates" -> LabeledInDomain(tables.ml_training_candidates)
      [] test = "accepted_values_ml_training_transactions" -> LabeledInDomain(tables.ml_training_transactions)
      [] test = "assert_business_keys_non_empty" ->
            (DOMAIN tables.fct_transactions \cup DOMAIN tables.fct_transaction_labels) \cap BlankKeys = {}
      [] test = "assert_no_orphan_final_labels" ->
            DOMAIN tables.fct_transaction_labels \subseteq DOMAIN tables.fct_transactions \ EmptyIds
      [] test = "assert_training_candidate_partition" ->
            \A k \in DOMAIN tables.ml_training_candidates :
                LET row == tables.ml_training_candidates[k]
                IN  row.reason \in Reasons /\ (row.eligible <=> row.reason = "eligible")

-----------------------------------------------------------------------------
Empty == [k \in {} |-> NoLabel]
Idle == [running |-> FALSE, alone |-> FALSE, done |-> {}, hand |-> Empty]

Init ==
    /\ committed = {}
    /\ tables = [model \in Models |-> Empty]
    /\ build = [w \in Builders |-> Idle]
    /\ failures = 0

(* The ingestion DAG records the success of a batch. *)
Commit(b) ==
    /\ b \notin committed
    /\ committed' = committed \cup {b}
    /\ UNCHANGED <<tables, build, failures>>

(* alone is history: no other build was under way since this one started. *)
Start(w) ==
    /\ ~build[w].running
    /\ build' = [v \in Builders |->
            IF v = w THEN [Idle EXCEPT !.running = TRUE,
                                       !.alone = \A u \in Builders : ~build[u].running]
            ELSE [build[v] EXCEPT !.alone = FALSE]]
    /\ UNCHANGED <<committed, tables, failures>>

(* Mutant: a model may be built again. *)
ReadyAgain(w, node) ==
    /\ build[w].running
    /\ node \in Nodes
    /\ node \notin DOMAIN build[w].hand
    /\ Parents(node) \cap Nodes \subseteq build[w].done

Ready(w, node) ==
    /\ build[w].running
    /\ node \in Nodes \ build[w].done
    /\ node \notin DOMAIN build[w].hand
    /\ Parents(node) \cap Nodes \subseteq build[w].done

(* A model is queried into a table of the build's own, which then takes the place of
   the one readers see. dbt works on several models at a time. *)
QueryModel(w, model) ==
    /\ Ready(w, model)
    /\ build' = [build EXCEPT ![w].hand =
            [m \in DOMAIN @ \cup {model} |-> IF m = model THEN Query(model) ELSE @[m]]]
    /\ UNCHANGED <<committed, tables, failures>>

Exchange(w, model) ==
    /\ model \in DOMAIN build[w].hand
    /\ tables' = [tables EXCEPT ![model] = build[w].hand[model]]
    /\ build' = [build EXCEPT ![w].done = @ \cup {model},
            ![w].hand = [m \in DOMAIN @ \ {model} |-> @[m]]]
    /\ UNCHANGED <<committed, failures>>

(* --fail-fast: the first failure ends the build. Mutant: the build waits for the test
   to pass. *)
RunTestUntilPassed(w, test) ==
    /\ Ready(w, test)
    /\ Passes(test)
    /\ build' = [build EXCEPT ![w].done = @ \cup {test}]
    /\ UNCHANGED <<committed, tables, failures>>

RunTest(w, test) ==
    /\ Ready(w, test)
    /\ build' = IF Passes(test) THEN [build EXCEPT ![w].done = @ \cup {test}]
                ELSE [build EXCEPT ![w] = Idle]
    /\ UNCHANGED <<committed, tables, failures>>

Finish(w) ==
    /\ build[w].done = Nodes
    /\ build' = [build EXCEPT ![w] = Idle]
    /\ UNCHANGED <<committed, tables, failures>>

(* The task is killed, times out or loses its connection. Another attempt, or the
   next run, starts over. *)
Fail(w) ==
    /\ build[w].running
    /\ failures < MaxFailures
    /\ failures' = failures + 1
    /\ build' = [build EXCEPT ![w] = Idle]
    /\ UNCHANGED <<committed, tables>>

Work(w) ==
    \/ \E model \in Models : QueryModel(w, model) \/ Exchange(w, model)
    \/ \E test \in Tests : RunTest(w, test)
    \/ Finish(w)

Next ==
    \/ \E b \in Batch : Commit(b)
    \/ \E w \in Builders : Start(w) \/ Work(w) \/ Fail(w)

Spec == Init /\ [][Next]_vars

(* Airflow starts the scheduled build every five minutes and works on it. Nothing is
   assumed of other builders, nor that a batch is ever loaded. *)
FairSpec == Spec /\ WF_vars(Start(Scheduled)) /\ WF_vars(Work(Scheduled))

-----------------------------------------------------------------------------
training == tables.ml_training_transactions

TypeOK ==
    /\ committed \subseteq Batch
    /\ \A model \in Models : DOMAIN tables[model] \subseteq Keys \cup Reasons
    /\ \A w \in Builders :
          /\ build[w].done \subseteq Nodes
          /\ DOMAIN build[w].hand \subseteq Models \ build[w].done
          /\ ~build[w].running => build[w] = Idle
    /\ failures \in 0..MaxFailures

(* "Ranks replayed transaction payloads so one canonical row can be selected": a row
   of the training mart is valid and is what committed copies say. *)
TrainedOnCommitted ==
    \A k \in DOMAIN training :
        /\ training[k].payload \in Versions("transactions", k) \ (InvalidAmount \cup InvalidBalance)
        /\ training[k].label \in Versions("labels", k)

(* The canonical row of a key changes with every batch that has it at a lower offset.
   A row that is eligible before and after a rebuild is the same row for all that. *)
ContentKept ==
    [][\A k \in DOMAIN training \cap DOMAIN training' : training'[k] = training[k]]_vars

(* A build that ran alone leaves marts that are derived from each other, and a summary
   that reconciles with candidates and training rows, whatever was committed. *)
AloneReconciles ==
    \A w \in Builders : build[w].done = Nodes /\ build[w].alone =>
        /\ DOMAIN tables.fct_transaction_labels \subseteq DOMAIN tables.fct_transactions
        /\ tables.fct_transactions_labeled =
              Labeled(tables.fct_transactions, tables.fct_transaction_labels)
        /\ \A k \in Keys :
              k \in DOMAIN training <=>
                  /\ k \in DOMAIN tables.fct_transaction_labels
                  /\ ~tables.fct_transactions[k].conflict
                  /\ ~tables.fct_transaction_labels[k].conflict
                  /\ tables.fct_transactions[k].payload \notin InvalidAmount \cup InvalidBalance
        /\ "ml_training_exclusion_summary" \in Nodes =>
           LET summary == tables.ml_training_exclusion_summary
               n == Cardinality(DOMAIN training)
           IN  IF n = 0 THEN "eligible" \notin DOMAIN summary ELSE summary["eligible"] = n

(* The rows the mart should have. *)
Agreed(pipeline, k) == Cardinality(Versions(pipeline, k)) = 1

Wanted ==
    [k \in {j \in Keys : /\ Agreed("transactions", j) /\ Agreed("labels", j)
                          /\ Versions("transactions", j) \cap (InvalidAmount \cup InvalidBalance) = {}} |->
        [payload |-> CHOOSE p \in Versions("transactions", k) : TRUE,
         label   |-> CHOOSE l \in Versions("labels", k) : TRUE]]

(* Something is committed that a test refuses whenever it is queried: a label without
   its transaction, a key that is blank, or a canonical row with a value that is not
   accepted; of labels, any raw row. *)
Refused ==
    \/ ~(Present("labels") \subseteq Present("transactions"))
    \/ (Present("transactions") \cup Present("labels")) \cap BlankKeys # {}
    \/ ~InDomain(Fact("transactions"))
    \/ ~Passes("accepted_values_stg_transaction_labels")

(* What is refused fails every build (--fail-fast) until later batches put it right: the
   transaction of the label comes, or a canonical row with another type. Only that can
   keep the training mart behind, if builds do not die forever: a batch committed between
   their two fact tables, or another build that puts older tables in their place,
   fails them or undoes their work only for a while. *)
EventuallyFresh == <>[]~Refused => <>[](training = Wanted)
=============================================================================
