--------------------------- MODULE Configuration ---------------------------
(***************************************************************************)
(* What the ML commands accept: the validators of a data contract          *)
(* (ml/src/fraudguard_ml/training_data_contract.py) and of an experiment   *)
(* (experiment_config.py), and the contract itself, as a judgement on the  *)
(* schema and the rows of a mart. A command that is given anything else    *)
(* ends before it has written anything.                                    *)
(***************************************************************************)
EXTENDS Integers, FiniteSets, Sequences, Functions

CONSTANTS Identifiers,   \* the names that match IDENTIFIER_PATTERN
          Relations,     \* database.table pairs that match RELATION_PATTERN
          Schema,        \* columns of the relations there are: [name, type, nullable]
          Row            \* rows the mart may have: [key, time, fraud, type, flaws]

Target == "is_fraud"
EventTime == "event_time"
Structural == {"source", EventTime, "step", Target, "transaction_type"}

ASSUME SchemaAssumption ==
    /\ \A r \in DOMAIN Schema : \A i \in DOMAIN Schema[r] : "name" \in DOMAIN Schema[r][i]
    /\ \A r \in DOMAIN Row : Row[r].time \in Int

Unique(s) == IsInjective(s)
NamesOf(columns) == {columns[i].name : i \in DOMAIN columns}

-----------------------------------------------------------------------------
(* TrainingDataContractConfig *)

(* ExpectedColumn: nullable must match the Nullable(...) type. *)
ValidColumn(column) ==
    /\ column.name \in Identifiers
    /\ column.nullable <=> column.type[1] = "Nullable"

(* validate_column_contract, after the validators of the single fields *)
ValidContract(k) ==
    LET names == NamesOf(k.expected_columns)
        primary == Range(k.primary_key)
        prohibited == Range(k.prohibited)
        nonFeatures == Range(k.non_features)
    IN  /\ k.relation \in Relations /\ k.lineage_relation \in Relations
        /\ \A i \in DOMAIN k.expected_columns : ValidColumn(k.expected_columns[i])
        /\ primary \cup prohibited \cup nonFeatures \subseteq Identifiers
        /\ names # {} /\ Cardinality(names) = Len(k.expected_columns)
        /\ Unique(k.primary_key) /\ Unique(k.prohibited) /\ Unique(k.non_features)
        /\ Unique(k.type_domain)
        /\ primary # {} /\ primary \subseteq nonFeatures
        /\ nonFeatures \subseteq names
        /\ prohibited \cap names = {}
        /\ Structural \subseteq names
        /\ Target \in nonFeatures

-----------------------------------------------------------------------------
(* The check of a mart. The flaws of a row are the conditions of the query that do
   not depend on the contract. *)

(* "exact schema mismatch": names, types and their order *)
ExactSchema(k) ==
    /\ k.relation \in DOMAIN Schema
    /\ Schema[k.relation] # <<>>
    /\ Schema[k.relation] = k.expected_columns

Metrics(pop, k) ==
    LET Flawed(f) == Cardinality({r \in pop : f \in Row[r].flaws}) IN
    [row_count      |-> Cardinality(pop),
     distinct_key   |-> Cardinality({Row[r].key : r \in pop}),
     empty_key      |-> Flawed("empty_key"),
     null           |-> Flawed("null"),
     invalid_source |-> Flawed("source"),
     invalid_type   |-> Cardinality({r \in pop : Row[r].type \notin Range(k.type_domain)}),
     invalid_target |-> Cardinality({r \in pop : Row[r].fraud \notin {0, 1}}),
     no_lineage     |-> Flawed("lineage")]

Meets(pop, k) ==
    LET m == Metrics(pop, k)
    IN  /\ m.row_count > 0 /\ m.row_count = m.distinct_key
        /\ \A f \in DOMAIN m \ {"row_count", "distinct_key"} : m[f] = 0

-----------------------------------------------------------------------------
(* ExperimentConfig *)

ValidIdentifiers(values) ==
    /\ values # <<>>
    /\ Unique(values)
    /\ Range(values) \subseteq Identifiers

ValidDataset(ds) ==
    /\ ds.relation \in Relations
    /\ \A f \in {"ids", "split_columns", "features", "forbidden"} : ValidIdentifiers(ds[f])
    /\ Target \notin Range(ds.features)
    /\ Range(ds.features) \cap Range(ds.forbidden) = {}
    /\ Range(ds.ids) = {"source", "event_id"}
    /\ EventTime \in Range(ds.split_columns)

ValidSplit(split) ==
    split.train_end < split.validation_end /\ split.validation_end < split.test_end

(* Early stopping must be able to stop. *)
ValidModel(m) ==
    \/ m.kind = "logistic_regression"
    \/ m.kind = "xgboost" /\ 1 <= m.early_stopping_rounds /\ m.early_stopping_rounds < m.n_estimators

ValidExperiment(c) ==
    /\ c.name \in Identifiers
    /\ ValidDataset(c.dataset)
    /\ ValidSplit(c.split)
    /\ ValidModel(c.model)

(* build_population_query: the columns it selects *)
Projection(ds) == Range(ds.ids) \cup Range(ds.split_columns) \cup Range(ds.features) \cup {Target}

(* The database refuses a query for columns the relation does not have. *)
Selectable(ds) == ds.relation \in DOMAIN Schema /\ Projection(ds) \subseteq NamesOf(Schema[ds.relation])

(* read_one_split takes the target and the event time out of the frame before it
   selects the features from what is left. Mutant: the frame keeps them. *)
ReadableFromCopy(ds) == Range(ds.features) \subseteq Projection(ds)

Readable(ds) == Range(ds.features) \subseteq Projection(ds) \ {Target, EventTime}

(* _feature_groups and _normalize_feature_types: every feature but the transaction type
   must become a float64, which no string of these relations does. *)
Numeric(ds) == Range(ds.features) \ {"transaction_type"}

Convertible(ds) ==
    \A i \in DOMAIN Schema[ds.relation] :
        LET column == Schema[ds.relation][i]
        IN  column.name \in Numeric(ds) => "String" \notin Range(column.type)
=============================================================================
