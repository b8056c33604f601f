----------------------------- MODULE Ingestion -----------------------------
(***************************************************************************)
(* The landing query of one pipeline and the ingestion DAG together. They  *)
(* share the MinIO directories of a batch and nothing else: no call, no    *)
(* lock, only the _SUCCESS object of the manifest between them. The DAG    *)
(* can read a batch while a restarted query overwrites it.                 *)
(***************************************************************************)
EXTENDS Batches, Sequences

CONSTANTS Pipeline, Schemas, ForeignId, MaxOffsets, MaxLog, MaxCrashes,
          Messages, UnknownKey,
          PoisonRows, MaxPerRun, MaxActive, Retries, MaxFaults, MaxCopies

VARIABLES
    log, registry,                                   \* Kafka, Schema Registry
    query, catalog, offsets, commits, crashes,       \* Spark
    valid, quarantine, manifest, marker,             \* MinIO
    raw, quality, ledger,                            \* ClickHouse
    run, runTries, task, tries, claimed, faults,     \* Airflow
    rewritten   \* history: batches overwritten while they were published

S == INSTANCE Landing WITH pc <- query
L == INSTANCE Loader WITH pc <- task, Landings <- [b \in Batch |-> {}]

ASSUME IngestionAssumption == S!LandingAssumption /\ L!LoaderAssumption

loaderVars == <<raw, quality, ledger, run, runTries, task, tries, claimed, faults>>
landingVars == <<log, registry, query, catalog, offsets, commits, quarantine, crashes>>
vars == <<landingVars, loaderVars, valid, manifest, marker, rewritten>>

Init ==
    /\ S!Init
    /\ L!Init
    /\ rewritten = {}

Landing ==
    /\ S!Next
    /\ rewritten' = rewritten \cup {b \in {S!Current} : S!ClearValid /\ marker[b]}
    /\ UNCHANGED loaderVars

Ingest == L!Airflow /\ UNCHANGED <<landingVars, rewritten>>

Next == Landing \/ Ingest

Spec == Init /\ [][Next]_vars

FairQuery == Landing /\ S!QueryStep
FairStart == Landing /\ S!StartQuery
FairLoad(b) == Ingest /\ L!LoadStep(b)
FairRun == Ingest /\ L!RunStep

(* Landing's fairness and Loader's. *)
FairSpec ==
    /\ Spec
    /\ WF_vars(FairQuery)
    /\ WF_vars(FairStart)
    /\ WF_vars(FairRun)
    /\ \A b \in Batch : WF_vars(FairLoad(b))

-----------------------------------------------------------------------------
(* History and the tasks in flight. *)
TypeOK ==
    /\ S!TypeOK
    /\ L!TypeOK
    /\ rewritten \subseteq Batch

(* A Kafka coordinate is loaded under one batch number only, that of a batch
   Spark has planned, whatever was replayed, retried or read half written. *)
RowsOfOneBatch ==
    \A b \in Batch : L!Loaded(b) # {} =>
        /\ b[1] = Pipeline
        /\ b[2] < Len(offsets)
        /\ \A a \in Batch \ {b} : L!Loaded(a) \cap L!Loaded(b) = {}

(* A batch the DAG commits has in the warehouse exactly what the landing query
   published, as long as it was published once: a query that dies before the
   marker is there and writes the batch again is harmless. *)
CommittedAsPublished ==
    \A b \in Batch : L!Committed(b) /\ b \notin rewritten =>
        /\ S!Whole(b[2])
        /\ L!Loaded(b) = valid[b]
        /\ \A i \in 1..Len(quality[b]) : quality[b][i] = manifest[b]

(* From Kafka to the raw table: every message ends up quarantined or in the raw
   rows of a committed batch. *)
EventuallyIngested ==
    \A o \in Rows :
        o <= Len(log) /\ registry # {} ~>
            \/ \E b \in Batch : o \in quarantine[b]
            \/ \E b \in Batch : L!Committed(b) /\ o \in L!Loaded(b)
            \/ rewritten # {}

(* "Both must reconcile exactly with their batch quality manifest before data
   is accepted" (load_batch): a committed batch has as many raw rows as one of
   the manifests recorded for it counts. *)
WarehouseReconciles ==
    \A b \in Batch : L!Committed(b) =>
        \E i \in 1..Len(quality[b]) :
            Cardinality(L!Loaded(b)) = Total(quality[b][i], "valid")
=============================================================================
