------------------------------ MODULE Loader ------------------------------
(***************************************************************************)
(* airflow/dags/minio_to_clickhouse.py: the DAG that every minute looks    *)
(* for batches published in MinIO and loads each into ClickHouse with an   *)
(* insert into the raw table, an insert into the quality table and a row   *)
(* in the ledger, no transaction around them. Each call to MinIO or        *)
(* ClickHouse is one step; it can be answered, fail without effect, or     *)
(* take effect and lose its answer, and the worker can die between steps.  *)
(*                                                                         *)
(* Here batches are published atomically and never rewritten; module       *)
(* Ingestion puts the landing job in the place of Publish.                 *)
(***************************************************************************)
EXTENDS Batches, Sequences

CONSTANTS Landings,    \* [Batch -> contents a batch can be published with]
          PoisonRows,  \* rows the insert cannot convert (toDecimal64)
          MaxPerRun,   \* MAX_BATCHES_PER_RUN
          MaxActive,   \* max_active_tis_per_dag
          Retries,     \* retries of a task after its first attempt
          MaxFaults,   \* bound: infrastructure faults in a behaviour
          MaxCopies    \* bound: copies of a raw row counted apart

ASSUME LoaderAssumption ==
    /\ \A b \in Batch : \A c \in Landings[b] :
          /\ c.valid \in SUBSET Rows
          /\ c.manifest \in Manifest
          /\ Total(c.manifest, "valid") \in Int
    /\ MaxPerRun \in Nat \ {0} /\ MaxActive \in Nat \ {0}
    /\ Retries \in Nat /\ MaxFaults \in Nat /\ MaxCopies \in Nat \ {0}

VARIABLES
    (* MinIO *)
    marker,    \* the batch's quality manifest has its _SUCCESS object
    valid,     \* rows of the valid Parquet files of the batch
    manifest,  \* rows of the quality manifest of the batch
    (* ClickHouse *)
    raw,       \* copies of each row in the raw table, by minio_batch_id
    quality,   \* manifests appended to ingestion_batch_quality ({}: no row)
    ledger,    \* statuses recorded in ingestion_batches
    (* Airflow *)
    run,       \* stage of the active DAG run
    runTries,  \* attempts of that stage that failed
    pc,        \* where the load_batch task of a batch stands
    tries,     \* attempts of the task started in this run
    claimed,   \* valid_rows, as the task read it from the manifest
    (* bound *)
    faults

minioVars == <<marker, valid, manifest>>
clickhouseVars == <<raw, quality, ledger>>
airflowVars == <<run, runTries, pc, tries, claimed>>
vars == <<minioVars, clickhouseVars, airflowVars, faults>>

Working == {"summary", "count", "insert", "quality", "success", "except"}
Stages == {"none", "queued", "done", "failed"} \cup Working

-----------------------------------------------------------------------------
Init ==
    /\ marker = [b \in Batch |-> FALSE]
    /\ valid = [b \in Batch |-> {}]
    /\ manifest = [b \in Batch |-> {}]
    /\ raw = [b \in Batch |-> [r \in Rows |-> 0]]
    /\ quality = [b \in Batch |-> <<>>]
    /\ ledger = [b \in Batch |-> {}]
    /\ run = "idle"
    /\ runTries = 0
    /\ pc = [b \in Batch |-> "none"]
    /\ tries = [b \in Batch |-> 0]
    /\ claimed = [b \in Batch |-> 0]
    /\ faults = 0

(* The landing job, as the DAG assumes it. *)
Publish(b) ==
    /\ ~marker[b]
    /\ \E c \in Landings[b] :
          /\ valid' = [valid EXCEPT ![b] = c.valid]
          /\ manifest' = [manifest EXCEPT ![b] = c.manifest]
    /\ marker' = [marker EXCEPT ![b] = TRUE]
    /\ UNCHANGED <<clickhouseVars, airflowVars, faults>>

Fault == faults < MaxFaults /\ faults' = faults + 1

-----------------------------------------------------------------------------
(* The run: one at a time (max_active_runs=1), dependency check, discovery. *)

StartRun ==
    /\ run = "idle"
    /\ run' = "check"
    /\ runTries' = 0
    /\ UNCHANGED <<minioVars, clickhouseVars, pc, tries, claimed, faults>>

CheckDependencies ==
    /\ run = "check"
    /\ run' = "discover"
    /\ runTries' = 0
    /\ UNCHANGED <<minioVars, clickhouseVars, pc, tries, claimed, faults>>

(* A dependency check or a discovery that raised: retried, then the run fails. *)
StageFails ==
    /\ run \in {"check", "discover"}
    /\ Fault
    /\ IF runTries < Retries
       THEN runTries' = runTries + 1 /\ UNCHANGED run
       ELSE runTries' = 0 /\ run' = "idle"
    /\ UNCHANGED <<minioVars, clickhouseVars, pc, tries, claimed>>

(* HAVING countIf(status = 'success') > 0 *)
Committed(b) == "success" \in ledger[b]

(* Mutants of Pending: a loaded batch is one with any row in the ledger, the
   ledger is not consulted, or the marker is not. *)
PendingUnrecorded == {b \in Batch : marker[b] /\ ledger[b] = {}}
PendingPublished == {b \in Batch : marker[b]}
PendingUnmarked == {b \in Batch : manifest[b] # {} /\ ~Committed(b)}

Pending == {b \in Batch : marker[b] /\ ~Committed(b)}

(* Mutant of Selected: the list is cut before the loaded batches are left out of it. *)
SelectedOfPublished ==
    {b \in Pending : Cardinality({a \in Batch : marker[a] /\ Before(a, b)}) < MaxPerRun}

(* discovered[:MAX_BATCHES_PER_RUN] of the sorted list *)
Selected ==
    {b \in Pending : Cardinality({a \in Pending : Before(a, b)}) < MaxPerRun}

DiscoverBatches ==
    /\ run = "discover"
    /\ run' = "load"
    /\ runTries' = 0
    /\ pc' = [b \in Batch |-> IF b \in Selected THEN "queued" ELSE "none"]
    /\ tries' = [b \in Batch |-> 0]
    /\ UNCHANGED <<minioVars, clickhouseVars, claimed, faults>>

FinishRun ==
    /\ run = "load"
    /\ \A b \in Batch : pc[b] \in {"none", "done", "failed"}
    /\ run' = "idle"
    /\ pc' = [b \in Batch |-> "none"]
    /\ UNCHANGED <<minioVars, clickhouseVars, runTries, tries, claimed, faults>>

-----------------------------------------------------------------------------
(* load_batch: one mapped task per selected batch. *)

Goto(b, stage) == pc' = [pc EXCEPT ![b] = stage]

(* Mutant of EndAttempt: retries are not counted. *)
EndAttemptUncounted(b) == Goto(b, "queued")

(* The attempt is over without success: up_for_retry while retries are left. *)
EndAttempt(b) == Goto(b, IF tries[b] <= Retries THEN "queued" ELSE "failed")

StartTask(b) ==
    /\ pc[b] = "queued"
    /\ Cardinality({a \in Batch : pc[a] \in Working}) < MaxActive
    /\ Goto(b, "summary")
    /\ tries' = [tries EXCEPT ![b] = @ + 1]
    /\ UNCHANGED <<minioVars, clickhouseVars, run, runTries, claimed, faults>>

(* The handler of load_batch catches whatever a call raises. *)
Raise(b) == Fault /\ Goto(b, "except")

ReadSummary(b) ==
    /\ pc[b] = "summary"
    /\ \/ /\ ManifestOk(b, manifest[b])
          /\ claimed' = [claimed EXCEPT ![b] = Total(manifest[b], "valid")]
          /\ Goto(b, IF claimed'[b] = 0 THEN "quality" ELSE "count")
          /\ UNCHANGED faults
       \/ /\ ~ManifestOk(b, manifest[b])
          /\ Goto(b, "except")
          /\ UNCHANGED <<claimed, faults>>
       \/ Raise(b) /\ UNCHANGED claimed
    /\ UNCHANGED <<minioVars, clickhouseVars, run, runTries, tries>>

(* Mutant of CountRows: the count of the Parquet rows is not compared. *)
CountRowsUnchecked(b) ==
    /\ pc[b] = "count"
    /\ Goto(b, "insert")
    /\ UNCHANGED <<minioVars, clickhouseVars, run, runTries, tries, claimed, faults>>

CountRows(b) ==
    /\ pc[b] = "count"
    /\ \/ /\ Goto(b, IF Cardinality(valid[b]) = claimed[b] THEN "insert" ELSE "except")
          /\ UNCHANGED faults
       \/ Raise(b)
    /\ UNCHANGED <<minioVars, clickhouseVars, run, runTries, tries, claimed>>

(* Mutant of Copied: the files of every batch are read. *)
CopiedFromAll(b, rows) ==
    [raw EXCEPT ![b] = [r \in Rows |->
        IF r \in UNION {valid[a] : a \in Batch} /\ @[r] < MaxCopies THEN @[r] + 1 ELSE @[r]]]

Copied(b, rows) ==
    [raw EXCEPT ![b] = [r \in Rows |->
        IF r \in rows /\ @[r] < MaxCopies THEN @[r] + 1 ELSE @[r]]]

(* A failing INSERT SELECT leaves the parts it has already written. *)
InsertRows(b) ==
    /\ pc[b] = "insert"
    /\ \/ /\ valid[b] \cap PoisonRows = {}
          /\ raw' = Copied(b, valid[b])
          /\ Goto(b, "quality")
          /\ UNCHANGED faults
       \/ /\ valid[b] \cap PoisonRows # {}
          /\ \E parts \in SUBSET (valid[b] \ PoisonRows) : raw' = Copied(b, parts)
          /\ Goto(b, "except")
          /\ UNCHANGED faults
       \/ /\ \E parts \in SUBSET (valid[b] \ PoisonRows) : raw' = Copied(b, parts)
          /\ Raise(b)
    /\ UNCHANGED <<minioVars, quality, ledger, run, runTries, tries, claimed>>

(* Mutant of InsertQuality: a failed quality insert is logged and passed over. *)
InsertQualityBestEffort(b) ==
    /\ pc[b] = "quality"
    /\ \/ quality' = [quality EXCEPT ![b] = Append(@, manifest[b])] /\ UNCHANGED faults
       \/ UNCHANGED quality /\ Fault
    /\ Goto(b, "success")
    /\ UNCHANGED <<minioVars, raw, ledger, run, runTries, tries, claimed>>

InsertQuality(b) ==
    /\ pc[b] = "quality"
    /\ \/ /\ quality' = [quality EXCEPT ![b] = Append(@, manifest[b])]
          /\ Goto(b, "success")
          /\ UNCHANGED faults
       \/ /\ \/ quality' = [quality EXCEPT ![b] = Append(@, manifest[b])]
             \/ UNCHANGED quality
          /\ Raise(b)
    /\ UNCHANGED <<minioVars, raw, ledger, run, runTries, tries, claimed>>

(* Mutant of Recorded: the ledger keeps one row per batch, the latest. *)
RecordedLatest(b, status) == [ledger EXCEPT ![b] = {status}]

Recorded(b, status) == [ledger EXCEPT ![b] = @ \cup {status}]

RecordSuccess(b) ==
    /\ pc[b] = "success"
    /\ \/ /\ ledger' = Recorded(b, "success")
          /\ Goto(b, "done")
          /\ UNCHANGED faults
       \/ /\ ledger' \in {ledger, Recorded(b, "success")}
          /\ Raise(b)
    /\ UNCHANGED <<minioVars, raw, quality, run, runTries, tries, claimed>>

(* Best effort: a second failure is logged, and the task raises anyway. *)
RecordFailed(b) ==
    /\ pc[b] = "except"
    /\ \/ ledger' = Recorded(b, "failed") /\ UNCHANGED faults
       \/ ledger' \in {ledger, Recorded(b, "failed")} /\ Fault
    /\ EndAttempt(b)
    /\ UNCHANGED <<minioVars, raw, quality, run, runTries, tries, claimed>>

(* The worker process dies: no except clause runs, Airflow ends the attempt. *)
WorkerDies(b) ==
    /\ pc[b] \in Working
    /\ Fault
    /\ EndAttempt(b)
    /\ UNCHANGED <<minioVars, clickhouseVars, run, runTries, tries, claimed>>

LoadStep(b) ==
    \/ StartTask(b) \/ ReadSummary(b) \/ CountRows(b) \/ InsertRows(b)
    \/ InsertQuality(b) \/ RecordSuccess(b) \/ RecordFailed(b)

RunStep == StartRun \/ CheckDependencies \/ DiscoverBatches \/ FinishRun

Airflow ==
    \/ RunStep
    \/ StageFails
    \/ \E b \in Batch : LoadStep(b) \/ WorkerDies(b)

Next == Airflow \/ \E b \in Batch : Publish(b)

Spec == Init /\ [][Next]_vars

(* The scheduler starts a run every minute and keeps running its tasks; nothing
   is promised of faults or of publication. *)
FairSpec == Spec /\ WF_vars(RunStep) /\ \A b \in Batch : WF_vars(LoadStep(b))

-----------------------------------------------------------------------------
Loaded(b) == {r \in Rows : raw[b][r] > 0}

(* The batches a run can load: their manifest is sound, the rows it counts are
   there, and every one of them converts. *)
Loadable(b) ==
    /\ marker[b]
    /\ Reconciles(b, valid[b], manifest[b])
    /\ Accepted(valid[b], manifest[b]) \cap PoisonRows = {}

(* Every variable has its type. *)
TypeOK ==
    /\ marker \in [Batch -> BOOLEAN]
    /\ valid \in [Batch -> SUBSET Rows]
    /\ manifest \in [Batch -> Manifest]
    /\ raw \in [Batch -> [Rows -> 0..MaxCopies]]
    /\ quality \in [Batch -> Seq(Manifest)]
    /\ ledger \in [Batch -> SUBSET {"success", "failed"}]
    /\ run \in {"idle", "check", "discover", "load"}
    /\ runTries \in 0..Retries
    /\ pc \in [Batch -> Stages]
    /\ tries \in [Batch -> 0..(Retries + 1)]
    /\ claimed \in [Batch -> Int]
    /\ faults \in 0..MaxFaults

(* "Both must reconcile exactly with their batch quality manifest before data
   is accepted" (load_batch): whatever was retried, lost or half applied on the
   way, a committed batch has as many rows in the raw table as the manifest
   lets in, and they are rows of its valid files. *)
AcceptedReconciles ==
    \A b \in Batch : Committed(b) =>
        /\ ManifestOk(b, manifest[b])
        /\ Cardinality(Loaded(b)) = Total(manifest[b], "valid")
        /\ Loaded(b) \subseteq valid[b]

(* The commit marker comes last: a committed batch has its quality manifest in
   the warehouse, and has it as MinIO has it. *)
CommittedHasQuality ==
    \A b \in Batch : Committed(b) =>
        /\ quality[b] # <<>>
        /\ \A i \in 1..Len(quality[b]) : quality[b][i] = manifest[b]

(* A second copy of a row or of a manifest is the price of a fault, one for
   one: without faults a batch is loaded exactly once, however many runs see
   it. Rows that do not convert are left out: their batch is tried for ever. *)
CopiesCostFaults ==
    \A b \in Batch :
        /\ Len(quality[b]) <= 1 + faults
        /\ valid[b] \cap PoisonRows = {} => \A r \in Rows : raw[b][r] <= 1 + faults

(* The ledger closes a batch: once a success row is there, only the run that
   wrote it (a retry after a lost answer) can touch the batch's rows again. *)
CommittedIsClosed ==
    [][\A b \in Batch :
          Committed(b) /\ pc[b] \in {"none", "done", "failed"} =>
              /\ raw'[b] = raw[b] /\ quality'[b] = quality[b]
              /\ pc'[b] \in {pc[b], "none"}]_vars

(* As many batches that never load stand before b in the sorted list as a run takes. *)
Starved(b) ==
    Cardinality({a \in Batch : marker[a] /\ ~Loadable(a) /\ Before(a, b)}) >= MaxPerRun

(* Again and again, every batch that is published and can be loaded is committed, or
   starved: whatever the faults were, the cut of the list keeps a batch out for ever only
   if the runs are full of batches before it that never load. (What is published stays
   as it is, so this is a promise to each batch.) *)
EventuallyLoaded == []<>(\A b \in Batch : Loadable(b) => Committed(b) \/ Starved(b))

(* sources and staging docs: "One physical quality-manifest row per
   batch/date/source" (dbt/models/staging/_staging.yml). *)
OneQualityRowPerKey == \A b \in Batch : Len(quality[b]) <= 1

Abstract == INSTANCE AtomicLoad WITH
    committed <- {b \in Batch : Committed(b)},
    visible <- [b \in Batch |-> IF Committed(b) THEN Loaded(b) ELSE {}]

(* Readers of committed batches see the atomic loads of AtomicLoad. *)
ImplementsAtomicLoad == Abstract!AbstractSpec
=============================================================================
