# FraudGuard streaming pipeline: TLA+ models, checks and proofs

FraudGuard takes PaySim transactions from a CSV file to an evaluated fraud model:

    producer ──> Kafka (2 topics) ──> landing jobs (Spark) ──> MinIO ──> ingestion DAG (Airflow)
                                                                             │
    evaluation <── model <── snapshot <── ML commands <── dbt marts <── ClickHouse raw tables

No two of these parts share a transaction. They meet in files, in objects and in tables, and
each of them is retried, restarted or run again on its own. What the modules here are about is
therefore what survives of a promise (“a committed batch reconciles with its manifest”, “the
test split was never used to select the model”) when steps are lost, repeated or interleaved.

Run a check with `tlc -workers 2 -config X.cfg M` and the proofs with `tlapm` on each of the
`*Proofs.tla`.
`PROJECT.json` lists the runs, the mutant that each property is known to detect, the source
lines behind each definition, the hazards and the findings.

## 1. Inventory

### CSV producer (`producer/kafka_producer.py`)
- *State*: position in the file, rows counted per PaySim step, delivery counters; the queue of
  librdkafka; the two topics.
- *Operations*: read and count a row, produce the transaction, produce the label, poll, wait for
  room in the queue, flush, resume with `--skip-rows`, be interrupted.
- *Hard*: delivery is asynchronous and reported only to a program that polls; messages expire
  after an append whose answer was lost; a replay that resumes must not change event times.
- *Correct when*: success means that every transaction and label is in Kafka; a row has one
  event time for ever; a replay ends, whatever the brokers do.

### Landing jobs (`spark/jobs/*.py`), one query per pipeline
- *State*: the checkpoint (planned offset ranges, committed batches), the schema catalog read at
  start, and per batch a valid, a quarantine and a manifest directory with `_SUCCESS`.
- *Operations*: start, plan a batch, overwrite three directories in order, commit the batch.
- *Interaction*: with Kafka and Schema Registry by reads; with the DAG only through the directories.
- *Hard*: death between any two writes; Spark runs the batch again, possibly with another catalog,
  over files the DAG may already be reading; an overwrite is a deletion and then a write.
- *Correct when*: every Kafka coordinate ends up in one directory of one batch and is counted; the
  marker is last; every message is landed.

### Ingestion DAG (`airflow/dags/minio_to_clickhouse.py`, `clickhouse/init/01_*.sql`)
- *State*: the active run and its stage, a mapped task per batch with its attempts; raw tables,
  `ingestion_batch_quality`, the ledger `ingestion_batches`, all append-only.
- *Operations*: check dependencies, discover, load a batch (summary, count, insert, quality,
  success, or failed), retry.
- *Hard*: three inserts without a transaction, lost answers, partly applied inserts, dead workers,
  retries from the top, batches that can never be loaded, files changing under the reader.
- *Correct when*: readers of committed batches see each of them whole and once; duplicates are
  bounded by faults; a batch that can be loaded is.

### dbt marts (`dbt/`) and the scheduled build (`airflow/dags/fraudguard_dbt_build.py`)
- *State*: six tables, from facts to the training mart and its summary, and for each build under
  way the nodes it has finished and the tables it has queried and not yet put in place.
- *Operations*: start, query a model, exchange its table, run a test, finish, be killed.
- *Interaction*: reads the raw rows of batches the ledger has as `success`; is read by the ML commands.
- *Hard*: each table is a query of its own, batches are committed in between and in any order,
  three kinds of builds are in no common pool, a failed test stops a build halfway.
- *Correct when*: a row of the training mart has one payload and one label, those of all committed
  copies; a build that ran alone leaves tables that reconcile; the mart follows what is committed.

### ML commands (`ml/src/fraudguard_ml`, run by `fraudguard_training.py` and `run_experiment.sh`)
- *State*: contract artifact, snapshot, manifest, diagnostics, model, metrics and evaluation on
  disk; the object store; the cache of downloaded snapshots.
- *Operations*: validate, snapshot, diagnose, train, evaluate.
- *Hard*: all files are arguments and can be mixed; a command dies between writes; the mart changes
  between commands; the cache outlives runs; two pieces of code split the rows.
- *Correct when*: an evaluation tests on rows the model never saw; a manifest leads to its
  snapshot; nothing published is replaced.

### Training DAG, experiment script and comparison (`fraudguard_training.py`, `run_experiment.sh`, `experiment_models.ipynb`)
- *State*: the step of the script, a snapshot for each candidate, the verdict.
- *Operations*: one dbt build, one validation, then snapshot and training of each candidate;
  the comparison of fingerprints and the selection of a candidate.
- *Hard*: each candidate reads the mart anew while the scheduled build rebuilds it; what is
  compared of the populations does not cover the features; tolerances and ties.
- *Correct when*: candidates that are compared saw the same rows; the selected one, and its
  threshold, cannot be beaten under the rules the notebook and the training report state.

### Contract and configuration (`training_data_contract.py`, `experiment_config.py`, `configs/`)
- *State*: none; rules that refuse files, and what the projection and the loader make of the rest.
- *Hard*: contract and experiment are separate files with separate rules; together they have to
  keep the target, the time and the identifiers out of the features.

### Not modelled
- What fits and metrics compute (scikit-learn, XGBoost), drift and quantiles of the diagnostics,
  seeds: numerics of libraries. Which rows and features go in, and what comes of it, is modelled.
- Docker, roles, buckets, CI: no state of the pipeline.
- `EDA.ipynb`, and the plots and tables of `experiment_models.ipynb`: exploration and its stored output,
  without a state or a rule. The two notebooks are more than half of the lines of the
  implementation, which is why the modules map less than a third of it.
- The rate limit, argument parsing and logging of the producer; columns of raw rows but for the
  rules that tell them apart.

## 2. Modules

| Module | Models | State and actions in the code |
| --- | --- | --- |
| `Batches` | what landing and DAG share | batch identity, load order, quality manifest and its checks (`QUALITY_SUMMARY_SQL`) |
| `AtomicLoad` | abstract specification | what readers of committed batches are promised |
| `Loader` | ingestion DAG | one action per call of the DAG to MinIO or ClickHouse; each is answered, fails, or takes effect and loses its answer |
| `Landing` | landing query | one action per write of `process_batch` and per checkpoint write; `StopQuery` is possible between any two |
| `Ingestion` | both together | `INSTANCE Landing` and `INSTANCE Loader` over the same directories |
| `Producer` | CSV replay | one action per step of the loop of `replay_csv`, librdkafka and brokers as the environment |
| `Configuration` | contract, experiment configuration | operators: the rules of the two files, what is projected, loaded and fitted of a row |
| `Training` | ML commands | one action per query, write or upload of a command |
| `Marts` | dbt models, scheduled build | one action per query of a model, exchange of a table and test, for any number of builds |
| `ModelSelection` | threshold and candidate | operators: `select_threshold`, `select_validation_candidate` |
| `Experiment` | training DAG, experiment script, notebook | `EXTENDS Marts`: the script is one of its builders, then validates, takes snapshots and compares |
| `LandingProofs`, `LoaderProofs`, `IngestionProofs`, `ProducerProofs`, `TrainingProofs`, `MartsProofs`, `ExperimentProofs` | | theorems about these modules |
| `MC*` | | instances for TLC |

How the state corresponds, where it is not obvious:

- A row is its Kafka coordinate (`Batches`, `Landing`, `Loader`), its number in the file
  (`Producer`), its business key with an offset and a payload (`Marts`) or a key, time, label
  and flaws (`Training`); its columns matter only where a rule tells rows
  apart, as a poison row whose amount does not convert, or a message whose frame is bad.
- `raw[b][r]` counts the copies of a row under a `minio_batch_id`; MergeTree tables have no key.
- `ledger[b]` is the set of statuses recorded for a batch: discovery asks for `success` only, and
  a `failed` row changes nothing, which is the code’s rule.
- `Landing` writes a directory in two steps (`Clear…`, `Fill…`), for Spark’s mode `overwrite`
  deletes before it writes and the marker goes with the files.
- The partitions of a topic are one log. Offsets of a partition are planned as ranges that follow
  each other; how ranges of several partitions are combined in a batch does not matter to any
  property.
- Hashes are what they are hashes of (`Training`). Two manifests of equal contents differ by
  `created_at_utc`; in the model by their directory, of which each has one.
- `build[w].hand` in `Marts` is a table dbt has built beside the one readers see; `Exchange` swaps them.
  `alone` is history: no other build was under way since this one started.
- A rate in `ModelSelection` is an integer of `Scale`; a score is a rank.
- A command of `Training` that is refused by a check before its first effect is a step not taken.

### Plan

1. *Done*: every component of the inventory has its module, and every safety invariant and action
   property that a run checks, but for those the code violates, has a theorem.
2. *Left, proofs*: `Ingestion` as an implementation of `AtomicLoad` (a batch may be overwritten after its
   commit, so the mapping must remember what was committed), and the snapshots of `Training` as
   those of `Experiment`.

## 3. What is checked

| Run | Question | Result |
| --- | --- | --- |
| `loader` | Three batches, sound or not, two of them taken by a run, two faults anywhere: do readers see atomic loads, and is every loadable batch committed that is not starved? | holds |
| `quality_retry` | Is there one quality row per batch, date and source? | violated |
| `landing` | Is every message landed once and counted, over crashes and schema changes? | holds |
| `landing_replay` | Do published landings stay as they are? | violated |
| `ingestion` | With both at work: is what is committed what was published, and does every message reach quarantine or a committed batch? | holds, but for batches overwritten while published |
| `ingestion_replay` | Does a committed batch always reconcile? | violated |
| `producer` | Does success mean delivery, do event times survive a resumption, does a replay end? | holds |
| `training` | Honest evaluation, clean features, traceable manifests, nothing rewritten, over every mix of files, configurations and contracts? | holds |
| `training_stale` | Are snapshots taken of validated data? | violated |
| `experiment` | With builds overlapping and batches coming late: is the mart committed content, are candidates compared alike, is the best one chosen? | holds |
| `training_dag` | Does the training mart follow the committed batches in the end, if none of them is refused by a test? | holds |
| `threshold` | Is every false alert of the chosen threshold needed for the frauds it catches? | violated |

### What the violated ones say

- **`ingestion_replay`** is a defect. `load_batch` counts the valid files, compares, and inserts with
  a second read. If the landing query died after the manifest’s marker and before the checkpoint
  commit, its restart deletes the valid files of a batch the DAG regards as published. Falling
  between count and insert, this commits a batch without its rows, for good. `landing_replay` is
  the half of it inside the landing job: “immutable MinIO landings” are not.
  `CommittedAsPublished` shows that this is the only way: without such an overwrite what is
  committed is what was published, however many crashes came before the marker.
- **`quality_retry`**: an at-least-once insert into a table documented as one physical row per key.
- **`training_stale`**: validation and snapshot are two queries with a scheduled rebuild between them.
  The row-level checks of dbt make a bad population unlikely; nothing compares the two.

- **`threshold`**: `select_threshold` takes the first of the thresholds with the best recall among those
  that are precise enough, and the curve ascends in thresholds. So it takes the lowest, down to where
  precision is just above the limit, and raises alerts that no caught fraud needs. The
  notebook explains these alerts as the price of the last fraud. `NoFraudWasted` shows that the rule
  never misses a fraud it could have caught.

### What holds, and is not obvious

- `ContentKept` and `TrainedOnCommitted`: the canonical row of a key changes with every late batch of
  lower offsets, and overlapping builds put tables of different moments together; a row of the training mart is
  the same row all the time nevertheless, for a second version makes it a conflict first.
- `ComparedAlike` rests on that. The fingerprint is of key, time and label only; rows under an equal
  fingerprint can differ in their features only if the mart can show two versions of a row.
- `EventuallyLoaded`: the sorted list is cut to `MAX_BATCHES_PER_RUN` after committed batches have been left
  out of it, so a batch is kept out for ever only by as many batches before it that never load
  (`Starved`). That does happen: without this exception the property is violated, in the model as in the code.
- `EventuallyFresh`: what can keep the mart behind for ever is what a test of the build refuses whenever it is
  queried (`Refused`): a label without its transaction, a blank `source` or `event_id`, a canonical
  row whose type is not one of PaySim’s five, a raw label whose flags are not 0 or 1. Nothing before dbt looks at
  these values: the Avro fields are plain strings and numbers, the landing jobs check times and steps. The
  first and the third end when later batches bring the transaction or a canonical row with another type. Nothing
  else keeps the mart behind, not a batch committed between two queries, and not
  another build either that puts older tables back.
- `FeaturesClean`: no model is fitted on the target, the event time or a column the contract prohibits,
  although no command compares contract and configuration: schema, projection and loader keep them out
  between them. The other `non_feature_columns` of the contract, as `step`, nobody enforces.
- `WinnerUnbeaten`: tolerances are applied one after the other, so the winner is within each of the
  best of those the tolerance before has left.

### Bounds, and why they are enough

- *Loader*: three batches, of which a run takes two (`MAX_BATCHES_PER_RUN`). The first of the list is sound, or its
  manifest counts no row of the valid directory, or is empty; the second is sound, or has a row that does not
  convert, or has fewer rows than are counted; the third, of the pipeline of the second, can be loaded. So the
  cut leaves a batch out, the two it takes may both be of those that never load, and then the third
  starves: `EventuallyLoaded` excepts just that (`Starved`), and fails without the exception. Tasks run one at
  a time, fewer than are selected, so that some are queued; tasks of different batches touch
  nothing in common (`LoadTouchesOne`, in the proofs). Two
  faults allow a lost answer and then a second one during the retry, or a task that fails for good and is
  selected again by the next run; a third repeats the pattern (`CopiesCostFaults` is proved for every number).
  `MaxCopies` is past what two faults reach. The run *Ingestion* has the cut too, with one batch of two.
- *Landing*: three messages in batches of up to two, so that a batch can follow a replayed one
  and have one or two rows; six kinds of message reach every way out of routing; a schema
  registered between two tries; a crash at any step. A second crash repeats a replay.
- *Ingestion*: two messages, two batches, a crash, a fault and a retry: the crash can come
  after the marker and the fault at any call around it. The violation needs one message.
- *Producer*: a queue of two, less than what a row and its successor need; two replays, each
  with any of the arguments; a row of another step, so that counting by step matters.
- *Training*: two directories and two run ids allow a manifest, a model, a cache and objects of
  different runs. Of ten configurations three train models, which differ by boundaries alone or by the
  kind of model, one has the event time as a feature, one a feature that does not convert, five are refused,
  each by another rule. Of four contracts one fits the schema. Of two populations one has rows
  without lineage and cannot be split under the other boundaries.
  Directories and run ids are symmetric; no liveness is checked there.
- *Experiment*: two batches of transactions and one of labels in any order: a late batch with a lower
  offset and another amount, a copy, an invalid amount, two labels of a key, a row past the end of
  the test split. Two builds overlap, one of the script and the scheduled one, which is
  started again and again; one of all builds is killed. Two candidates, whose scores make the
  recall, its tolerance, PR-AUC or the precision decide. Tests that no row of the instance can fail are
  left out of the nodes. `Scale` is a multiple of the denominators that occur.
- *TrainingDag*: one key, a transaction with an unknown type, the same with a known one at a lower offset, and a
  label, in batches that are committed in any order or never: an orphan that ends and one that does not, an
  unknown type that is canonical until the other batch comes, a conflict, and a table put back by a
  slower build. One candidate, no summary (nothing reads it). Blank keys and bad flags are refused
  for good, and behaviours with one satisfy the property whatever the code does, so the instance has
  none, nor the tests that only they can fail. With the orphan as the only exception the property is violated.
- *Threshold*: one key without flaws, one candidate.

`CHECK_DEADLOCK FALSE` is set where the bounds let the system stop: `Landing` with all its messages
landed and its crashes used, `Producer` after its last replay.

### Fairness

- `Loader`: the scheduler starts a run every minute and Airflow keeps running its tasks (weak
  fairness of the stages of a run and of the steps of each task). None for publication or faults.
- `Landing`: a query that is up works on. That a stopped query is started again is an assumption
  about the operator, for the code has no supervisor of it: `spark-submit` is run by hand.
- `Ingestion`: both.
- `Producer`: the program takes its steps and each message is answered or expires, which
  `delivery.timeout.ms` guarantees. No message need ever be delivered, and a flush need not time out.
- `TrainingDag`: Airflow starts the scheduled build every five minutes and works on it (weak fairness
  of its start or its next step). Nothing is assumed of the training DAG or the script, which may stop
  with tables in hand; builds are not killed for ever, and no batch need be committed.

## 4. What is proved

Every safety invariant and every action property of the runs that pass is a theorem, for every value
of the constants: no bound on rows, messages, batches, files, builds, candidates, crashes, faults or
retries is used but as a parameter. Each component has one inductive invariant, which names what
its steps have established at each place in the code; the properties follow from it.

### The landing query

`LandingProofs` proves, for every log and routing of its messages, every sequence of schema
registrations, and any number of crashes:

| Theorem | Says |
| --- | --- |
| `LandingTypes` | `TypeOK` |
| `LandingAccounts` | `CommittedAccounted`: a batch the checkpoint calls done is whole |
| `LandingOnce` | `OffsetsOnce`: a coordinate is in the directories of one batch |
| `LandingMarksLast` | `MarkerLast`: the marker appears on a batch that is whole |

*Argument.* A batch is whole when its two data directories divide its offset range and the manifest
counts them. None of the properties is inductive, for none says what a death leaves behind.
`LandingInv` adds that the checkpoint is at most one planned batch ahead of its commits (`Stage`), that a directory
holds nothing outside the range of its batch, and nothing at all for a batch that was never planned
(`InOwnRange`), and for the batch under way which of its directories are already what the catalog of *this*
query makes of the range (`WrittenSoFar`). A query that is started again has another catalog and none of
these facts, and has to write all three directories before it can commit. Ranges follow each
other, so a row in two directories is in one range (`RangesDisjoint`, `LandingOnce`). That a manifest adds up
needs no sum: `Total` is the number of pairs of a manifest row and a number up to its count, and
these pairs match the messages of the group one to one (`TotalOfGroups`).

### The ingestion DAG

`LoaderProofs` proves, for every set of batches, rows, manifest keys and landings, and
every limit, retry count and number of faults:

| Theorem | Says |
| --- | --- |
| `TypeCorrect` | `TypeOK` |
| `AcceptedReconcilesAlways` | a committed batch has the rows its manifest counts, and rows of its files |
| `CommittedHasQualityAlways` | its manifest is in the warehouse before it |
| `CopiesCostFaultsAlways` | copies cost a fault each |
| `CommittedIsClosedAlways` | a committed batch is touched by the run that committed it only |
| `LoaderImplementsAtomicLoad` | `Loader` implements `AtomicLoad` under the mapping of `ImplementsAtomicLoad` |

*Assumptions*: `BatchIds` and `Rows` are finite, `BatchIds` are naturals, landings have the shape of
landings, limits are positive (`BatchIdsAssumption`, `RowsAssumption`, `LoaderAssumption`). TLC
evaluates all of them.

*Argument.* `TypeOK` is not inductive: a queued task must have an attempt left and a manifest must
be one of the batch’s landings, which makes `TypeInv`. `AcceptedReconciles` is not inductive
either: nothing in it says why a task about to record success may do so. `LoadInv` (`BatchInv` for
every batch) adds what each stage has established: past the summary the manifest is sound and
`claimed` is its count; past the count the directory has that many rows; at “quality” all
accepted rows are in the raw table, and no other rows ever were; at “success” the manifest is in the
quality table. A step of a task touches one batch (`LoadTouchesOne`), so that the proof looks at
one `BatchInv` per action. `CopiesInv` says that the copies of a row never exceed the faults, plus
one while an attempt that inserted is still under way or has succeeded; each further attempt was paid
for by a fault. The refinement maps `committed` to the ledger and `visible` to the rows of
committed batches: all steps but `Publish` and `RecordSuccess` stutter, a retry after a lost
answer too, because `LoadInv` has the inserted rows in place already.

### Both together

`IngestionProofs` instantiates both proof modules and proves of the composition:

| Theorem | Says |
| --- | --- |
| `LandingInIngestion` | what is proved of the landing query holds next to the DAG |
| `IngestionTypes` | `TypeOK` |
| `IngestionOneBatch` | `RowsOfOneBatch`: a coordinate is loaded under one batch |
| `IngestionAsPublished` | `CommittedAsPublished`: unless overwritten while published, a committed batch is what was published |

*Argument.* The DAG writes nothing of the landing query, so that the latter implements its own
specification. The converse is false, which is the finding of `ingestion_replay`: the DAG relies on directories
that do not change, and they do. So `IngestionInv` keeps the DAG’s `BatchInv` for the batches that are
published and not in `rewritten`, for which the directories are whole and stay as they are; for all
others it keeps only that whatever was loaded is in the batch’s offset range. `LoaderProofs` states what a
step does to one batch in lemmas about that batch (`BatchInvRun`, `UntouchedKeeps`), so that they can be
used of a batch whatever is the matter with the others.

*Assumptions*: those of the two sides for the constants they share (`IngestionAssumption`).

### The producer

`ProducerProofs` proves, for every file, queue size, arguments of a replay and number of replays:

| Theorem | Says |
| --- | --- |
| `ProducerTypes` | `TypeOK`, with the bound of the queue |
| `ProducerDelivers` | `DoneMeansDelivered` |
| `ProducerEventTimes` | `EventTimeDeterministic` |

*Argument.* `DoneMeansDelivered` is about counters that callbacks change, and about messages that leave
the queue in two ways. `ProducerInv` keeps the account: a message is in the queue or has one report,
never both (`Apart`); queue, reports and counters together number what was produced (`Balanced`); and
as long as nothing failed, a produced message is in the queue, in the log of this session, or has a bad report
(`Accounted`). After a flush with an empty queue and no failure only the log is left. `Numbered` says that
the ordinals are those of a reader who counts from the start of the file, skipped rows included, so the event
time is a function of the row (`TransactionOf`); lemmas about whole division (`QuotientUnique`,
`QuotientBelow`) put it into the hour of its step.

### The ML commands

`TrainingProofs` proves, for every set of populations, configurations, contracts, directories and
run ids, and any sequence of commands that die anywhere:

| Theorem | Says |
| --- | --- |
| `TrainingTypes` | `TypeOK` |
| `TrainingEvaluationHonest` | `EvaluationHonest` |
| `TrainingTraceable` | `Traceable` |
| `TrainingWrittenOnce` | `WrittenOnce` |
| `TrainingFeaturesClean` | `FeaturesClean` |

*Assumptions*: rows are finitely many and have the shape of rows; split boundaries are integers; `None` is
no set of rows, command or manifest (`TrainingAssumption`).

*Argument.* `TrainingInv` says of each kind of file what it is worth on its own: a manifest counts the splits of
its rows, which are stored where it says (`Sound`, `Stored`); a model was fitted on the splits of its
manifest, by a configuration that agrees with it (`Fitted`); an evaluation tested that model on the test split of that
manifest (`Tested`). `Stage` says what the command under way has checked of its inputs, step by step. Each
step keeps the files that are there, so what a command has read stays true while it works, and a file found by
a later command is as good as when it was written, whoever died in between. The cache need not be
right: a command that uses it has compared it with its manifest (`pc = "splits"` in `Stage`). That the splits which are
counted when a snapshot is written are the ones that are loaded, by other code, is `SplitsAgree`: no row of a
snapshot is later than its end. `FeaturesClean` goes from the schema a contract is checked against, over
the projection of the snapshot, to the columns a model is fitted on.

### The marts and the experiment

`MartsProofs` and `ExperimentProofs` prove, for every set of keys, batches and rows, any number of
overlapping builds that die any number of times, with or without the summary, and any number of candidates:

| Theorem | Says |
| --- | --- |
| `MartsTypeCorrect` | `TypeOK` |
| `MartsTrainOnCommitted` | `TrainedOnCommitted`: rows of the mart are valid committed versions |
| `MartsKeepContent` | `ContentKept`: a row that stays in the mart stays the same |
| `MartsReconcile` | `AloneReconciles`: a build that ran alone leaves marts derived from each other |
| `SelectionUnbeaten` | `SelectCandidate` yields an unbeaten candidate, for any metrics and tolerances |
| `ExperimentIsABuilder` | `Experiment` implements `Marts` |
| `ExperimentMarts` | the first four hold with the script at work |
| `CandidatesComparedAlike` | `ComparedAlike` |
| `WinnerIsUnbeaten` | `WinnerUnbeaten` |
| `WinnerWastesNoFraud` | `NoFraudWasted` |

*Assumptions*: batches are named by pipeline and a natural, have an offset once, rows are finitely many
(`MartsAssumption`), an empty `event_id` is blank; builds select every model but perhaps the summary, the orphan
test and any of the other tests (`NodesAssumption`: `--select +tag:training` takes ancestors and all tests with it,
an instance may leave out those its rows cannot fail); the constants of the script have the
shape of `ExperimentAssumption`, scores are not negative and samples finitely many; PR-AUC is within `0..Scale`
(`SheetAssumption`): it is a fold over a set and out of the prover’s reach. For precision, recall and alert rate
this is proved (`SelectedMetrics`). TLC evaluates all of them.

*Argument.* `TrainedOnCommitted` is not inductive: a query of the mart reads a table that an older query
has left, perhaps one of another build. `MartsInv` is about every table, those in the hands of builds
included. `AllSound` says that each has the shape of its model’s answers and that an eligible row
shows no conflict. `AllSettled` says that what a table shows of a key without a conflict is *settled*:
a committed version of the key, and no table or hand shows another one without one. Every step inherits
tables or adds the answer of one query (`Inherited`); versions are only ever added, so that a
query finds either the settled version alone or a conflict (`OneVersion`, `QueryClean`); a settled
value stays settled (`SettledStays`). A canonical row exists because offset and batch id order the rows of
a key (`CanonicalRow`). The snapshots of the script keep settled values (`ScriptInv`), so two with the
same fingerprint have the same keys and on each the settled version: they are equal.

`AloneReconciles` says nothing of a build halfway. `AloneDerives` does: while a build is alone, each
table it has finished, and each it holds in hand, is what its query says *now* of the tables in place, because those it reads
are finished and a finished model is not built again. The fact tables are excepted, whose rows
keep being committed; that the orphan test passed is remembered of the two as they are. The counts of the summary need
that the keys of rows are finitely many (`FiniteKnown`).

`NoFraudWasted` goes through both selections. If some threshold of a candidate is precise, the chosen one is, and
catches as many frauds (`SelectedThreshold`); its precision, rounded down, still meets the minimum
(`RateAtLeast`), so that the candidate is one the notebook selects from (`PreciseCandidate`), and the winner recalls as much but
for the tolerance (`SelectionUnbeaten`). The rate of the difference is at most the difference of the rates
(`RateGap`), so rounding does not add to the tolerance.

### Only model-checked

- Liveness (`EventuallyLoaded`, `EventuallyLanded`, `EventuallyIngested`, `EventuallyStopped`, `EventuallyFresh`): the
  prover has no support for `ENABLED`, and with it for fairness.
- That PR-AUC is within its scale: a fold over a set, which would need induction over sets.
- The violated properties, which are refuted and not proved.

No module declares a recursive operator.

## 5. Limits

- Publication is atomic in `Loader`; `Ingestion` shows what that hides.
- A directory is listed and read in one step by each query of the DAG; a query that overlaps an
  overwrite sees the files before or after a step of it, never a mixture within one step.
- One DAG run at a time (`max_active_runs=1`) and one ML command at a time, as scheduled. Two
  commands with one run id could both find an object missing before they upload it.
- Only the end of an upload, of an insert or of a file replacement is a step; partial inserts are
  modelled (ClickHouse applies an insert by parts), partial objects are not (S3 has none).
- Each build works on tables of its own until it exchanges them. How dbt-clickhouse names them, and so
  whether two builds of one model could meet in an intermediate table, is not in the repository.
- Rows of a batch that is not committed are in the raw tables from the start: no model reads them.
- A query of a model is one read. `int_transactions_ranked.sql:27-61` reads its rows twice, for `key_stats` and for
  `ranked`; were a batch committed between the two reads of one query, a canonical row could stand beside an older count
  of versions, which `ContentKept` and `ComparedAlike` take to be impossible.
- An INSERT whose answer is lost has taken effect, or not, by the time the client sees the error; one still
  running in the server while the retry begins is not modelled. `CommittedIsClosed` and `CopiesCostFaults` rest on that.
- `CopiesCostFaults` is of batches without rows that do not convert: nothing bounds the copies the others leave.
- Of the tests of a build, those are left out that nothing the pipeline writes can fail: `not_null` of columns
  that admit no null, the statuses and pipelines of the ledger, and `assert_ingestion_quality_reconciles`, for `load_batch` checks
  every manifest row first. All rows are of the one source the contract expects.
- `Training` compares with the end of the test split exactly; `dataset_snapshot.py:134` truncates it to seconds. A
  model is trained into the directory of its manifest, though `--dataset-manifest` and `--output` could differ.
- Timing: schedules, delays and timeouts are nondeterministic.
