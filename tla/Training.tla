------------------------------ MODULE Training ------------------------------
(***************************************************************************)
(* ml/src/fraudguard_ml: the commands that take the training mart to an    *)
(* evaluated model: validate-training-data, snapshot-training-dataset,     *)
(* diagnose-training-splits, train and evaluate. They hand each other      *)
(* files: a contract artifact, a snapshot with its manifest, a model       *)
(* bundle. A command can die between any two of its writes and can be run  *)
(* again, with any of the files there are. The scheduled dbt build         *)
(* replaces the mart meanwhile: each query finds any of Populations in it. *)
(*                                                                         *)
(* One command runs at a time (the training DAG and run_experiment.sh are  *)
(* sequential). A configuration is its file, a hash is what it is the hash  *)
(* of.                                                                     *)
(***************************************************************************)
EXTENDS Configuration

CONSTANTS Dirs,         \* output directories
          Runs,         \* run ids: the prefixes of the objects
          Contracts,    \* data contracts that may be given, good or bad, by file
          Experiments,  \* and configurations
          Populations,  \* contents dbt builds the mart with: sets of rows
          None

Splits == {"train", "validation", "test"}
Objects == {"data", "manifest", "artifact"}

Time == [r \in DOMAIN Row |-> Row[r].time]
Fraud == [r \in DOMAIN Row |-> Row[r].fraud]

(* load_yaml_config *)
Configs == {c \in DOMAIN Experiments : ValidExperiment(Experiments[c])}
Config == [c \in Configs |-> Experiments[c]]
Names == {Config[c].name : c \in Configs}

(* Configurations whose columns the mart has, whose features are read, and from which
   a model can be fitted. *)
Answered == {c \in Configs : Selectable(Config[c].dataset)}
Framed == {c \in Configs : Readable(Config[c].dataset)}
Fitting == {c \in Framed : Convertible(Config[c].dataset)}

(* The contracts whose schema the mart has, and the verdict under each on what it may
   hold. *)
Applicable == {k \in DOMAIN Contracts : ValidContract(Contracts[k]) /\ ExactSchema(Contracts[k])}
Covered == [k \in Applicable |-> Contracts[k].relation]
Verdicts == {<<k, pop, Meets(pop, Contracts[k])>> : k \in Applicable, pop \in Populations}

VARIABLES
    (* files, by output directory *)
    artifact, data, manifest, diagnostics, model, metrics, evaluation,
    (* shared *)
    cache,        \* downloaded snapshot, by experiment name
    objects,      \* object storage, by experiment name, run id and file
    (* the command under way *)
    cmd,          \* its name and arguments
    pc,           \* its next step
    hand          \* the rows it has read

files == <<artifact, data, manifest, diagnostics, model, metrics, evaluation>>
command == <<cmd, pc, hand>>
vars == <<files, cache, objects, command>>

-----------------------------------------------------------------------------
(* The arguments of a command, and what a contract artifact and a manifest hold. *)

Command ==
    [op : {"validate"}, dir : Dirs, contract : Applicable]
    \cup [op : {"snapshot"}, dir : Dirs, run : Runs, config : Answered, from : Dirs]
    \cup [op : {"diagnose", "train", "evaluate"}, dir : Dirs, config : Configs, from : Dirs]

Artifact == [contract : Applicable, validated : SUBSET DOMAIN Row]

Manifest ==
    [created : Dirs, name : Names, run : Runs, snapshot : SUBSET DOMAIN Row,
     relation : Relations,
     features : {Config[c].dataset.features : c \in Configs},
     bounds : Int \X Int \X Int,
     split_statistics : [Splits -> [row_count : Nat, fraud_count : Nat]],
     contract : Artifact]

(* A mart is finite, the boundaries of a split are instants, and the None of a file that
   is not there is nothing a file may hold. *)
ASSUME TrainingAssumption ==
    /\ UNION Populations \subseteq DOMAIN Row
    /\ IsFiniteSet(DOMAIN Row)
    /\ \A c \in Configs :
          Config[c].split \in [train_end : Int, validation_end : Int, test_end : Int]
    /\ \A rows \in SUBSET DOMAIN Row : None # rows
    /\ None \notin Command /\ None \notin Manifest

-----------------------------------------------------------------------------
(* Splitting: by update_split_stats when the snapshot is written, by the
   filters of load_dataset_splits when it is read. *)

Boundaries(c) ==
    LET split == Config[c].split IN <<split.train_end, split.validation_end, split.test_end>>

Counted(pop, bounds) ==
    [train      |-> {r \in pop : Time[r] <= bounds[1]},
     validation |-> {r \in pop : Time[r] > bounds[1] /\ Time[r] <= bounds[2]},
     test       |-> {r \in pop : Time[r] > bounds[2]}]

Loaded(pop, bounds) ==
    [train      |-> {r \in pop : Time[r] <= bounds[1]},
     validation |-> {r \in pop : Time[r] > bounds[1] /\ Time[r] <= bounds[2]},
     test       |-> {r \in pop : Time[r] > bounds[2] /\ Time[r] <= bounds[3]}]

(* MutableStats *)
Statistics(rows) ==
    [row_count   |-> Cardinality(rows),
     fraud_count |-> Cardinality({r \in rows : Fraud[r] = 1})]

(* "every split must contain rows and fraud positives" *)
Splittable(pop, c) ==
    \A s \in Splits : Statistics(Counted(pop, Boundaries(c))[s]).fraud_count # 0

-----------------------------------------------------------------------------
NoFile == [d \in Dirs |-> None]

Init ==
    /\ artifact = NoFile /\ data = NoFile /\ manifest = NoFile /\ diagnostics = NoFile
    /\ model = NoFile /\ metrics = NoFile /\ evaluation = NoFile
    /\ cache = [n \in Names |-> None]
    /\ objects = [o \in Names \X Runs \X Objects |-> None]
    /\ cmd = None
    /\ pc = "idle"
    /\ hand = {}

(* A command that starts takes its first step, or fails in it without effect. *)
Idle == pc = "idle"

Start(arguments, next) == cmd' = arguments /\ pc' = next

Continue(next) == pc' = next /\ UNCHANGED <<cmd, hand>>

End == pc' = "idle" /\ cmd' = None /\ hand' = {}

(* The process dies, a request fails, or a check that is not modelled does. *)
Die ==
    /\ pc # "idle"
    /\ End
    /\ UNCHANGED <<files, cache, objects>>

(* "refusing to overwrite": a file is written once, or the command fails.
   Mutant: it is written whenever the command gets there. *)
WriteAgain(file, content, next) ==
    file' = [file EXCEPT ![cmd.dir] = content] /\ next

WriteOnce(file, content, next) ==
    IF file[cmd.dir] = None
    THEN file' = [file EXCEPT ![cmd.dir] = content] /\ next
    ELSE UNCHANGED file /\ End

-----------------------------------------------------------------------------
(* validate-training-data. Mutant: a population that breaks the contract is
   reported, and certified all the same. *)
CheckContractLenient(d, k) ==
    /\ Start([op |-> "validate", dir |-> d, contract |-> k], "artifact")
    /\ hand' \in Populations
    /\ UNCHANGED <<files, cache, objects>>

CheckContract(d, k) ==
    /\ Start([op |-> "validate", dir |-> d, contract |-> k], "artifact")
    /\ hand' \in {pop \in Populations : <<k, pop, TRUE>> \in Verdicts}
    /\ UNCHANGED <<files, cache, objects>>

WriteArtifact ==
    /\ pc = "artifact"
    /\ WriteOnce(artifact, [contract |-> cmd.contract, validated |-> hand], End)
    /\ UNCHANGED <<data, manifest, diagnostics, model, metrics, evaluation, cache, objects>>

-----------------------------------------------------------------------------
(* snapshot-training-dataset *)

(* One query reads the population up to the end of the test split into a
   temporary file. The run id is an argument apart from the directory. *)
StreamSnapshot(d, r, c, from) ==
    /\ artifact[from] # None
    /\ Covered[artifact[from].contract] = Config[c].dataset.relation
    /\ data[d] = None
    /\ Start([op |-> "snapshot", dir |-> d, run |-> r, config |-> c, from |-> from], "expose")
    /\ \E pop \in Populations : hand' = {row \in pop : Time[row] <= Config[c].split.test_end}
    /\ hand' # {}
    /\ UNCHANGED <<files, cache, objects>>

(* The file is in its place before the splits are looked at. *)
ExposeSnapshot ==
    /\ pc = "expose"
    /\ data' = [data EXCEPT ![cmd.dir] = hand]
    /\ IF Splittable(hand, cmd.config) THEN Continue("upload_data") ELSE End
    /\ UNCHANGED <<artifact, manifest, diagnostics, model, metrics, evaluation, cache, objects>>

Uri(o) == <<Config[cmd.config].name, cmd.run, o>>

(* upload_file_immutable: upload once; what is there must be the same. Mutant:
   what is there is replaced. *)
UploadOverwriting(o, content, next) ==
    objects' = [objects EXCEPT ![Uri(o)] = content] /\ next

Upload(o, content, next) ==
    IF objects[Uri(o)] \in {None, content}
    THEN objects' = [objects EXCEPT ![Uri(o)] = content] /\ next
    ELSE UNCHANGED objects /\ End

UploadData ==
    /\ pc = "upload_data"
    /\ Upload("data", data[cmd.dir], Continue("manifest"))
    /\ UNCHANGED <<files, cache>>

(* created_at_utc tells two manifests with the same contents apart: here the
   directory does, of which each has one manifest. *)
ManifestOf ==
    [created  |-> cmd.dir,
     name     |-> Config[cmd.config].name,
     run      |-> cmd.run,
     snapshot |-> data[cmd.dir],
     relation |-> Config[cmd.config].dataset.relation,
     features |-> Config[cmd.config].dataset.features,
     bounds   |-> Boundaries(cmd.config),
     split_statistics |-> [s \in Splits |-> Statistics(Counted(hand, Boundaries(cmd.config))[s])],
     contract |-> artifact[cmd.from]]

WriteManifest ==
    /\ pc = "manifest"
    /\ WriteOnce(manifest, ManifestOf, Continue("upload_manifest"))
    /\ UNCHANGED <<artifact, data, diagnostics, model, metrics, evaluation, cache, objects>>

UploadManifest ==
    /\ pc = "upload_manifest"
    /\ Upload("manifest", manifest[cmd.dir], Continue("upload_artifact"))
    /\ UNCHANGED <<files, cache>>

UploadArtifact ==
    /\ pc = "upload_artifact"
    /\ Upload("artifact", artifact[cmd.from], End)
    /\ UNCHANGED <<files, cache>>

-----------------------------------------------------------------------------
(* load_snapshot_context, the first half of diagnose, train and evaluate. *)

(* verify_manifest_config *)
Configured(m, c) ==
    /\ m.relation = Config[c].dataset.relation
    /\ m.features = Config[c].dataset.features
    /\ m.bounds = Boundaries(c)

(* materialize_snapshot: the cached file, or else the stored one. *)
Found(m) ==
    IF cache[m.name] # None THEN cache[m.name] ELSE objects[<<m.name, m.run, "data">>]

(* A command reads the manifest in the directory from: its own (the scripts and
   the DAG), or for evaluate that of any other. A cached file with another hash
   stays and fails every command that finds it, a downloaded one is removed. *)
Materialize(op, d, c, from) ==
    /\ manifest[from] # None
    /\ Found(manifest[from]) = manifest[from].snapshot
    /\ Start([op |-> op, dir |-> d, config |-> c, from |-> from], "splits")
    /\ cache' = [cache EXCEPT ![manifest[from].name] = Found(manifest[from])]
    /\ UNCHANGED <<files, objects, hand>>

Given == manifest[cmd.from]

(* "temporal split is empty" *)
ReadSplits ==
    /\ pc = "splits"
    /\ LET rows == cache[Given.name]
       IN  IF /\ Configured(Given, cmd.config)
              /\ cmd.config \in Framed
              /\ \A s \in Splits : Loaded(rows, Given.bounds)[s] # {}
           THEN /\ hand' = rows
                /\ pc' = CASE cmd.op = "diagnose" -> "diagnostics"
                           [] cmd.op = "train"    -> "model"
                           [] cmd.op = "evaluate" -> "evaluation"
                /\ UNCHANGED cmd
           ELSE End
    /\ UNCHANGED <<files, cache, objects>>

Frames == Loaded(hand, Given.bounds)

-----------------------------------------------------------------------------
(* basic_split_summary *)
Summary == [s \in Splits |-> Statistics(Frames[s])]

WriteDiagnostics ==
    /\ pc = "diagnostics"
    /\ WriteOnce(diagnostics, Summary, End)
    /\ UNCHANGED <<artifact, data, manifest, model, metrics, evaluation, cache, objects>>

(* fit_probability_model *)
BinaryTarget(rows) == {Fraud[r] : r \in rows} = {0, 1}

Trainable(frames, c) ==
    c \in Fitting /\ BinaryTarget(frames["train"]) /\ BinaryTarget(frames["validation"])

ScalePosWeight(rows) ==
    <<Cardinality({r \in rows : Fraud[r] = 0}), Cardinality({r \in rows : Fraud[r] = 1})>>

(* Preprocessor and estimator are fitted on the train split. *)
FitLogistic(frames) ==
    [kind |-> "logistic_regression", fitted |-> frames["train"], stopped |-> {}, weight |-> <<1, 1>>]

(* The validation split stops the boosting. Mutant: the preprocessor is fitted on
   both. *)
FitXGBoostOnBoth(frames, strategy) ==
    [kind |-> "xgboost", fitted |-> frames["train"] \cup frames["validation"],
     stopped |-> frames["validation"], weight |-> <<1, 1>>]

FitXGBoost(frames, strategy) ==
    [kind |-> "xgboost", fitted |-> frames["train"], stopped |-> frames["validation"],
     weight |-> IF strategy = "train_ratio" THEN ScalePosWeight(frames["train"]) ELSE <<1, 1>>]

(* train_and_select_threshold: the validation split selects the threshold. *)
Bundle ==
    [manifest |-> Given, features |-> Config[cmd.config].dataset.features, tuned |-> Frames["validation"],
     fit |-> IF Config[cmd.config].model.kind = "xgboost"
             THEN FitXGBoost(Frames, Config[cmd.config].model.imbalance_strategy)
             ELSE FitLogistic(Frames)]

WriteModel ==
    /\ pc = "model"
    /\ IF Trainable(Frames, cmd.config) THEN WriteOnce(model, Bundle, Continue("metrics"))
       ELSE UNCHANGED model /\ End
    /\ UNCHANGED <<artifact, data, manifest, diagnostics, metrics, evaluation, cache, objects>>

WriteMetrics ==
    /\ pc = "metrics"
    /\ WriteOnce(metrics, Given.name, End)
    /\ UNCHANGED <<artifact, data, manifest, diagnostics, model, evaluation, cache, objects>>

(* evaluate: the checks of evaluate_test_split *)
Matches(bundle, m, c) ==
    /\ bundle.manifest = m
    /\ bundle.features = Config[c].dataset.features
    /\ bundle.fit.kind = Config[c].model.kind

WriteEvaluation ==
    /\ pc = "evaluation"
    /\ LET bundle == model[cmd.dir]
       IN  IF bundle # None /\ Matches(bundle, Given, cmd.config)
           THEN WriteOnce(evaluation,
                    [model |-> bundle, manifest |-> Given, tested |-> Frames["test"]], End)
           ELSE UNCHANGED evaluation /\ End
    /\ UNCHANGED <<artifact, data, manifest, diagnostics, model, metrics, cache, objects>>

-----------------------------------------------------------------------------
ValidateTrainingData ==
    \/ Idle /\ \E d \in Dirs, k \in Applicable : CheckContract(d, k)
    \/ WriteArtifact

SnapshotTrainingDataset ==
    \/ Idle /\ \E d, from \in Dirs, r \in Runs, c \in Answered : StreamSnapshot(d, r, c, from)
    \/ ExposeSnapshot \/ UploadData \/ WriteManifest \/ UploadManifest \/ UploadArtifact

Diagnose ==
    \/ Idle /\ \E d \in Dirs, c \in Configs : Materialize("diagnose", d, c, d)
    \/ WriteDiagnostics

Train ==
    \/ Idle /\ \E d \in Dirs, c \in Configs : Materialize("train", d, c, d)
    \/ WriteModel \/ WriteMetrics

Evaluate ==
    \/ Idle /\ \E d, from \in Dirs, c \in Configs : Materialize("evaluate", d, c, from)
    \/ WriteEvaluation

Next ==
    \/ ValidateTrainingData
    \/ SnapshotTrainingDataset
    \/ Diagnose \/ Train \/ Evaluate \/ ReadSplits
    \/ Die

Spec == Init /\ [][Next]_vars

-----------------------------------------------------------------------------
(* The columns a contract leaves for a model. *)
Features ==
    [k \in Applicable |-> NamesOf(Schema[Contracts[k].relation])
                             \ ({Target, EventTime} \cup Range(Contracts[k].prohibited))]

Steps == {"idle", "artifact", "expose", "upload_data", "manifest", "upload_manifest",
          "upload_artifact", "splits", "diagnostics", "model", "metrics", "evaluation"}

(* Every variable has its type, contract artifacts are issued for populations that
   meet the contract, and what a command holds are rows of the mart. *)
TypeOK ==
    /\ \A d \in Dirs :
          /\ artifact[d] # None => <<artifact[d].contract, artifact[d].validated, TRUE>> \in Verdicts
          /\ data[d] # None => data[d] # {} /\ data[d] \subseteq DOMAIN Time
          /\ manifest[d] # None => manifest[d] \in Manifest
          /\ model[d] # None => model[d].fit.fitted \cup model[d].tuned \subseteq DOMAIN Time
          /\ evaluation[d] # None => evaluation[d].tested \subseteq DOMAIN Time
    /\ \A n \in Names : cache[n] = None \/ cache[n] \subseteq DOMAIN Time
    /\ pc \in Steps
    /\ cmd \in Command \cup {None}
    /\ pc = "idle" <=> cmd = None
    /\ pc \in {"expose", "upload_data", "manifest"} => hand # {}
    /\ hand \subseteq DOMAIN Time

(* "evaluate on a test set never used to select the model or the threshold"
   (README): whatever manifests, models and caches are mixed on the command line,
   an evaluation that is written tests the model on the test split of the very
   snapshot whose train split it was fitted on ("without leaking validation into
   preprocessing") and whose validation split stopped and tuned it; the splits have
   as many rows and frauds as the snapshot's manifest counts, and so say the
   diagnostics. *)
EvaluationHonest ==
  /\ \A d \in Dirs : diagnostics[d] # None => diagnostics[d] = manifest[d].split_statistics
  /\ \A d \in Dirs : evaluation[d] # None =>
        LET e == evaluation[d]
            splits == Loaded(e.manifest.snapshot, e.manifest.bounds)
            used == e.model.fit.fitted \cup e.model.fit.stopped \cup e.model.tuned
        IN  /\ e.tested \cap used = {}
            /\ e.tested = splits["test"]
            /\ e.model.fit.fitted = splits["train"]
            /\ e.model.tuned = splits["validation"]
            /\ \A s \in Splits : Statistics(splits[s]) = e.manifest.split_statistics[s]

(* "train does not contain feature leakage" (README): what a model is fitted on are
   columns of the schema the contract was checked against, never the target, the
   event time or a column the contract prohibits, although no command compares
   contract and configuration. *)
FeaturesClean ==
    \A d \in Dirs : model[d] # None =>
        Range(model[d].features) \subseteq Features[model[d].manifest.contract.contract]

(* Every manifest, and so every model, leads to a stored snapshot with the rows
   it names, in whatever order commands died and were run again; what the object
   store has of a run is a prefix of snapshot, manifest, contract artifact. *)
Traceable ==
    /\ \A d \in Dirs : manifest[d] # None =>
          LET m == manifest[d] IN objects[<<m.name, m.run, "data">>] = m.snapshot
    /\ \A d \in Dirs : model[d] # None =>
          LET m == model[d].manifest IN objects[<<m.name, m.run, "data">>] = m.snapshot
    /\ \A n \in Names, r \in Runs :
          LET m == objects[<<n, r, "manifest">>] IN
          /\ m # None => objects[<<n, r, "data">>] = m.snapshot
          /\ objects[<<n, r, "artifact">>] # None =>
                m # None /\ m.contract = objects[<<n, r, "artifact">>]

(* Nothing that was written is written again, on disk or in the object store,
   however often a command is run. *)
WrittenOnce ==
    [][/\ \A d \in Dirs :
             /\ artifact[d] # None => artifact'[d] = artifact[d]
             /\ data[d] # None => data'[d] = data[d]
             /\ manifest[d] # None => manifest'[d] = manifest[d]
             /\ model[d] # None => model'[d] = model[d]
             /\ metrics[d] # None => metrics'[d] = metrics[d]
             /\ evaluation[d] # None => evaluation'[d] = evaluation[d]
       /\ \A o \in DOMAIN objects : objects[o] # None => objects'[o] = objects[o]]_vars

(* "Create immutable, temporally partitioned snapshots from validated mart data":
   the rows of a snapshot are those its contract artifact was issued for, up to
   the end of the test split. *)
SnapshotOfValidatedData ==
    \A d \in Dirs : manifest[d] # None =>
        LET m == manifest[d]
        IN  m.snapshot = {r \in m.contract.validated : Time[r] <= m.bounds[3]}
=============================================================================
