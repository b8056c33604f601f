--------------------------- MODULE TrainingProofs ---------------------------
(***************************************************************************)
(* Proofs about Training: whatever commands are run, die and are run       *)
(* again, over whatever files there are, each file there is was written    *)
(* once, from what the files it names still hold.                          *)
(***************************************************************************)
EXTENDS Training, FiniteSetTheorems, TLAPS

(* What a manifest says of itself: its rows are within its boundaries and split as it
   counts them, and its relation is the one its contract was checked against. *)
Sound(m) ==
    /\ m \in Manifest
    /\ m.snapshot # {}
    /\ \A r \in m.snapshot : Time[r] <= m.bounds[3]
    /\ m.split_statistics = [s \in Splits |-> Statistics(Counted(m.snapshot, m.bounds)[s])]
    /\ Covered[m.contract.contract] = m.relation
    /\ \E c \in Answered : Configured(m, c)

Stored(m) == objects[<<m.name, m.run, "data">>] = m.snapshot

SplitsOf(m) == Loaded(m.snapshot, m.bounds)

(* A model is fitted on the splits of its manifest, by a configuration that agrees with
   it. *)
Fitted(b) ==
    /\ Sound(b.manifest)
    /\ b.features = b.manifest.features
    /\ \E c \in Framed : Configured(b.manifest, c)
    /\ b.fit.fitted = SplitsOf(b.manifest)["train"]
    /\ b.fit.stopped \subseteq SplitsOf(b.manifest)["validation"]
    /\ b.tuned = SplitsOf(b.manifest)["validation"]

Tested(e) ==
    /\ Fitted(e.model)
    /\ e.model.manifest = e.manifest
    /\ e.tested = SplitsOf(e.manifest)["test"]

-----------------------------------------------------------------------------
(* The inductive invariant, in parts. *)

Table(f, S) == f = [x \in S |-> f[x]]

Tables ==
    /\ Table(artifact, Dirs) /\ Table(data, Dirs) /\ Table(manifest, Dirs)
    /\ Table(diagnostics, Dirs) /\ Table(model, Dirs) /\ Table(metrics, Dirs)
    /\ Table(evaluation, Dirs)
    /\ Table(cache, Names)
    /\ Table(objects, Names \X Runs \X Objects)

Certified(k, rows) == <<k, rows, TRUE>> \in Verdicts

ArtifactsSound ==
    \A d \in Dirs : artifact[d] # None =>
        artifact[d] \in Artifact /\ Certified(artifact[d].contract, artifact[d].validated)

DataSound == \A d \in Dirs : data[d] # None => data[d] # {} /\ data[d] \subseteq DOMAIN Row

ManifestsSound == \A d \in Dirs : manifest[d] # None => Sound(manifest[d]) /\ Stored(manifest[d])

DiagnosticsSound ==
    \A d \in Dirs : diagnostics[d] # None =>
        manifest[d] # None /\ diagnostics[d] = manifest[d].split_statistics

ModelsSound ==
    \A d \in Dirs : model[d] # None => Fitted(model[d]) /\ Stored(model[d].manifest)

EvaluationsSound == \A d \in Dirs : evaluation[d] # None => Tested(evaluation[d])

CacheSound == \A n \in Names : cache[n] = None \/ cache[n] \subseteq DOMAIN Row

ObjectsSound ==
    \A n \in Names, r \in Runs :
        LET m == objects[<<n, r, "manifest">>] IN
        /\ m # None => m.snapshot \subseteq DOMAIN Row /\ objects[<<n, r, "data">>] = m.snapshot
        /\ objects[<<n, r, "artifact">>] # None =>
              m # None /\ m.contract = objects[<<n, r, "artifact">>]

(* What the command under way knows of the files, by its next step. *)
Snapshotting == {"expose", "upload_data", "manifest", "upload_manifest", "upload_artifact"}
Loading == {"splits", "diagnostics", "model", "metrics", "evaluation"}

Validating ==
    /\ cmd \in Command /\ cmd.op = "validate"
    /\ hand \subseteq DOMAIN Row
    /\ Certified(cmd.contract, hand)

Streamed ==
    /\ cmd \in Command /\ cmd.op = "snapshot"
    /\ artifact[cmd.from] # None
    /\ Covered[artifact[cmd.from].contract] = Config[cmd.config].dataset.relation
    /\ hand # {} /\ hand \subseteq DOMAIN Row
    /\ \A r \in hand : Time[r] <= Config[cmd.config].split.test_end

Opened ==
    /\ cmd \in Command /\ cmd.op \in {"diagnose", "train", "evaluate"}
    /\ cmd.op = "evaluate" \/ cmd.from = cmd.dir
    /\ Given # None

Read ==
    /\ Opened
    /\ hand = Given.snapshot
    /\ Configured(Given, cmd.config) /\ cmd.config \in Framed

Stage ==
    /\ pc \in Steps
    /\ hand \subseteq DOMAIN Row
    /\ pc = "idle" => cmd = None
    /\ pc = "artifact" => Validating
    /\ pc \in Snapshotting => Streamed
    /\ pc = "expose" => data[cmd.dir] = None
    /\ pc \in Snapshotting \ {"expose"} => data[cmd.dir] = hand
    /\ pc \in {"manifest", "upload_manifest", "upload_artifact"} => objects[Uri("data")] = hand
    /\ pc \in {"upload_manifest", "upload_artifact"} => manifest[cmd.dir] = ManifestOf
    /\ pc = "upload_artifact" => objects[Uri("manifest")] = manifest[cmd.dir]
    /\ pc = "splits" => Opened /\ cache[Given.name] = Given.snapshot
    /\ pc \in Loading \ {"splits"} => Read
    /\ pc = "diagnostics" => cmd.op = "diagnose"

TrainingInv ==
    /\ Tables
    /\ ArtifactsSound /\ DataSound /\ ManifestsSound /\ DiagnosticsSound
    /\ ModelsSound /\ EvaluationsSound
    /\ CacheSound /\ ObjectsSound
    /\ Stage

-----------------------------------------------------------------------------
(* Configurations and splits. *)

(* What the validators of a configuration leave. *)
LEMMA ConfigFacts ==
    ASSUME NEW c \in Configs
    PROVE  /\ Config[c].name \in Names
           /\ Config[c].dataset.relation \in Relations
           /\ Config[c].dataset.features \in {Config[d].dataset.features : d \in Configs}
           /\ Boundaries(c) \in Int \X Int \X Int
           /\ Boundaries(c)[1] < Boundaries(c)[2] /\ Boundaries(c)[2] < Boundaries(c)[3]
           /\ Boundaries(c)[3] = Config[c].split.test_end
<1>1. ValidExperiment(Config[c])
  BY DEF Configs, Config
<1>2. Config[c].dataset.relation \in Relations
  BY <1>1 DEF ValidExperiment, ValidDataset
<1>3. ValidSplit(Config[c].split)
  BY <1>1 DEF ValidExperiment
<1>4. Config[c].split \in [train_end : Int, validation_end : Int, test_end : Int]
  BY TrainingAssumption DEF TrainingAssumption
<1>5. /\ Boundaries(c) \in Int \X Int \X Int
      /\ Boundaries(c)[1] < Boundaries(c)[2] /\ Boundaries(c)[2] < Boundaries(c)[3]
      /\ Boundaries(c)[3] = Config[c].split.test_end
  BY <1>3, <1>4 DEF ValidSplit, Boundaries
<1> QED
  BY <1>2, <1>5 DEF Names

LEMMA TimeInt == ASSUME NEW r \in DOMAIN Row PROVE Time[r] \in Int
BY SchemaAssumption DEF SchemaAssumption, Time

(* No row of a snapshot is past its end, so it does not matter that the last split is
   counted without one. *)
LEMMA SplitsAgree ==
    ASSUME NEW rows, NEW bounds, \A r \in rows : Time[r] <= bounds[3]
    PROVE  Counted(rows, bounds) = Loaded(rows, bounds)
BY DEF Counted, Loaded

LEMMA SplitsApart ==
    ASSUME NEW rows \in SUBSET DOMAIN Row, NEW b \in Int \X Int \X Int,
           b[1] < b[2], b[2] < b[3]
    PROVE  /\ Loaded(rows, b)["test"] \cap Loaded(rows, b)["train"] = {}
           /\ Loaded(rows, b)["test"] \cap Loaded(rows, b)["validation"] = {}
           /\ \A s \in Splits : Loaded(rows, b)[s] \subseteq rows
<1>1. \A r \in rows : Time[r] \in Int
  BY TimeInt
<1>2. b[1] \in Int /\ b[2] \in Int /\ b[3] \in Int
  OBVIOUS
<1>3. \A r \in rows : Time[r] > b[2] => ~(Time[r] <= b[1]) /\ ~(Time[r] <= b[2])
  BY <1>1, <1>2
<1>4. /\ Loaded(rows, b)["train"] = {r \in rows : Time[r] <= b[1]}
      /\ Loaded(rows, b)["validation"] = {r \in rows : Time[r] > b[1] /\ Time[r] <= b[2]}
      /\ Loaded(rows, b)["test"] = {r \in rows : Time[r] > b[2] /\ Time[r] <= b[3]}
  BY DEF Loaded
<1> QED
  BY <1>3, <1>4 DEF Splits

LEMMA StatisticsType ==
    ASSUME NEW rows \in SUBSET DOMAIN Row
    PROVE  Statistics(rows) \in [row_count : Nat, fraud_count : Nat]
<1>1. IsFiniteSet(rows) /\ IsFiniteSet({r \in rows : Fraud[r] = 1})
  BY TrainingAssumption, FS_Subset DEF TrainingAssumption
<1>2. Cardinality(rows) \in Nat /\ Cardinality({r \in rows : Fraud[r] = 1}) \in Nat
  BY <1>1, FS_CardinalityType
<1> QED
  BY <1>2 DEF Statistics

LEMMA CountedType ==
    ASSUME NEW rows \in SUBSET DOMAIN Row, NEW b
    PROVE  [s \in Splits |-> Statistics(Counted(rows, b)[s])]
              \in [Splits -> [row_count : Nat, fraud_count : Nat]]
<1>1. \A s \in Splits : Counted(rows, b)[s] \in SUBSET DOMAIN Row
  BY DEF Counted, Splits
<1> QED
  BY <1>1, StatisticsType

-----------------------------------------------------------------------------
(* What a step does to the files, the cache and the object store. *)

LEMMA Initially == Init => TrainingInv
<1> SUFFICES ASSUME Init PROVE TrainingInv
  OBVIOUS
<1>1. Tables
  BY DEF Init, NoFile, Tables, Table
<1>2. ArtifactsSound /\ DataSound /\ ManifestsSound /\ DiagnosticsSound
  BY DEF Init, NoFile, ArtifactsSound, DataSound, ManifestsSound, DiagnosticsSound
<1>3. ModelsSound /\ EvaluationsSound
  BY DEF Init, NoFile, ModelsSound, EvaluationsSound
<1>4. CacheSound
  BY DEF Init, CacheSound
<1>5. ObjectsSound
  <2>1. \A n \in Names, r \in Runs, o \in Objects : objects[<<n, r, o>>] = None
    BY DEF Init
  <2> QED
    BY <2>1 DEF ObjectsSound, Objects
<1>6. Stage
  BY DEF Init, Stage, Steps, Snapshotting, Loading
<1> QED
  BY <1>1, <1>2, <1>3, <1>4, <1>5, <1>6 DEF TrainingInv

LEMMA TableWrite ==
    ASSUME NEW f, NEW S, Table(f, S), NEW a, NEW b, NEW g, g = [f EXCEPT ![a] = b]
    PROVE  /\ Table(g, S)
           /\ \A x \in S : g[x] = IF x = a THEN b ELSE f[x]
<1>1. DOMAIN f = S
  BY DEF Table
<1> QED
  BY <1>1 DEF Table

(* A file is as it was, or it was not there and the command under way writes it at
   this stage. *)
Wrote(old, new, stage, content) ==
    /\ Table(new, Dirs)
    /\ \A d \in Dirs :
          \/ new[d] = old[d]
          \/ pc = stage /\ d = cmd.dir /\ old[d] = None /\ new[d] = content

LEMMA KeptFile ==
    ASSUME NEW old, NEW new, NEW stage, NEW content, Table(old, Dirs), new = old
    PROVE  Wrote(old, new, stage, content)
BY DEF Wrote

LEMMA WrittenFile ==
    ASSUME NEW old, NEW new, NEW stage, NEW content, Table(old, Dirs), pc = stage,
           new = old \/ (old[cmd.dir] = None /\ new = [old EXCEPT ![cmd.dir] = content])
    PROVE  Wrote(old, new, stage, content)
<1>1. CASE new = old
  BY <1>1, KeptFile
<1>2. CASE old[cmd.dir] = None /\ new = [old EXCEPT ![cmd.dir] = content]
  <2>0. new = [old EXCEPT ![cmd.dir] = content]
    BY <1>2
  <2>1. /\ Table(new, Dirs)
        /\ \A d \in Dirs : new[d] = IF d = cmd.dir THEN content ELSE old[d]
    BY <2>0 DEF Table
  <2> QED
    BY <1>2, <2>1 DEF Wrote
<1> QED
  BY <1>1, <1>2

(* Every action, and what each does to the files. *)
Actions ==
    \/ Idle /\ \E d \in Dirs, k \in Applicable : CheckContract(d, k)
    \/ WriteArtifact
    \/ Idle /\ \E d, from \in Dirs, r \in Runs, c \in Answered : StreamSnapshot(d, r, c, from)
    \/ ExposeSnapshot \/ UploadData \/ WriteManifest \/ UploadManifest \/ UploadArtifact
    \/ Idle /\ \E op \in {"diagnose", "train", "evaluate"}, d, from \in Dirs, c \in Configs :
          (op = "evaluate" \/ from = d) /\ Materialize(op, d, c, from)
    \/ ReadSplits
    \/ WriteDiagnostics \/ WriteModel \/ WriteMetrics \/ WriteEvaluation
    \/ Die
    \/ UNCHANGED vars

LEMMA EveryAction == ASSUME [Next]_vars PROVE Actions
<1>1. CASE ValidateTrainingData
  BY <1>1 DEF ValidateTrainingData, Actions
<1>2. CASE SnapshotTrainingDataset
  BY <1>2 DEF SnapshotTrainingDataset, Actions
<1>3. CASE Diagnose
  BY <1>3 DEF Diagnose, Actions
<1>4. CASE Train
  BY <1>4 DEF Train, Actions
<1>5. CASE Evaluate
  BY <1>5 DEF Evaluate, Actions
<1>6. CASE ReadSplits \/ Die \/ UNCHANGED vars
  BY <1>6 DEF Actions
<1> QED
  BY <1>1, <1>2, <1>3, <1>4, <1>5, <1>6 DEF Next

Certificate == [contract |-> cmd.contract, validated |-> hand]

Evaluation == [model |-> model[cmd.dir], manifest |-> Given, tested |-> Frames["test"]]

FilesWritten ==
    /\ Wrote(artifact, artifact', "artifact", Certificate)
    /\ Wrote(data, data', "expose", hand)
    /\ Wrote(manifest, manifest', "manifest", ManifestOf)
    /\ Wrote(diagnostics, diagnostics', "diagnostics", Summary)
    /\ Wrote(model, model', "model", Bundle)
    /\ Wrote(metrics, metrics', "metrics", Given.name)
    /\ Wrote(evaluation, evaluation', "evaluation", Evaluation)
    /\ evaluation' # evaluation => model[cmd.dir] # None /\ model[cmd.dir].manifest = Given

LEMMA FilesGrow ==
    ASSUME Tables, Stage, [Next]_vars
    PROVE  FilesWritten
<1> USE DEF Tables
<1>1. CASE UNCHANGED files
  BY <1>1, KeptFile DEF files, FilesWritten
<1>2. CASE WriteArtifact
  <2>0. /\ pc = "artifact"
        /\ \/ artifact' = artifact
           \/ artifact[cmd.dir] = None /\ artifact' = [artifact EXCEPT ![cmd.dir] = Certificate]
    BY <1>2 DEF WriteArtifact, WriteOnce, Certificate
  <2>1. Wrote(artifact, artifact', "artifact", Certificate)
    BY <2>0, WrittenFile
  <2>2. UNCHANGED <<data, manifest, diagnostics, model, metrics, evaluation>>
    BY <1>2 DEF WriteArtifact
  <2> QED
    BY <2>1, <2>2, KeptFile DEF FilesWritten
<1>3. CASE ExposeSnapshot
  <2>1. Wrote(data, data', "expose", hand)
    BY <1>3, WrittenFile DEF ExposeSnapshot, Stage
  <2>2. UNCHANGED <<artifact, manifest, diagnostics, model, metrics, evaluation>>
    BY <1>3 DEF ExposeSnapshot
  <2> QED
    BY <2>1, <2>2, KeptFile DEF FilesWritten
<1>4. CASE WriteManifest
  <2>0. /\ pc = "manifest"
        /\ \/ manifest' = manifest
           \/ manifest[cmd.dir] = None /\ manifest' = [manifest EXCEPT ![cmd.dir] = ManifestOf]
    BY <1>4 DEF WriteManifest, WriteOnce
  <2>1. Wrote(manifest, manifest', "manifest", ManifestOf)
    BY <2>0, WrittenFile
  <2>2. UNCHANGED <<artifact, data, diagnostics, model, metrics, evaluation>>
    BY <1>4 DEF WriteManifest
  <2> QED
    BY <2>1, <2>2, KeptFile DEF FilesWritten
<1>5. CASE WriteDiagnostics
  <2>0. /\ pc = "diagnostics"
        /\ \/ diagnostics' = diagnostics
           \/ diagnostics[cmd.dir] = None /\ diagnostics' = [diagnostics EXCEPT ![cmd.dir] = Summary]
    BY <1>5 DEF WriteDiagnostics, WriteOnce
  <2>1. Wrote(diagnostics, diagnostics', "diagnostics", Summary)
    BY <2>0, WrittenFile
  <2>2. UNCHANGED <<artifact, data, manifest, model, metrics, evaluation>>
    BY <1>5 DEF WriteDiagnostics
  <2> QED
    BY <2>1, <2>2, KeptFile DEF FilesWritten
<1>6. CASE WriteModel
  <2>0. /\ pc = "model"
        /\ \/ model' = model
           \/ model[cmd.dir] = None /\ model' = [model EXCEPT ![cmd.dir] = Bundle]
    BY <1>6 DEF WriteModel, WriteOnce
  <2>1. Wrote(model, model', "model", Bundle)
    BY <2>0, WrittenFile
  <2>2. UNCHANGED <<artifact, data, manifest, diagnostics, metrics, evaluation>>
    BY <1>6 DEF WriteModel
  <2> QED
    BY <2>1, <2>2, KeptFile DEF FilesWritten
<1>7. CASE WriteMetrics
  <2>0. /\ pc = "metrics"
        /\ \/ metrics' = metrics
           \/ metrics[cmd.dir] = None /\ metrics' = [metrics EXCEPT ![cmd.dir] = Given.name]
    BY <1>7 DEF WriteMetrics, WriteOnce
  <2>1. Wrote(metrics, metrics', "metrics", Given.name)
    BY <2>0, WrittenFile
  <2>2. UNCHANGED <<artifact, data, manifest, diagnostics, model, evaluation>>
    BY <1>7 DEF WriteMetrics
  <2> QED
    BY <2>1, <2>2, KeptFile DEF FilesWritten
<1>8. CASE WriteEvaluation
  <2>0. /\ pc = "evaluation"
        /\ \/ evaluation' = evaluation
           \/ evaluation[cmd.dir] = None /\ evaluation' = [evaluation EXCEPT ![cmd.dir] = Evaluation]
    BY <1>8 DEF WriteEvaluation, WriteOnce, Evaluation
  <2>1. Wrote(evaluation, evaluation', "evaluation", Evaluation)
    BY <2>0, WrittenFile
  <2>2. UNCHANGED <<artifact, data, manifest, diagnostics, model, metrics>>
    BY <1>8 DEF WriteEvaluation
  <2>3. evaluation' # evaluation => model[cmd.dir] # None /\ model[cmd.dir].manifest = Given
    BY <1>8 DEF WriteEvaluation, Matches
  <2> QED
    BY <2>1, <2>2, <2>3, KeptFile DEF FilesWritten
<1>9. \/ UNCHANGED files \/ WriteArtifact \/ ExposeSnapshot \/ WriteManifest
      \/ WriteDiagnostics \/ WriteModel \/ WriteMetrics \/ WriteEvaluation
  BY EveryAction DEF Actions, CheckContract, StreamSnapshot, UploadData, UploadManifest,
     UploadArtifact, Materialize, ReadSplits, Die, vars
<1> QED
  BY <1>1, <1>2, <1>3, <1>4, <1>5, <1>6, <1>7, <1>8, <1>9

(* The objects a command uploads, each where there was none. *)
Uploaded(o) ==
    \/ pc = "upload_data" /\ o = Uri("data") /\ objects'[o] = data[cmd.dir]
    \/ pc = "upload_manifest" /\ o = Uri("manifest") /\ objects'[o] = manifest[cmd.dir]
    \/ pc = "upload_artifact" /\ o = Uri("artifact") /\ objects'[o] = artifact[cmd.from]

ObjectsWritten ==
    /\ Table(objects', Names \X Runs \X Objects)
    /\ \A o \in Names \X Runs \X Objects :
          \/ objects'[o] = objects[o]
          \/ objects[o] = None /\ Uploaded(o)

OnlyNew(uri, content) ==
    /\ Table(objects', Names \X Runs \X Objects)
    /\ \A u \in Names \X Runs \X Objects :
          \/ objects'[u] = objects[u]
          \/ objects[u] = None /\ u = uri /\ objects'[u] = content

LEMMA UploadWrites ==
    ASSUME Table(objects, Names \X Runs \X Objects), NEW uri, NEW content,
           objects' = objects \/ (/\ objects[uri] \in {None, content}
                                  /\ objects' = [objects EXCEPT ![uri] = content])
    PROVE  OnlyNew(uri, content)
<1>1. CASE objects' = objects
  BY <1>1 DEF OnlyNew
<1>2. CASE /\ objects[uri] \in {None, content}
           /\ objects' = [objects EXCEPT ![uri] = content]
  <2>1. /\ Table(objects', Names \X Runs \X Objects)
        /\ \A u \in Names \X Runs \X Objects :
              objects'[u] = IF u = uri THEN content ELSE objects[u]
    BY <1>2 DEF Table
  <2> QED
    BY <1>2, <2>1 DEF OnlyNew
<1> QED
  BY <1>1, <1>2

LEMMA ObjectsGrow ==
    ASSUME Tables, [Next]_vars
    PROVE  ObjectsWritten
<1> USE DEF Tables
<1>1. CASE UNCHANGED objects
  BY <1>1 DEF ObjectsWritten
<1>2. CASE UploadData
  <2>1. /\ pc = "upload_data"
        /\ \/ objects' = objects
           \/ /\ objects[Uri("data")] \in {None, data[cmd.dir]}
              /\ objects' = [objects EXCEPT ![Uri("data")] = data[cmd.dir]]
    BY <1>2 DEF UploadData, Upload
  <2>2. OnlyNew(Uri("data"), data[cmd.dir])
    BY <2>1, UploadWrites
  <2> QED
    BY <2>1, <2>2 DEF OnlyNew, ObjectsWritten, Uploaded
<1>3. CASE UploadManifest
  <2>1. /\ pc = "upload_manifest"
        /\ \/ objects' = objects
           \/ /\ objects[Uri("manifest")] \in {None, manifest[cmd.dir]}
              /\ objects' = [objects EXCEPT ![Uri("manifest")] = manifest[cmd.dir]]
    BY <1>3 DEF UploadManifest, Upload
  <2>2. OnlyNew(Uri("manifest"), manifest[cmd.dir])
    BY <2>1, UploadWrites
  <2> QED
    BY <2>1, <2>2 DEF OnlyNew, ObjectsWritten, Uploaded
<1>4. CASE UploadArtifact
  <2>1. /\ pc = "upload_artifact"
        /\ \/ objects' = objects
           \/ /\ objects[Uri("artifact")] \in {None, artifact[cmd.from]}
              /\ objects' = [objects EXCEPT ![Uri("artifact")] = artifact[cmd.from]]
    BY <1>4 DEF UploadArtifact, Upload
  <2>2. OnlyNew(Uri("artifact"), artifact[cmd.from])
    BY <2>1, UploadWrites
  <2> QED
    BY <2>1, <2>2 DEF OnlyNew, ObjectsWritten, Uploaded
<1>5. UNCHANGED objects \/ UploadData \/ UploadManifest \/ UploadArtifact
  BY EveryAction DEF Actions, CheckContract, WriteArtifact, StreamSnapshot, ExposeSnapshot,
     WriteManifest, Materialize, ReadSplits, WriteDiagnostics, WriteModel, WriteMetrics,
     WriteEvaluation, Die, vars
<1> QED
  BY <1>1, <1>2, <1>3, <1>4, <1>5

(* The cache is filled from a manifest. *)
CacheFilled ==
    /\ Table(cache', Names)
    /\ \A n \in Names :
          \/ cache'[n] = cache[n]
          \/ \E from \in Dirs :
                manifest[from] # None /\ cache'[n] = manifest[from].snapshot

LEMMA CacheGrows ==
    ASSUME Tables, [Next]_vars
    PROVE  CacheFilled
<1> USE DEF Tables
<1>1. CASE UNCHANGED cache
  BY <1>1 DEF CacheFilled
<1>2. CASE \E op \in {"diagnose", "train", "evaluate"}, d, from \in Dirs, c \in Configs :
              Materialize(op, d, c, from)
  <2>1. PICK op \in {"diagnose", "train", "evaluate"}, d \in Dirs, from \in Dirs, c \in Configs :
              Materialize(op, d, c, from)
    BY <1>2
  <2>2. /\ manifest[from] # None
        /\ cache' = [cache EXCEPT ![manifest[from].name] = manifest[from].snapshot]
    BY <2>1 DEF Materialize
  <2>3. /\ Table(cache', Names)
        /\ \A n \in Names :
              cache'[n] = IF n = manifest[from].name THEN manifest[from].snapshot ELSE cache[n]
    BY <2>2 DEF Table
  <2> QED
    BY <2>2, <2>3 DEF CacheFilled
<1>3. \/ UNCHANGED cache
      \/ \E op \in {"diagnose", "train", "evaluate"}, d, from \in Dirs, c \in Configs :
            Materialize(op, d, c, from)
  BY EveryAction DEF Actions, CheckContract, WriteArtifact, StreamSnapshot, ExposeSnapshot,
     UploadData, WriteManifest, UploadManifest, UploadArtifact, ReadSplits, WriteDiagnostics,
     WriteModel, WriteMetrics, WriteEvaluation, Die, vars
<1> QED
  BY <1>1, <1>2, <1>3

-----------------------------------------------------------------------------
(* What the commands write is sound. *)

LEMMA SnapshotCommand ==
    ASSUME cmd \in Command, cmd.op = "snapshot"
    PROVE  cmd.dir \in Dirs /\ cmd.run \in Runs /\ cmd.config \in Answered /\ cmd.from \in Dirs
BY DEF Command

LEMMA ValidateCommand ==
    ASSUME cmd \in Command, cmd.op = "validate"
    PROVE  cmd.dir \in Dirs /\ cmd.contract \in Applicable
BY DEF Command

LEMMA OpenCommand ==
    ASSUME cmd \in Command, cmd.op \in {"diagnose", "train", "evaluate"}
    PROVE  cmd.dir \in Dirs /\ cmd.config \in Configs /\ cmd.from \in Dirs
BY DEF Command

LEMMA ManifestOfSound ==
    ASSUME ArtifactsSound, Streamed, data[cmd.dir] = hand
    PROVE  /\ Sound(ManifestOf)
           /\ ManifestOf.snapshot = hand
           /\ ManifestOf.contract = artifact[cmd.from]
           /\ Uri("data") = <<ManifestOf.name, ManifestOf.run, "data">>
           /\ Uri("data") \in Names \X Runs \X Objects
<1> DEFINE c == cmd.config
<1>1. cmd.dir \in Dirs /\ cmd.run \in Runs /\ c \in Answered /\ cmd.from \in Dirs
  BY SnapshotCommand DEF Streamed
<1>2. c \in Configs
  BY <1>1 DEF Answered
<1>3. artifact[cmd.from] \in Artifact
  BY <1>1 DEF ArtifactsSound, Streamed
<1>4. /\ ManifestOf.created = cmd.dir
      /\ ManifestOf.name = Config[c].name
      /\ ManifestOf.run = cmd.run
      /\ ManifestOf.snapshot = hand
      /\ ManifestOf.relation = Config[c].dataset.relation
      /\ ManifestOf.features = Config[c].dataset.features
      /\ ManifestOf.bounds = Boundaries(c)
      /\ ManifestOf.split_statistics
            = [s \in Splits |-> Statistics(Counted(hand, Boundaries(c))[s])]
      /\ ManifestOf.contract = artifact[cmd.from]
  BY DEF ManifestOf
<1>5. ManifestOf \in Manifest
  <2>1. /\ Config[c].name \in Names
        /\ Config[c].dataset.relation \in Relations
        /\ Config[c].dataset.features \in {Config[d].dataset.features : d \in Configs}
        /\ Boundaries(c) \in Int \X Int \X Int
    BY <1>2, ConfigFacts
  <2>2. hand \in SUBSET DOMAIN Row
    BY DEF Streamed
  <2>3. [s \in Splits |-> Statistics(Counted(hand, Boundaries(c))[s])]
           \in [Splits -> [row_count : Nat, fraud_count : Nat]]
    BY <2>2, CountedType
  <2> HIDE DEF c
  <2> QED
    BY <1>1, <1>3, <2>1, <2>2, <2>3 DEF ManifestOf, Manifest, c
<1>6. hand # {} /\ \A r \in hand : Time[r] <= Boundaries(c)[3]
  BY <1>2, ConfigFacts DEF Streamed
<1>7. Covered[ManifestOf.contract.contract] = ManifestOf.relation
  BY <1>4 DEF Streamed
<1>8. Configured(ManifestOf, c)
  BY <1>4 DEF Configured
<1>9. Sound(ManifestOf)
  BY <1>1, <1>4, <1>5, <1>6, <1>7, <1>8 DEF Sound
<1>10. Uri("data") = <<ManifestOf.name, ManifestOf.run, "data">>
  BY <1>4 DEF Uri
<1>11. Uri("data") \in Names \X Runs \X Objects
  BY <1>1, <1>2, ConfigFacts DEF Uri, Objects
<1> QED
  BY <1>4, <1>9, <1>10, <1>11

LEMMA SoundFacts ==
    ASSUME NEW m, Sound(m)
    PROVE  /\ m.name \in Names /\ m.run \in Runs
           /\ m.snapshot \in SUBSET DOMAIN Row
           /\ m.snapshot # None
           /\ m # None
           /\ m.bounds \in Int \X Int \X Int
           /\ m.bounds[1] < m.bounds[2] /\ m.bounds[2] < m.bounds[3]
           /\ Counted(m.snapshot, m.bounds) = SplitsOf(m)
           /\ \A o \in Objects : <<m.name, m.run, o>> \in Names \X Runs \X Objects
<1>1. m \in Manifest
  BY DEF Sound
<1>2. m.name \in Names /\ m.run \in Runs /\ m.snapshot \in SUBSET DOMAIN Row
  BY <1>1 DEF Manifest
<1>3. PICK c \in Answered : Configured(m, c)
  BY DEF Sound
<1>4. m.bounds = Boundaries(c) /\ c \in Configs
  BY <1>3 DEF Configured, Answered
<1>5. /\ m.bounds \in Int \X Int \X Int
      /\ m.bounds[1] < m.bounds[2] /\ m.bounds[2] < m.bounds[3]
  BY <1>4, ConfigFacts
<1>6. Counted(m.snapshot, m.bounds) = SplitsOf(m)
  BY SplitsAgree DEF Sound, SplitsOf
<1>7. m # None /\ m.snapshot # None
  BY <1>1, <1>2, TrainingAssumption DEF TrainingAssumption
<1> QED
  BY <1>2, <1>5, <1>6, <1>7

LEMMA FramesAreSplits == Read => Frames = SplitsOf(Given)
BY DEF Read, Frames, SplitsOf

(* The diagnostics count what the manifest has counted. *)
LEMMA SummaryOfManifest ==
    ASSUME Read, Sound(Given)
    PROVE  Summary = Given.split_statistics
<1>1. Frames = Counted(Given.snapshot, Given.bounds)
  BY FramesAreSplits, SoundFacts
<1>2. Given.split_statistics = [s \in Splits |-> Statistics(Frames[s])]
  BY <1>1 DEF Sound
<1> QED
  BY <1>2 DEF Summary

LEMMA BundleFitted ==
    ASSUME Read, Sound(Given)
    PROVE  Fitted(Bundle) /\ Bundle.manifest = Given
<1>1. Frames = SplitsOf(Given)
  BY FramesAreSplits
<1>2. /\ Bundle.manifest = Given
      /\ Bundle.features = Config[cmd.config].dataset.features
      /\ Bundle.tuned = Frames["validation"]
      /\ Bundle.fit.fitted = Frames["train"]
      /\ Bundle.fit.stopped \subseteq Frames["validation"]
  BY DEF Bundle, FitXGBoost, FitLogistic
<1>3. Configured(Given, cmd.config) /\ cmd.config \in Framed
  BY DEF Read
<1>4. Bundle.features = Given.features
  BY <1>2, <1>3 DEF Configured
<1> QED
  BY <1>1, <1>2, <1>3, <1>4 DEF Fitted

-----------------------------------------------------------------------------
(* The files stay sound. *)

LEMMA GivenSound ==
    ASSUME ManifestsSound, Opened
    PROVE  cmd.from \in Dirs /\ cmd.dir \in Dirs /\ Sound(Given) /\ Stored(Given)
BY OpenCommand DEF ManifestsSound, Opened, Given

LEMMA KeepsArtifacts ==
    ASSUME ArtifactsSound, Stage, FilesWritten
    PROVE  ArtifactsSound'
<1> SUFFICES ASSUME NEW d \in Dirs, artifact'[d] # None
             PROVE  /\ artifact'[d] \in Artifact
                    /\ Certified(artifact'[d].contract, artifact'[d].validated)
  BY DEF ArtifactsSound, Certified
<1>1. CASE artifact'[d] = artifact[d]
  BY <1>1 DEF ArtifactsSound
<1>2. CASE pc = "artifact" /\ artifact'[d] = Certificate
  <2>1. Validating
    BY <1>2 DEF Stage
  <2>2. cmd.contract \in Applicable
    BY <2>1, ValidateCommand DEF Validating
  <2> QED
    BY <1>2, <2>1, <2>2 DEF Validating, Certificate, Artifact
<1> QED
  BY <1>1, <1>2 DEF FilesWritten, Wrote

LEMMA KeepsData ==
    ASSUME DataSound, Stage, FilesWritten
    PROVE  DataSound'
<1> SUFFICES ASSUME NEW d \in Dirs, data'[d] # None
             PROVE  data'[d] # {} /\ data'[d] \subseteq DOMAIN Row
  BY DEF DataSound
<1>1. CASE data'[d] = data[d]
  BY <1>1 DEF DataSound
<1>2. CASE pc = "expose" /\ data'[d] = hand
  BY <1>2 DEF Stage, Snapshotting, Streamed
<1> QED
  BY <1>1, <1>2 DEF FilesWritten, Wrote

LEMMA KeepsManifests ==
    ASSUME ArtifactsSound, ManifestsSound, Stage, FilesWritten, ObjectsWritten
    PROVE  ManifestsSound'
<1> SUFFICES ASSUME NEW d \in Dirs, manifest'[d] # None
             PROVE  Sound(manifest'[d]) /\ Stored(manifest[d])'
  BY DEF ManifestsSound, Sound
<1> DEFINE m == manifest'[d]
<1>1. Sound(m) /\ Stored(m)
  <2>1. CASE m = manifest[d]
    BY <2>1 DEF ManifestsSound
  <2>2. CASE pc = "manifest" /\ m = ManifestOf
    <3>1. Streamed /\ data[cmd.dir] = hand /\ objects[Uri("data")] = hand
      BY <2>2 DEF Stage, Snapshotting
    <3> QED
      BY <2>2, <3>1, ManifestOfSound DEF Stored
  <2> QED
    BY <2>1, <2>2 DEF FilesWritten, Wrote
<1>2. objects'[<<m.name, m.run, "data">>] = m.snapshot
  <2>1. <<m.name, m.run, "data">> \in Names \X Runs \X Objects /\ m.snapshot # None
    BY <1>1, SoundFacts DEF Objects
  <2> QED
    BY <1>1, <2>1 DEF ObjectsWritten, Stored
<1> QED
  BY <1>1, <1>2 DEF Stored

LEMMA KeepsDiagnostics ==
    ASSUME ManifestsSound, DiagnosticsSound, Stage, FilesWritten
    PROVE  DiagnosticsSound'
<1> SUFFICES ASSUME NEW d \in Dirs, diagnostics'[d] # None
             PROVE  manifest'[d] # None /\ diagnostics'[d] = manifest'[d].split_statistics
  BY DEF DiagnosticsSound
<1>1. manifest[d] # None => manifest'[d] = manifest[d]
  BY DEF FilesWritten, Wrote
<1>2. CASE diagnostics'[d] = diagnostics[d]
  BY <1>1, <1>2 DEF DiagnosticsSound
<1>3. CASE pc = "diagnostics" /\ d = cmd.dir /\ diagnostics'[d] = Summary
  <2>1. Read /\ cmd.op = "diagnose"
    BY <1>3 DEF Stage, Loading
  <2>2. Given = manifest[d] /\ Given # None
    BY <1>3, <2>1 DEF Read, Opened, Given
  <2>3. Sound(Given)
    BY <2>1, GivenSound DEF Read
  <2> QED
    BY <1>1, <1>3, <2>1, <2>2, <2>3, SummaryOfManifest
<1> QED
  BY <1>2, <1>3 DEF FilesWritten, Wrote

LEMMA KeepsModels ==
    ASSUME ManifestsSound, ModelsSound, Stage, FilesWritten, ObjectsWritten
    PROVE  ModelsSound'
<1> SUFFICES ASSUME NEW d \in Dirs, model'[d] # None
             PROVE  Fitted(model'[d]) /\ Stored(model[d].manifest)'
  BY DEF ModelsSound, Fitted, Sound
<1> DEFINE m == model'[d].manifest
<1>1. Fitted(model'[d]) /\ Stored(m)
  <2>1. CASE model'[d] = model[d]
    BY <2>1 DEF ModelsSound
  <2>2. CASE pc = "model" /\ model'[d] = Bundle
    <3>1. Read
      BY <2>2 DEF Stage, Loading
    <3>2. Sound(Given) /\ Stored(Given)
      BY <3>1, GivenSound DEF Read
    <3> QED
      BY <2>2, <3>1, <3>2, BundleFitted
  <2> QED
    BY <2>1, <2>2 DEF FilesWritten, Wrote
<1>2. objects'[<<m.name, m.run, "data">>] = m.snapshot
  <2>1. Sound(m)
    BY <1>1 DEF Fitted
  <2>2. <<m.name, m.run, "data">> \in Names \X Runs \X Objects /\ m.snapshot # None
    BY <2>1, SoundFacts DEF Objects
  <2> QED
    BY <1>1, <2>2 DEF ObjectsWritten, Stored
<1> QED
  BY <1>1, <1>2 DEF Stored

LEMMA KeepsEvaluations ==
    ASSUME ManifestsSound, ModelsSound, EvaluationsSound, Stage, FilesWritten
    PROVE  EvaluationsSound'
<1> SUFFICES ASSUME NEW d \in Dirs, evaluation'[d] # None
             PROVE  Tested(evaluation'[d])
  BY DEF EvaluationsSound, Tested, Fitted, Sound
<1>1. CASE evaluation'[d] = evaluation[d]
  BY <1>1 DEF EvaluationsSound
<1>2. CASE /\ evaluation'[d] # evaluation[d]
           /\ pc = "evaluation" /\ d = cmd.dir /\ evaluation'[d] = Evaluation
  <2>1. Read
    BY <1>2 DEF Stage, Loading
  <2>2. Frames = SplitsOf(Given) /\ cmd.dir \in Dirs
    BY <2>1, FramesAreSplits, GivenSound DEF Read
  <2>3. model[cmd.dir] # None /\ model[cmd.dir].manifest = Given
    BY <1>2 DEF FilesWritten
  <2>4. Fitted(model[cmd.dir])
    BY <2>2, <2>3 DEF ModelsSound
  <2> QED
    BY <1>2, <2>2, <2>3, <2>4 DEF Tested, Evaluation
<1> QED
  BY <1>1, <1>2 DEF FilesWritten, Wrote

LEMMA KeepsCache ==
    ASSUME ManifestsSound, CacheSound, CacheFilled
    PROVE  CacheSound'
<1>1. \A d \in Dirs : manifest[d] # None => manifest[d].snapshot \in SUBSET DOMAIN Row
  BY SoundFacts DEF ManifestsSound
<1> QED
  BY <1>1 DEF CacheSound, CacheFilled

LEMMA KeepsObjects ==
    ASSUME ArtifactsSound, ObjectsSound, Stage, ObjectsWritten
    PROVE  ObjectsSound'
<1> SUFFICES ASSUME NEW n \in Names, NEW r \in Runs
             PROVE  LET m == objects'[<<n, r, "manifest">>] IN
                    /\ m # None => /\ m.snapshot \subseteq DOMAIN Row
                                   /\ objects'[<<n, r, "data">>] = m.snapshot
                    /\ objects'[<<n, r, "artifact">>] # None =>
                          m # None /\ m.contract = objects'[<<n, r, "artifact">>]
  BY DEF ObjectsSound
<1> DEFINE D == <<n, r, "data">>
           M == <<n, r, "manifest">>
           A == <<n, r, "artifact">>
<1>1. {D, M, A} \subseteq Names \X Runs \X Objects
  BY DEF Objects
<1>2. \A o \in {D, M, A} : objects[o] # None => objects'[o] = objects[o]
  BY <1>1 DEF ObjectsWritten
<1>3. /\ M = Uri("manifest") => D = Uri("data")
      /\ A = Uri("artifact") => M = Uri("manifest")
      /\ M # Uri("data") /\ M # Uri("artifact")
      /\ A # Uri("data") /\ A # Uri("manifest")
  BY DEF Uri
<1>4. objects[M] # None => /\ objects[M].snapshot \subseteq DOMAIN Row
                           /\ objects[D] = objects[M].snapshot
  BY DEF ObjectsSound
<1>5. objects[A] # None => objects[M] # None /\ objects[M].contract = objects[A]
  BY DEF ObjectsSound
<1>6. \A rows \in SUBSET DOMAIN Row : None # rows
  BY TrainingAssumption DEF TrainingAssumption
<1>7. pc \in {"upload_manifest", "upload_artifact"} =>
        /\ objects[Uri("data")] = hand /\ hand \in SUBSET DOMAIN Row
        /\ manifest[cmd.dir] # None
        /\ manifest[cmd.dir].snapshot = hand
        /\ manifest[cmd.dir].contract = artifact[cmd.from]
  <2> SUFFICES ASSUME pc \in {"upload_manifest", "upload_artifact"}
               PROVE  /\ objects[Uri("data")] = hand /\ hand \in SUBSET DOMAIN Row
                      /\ manifest[cmd.dir] # None
                      /\ manifest[cmd.dir].snapshot = hand
                      /\ manifest[cmd.dir].contract = artifact[cmd.from]
    OBVIOUS
  <2>1. /\ Streamed /\ data[cmd.dir] = hand
        /\ objects[Uri("data")] = hand /\ manifest[cmd.dir] = ManifestOf
    BY DEF Stage, Snapshotting
  <2> QED
    BY <2>1, ManifestOfSound, SoundFacts DEF Streamed
<1>8. objects'[M] # None => /\ objects'[M].snapshot \subseteq DOMAIN Row
                            /\ objects'[D] = objects'[M].snapshot
  <2>1. CASE objects'[M] = objects[M]
    BY <2>1, <1>2, <1>4, <1>6
  <2>2. CASE pc = "upload_manifest" /\ M = Uri("manifest") /\ objects'[M] = manifest[cmd.dir]
    BY <2>2, <1>2, <1>3, <1>6, <1>7
  <2> QED
    BY <2>1, <2>2, <1>1, <1>3 DEF ObjectsWritten, Uploaded
<1>9. objects'[A] # None => objects'[M] # None /\ objects'[M].contract = objects'[A]
  <2>1. CASE objects'[A] = objects[A]
    BY <2>1, <1>2, <1>5
  <2>2. CASE pc = "upload_artifact" /\ A = Uri("artifact") /\ objects'[A] = artifact[cmd.from]
    <3>1. objects[M] = manifest[cmd.dir]
      BY <2>2, <1>3 DEF Stage
    <3> QED
      BY <2>2, <3>1, <1>2, <1>7
  <2> QED
    BY <2>1, <2>2, <1>1, <1>3 DEF ObjectsWritten, Uploaded
<1> QED
  BY <1>8, <1>9

-----------------------------------------------------------------------------
(* The command under way knows what it needs for its next step. *)

LEMMA Ends ==
    ASSUME pc' = "idle", cmd' = None, hand' = {}
    PROVE  Stage'
BY DEF Stage, Steps, Snapshotting, Loading

LEMMA StaysStreamed ==
    ASSUME Streamed, FilesWritten, UNCHANGED <<cmd, hand>>
    PROVE  Streamed' /\ artifact'[cmd.from] = artifact[cmd.from] /\ cmd.dir \in Dirs
<1>1. cmd.from \in Dirs /\ cmd.dir \in Dirs
  BY SnapshotCommand DEF Streamed
<1>2. artifact'[cmd.from] = artifact[cmd.from]
  BY <1>1 DEF FilesWritten, Wrote, Streamed
<1> QED
  BY <1>1, <1>2 DEF Streamed

LEMMA StageCheckContract ==
    ASSUME Idle, NEW d \in Dirs, NEW k \in Applicable, CheckContract(d, k)
    PROVE  Stage'
<1>1. pc' = "artifact" /\ cmd' = [op |-> "validate", dir |-> d, contract |-> k]
  BY DEF CheckContract, Start
<1>2. hand' \in Populations /\ <<k, hand', TRUE>> \in Verdicts
  BY DEF CheckContract
<1>3. hand' \subseteq DOMAIN Row
  BY <1>2, TrainingAssumption DEF TrainingAssumption
<1>4. cmd' \in Command /\ cmd'.op = "validate" /\ cmd'.contract = k
  BY <1>1 DEF Command
<1>5. Validating'
  BY <1>2, <1>3, <1>4 DEF Validating, Certified
<1> QED
  BY <1>1, <1>3, <1>5 DEF Stage, Steps, Snapshotting, Loading

LEMMA StageStreamSnapshot ==
    ASSUME Idle, NEW d \in Dirs, NEW r \in Runs, NEW c \in Answered, NEW from \in Dirs,
           StreamSnapshot(d, r, c, from)
    PROVE  Stage'
<1>1. /\ pc' = "expose"
      /\ cmd' = [op |-> "snapshot", dir |-> d, run |-> r, config |-> c, from |-> from]
      /\ artifact' = artifact /\ data' = data
      /\ artifact[from] # None /\ data[d] = None
      /\ Covered[artifact[from].contract] = Config[c].dataset.relation
      /\ hand' # {}
  BY DEF StreamSnapshot, Start, files
<1>2. PICK pop \in Populations :
          hand' = {row \in pop : Time[row] <= Config[c].split.test_end}
  BY DEF StreamSnapshot
<1>3. /\ hand' \subseteq DOMAIN Row
      /\ \A row \in hand' : Time[row] <= Config[c].split.test_end
  BY <1>2, TrainingAssumption DEF TrainingAssumption
<1>4. /\ cmd' \in Command /\ cmd'.op = "snapshot"
      /\ cmd'.dir = d /\ cmd'.config = c /\ cmd'.from = from
  BY <1>1 DEF Command
<1>5. Streamed'
  BY <1>1, <1>3, <1>4 DEF Streamed
<1> QED
  BY <1>1, <1>3, <1>4, <1>5 DEF Stage, Steps, Snapshotting, Loading

LEMMA StageExposeSnapshot ==
    ASSUME Tables, Stage, FilesWritten, ExposeSnapshot
    PROVE  Stage'
<1>1. Streamed /\ pc = "expose"
  BY DEF ExposeSnapshot, Stage, Snapshotting
<1>2. CASE Continue("upload_data")
  <2>1. pc' = "upload_data" /\ UNCHANGED <<cmd, hand>>
    BY <1>2 DEF Continue
  <2>2. Streamed' /\ cmd.dir \in Dirs
    BY <1>1, <2>1, StaysStreamed
  <2>3. data'[cmd.dir] = hand
    BY <2>2 DEF ExposeSnapshot, Tables, Table
  <2> QED
    BY <2>1, <2>2, <2>3 DEF Stage, Streamed, Steps, Snapshotting, Loading
<1>3. CASE End
  BY <1>3, Ends DEF End
<1> QED
  BY <1>2, <1>3 DEF ExposeSnapshot

LEMMA UriListed == Streamed => \A o \in Objects : Uri(o) \in Names \X Runs \X Objects
BY SnapshotCommand, ConfigFacts DEF Streamed, Uri, Answered

LEMMA StageUploadData ==
    ASSUME Tables, Stage, FilesWritten, UploadData
    PROVE  Stage'
<1>1. Streamed /\ pc = "upload_data" /\ data[cmd.dir] = hand
  BY DEF UploadData, Stage, Snapshotting
<1>2. CASE Continue("manifest") /\ objects' = [objects EXCEPT ![Uri("data")] = data[cmd.dir]]
  <2>1. pc' = "manifest" /\ UNCHANGED <<cmd, hand>>
    BY <1>2 DEF Continue
  <2>2. Streamed' /\ data' = data
    BY <1>1, <2>1, StaysStreamed DEF UploadData, files
  <2>3. objects'[Uri("data")] = hand
    BY <1>1, <1>2, UriListed DEF Tables, Table, Objects
  <2>4. Uri("data")' = Uri("data")
    BY <2>1 DEF Uri
  <2> QED
    BY <1>1, <2>1, <2>2, <2>3, <2>4 DEF Stage, Streamed, Steps, Snapshotting, Loading
<1>3. CASE End
  BY <1>3, Ends DEF End
<1> QED
  BY <1>2, <1>3 DEF UploadData, Upload

LEMMA StageWriteManifest ==
    ASSUME Tables, Stage, FilesWritten, WriteManifest
    PROVE  Stage'
<1>1. /\ Streamed /\ pc = "manifest" /\ data[cmd.dir] = hand
      /\ objects[Uri("data")] = hand
  BY DEF WriteManifest, Stage, Snapshotting
<1>2. CASE /\ Continue("upload_manifest")
           /\ manifest' = [manifest EXCEPT ![cmd.dir] = ManifestOf]
  <2>1. pc' = "upload_manifest" /\ UNCHANGED <<cmd, hand>>
    BY <1>2 DEF Continue
  <2>2. /\ Streamed' /\ artifact'[cmd.from] = artifact[cmd.from] /\ cmd.dir \in Dirs
        /\ data' = data /\ objects' = objects
    BY <1>1, <2>1, StaysStreamed DEF WriteManifest
  <2>3. manifest'[cmd.dir] = ManifestOf
    BY <1>2, <2>2 DEF Tables, Table
  <2>4. Uri("data")' = Uri("data") /\ ManifestOf' = ManifestOf
    BY <2>1, <2>2 DEF Uri, ManifestOf
  <2> QED
    BY <1>1, <2>1, <2>2, <2>3, <2>4 DEF Stage, Streamed, Steps, Snapshotting, Loading
<1>3. CASE End
  BY <1>3, Ends DEF End
<1> QED
  BY <1>2, <1>3 DEF WriteManifest, WriteOnce

LEMMA StageUploadManifest ==
    ASSUME Tables, Stage, FilesWritten, ObjectsWritten, UploadManifest
    PROVE  Stage'
<1>1. /\ Streamed /\ pc = "upload_manifest" /\ data[cmd.dir] = hand
      /\ objects[Uri("data")] = hand /\ manifest[cmd.dir] = ManifestOf
  BY DEF UploadManifest, Stage, Snapshotting
<1>2. CASE /\ Continue("upload_artifact")
           /\ objects' = [objects EXCEPT ![Uri("manifest")] = manifest[cmd.dir]]
  <2>1. pc' = "upload_artifact" /\ UNCHANGED <<cmd, hand>>
    BY <1>2 DEF Continue
  <2>2. /\ Streamed' /\ artifact' = artifact /\ data' = data /\ manifest' = manifest
    BY <1>1, <2>1, StaysStreamed DEF UploadManifest, files
  <2>3. Uri("data") # Uri("manifest")
    BY DEF Uri
  <2>4. objects'[Uri("manifest")] = manifest[cmd.dir] /\ objects'[Uri("data")] = hand
    BY <1>1, <1>2, <2>3, UriListed DEF Tables, Table, Objects
  <2>5. /\ Uri("data")' = Uri("data") /\ Uri("manifest")' = Uri("manifest")
        /\ ManifestOf' = ManifestOf
    BY <2>1, <2>2 DEF Uri, ManifestOf
  <2> QED
    BY <1>1, <2>1, <2>2, <2>4, <2>5 DEF Stage, Streamed, Steps, Snapshotting, Loading
<1>3. CASE End
  BY <1>3, Ends DEF End
<1> QED
  BY <1>2, <1>3 DEF UploadManifest, Upload

LEMMA StageMaterialize ==
    ASSUME Tables, ManifestsSound, Stage, Idle,
           NEW op \in {"diagnose", "train", "evaluate"}, NEW d \in Dirs, NEW from \in Dirs,
           NEW c \in Configs, op = "evaluate" \/ from = d, Materialize(op, d, c, from)
    PROVE  Stage'
<1>1. /\ pc' = "splits"
      /\ cmd' = [op |-> op, dir |-> d, config |-> c, from |-> from]
      /\ manifest' = manifest /\ hand' = hand
      /\ manifest[from] # None
      /\ cache' = [cache EXCEPT ![manifest[from].name] = manifest[from].snapshot]
  BY DEF Materialize, Start, files
<1>2. cmd' \in Command /\ cmd'.op = op /\ cmd'.dir = d /\ cmd'.from = from
  BY <1>1 DEF Command
<1>3. Given' = manifest[from] /\ Opened'
  BY <1>1, <1>2 DEF Opened, Given
<1>4. cache'[manifest[from].name] = manifest[from].snapshot
  <2>1. manifest[from].name \in Names
    BY <1>1, SoundFacts DEF ManifestsSound
  <2> QED
    BY <1>1, <2>1 DEF Tables, Table
<1> QED
  BY <1>1, <1>3, <1>4 DEF Stage, Steps, Snapshotting, Loading

LEMMA StaysOpened ==
    ASSUME Opened, ManifestsSound, FilesWritten, UNCHANGED cmd
    PROVE  Opened' /\ Given' = Given
<1>1. manifest'[cmd.from] = manifest[cmd.from] /\ Given # None
  BY GivenSound DEF FilesWritten, Wrote, Opened, Given
<1> QED
  BY <1>1 DEF Opened, Given

LEMMA StageReadSplits ==
    ASSUME ManifestsSound, Stage, FilesWritten, ReadSplits
    PROVE  Stage'
<1>1. Opened /\ cache[Given.name] = Given.snapshot
  BY DEF ReadSplits, Stage
<1>2. CASE /\ Configured(Given, cmd.config) /\ cmd.config \in Framed
           /\ hand' = cache[Given.name]
           /\ pc' = CASE cmd.op = "diagnose" -> "diagnostics"
                      [] cmd.op = "train"    -> "model"
                      [] cmd.op = "evaluate" -> "evaluation"
           /\ UNCHANGED cmd
  <2>1. Opened' /\ Given' = Given
    BY <1>1, <1>2, StaysOpened
  <2>2. Configured(Given, cmd.config)'
    BY <1>2, <2>1 DEF Configured
  <2>3. Read' /\ hand' \subseteq DOMAIN Row
    BY <1>1, <1>2, <2>1, <2>2, GivenSound, SoundFacts DEF Read
  <2>4. /\ pc' \in {"diagnostics", "model", "evaluation"}
        /\ pc' = "diagnostics" => cmd'.op = "diagnose"
    BY <1>1, <1>2 DEF Opened
  <2> QED
    BY <2>3, <2>4 DEF Stage, Steps, Snapshotting, Loading
<1>3. CASE End
  BY <1>3, Ends DEF End
<1> QED
  BY <1>2, <1>3 DEF ReadSplits

LEMMA StageWriteModel ==
    ASSUME ManifestsSound, Stage, FilesWritten, WriteModel
    PROVE  Stage'
<1>1. Read
  BY DEF WriteModel, Stage, Loading
<1>2. CASE Continue("metrics")
  <2>1. pc' = "metrics" /\ UNCHANGED <<cmd, hand>>
    BY <1>2 DEF Continue
  <2>2. Opened' /\ Given' = Given
    BY <1>1, <2>1, StaysOpened DEF Read
  <2>3. Read' /\ hand' \subseteq DOMAIN Row
    BY <1>1, <2>1, <2>2 DEF Read, Configured, Stage
  <2> QED
    BY <2>1, <2>3 DEF Stage, Steps, Snapshotting, Loading
<1>3. CASE End
  BY <1>3, Ends DEF End
<1> QED
  BY <1>2, <1>3 DEF WriteModel, WriteOnce

LEMMA KeepsStage ==
    ASSUME TrainingInv, [Next]_vars, FilesWritten, ObjectsWritten
    PROVE  Stage'
<1> USE DEF TrainingInv
<1>1. CASE Idle /\ \E d \in Dirs, k \in Applicable : CheckContract(d, k)
  BY <1>1, StageCheckContract
<1>2. CASE Idle /\ \E d, from \in Dirs, r \in Runs, c \in Answered :
              StreamSnapshot(d, r, c, from)
  BY <1>2, StageStreamSnapshot
<1>3. CASE ExposeSnapshot
  BY <1>3, StageExposeSnapshot
<1>4. CASE UploadData
  BY <1>4, StageUploadData
<1>5. CASE WriteManifest
  BY <1>5, StageWriteManifest
<1>6. CASE UploadManifest
  BY <1>6, StageUploadManifest
<1>7. CASE Idle /\ \E op \in {"diagnose", "train", "evaluate"}, d, from \in Dirs, c \in Configs :
              (op = "evaluate" \/ from = d) /\ Materialize(op, d, c, from)
  BY <1>7, StageMaterialize
<1>8. CASE ReadSplits
  BY <1>8, StageReadSplits
<1>9. CASE WriteModel
  BY <1>9, StageWriteModel
<1>10. CASE WriteArtifact \/ UploadArtifact \/ WriteDiagnostics \/ WriteMetrics \/ WriteEvaluation
  <2>1. End
    BY <1>10 DEF WriteArtifact, UploadArtifact, WriteDiagnostics, WriteMetrics, WriteEvaluation,
       WriteOnce, Upload
  <2> QED
    BY <2>1, Ends DEF End
<1>11. CASE Die
  BY <1>11, Ends DEF Die, End
<1>12. CASE UNCHANGED vars
  BY <1>12 DEF vars, files, command, Stage, Validating, Streamed, Opened, Read, Certified,
     Configured, Given, Uri, ManifestOf
<1> QED
  BY <1>1, <1>2, <1>3, <1>4, <1>5, <1>6, <1>7, <1>8, <1>9, <1>10, <1>11, <1>12, EveryAction
     DEF Actions

-----------------------------------------------------------------------------
(* The theorems. *)

LEMMA TrainingInvKept == TrainingInv /\ [Next]_vars => TrainingInv'
<1> SUFFICES ASSUME TrainingInv, [Next]_vars
             PROVE  TrainingInv'
  OBVIOUS
<1>1. FilesWritten /\ ObjectsWritten /\ CacheFilled
  BY FilesGrow, ObjectsGrow, CacheGrows DEF TrainingInv
<1>2. Tables'
  BY <1>1 DEF FilesWritten, Wrote, ObjectsWritten, CacheFilled, Tables, Table
<1>3. ArtifactsSound' /\ DataSound' /\ ManifestsSound' /\ DiagnosticsSound'
  BY <1>1, KeepsArtifacts, KeepsData, KeepsManifests, KeepsDiagnostics DEF TrainingInv
<1>4. ModelsSound' /\ EvaluationsSound' /\ CacheSound' /\ ObjectsSound'
  BY <1>1, KeepsModels, KeepsEvaluations, KeepsCache, KeepsObjects DEF TrainingInv
<1>5. Stage'
  BY <1>1, KeepsStage
<1> QED
  BY <1>2, <1>3, <1>4, <1>5 DEF TrainingInv

(* The invariant holds of every run of the commands. *)
THEOREM TrainingInvAlways == Spec => []TrainingInv
BY Initially, TrainingInvKept, PTL DEF Spec

(* TypeOK holds in every instance. *)
THEOREM TrainingTypes == Spec => []TypeOK
<1>1. ASSUME TrainingInv PROVE TypeOK
  <2> USE DEF TrainingInv
  <2>1. \A d \in Dirs : artifact[d] # None =>
          <<artifact[d].contract, artifact[d].validated, TRUE>> \in Verdicts
    BY <1>1 DEF ArtifactsSound, Certified
  <2>2. \A d \in Dirs : data[d] # None => data[d] # {} /\ data[d] \subseteq DOMAIN Time
    BY <1>1 DEF DataSound, Time
  <2>3. \A d \in Dirs : manifest[d] # None => manifest[d] \in Manifest
    BY <1>1 DEF ManifestsSound, Sound
  <2>4. \A b : Fitted(b) => b.fit.fitted \cup b.tuned \subseteq DOMAIN Time
    BY SoundFacts, SplitsApart DEF Fitted, SplitsOf, Splits, Time
  <2>5. \A e : Tested(e) => e.tested \subseteq DOMAIN Time
    BY SoundFacts, SplitsApart DEF Tested, Fitted, SplitsOf, Splits, Time
  <2>6. \A n \in Names : cache[n] = None \/ cache[n] \subseteq DOMAIN Time
    BY <1>1 DEF CacheSound, Time
  <2>7. pc \in Steps /\ hand \subseteq DOMAIN Time
    BY <1>1 DEF Stage, Time
  <2>8. pc # "idle" => cmd \in Command
    BY <1>1 DEF Stage, Steps, Snapshotting, Loading, Validating, Streamed, Opened, Read
  <2>9. cmd \in Command \cup {None} /\ (pc = "idle" <=> cmd = None)
    BY <1>1, <2>8, TrainingAssumption DEF TrainingAssumption, Stage
  <2>10. pc \in {"expose", "upload_data", "manifest"} => hand # {}
    BY <1>1 DEF Stage, Snapshotting, Streamed
  <2> QED
    BY <1>1, <2>1, <2>2, <2>3, <2>4, <2>5, <2>6, <2>7, <2>9, <2>10
       DEF TypeOK, ModelsSound, EvaluationsSound
<1> QED
  BY <1>1, TrainingInvAlways, PTL

(* EvaluationHonest holds in every instance: what an evaluation tests, its model has
   not seen. *)
THEOREM TrainingEvaluationHonest == Spec => []EvaluationHonest
<1>1. ASSUME TrainingInv PROVE EvaluationHonest
  <2>1. \A d \in Dirs : diagnostics[d] # None => diagnostics[d] = manifest[d].split_statistics
    BY <1>1 DEF TrainingInv, DiagnosticsSound
  <2>2. ASSUME NEW d \in Dirs, evaluation[d] # None
        PROVE  LET e == evaluation[d]
                   splits == Loaded(e.manifest.snapshot, e.manifest.bounds)
                   used == e.model.fit.fitted \cup e.model.fit.stopped \cup e.model.tuned
               IN  /\ e.tested \cap used = {}
                   /\ e.tested = splits["test"]
                   /\ e.model.fit.fitted = splits["train"]
                   /\ e.model.tuned = splits["validation"]
                   /\ \A s \in Splits : Statistics(splits[s]) = e.manifest.split_statistics[s]
    <3> DEFINE e == evaluation[d]
               splits == Loaded(e.manifest.snapshot, e.manifest.bounds)
    <3>1. Tested(e)
      BY <1>1, <2>2 DEF TrainingInv, EvaluationsSound
    <3>2. Fitted(e.model) /\ e.model.manifest = e.manifest /\ Sound(e.manifest)
      BY <3>1 DEF Tested, Fitted
    <3>3. /\ e.tested = splits["test"]
          /\ e.model.fit.fitted = splits["train"]
          /\ e.model.tuned = splits["validation"]
          /\ e.model.fit.stopped \subseteq splits["validation"]
      BY <3>1, <3>2 DEF Tested, Fitted, SplitsOf
    <3>4. /\ splits["test"] \cap splits["train"] = {}
          /\ splits["test"] \cap splits["validation"] = {}
      BY <3>2, SoundFacts, SplitsApart
    <3>5. \A s \in Splits : Statistics(splits[s]) = e.manifest.split_statistics[s]
      <4>1. splits = Counted(e.manifest.snapshot, e.manifest.bounds)
        BY <3>2, SoundFacts DEF SplitsOf
      <4>2. e.manifest.split_statistics = [s \in Splits |-> Statistics(splits[s])]
        BY <3>2, <4>1 DEF Sound
      <4> QED
        BY <4>2
    <3> QED
      BY <3>3, <3>4, <3>5
  <2> QED
    BY <2>1, <2>2 DEF EvaluationHonest
<1> QED
  BY <1>1, TrainingInvAlways, PTL

(* Traceable holds in every instance: every manifest and every model leads to the rows
   it names, and what is stored of a run is a prefix of what a run stores. *)
THEOREM TrainingTraceable == Spec => []Traceable
<1>1. ASSUME TrainingInv PROVE Traceable
  BY <1>1 DEF TrainingInv, ManifestsSound, ModelsSound, ObjectsSound, Stored, Traceable
<1> QED
  BY <1>1, TrainingInvAlways, PTL

(* WrittenOnce holds of every step: no file and no object that is there changes. *)
THEOREM TrainingWrittenOnce == Spec => WrittenOnce
<1> DEFINE Once ==
      /\ \A d \in Dirs :
            /\ artifact[d] # None => artifact'[d] = artifact[d]
            /\ data[d] # None => data'[d] = data[d]
            /\ manifest[d] # None => manifest'[d] = manifest[d]
            /\ model[d] # None => model'[d] = model[d]
            /\ metrics[d] # None => metrics'[d] = metrics[d]
            /\ evaluation[d] # None => evaluation'[d] = evaluation[d]
      /\ \A o \in DOMAIN objects : objects[o] # None => objects'[o] = objects[o]
<1>1. TrainingInv /\ [Next]_vars => [Once]_vars
  <2> SUFFICES ASSUME TrainingInv, [Next]_vars
               PROVE  Once
    OBVIOUS
  <2>1. FilesWritten /\ ObjectsWritten
    BY FilesGrow, ObjectsGrow DEF TrainingInv
  <2>2. DOMAIN objects = Names \X Runs \X Objects
    BY DEF TrainingInv, Tables, Table
  <2> QED
    BY <2>1, <2>2 DEF FilesWritten, Wrote, ObjectsWritten
<1> QED
  BY <1>1, TrainingInvAlways, PTL DEF Spec, WrittenOnce

(* What a sound manifest calls features are columns the contract checked and left for a
   model, when a configuration that agrees with it is read. *)
LEMMA CleanFeatures ==
    ASSUME NEW m, Sound(m), NEW c \in Framed, Configured(m, c)
    PROVE  Range(m.features) \subseteq Features[m.contract.contract]
<1> DEFINE k == m.contract.contract
           ds == Config[c].dataset
<1>1. k \in Applicable
  BY DEF Sound, Manifest, Artifact
<1>2. /\ Schema[Contracts[k].relation] = Contracts[k].expected_columns
      /\ Range(Contracts[k].prohibited) \cap NamesOf(Contracts[k].expected_columns) = {}
  <2>1. ExactSchema(Contracts[k]) /\ ValidContract(Contracts[k])
    BY <1>1 DEF Applicable
  <2>2. Schema[Contracts[k].relation] = Contracts[k].expected_columns
    BY <2>1 DEF ExactSchema
  <2>3. Range(Contracts[k].prohibited) \cap NamesOf(Contracts[k].expected_columns) = {}
    BY <2>1 DEF ValidContract, Range
  <2> QED
    BY <2>2, <2>3
<1>3. Contracts[k].relation = ds.relation /\ m.features = ds.features
  BY <1>1 DEF Sound, Covered, Configured
<1>4. Range(ds.features) \cap {Target, EventTime} = {}
  BY DEF Framed, Readable, Range
<1>5. Range(ds.features) \subseteq NamesOf(Schema[ds.relation])
  <2>1. PICK a \in Answered : Configured(m, a)
    BY DEF Sound
  <2>2. /\ Config[a].dataset.relation = ds.relation
        /\ Config[a].dataset.features = ds.features
    BY <2>1 DEF Configured
  <2>3. Projection(Config[a].dataset) \subseteq NamesOf(Schema[ds.relation])
    BY <2>2 DEF Answered, Selectable
  <2> QED
    BY <2>2, <2>3 DEF Projection, Range
<1> QED
  BY <1>1, <1>2, <1>3, <1>4, <1>5 DEF Features

(* FeaturesClean holds in every instance: no model is fitted on the target, the event
   time or a column its contract prohibits. *)
THEOREM TrainingFeaturesClean == Spec => []FeaturesClean
<1>1. ASSUME TrainingInv PROVE FeaturesClean
  <2> SUFFICES ASSUME NEW d \in Dirs, model[d] # None
               PROVE  Range(model[d].features) \subseteq Features[model[d].manifest.contract.contract]
    BY DEF FeaturesClean
  <2>1. Fitted(model[d])
    BY <1>1 DEF TrainingInv, ModelsSound
  <2> QED
    BY <2>1, CleanFeatures DEF Fitted
<1> QED
  BY <1>1, TrainingInvAlways, PTL
=============================================================================
