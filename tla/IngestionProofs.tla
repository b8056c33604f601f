-------------------------- MODULE IngestionProofs --------------------------
(***************************************************************************)
(* Theorems about Ingestion: what is proved of the landing query and of    *)
(* the DAG apart holds of the two together as far as the directories they  *)
(* share allow. The landing query is not disturbed by its reader at all;   *)
(* the reader keeps its invariant on every batch that was not overwritten  *)
(* after it was published.                                                 *)
(***************************************************************************)
EXTENDS Ingestion, FiniteSetTheorems, TLAPS

(* The two sides with what is proved of them. *)
SP == INSTANCE LandingProofs WITH pc <- query
LP == INSTANCE LoaderProofs WITH pc <- task, Landings <- [b \in Batch |-> {}]

-----------------------------------------------------------------------------
(* S and SP define the same things, and so do L and LP. *)
LEMMA SameNames ==
    /\ SP!Batch = Batch /\ S!Batch = Batch /\ LP!Batch = Batch /\ L!Batch = Batch
    /\ \A m, count : SP!Total(m, count) = LP!Total(m, count)
    /\ \A A : SP!Cardinality(A) = Cardinality(A)
    /\ SP!Manifest = LP!Manifest
<1> USE DEF Pipelines, SP!Pipelines, S!Pipelines, LP!Pipelines, L!Pipelines,
            Batch, SP!Batch, S!Batch, LP!Batch, L!Batch
<1>1. /\ SP!Batch = Batch /\ S!Batch = Batch /\ LP!Batch = Batch /\ L!Batch = Batch
  OBVIOUS
<1>2. \A m, count : SP!Total(m, count) = LP!Total(m, count)
  BY DEF SP!Total, LP!Total, SP!Cardinality, LP!Cardinality
<1>3. \A A : SP!Cardinality(A) = Cardinality(A)
  BY DEF SP!Cardinality, Cardinality
<1>4. SP!Manifest = LP!Manifest
  BY DEF SP!Manifest, LP!Manifest, SP!ManifestRow, LP!ManifestRow
<1> QED BY <1>1, <1>2, <1>3, <1>4

LEMMA SameInit == Init => SP!Init /\ LP!Init
<1>1. S!Init => SP!Init
  BY SameNames DEF S!Init, SP!Init
<1>2. L!Init => LP!Init
  BY SameNames DEF L!Init, LP!Init
<1> QED BY <1>1, <1>2 DEF Init

LEMMA SameLanding == (S!Next => SP!Next) /\ (S!ClearValid <=> SP!ClearValid) /\ S!Current = SP!Current
<1>1. S!Next => SP!Next
  BY DEF S!kafkaVars, SP!kafkaVars, S!sparkVars, SP!sparkVars, S!outputVars,
      SP!outputVars, S!vars, SP!vars, S!Batch, SP!Batch, S!Pipelines, SP!Pipelines,
      S!Planned, SP!Planned, S!Current, SP!Current, S!CurrentId, SP!CurrentId,
      S!BatchOf, SP!BatchOf, S!BatchRange, SP!BatchRange, S!ValidRows, SP!ValidRows,
      S!QuarantinedRows, SP!QuarantinedRows, S!BuildManifest, SP!BuildManifest,
      S!KeyOf, SP!KeyOf, S!Decoded, SP!Decoded, S!HeaderReason, SP!HeaderReason,
      S!ValidationReason, SP!ValidationReason, S!Reason, SP!Reason, S!None, SP!None,
      S!TransactionReasons, SP!TransactionReasons, S!LabelReasons, SP!LabelReasons,
      S!Cardinality, SP!Cardinality, S!StartQuery, SP!StartQuery, S!PlanBatch,
      SP!PlanBatch, S!ClearValid, SP!ClearValid, S!FillValid, SP!FillValid,
      S!ClearQuarantine, SP!ClearQuarantine, S!FillQuarantine, SP!FillQuarantine,
      S!ClearManifest, SP!ClearManifest, S!FillManifest, SP!FillManifest,
      S!MarkManifest, SP!MarkManifest, S!CommitBatch, SP!CommitBatch, S!StopQuery,
      SP!StopQuery, S!QueryStep, SP!QueryStep, S!Query, SP!Query, S!RegisterSchema,
      SP!RegisterSchema, S!Produce, SP!Produce, S!Producers, SP!Producers, S!Next,
      SP!Next
<1>2. S!ClearValid <=> SP!ClearValid
  BY DEF S!ClearValid, SP!ClearValid, S!kafkaVars, SP!kafkaVars, S!Current, SP!Current,
      S!CurrentId, SP!CurrentId, S!BatchOf, SP!BatchOf
<1>3. S!Current = SP!Current
  BY DEF S!Current, SP!Current, S!CurrentId, SP!CurrentId, S!BatchOf, SP!BatchOf
<1> QED BY <1>1, <1>2, <1>3

LEMMA SameLoader == L!Airflow => LP!Airflow
  BY DEF L!minioVars, LP!minioVars, L!clickhouseVars, LP!clickhouseVars, L!airflowVars,
      LP!airflowVars, L!Batch, LP!Batch, L!Pipelines, LP!Pipelines, L!Cardinality,
      LP!Cardinality, L!Before, LP!Before, L!Total, LP!Total, L!ManifestOk,
      LP!ManifestOk, L!Committed, LP!Committed, L!Pending, LP!Pending, L!Selected,
      LP!Selected, L!Fault, LP!Fault, L!Goto, LP!Goto, L!EndAttempt, LP!EndAttempt,
      L!Raise, LP!Raise, L!Copied, LP!Copied, L!Recorded, LP!Recorded, L!Working,
      LP!Working, L!StartRun, LP!StartRun, L!CheckDependencies, LP!CheckDependencies,
      L!DiscoverBatches, LP!DiscoverBatches, L!FinishRun, LP!FinishRun, L!StageFails,
      LP!StageFails, L!RunStep, LP!RunStep, L!StartTask, LP!StartTask, L!ReadSummary,
      LP!ReadSummary, L!CountRows, LP!CountRows, L!InsertRows, LP!InsertRows,
      L!InsertQuality, LP!InsertQuality, L!RecordSuccess, LP!RecordSuccess,
      L!RecordFailed, LP!RecordFailed, L!WorkerDies, LP!WorkerDies, L!LoadStep,
      LP!LoadStep, L!Airflow, LP!Airflow

LEMMA SameProperties ==
    /\ SP!TypeOK => S!TypeOK
    /\ LP!TypeOK => L!TypeOK
    /\ \A n : SP!Whole(n) => S!Whole(n)
    /\ \A b : L!Loaded(b) = LP!Loaded(b) /\ (L!Committed(b) <=> LP!Committed(b))
<1>1. SP!TypeOK => S!TypeOK
  BY DEF SP!TypeOK, S!TypeOK, SP!Writing, S!Writing, SP!Batch, S!Batch, SP!Pipelines,
      S!Pipelines, SP!Manifest, S!Manifest, SP!ManifestRow, S!ManifestRow
<1>2. LP!TypeOK => L!TypeOK
  BY DEF LP!TypeOK, L!TypeOK, LP!Working, L!Working, LP!Stages, L!Stages, LP!Batch, L!Batch,
      LP!Pipelines, L!Pipelines, LP!Manifest, L!Manifest, LP!ManifestRow, L!ManifestRow
<1>3. ASSUME NEW n, SP!Whole(n) PROVE S!Whole(n)
  BY <1>3 DEF SP!Whole, S!Whole, SP!BatchOf, S!BatchOf, SP!BatchRange, S!BatchRange,
      SP!Reconciles, S!Reconciles, SP!ManifestOk, S!ManifestOk, SP!Accepted, S!Accepted,
      SP!Total, S!Total, SP!Cardinality, S!Cardinality
<1>4. \A b : L!Loaded(b) = LP!Loaded(b) /\ (L!Committed(b) <=> LP!Committed(b))
  BY DEF L!Loaded, LP!Loaded, L!Committed, LP!Committed
<1> QED BY <1>1, <1>2, <1>3, <1>4

(* The assumptions of the two sides, as their theorems ask for them. *)
LEMMA Assumptions ==
    /\ BatchIds \subseteq Nat
    /\ SP!IsFiniteSet(BatchIds) /\ SP!IsFiniteSet(Rows) /\ SP!LandingAssumption
    /\ LP!IsFiniteSet(BatchIds) /\ LP!IsFiniteSet(Rows) /\ LP!LoaderAssumption
<1>1. /\ SP!IsFiniteSet(BatchIds) /\ SP!IsFiniteSet(Rows)
      /\ LP!IsFiniteSet(BatchIds) /\ LP!IsFiniteSet(Rows)
  BY BatchIdsAssumption, RowsAssumption DEF SP!IsFiniteSet, LP!IsFiniteSet, IsFiniteSet
<1>2. SP!LandingAssumption
  BY IngestionAssumption DEF S!LandingAssumption, SP!LandingAssumption, S!Message, SP!Message,
      S!Pipelines, SP!Pipelines, S!Frames, SP!Frames, S!Payloads, SP!Payloads,
      S!TransactionReasons, SP!TransactionReasons, S!LabelReasons, SP!LabelReasons
<1>3. LP!LoaderAssumption
  BY IngestionAssumption DEF L!LoaderAssumption, LP!LoaderAssumption, L!Batch, LP!Batch,
      L!Pipelines, LP!Pipelines, L!Manifest, LP!Manifest, L!ManifestRow, LP!ManifestRow,
      L!Total, LP!Total, L!Cardinality, LP!Cardinality
<1> QED BY <1>1, <1>2, <1>3, BatchIdsAssumption

-----------------------------------------------------------------------------
(* The DAG reads MinIO and writes nothing the landing query has: each of its
   steps is a stutter of Landing. *)
LEMMA LandingUndisturbed == [Next]_vars => [SP!Next]_(SP!vars)
<1> USE DEF SP!vars, SP!kafkaVars, SP!sparkVars, SP!outputVars
<1>1. ASSUME Landing PROVE SP!Next
  BY <1>1, SameLanding DEF Landing
<1>2. ASSUME Ingest PROVE UNCHANGED SP!vars
  <2>1. UNCHANGED LP!minioVars
    BY <1>2, SameLoader, LP!AirflowReadsMinio, Assumptions DEF Ingest
  <2> QED BY <1>2, <2>1 DEF Ingest, landingVars, LP!minioVars
<1>3. ASSUME UNCHANGED vars PROVE UNCHANGED SP!vars
  BY <1>3 DEF vars, landingVars
<1> QED BY <1>1, <1>2, <1>3 DEF Next

(* What is proved of the landing query alone holds with the DAG beside it. *)
THEOREM LandingInIngestion ==
    Spec => [](SP!TypeOK /\ SP!CommittedAccounted /\ SP!OffsetsOnce)
<1>1. SP!Spec => []SP!LandingInv
  BY SP!LandingInvAlways, Assumptions
<1>2. SP!LandingInv => SP!TypeOK /\ SP!CommittedAccounted /\ SP!OffsetsOnce
  BY SP!OnceInInv, Assumptions DEF SP!LandingInv
<1>3. Init => SP!Init
  BY SameInit
<1> QED BY <1>1, <1>2, <1>3, LandingUndisturbed, PTL DEF Spec, SP!Spec

-----------------------------------------------------------------------------
(***************************************************************************)
(* The inductive invariant. A batch that is published and was not          *)
(* overwritten since is whole, and the query is not between its writes;    *)
(* for such a batch the DAG has its own invariant. What is loaded of any   *)
(* batch, overwritten or not, is of its offset range.                      *)
(***************************************************************************)
Planned(b) == b[1] = Pipeline /\ b[2] < Len(offsets)

LoadedInRange ==
    \A b \in Batch : LP!Loaded(b) # {} =>
        Planned(b) /\ LP!Loaded(b) \subseteq SP!BatchRange(b[2])

Settled(b) == b = SP!Current /\ query \in SP!Writing => query \in {"clear_valid", "commit"}

PublishedWhole ==
    \A b \in Batch \ rewritten : marker[b] => Planned(b) /\ SP!Whole(b[2]) /\ Settled(b)

LoadedSoundly == \A b \in Batch \ rewritten : LP!BatchInv(b)

IngestionInv ==
    /\ SP!LandingInv /\ LP!TypeInv /\ rewritten \subseteq Batch
    /\ LoadedInRange /\ PublishedWhole /\ LoadedSoundly

LEMMA BatchParts ==
    ASSUME NEW b \in Batch
    PROVE  b[1] \in Pipelines /\ b[2] \in BatchIds /\ b[2] \in Nat /\ b = <<b[1], b[2]>>
<1>1. b[1] \in Pipelines /\ b[2] \in BatchIds /\ b = <<b[1], b[2]>>
  BY DEF Batch
<1> QED BY <1>1, BatchIdsAssumption

(* A planned batch is one of the batches of the landing query. *)
LEMMA PlannedBatch ==
    ASSUME SP!LandingInv, NEW b \in Batch, Planned(b)
    PROVE  b[2] \in SP!BatchNumbers /\ b = SP!BatchOf(b[2])
<1>1. b[2] \in Nat /\ b = <<b[1], b[2]>>
  BY BatchParts
<1>2. Len(offsets) \in Nat
  BY DEF SP!LandingInv, SP!TypeOK
<1> QED BY <1>1, <1>2 DEF Planned, SP!BatchNumbers, SP!BatchOf

LEMMA IngestionInvInit == Init => IngestionInv
<1> SUFFICES ASSUME Init PROVE IngestionInv
  OBVIOUS
<1>1. SP!Init /\ LP!Init /\ rewritten = {}
  BY SameInit DEF Init
<1>2. SP!LandingInv
  BY <1>1, SP!LandingInvInit, Assumptions
<1>3. LP!TypeInv
  BY <1>1, LP!TypeInvInit, Assumptions
<1>4. LoadedSoundly
  BY <1>1, LP!LoadInvInit, Assumptions, SameNames DEF LP!LoadInv, LoadedSoundly
<1>5. LoadedInRange /\ PublishedWhole
  BY <1>1, SameNames DEF LP!Init, LoadedInRange, PublishedWhole, LP!Loaded
<1> QED BY <1>1, <1>2, <1>3, <1>4, <1>5 DEF IngestionInv

(* What a step of the landing query does to a batch that is published and stays
   clean: nothing. *)
LEMMA PublishedLeftAlone ==
    ASSUME IngestionInv, Landing, NEW b \in Batch, b \notin rewritten', marker[b]
    PROVE  /\ valid'[b] = valid[b] /\ quarantine'[b] = quarantine[b]
           /\ manifest'[b] = manifest[b] /\ marker'[b] = marker[b]
           /\ Settled(b)'
<1>1. /\ SP!LandingInv /\ SP!Next /\ b \notin rewritten
      /\ ~(b = SP!Current /\ SP!ClearValid)
  BY SameLanding DEF Landing, IngestionInv
<1>2. Settled(b)
  BY <1>1 DEF IngestionInv, PublishedWhole
<1>3. CASE SP!WriteStep
  <2>1. /\ query \in SP!Writing /\ UNCHANGED offsets
        /\ \A a \in Batch \ {SP!Current} :
              /\ valid'[a] = valid[a] /\ quarantine'[a] = quarantine[a]
              /\ manifest'[a] = manifest[a] /\ marker'[a] = marker[a]
    BY <1>1, <1>3, SP!WriteTouchesOne, Assumptions, SameNames
  <2>2. b # SP!Current
    <3>1. query = "clear_valid" => SP!ClearValid
      BY <1>3 DEF SP!WriteStep, SP!ClearValid, SP!FillValid, SP!ClearQuarantine,
          SP!FillQuarantine, SP!ClearManifest, SP!FillManifest, SP!MarkManifest
    <3>2. query # "commit"
      BY <1>3 DEF SP!WriteStep, SP!ClearValid, SP!FillValid, SP!ClearQuarantine,
          SP!FillQuarantine, SP!ClearManifest, SP!FillManifest, SP!MarkManifest
    <3> QED BY <1>1, <1>2, <2>1, <3>1, <3>2 DEF Settled
  <2>3. SP!Current' = SP!Current
    BY <2>1 DEF SP!Current, SP!CurrentId, SP!BatchOf
  <2> QED BY <2>1, <2>2, <2>3 DEF Settled
<1>4. CASE ~SP!WriteStep
  <2>1. UNCHANGED SP!outputVars
    BY <1>1, <1>4 DEF SP!Next, SP!Query, SP!QueryStep, SP!WriteStep, SP!Producers,
        SP!StartQuery, SP!PlanBatch, SP!CommitBatch, SP!StopQuery, SP!RegisterSchema, SP!Produce
  <2>2. \/ query' \in {"down", "idle", "clear_valid"}
        \/ UNCHANGED <<query, offsets>>
    BY <1>1, <1>4 DEF SP!Next, SP!Query, SP!QueryStep, SP!WriteStep, SP!Producers,
        SP!StartQuery, SP!PlanBatch, SP!CommitBatch, SP!StopQuery, SP!RegisterSchema,
        SP!Produce, SP!sparkVars
  <2>3. Settled(b)'
    <3>1. CASE query' \in {"down", "idle", "clear_valid"}
      BY <3>1 DEF Settled, SP!Writing
    <3>2. CASE UNCHANGED <<query, offsets>>
      BY <1>2, <3>2 DEF Settled, SP!Current, SP!CurrentId, SP!BatchOf
    <3> QED BY <2>2, <3>1, <3>2
  <2> QED BY <2>1, <2>3 DEF SP!outputVars
<1> QED BY <1>3, <1>4

(* The landing query keeps the types the DAG reads by. *)
LEMMA TypeInvLanding == ASSUME IngestionInv, Landing PROVE LP!TypeInv'
<1> USE DEF IngestionInv
<1>1. SP!LandingInv' /\ SP!Next
  BY SP!LandingInvNext, Assumptions, SameLanding DEF Landing
<1>2. /\ raw' = raw /\ quality' = quality /\ ledger' = ledger /\ run' = run
      /\ runTries' = runTries /\ task' = task /\ tries' = tries /\ claimed' = claimed
      /\ faults' = faults
  BY DEF Landing, loaderVars
<1>3. LP!TypeOK'
  <2>1. SP!TypeOK'
    BY <1>1 DEF SP!LandingInv
  <2>2. /\ marker' \in [LP!Batch -> BOOLEAN] /\ valid' \in [LP!Batch -> SUBSET Rows]
        /\ manifest' \in [LP!Batch -> LP!Manifest]
    BY <2>1, SameNames DEF SP!TypeOK
  <2> QED BY <1>2, <2>2 DEF LP!TypeInv, LP!TypeOK
<1>4. LP!CountsAdd'
  <2> SUFFICES ASSUME NEW b \in Batch PROVE SP!Total(manifest'[b], "valid") \in Int
    BY SameNames DEF LP!CountsAdd
  <2>1. CASE manifest'[b] = manifest[b]
    BY <2>1, SameNames DEF LP!TypeInv, LP!CountsAdd
  <2>2. CASE SP!ClearManifest /\ manifest'[b] # manifest[b]
    <3>1. manifest'[b] = {}
      BY <2>2, SameNames DEF SP!ClearManifest, SP!LandingInv, SP!TypeOK
    <3>2. UNION {{r} \X (1..r["valid"]) : r \in {}} = {}
      OBVIOUS
    <3>3. SP!Total({}, "valid") = 0
      BY <3>2, SameNames, FS_EmptySet DEF SP!Total
    <3> QED BY <3>1, <3>3
  <2>3. CASE SP!FillManifest /\ manifest'[b] # manifest[b]
    <3>1. manifest'[b] = SP!BuildManifest(SP!CurrentId, catalog)
      BY <2>3, SameNames DEF SP!FillManifest, SP!LandingInv, SP!TypeOK
    <3>2. SP!CurrentId \in SP!BatchNumbers
      BY <2>3, SP!WriteTouchesOne, Assumptions DEF SP!WriteStep
    <3>3. Cardinality(SP!ValidRows(SP!CurrentId, catalog)) = SP!Total(manifest'[b], "valid")
      BY <3>1, <3>2, SP!ManifestReconciles, Assumptions, SameNames DEF SP!LandingInv
    <3>4. SP!ValidRows(SP!CurrentId, catalog) \subseteq Rows
      BY <2>3, SP!WriteTouchesOne, Assumptions DEF SP!WriteStep, SP!ValidRows
    <3> QED BY <3>3, <3>4, RowsAssumption, FS_Subset, FS_CardinalityType
  <2> QED
    BY <1>1, <2>1, <2>2, <2>3
    DEF SP!Next, SP!Query, SP!Producers, SP!QueryStep, SP!StartQuery, SP!PlanBatch,
        SP!ClearValid, SP!FillValid, SP!ClearQuarantine, SP!FillQuarantine, SP!MarkManifest,
        SP!CommitBatch, SP!StopQuery, SP!RegisterSchema, SP!Produce, SP!outputVars
<1>5. LP!AttemptLeft'
  BY <1>2 DEF LP!TypeInv, LP!AttemptLeft
<1> QED BY <1>3, <1>4, <1>5 DEF LP!TypeInv

LEMMA InvLanding == ASSUME IngestionInv, Landing PROVE IngestionInv'
<1> USE DEF IngestionInv
<1>1. /\ SP!LandingInv /\ SP!TypeOK /\ SP!EndsGrow /\ SP!Next /\ SP!LandingInv'
  BY SP!LandingInvNext, Assumptions, SameLanding DEF Landing, SP!LandingInv
<1>2. SP!LogGrows /\ SP!OffsetsGrow
  BY <1>1, SP!StepGrows, Assumptions
<1>3. LP!TypeInv'
  BY TypeInvLanding
<1>4. /\ raw' = raw /\ quality' = quality /\ ledger' = ledger
      /\ task' = task /\ claimed' = claimed
  BY DEF Landing, loaderVars
<1>5. rewritten \subseteq rewritten' /\ rewritten' \subseteq Batch
  <2>1. SP!ClearValid => SP!Current \in Batch
    BY <1>1, SP!WriteTouchesOne, Assumptions, SameNames DEF SP!WriteStep
  <2> QED BY <2>1, SameLanding DEF Landing
<1>6. ASSUME NEW b \in Batch, Planned(b)
      PROVE  Planned(b)' /\ SP!BatchRange(b[2])' = SP!BatchRange(b[2])
  <2>1. b[2] \in SP!BatchNumbers
    BY <1>1, <1>6, PlannedBatch
  <2>2. SP!BatchRange(b[2])' = SP!BatchRange(b[2])
    BY <1>1, <1>2, <2>1, SP!PlannedKept, Assumptions
  <2>3. Planned(b)'
    <3>1. b[2] \in Nat /\ Len(offsets) \in Nat /\ Len(offsets') \in Nat
      BY <1>1, BatchParts DEF SP!LandingInv, SP!TypeOK
    <3>2. Len(offsets) <= Len(offsets')
      BY <1>2 DEF SP!OffsetsGrow
    <3> QED BY <1>6, <3>1, <3>2 DEF Planned
  <2> QED BY <2>2, <2>3
<1>7. \A b \in Batch : /\ LP!Loaded(b)' = LP!Loaded(b)
                       /\ LP!Committed(b)' <=> LP!Committed(b)
  BY <1>4 DEF LP!Loaded, LP!Committed
<1>8. LoadedInRange'
  BY <1>6, <1>7 DEF LoadedInRange
<1>9. PublishedWhole'
  <2> SUFFICES ASSUME NEW b \in Batch, b \notin rewritten', marker'[b]
               PROVE  Planned(b)' /\ SP!Whole(b[2])' /\ Settled(b)'
    BY DEF PublishedWhole
  <2>1. CASE marker[b]
    <3>1. b \notin rewritten
      BY <1>5
    <3>2. Planned(b) /\ SP!Whole(b[2])
      BY <2>1, <3>1 DEF PublishedWhole
    <3>3. b[2] \in SP!BatchNumbers /\ b = SP!BatchOf(b[2])
      BY <1>1, <3>2, PlannedBatch
    <3>4. /\ valid'[b] = valid[b] /\ quarantine'[b] = quarantine[b]
          /\ manifest'[b] = manifest[b] /\ marker'[b] = marker[b]
          /\ Settled(b)'
      BY <2>1, PublishedLeftAlone
    <3>5. SP!Whole(b[2])'
      BY <1>1, <1>2, <3>2, <3>3, <3>4, SP!WholeKept, Assumptions
    <3> QED BY <1>6, <3>2, <3>4, <3>5
  <2>2. CASE ~marker[b]
    <3>1. SP!MarkManifest
      <4>1. marker' = marker \/ SP!ClearManifest \/ SP!MarkManifest
        BY <1>1 DEF SP!Next, SP!Query, SP!Producers, SP!QueryStep, SP!StartQuery,
            SP!PlanBatch, SP!ClearValid, SP!FillValid, SP!ClearQuarantine,
            SP!FillQuarantine, SP!FillManifest, SP!CommitBatch, SP!StopQuery,
            SP!RegisterSchema, SP!Produce, SP!outputVars
      <4>2. SP!ClearManifest => ~marker'[b]
        BY <1>1, <2>2, SameNames DEF SP!ClearManifest, SP!TypeOK
      <4> QED BY <2>2, <4>1, <4>2
    <3>2. /\ query = "mark_manifest" /\ query' = "commit"
          /\ marker' = [marker EXCEPT ![SP!Current] = TRUE]
          /\ UNCHANGED <<log, offsets, valid, quarantine, manifest>>
      BY <3>1 DEF SP!MarkManifest, SP!kafkaVars
    <3>3. b = SP!Current
      BY <1>1, <2>2, <3>2, SameNames DEF SP!TypeOK
    <3>4. SP!CurrentId \in SP!BatchNumbers /\ b[1] = Pipeline /\ b[2] = SP!CurrentId
          /\ b = SP!BatchOf(b[2])
      <4>1. SP!CurrentId \in SP!BatchNumbers
        BY <1>1, <3>1, SP!WriteTouchesOne, Assumptions DEF SP!WriteStep
      <4> QED BY <3>3, <4>1 DEF SP!Current, SP!BatchOf
    <3>5. Planned(b)'
      <4>1. SP!CurrentId < Len(offsets)
        BY <3>4, <1>1 DEF SP!BatchNumbers, SP!TypeOK
      <4> QED BY <3>2, <3>4, <4>1 DEF Planned
    <3>6. SP!Whole(b[2])'
      BY <1>1, <2>2, <3>4, SP!MarkerOnWhole, Assumptions
    <3>7. Settled(b)'
      BY <3>2 DEF Settled
    <3> QED BY <3>5, <3>6, <3>7
  <2> QED BY <2>1, <2>2
<1>10. LoadedSoundly'
  <2> SUFFICES ASSUME NEW b \in Batch, b \notin rewritten' PROVE LP!BatchInv(b)'
    BY DEF LoadedSoundly
  <2>1. b \notin rewritten /\ LP!BatchInv(b)
    BY <1>5 DEF LoadedSoundly
  <2>2. CASE marker[b]
    <3>1. valid'[b] = valid[b] /\ manifest'[b] = manifest[b] /\ marker'[b] = marker[b]
      BY <2>2, PublishedLeftAlone
    <3>2. LP!Untouched(b)
      BY <1>4, <3>1 DEF LP!Untouched
    <3> QED BY <2>1, <3>2, SameNames, LP!UntouchedKeeps, Assumptions
  <2>3. CASE ~marker[b]
    <3>1. /\ LP!Loaded(b) = {} /\ quality[b] = <<>> /\ ~LP!Committed(b) /\ task[b] = "none"
      BY <2>1, <2>3 DEF LP!BatchInv
    <3> QED BY <1>4, <1>7, <3>1 DEF LP!BatchInv
  <2> QED BY <2>2, <2>3
<1> QED BY <1>1, <1>3, <1>5, <1>8, <1>9, <1>10

LEMMA InvIngest == ASSUME IngestionInv, Ingest PROVE IngestionInv'
<1> USE DEF IngestionInv
<1>1. /\ LP!Airflow /\ LP!TypeInv
      /\ marker' = marker /\ valid' = valid /\ manifest' = manifest
      /\ log' = log /\ registry' = registry /\ query' = query /\ catalog' = catalog
      /\ offsets' = offsets /\ commits' = commits /\ quarantine' = quarantine
      /\ crashes' = crashes /\ rewritten' = rewritten
  <2>1. LP!Airflow
    BY SameLoader DEF Ingest
  <2>2. UNCHANGED LP!minioVars
    BY <2>1, LP!AirflowReadsMinio, Assumptions
  <2> QED BY <2>1, <2>2 DEF Ingest, landingVars, LP!minioVars
<1>2. SP!LandingInv'
  <2>1. UNCHANGED SP!vars
    BY <1>1 DEF SP!vars, SP!kafkaVars, SP!sparkVars, SP!outputVars
  <2> QED BY <2>1, SP!LandingInvNext, Assumptions
<1>3. LP!TypeInv'
  BY <1>1, SameNames, LP!TypeInvRun, LP!TypeInvLoad, Assumptions DEF LP!Airflow
<1>4. LoadedInRange'
  <2> SUFFICES ASSUME NEW b \in Batch, LP!Loaded(b)' # {}
               PROVE  Planned(b) /\ LP!Loaded(b)' \subseteq SP!BatchRange(b[2])
    BY <1>1 DEF LoadedInRange, Planned, SP!BatchRange
  <2>1. LP!Loaded(b)' \subseteq LP!Loaded(b) \cup valid[b]
    BY <1>1, SameNames, LP!LoadedFromValid, Assumptions
  <2>2. valid[b] # {} => Planned(b) /\ valid[b] \subseteq SP!BatchRange(b[2])
    BY SameNames DEF SP!LandingInv, SP!InOwnRange, Planned
  <2> QED BY <2>1, <2>2 DEF LoadedInRange
<1>5. PublishedWhole'
  BY <1>1 DEF PublishedWhole, Planned, Settled, SP!Whole, SP!BatchRange, SP!Current,
      SP!CurrentId, SP!BatchOf
<1>6. LoadedSoundly'
  <2> SUFFICES ASSUME NEW b \in Batch, b \notin rewritten PROVE LP!BatchInv(b)'
    BY <1>1 DEF LoadedSoundly
  <2>1. LP!BatchInv(b)
    BY DEF LoadedSoundly
  <2>2. CASE LP!RunStep \/ LP!StageFails
    BY <1>1, <2>1, <2>2, SameNames, LP!BatchInvRun, Assumptions
  <2>3. ASSUME NEW a \in Batch, LP!LoadStep(a) \/ LP!WorkerDies(a) PROVE LP!BatchInv(b)'
    <3>1. CASE a = b
      BY <1>1, <2>1, <2>3, <3>1, SameNames, LP!BatchInvLoad, Assumptions
    <3>2. CASE a # b
      <4>1. LP!Untouched(b)
        BY <1>1, <2>3, <3>2, SameNames, LP!LoadTouchesOne, Assumptions
      <4> QED BY <2>1, <4>1, SameNames, LP!UntouchedKeeps, Assumptions
    <3> QED BY <3>1, <3>2
  <2> QED BY <1>1, <2>2, <2>3, SameNames DEF LP!Airflow
<1> QED BY <1>1, <1>2, <1>3, <1>4, <1>5, <1>6

LEMMA InvStutter == ASSUME IngestionInv, UNCHANGED vars PROVE IngestionInv'
<1> USE DEF IngestionInv, vars, landingVars, loaderVars
<1>1. /\ marker' = marker /\ valid' = valid /\ manifest' = manifest
      /\ log' = log /\ registry' = registry /\ query' = query /\ catalog' = catalog
      /\ offsets' = offsets /\ commits' = commits /\ quarantine' = quarantine
      /\ crashes' = crashes /\ rewritten' = rewritten /\ raw' = raw /\ quality' = quality
      /\ ledger' = ledger /\ run' = run /\ runTries' = runTries /\ task' = task
      /\ tries' = tries /\ claimed' = claimed /\ faults' = faults
  OBVIOUS
<1>2. SP!LandingInv'
  <2>1. UNCHANGED SP!vars
    BY <1>1 DEF SP!vars, SP!kafkaVars, SP!sparkVars, SP!outputVars
  <2> QED BY <2>1, SP!LandingInvNext, Assumptions
<1>3. LP!TypeInv'
  <2>1. UNCHANGED LP!vars
    BY <1>1 DEF LP!vars, LP!minioVars, LP!clickhouseVars, LP!airflowVars
  <2> QED BY <2>1, LP!TypeInvNext, Assumptions
<1>4. LoadedInRange' /\ PublishedWhole'
  BY <1>1 DEF LoadedInRange, LP!Loaded, PublishedWhole, Planned, Settled, SP!Whole,
      SP!BatchRange, SP!Current, SP!CurrentId, SP!BatchOf
<1>5. LoadedSoundly'
  <2>1. \A b \in Batch : LP!Untouched(b)
    BY <1>1 DEF LP!Untouched
  <2> QED BY <1>1, <2>1, SameNames, LP!UntouchedKeeps, Assumptions DEF LoadedSoundly
<1> QED BY <1>1, <1>2, <1>3, <1>4, <1>5

(* The inductive invariant of the two together. *)
THEOREM IngestionInvAlways == Spec => []IngestionInv
<1>1. IngestionInv /\ [Next]_vars => IngestionInv'
  BY InvLanding, InvIngest, InvStutter DEF Next
<1> QED BY <1>1, IngestionInvInit, PTL DEF Spec

-----------------------------------------------------------------------------
(* Every variable of both sides keeps its type. *)
THEOREM IngestionTypes == Spec => []TypeOK
<1>1. IngestionInv => TypeOK
  BY SameProperties DEF IngestionInv, SP!LandingInv, LP!TypeInv, TypeOK
<1> QED BY <1>1, IngestionInvAlways, PTL

LEMMA OneBatchInInv == ASSUME IngestionInv PROVE RowsOfOneBatch
<1> SUFFICES ASSUME NEW b \in Batch, LP!Loaded(b) # {}
             PROVE  /\ b[1] = Pipeline /\ b[2] < Len(offsets)
                    /\ \A a \in Batch \ {b} : LP!Loaded(a) \cap LP!Loaded(b) = {}
  BY SameProperties DEF RowsOfOneBatch
<1>1. Planned(b) /\ LP!Loaded(b) \subseteq SP!BatchRange(b[2])
  BY DEF IngestionInv, LoadedInRange
<1>2. SP!LandingInv /\ SP!TypeOK /\ SP!EndsGrow
  BY DEF IngestionInv, SP!LandingInv
<1>3. ASSUME NEW a \in Batch \ {b}, LP!Loaded(a) # {}
      PROVE  LP!Loaded(a) \cap LP!Loaded(b) = {}
  <2>1. Planned(a) /\ LP!Loaded(a) \subseteq SP!BatchRange(a[2])
    BY <1>3 DEF IngestionInv, LoadedInRange
  <2>2. a[2] \in SP!BatchNumbers /\ b[2] \in SP!BatchNumbers
    BY <1>1, <1>2, <2>1, PlannedBatch
  <2>3. a[2] < b[2] \/ b[2] < a[2]
    <3>1. /\ a[2] \in Nat /\ b[2] \in Nat /\ a = <<a[1], a[2]>> /\ b = <<b[1], b[2]>>
          /\ a # b
      BY BatchParts
    <3> QED BY <1>1, <2>1, <3>1 DEF Planned
  <2>4. SP!BatchRange(a[2]) \cap SP!BatchRange(b[2]) = {}
    BY <1>2, <2>2, <2>3, SP!RangesDisjoint, Assumptions
  <2> QED BY <1>1, <2>1, <2>4
<1> QED BY <1>1, <1>3 DEF Planned

(* A Kafka coordinate is in the raw table under one batch only, whatever was
   replayed, retried or read half written. *)
THEOREM IngestionOneBatch == Spec => []RowsOfOneBatch
  BY OneBatchInInv, IngestionInvAlways, PTL

LEMMA AsPublishedInInv == ASSUME IngestionInv PROVE CommittedAsPublished
<1> SUFFICES ASSUME NEW b \in Batch, LP!Committed(b), b \notin rewritten
             PROVE  /\ SP!Whole(b[2]) /\ LP!Loaded(b) = valid[b]
                    /\ \A i \in 1..Len(quality[b]) : quality[b][i] = manifest[b]
  BY SameProperties DEF CommittedAsPublished
<1>1. LP!BatchInv(b)
  BY DEF IngestionInv, LoadedSoundly
<1>2. marker[b] /\ LP!Whole(b)
  BY <1>1 DEF LP!BatchInv
<1>3. Planned(b) /\ SP!Whole(b[2])
  BY <1>2 DEF IngestionInv, PublishedWhole
<1>4. Cardinality(valid[b]) = LP!Total(manifest[b], "valid")
  <2>1. b = SP!BatchOf(b[2])
    BY <1>3, PlannedBatch DEF IngestionInv
  <2> QED BY <1>3, <2>1, SameNames DEF SP!Whole
<1>5. LP!Loaded(b) = valid[b]
  <2>1. LP!Loaded(b) = IF LP!Total(manifest[b], "valid") = 0 THEN {} ELSE valid[b]
    BY <1>2 DEF LP!Whole, LP!Due, LP!Accepted
  <2>2. IsFiniteSet(valid[b])
    <3>1. valid[b] \subseteq Rows
      BY SameNames DEF IngestionInv, LP!TypeInv, LP!TypeOK
    <3> QED BY <3>1, RowsAssumption, FS_Subset
  <2> QED BY <1>4, <2>1, <2>2, FS_EmptySet
<1> QED BY <1>1, <1>3, <1>5 DEF LP!BatchInv

(* What the DAG commits is what the query published, when it published once. *)
THEOREM IngestionAsPublished == Spec => []CommittedAsPublished
  BY AsPublishedInInv, IngestionInvAlways, PTL
=============================================================================
