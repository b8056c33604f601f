--------------------------- MODULE LoaderProofs ---------------------------
(***************************************************************************)
(* Theorems about Loader, for every set of batches, rows, landings, and    *)
(* every bound: type correctness, the reconciliation of what is committed, *)
(* the price of a copy, and the refinement of AtomicLoad.                  *)
(***************************************************************************)
EXTENDS Loader, FiniteSetTheorems, TLAPS

-----------------------------------------------------------------------------
(* What a manifest counts is a number. *)
CountsAdd == \A b \in Batch : Total(manifest[b], "valid") \in Int

(* A task waits for an attempt only while it has one left. *)
AttemptLeft == \A b \in Batch : pc[b] = "queued" => tries[b] <= Retries

TypeInv == TypeOK /\ CountsAdd /\ AttemptLeft

LEMMA EndAttemptType ==
    ASSUME TypeOK, NEW b \in Batch, EndAttempt(b)
    PROVE  /\ pc' \in [Batch -> Stages]
           /\ \A a \in Batch : pc'[a] = "queued" =>
                  (a # b /\ pc[a] = "queued") \/ (a = b /\ tries[b] <= Retries)
  BY DEF TypeOK, EndAttempt, Goto, Stages

LEMMA GotoType ==
    ASSUME TypeOK, NEW b \in Batch, NEW stage \in Stages \ {"queued"}, Goto(b, stage)
    PROVE  /\ pc' \in [Batch -> Stages]
           /\ \A a \in Batch : pc'[a] = "queued" => a # b /\ pc[a] = "queued"
  BY DEF TypeOK, Goto

LEMMA CopiedType ==
    ASSUME TypeOK, NEW b \in Batch, NEW rows
    PROVE  Copied(b, rows) \in [Batch -> [Rows -> 0..MaxCopies]]
<1> DEFINE new == [r \in Rows |-> IF r \in rows /\ raw[b][r] < MaxCopies
                                  THEN raw[b][r] + 1 ELSE raw[b][r]]
<1>1. new \in [Rows -> 0..MaxCopies]
  BY LoaderAssumption DEF TypeOK
<1>2. Copied(b, rows) = [raw EXCEPT ![b] = new]
  BY DEF Copied
<1> QED BY <1>1, <1>2 DEF TypeOK

LEMMA AppendedAll ==
    ASSUME NEW S, NEW s \in Seq(S), NEW e \in S, \A i \in 1..Len(s) : s[i] = e
    PROVE  /\ Append(s, e) # <<>>
           /\ \A i \in 1..Len(Append(s, e)) : Append(s, e)[i] = e
<1>1. Len(Append(s, e)) = Len(s) + 1 /\ Len(s) \in Nat
  OBVIOUS
<1>2. Append(s, e) # <<>>
  BY <1>1
<1>3. ASSUME NEW i \in 1..(Len(s) + 1) PROVE Append(s, e)[i] = e
  <2>1. CASE i = Len(s) + 1
    BY <2>1
  <2>2. CASE i \in 1..Len(s)
    BY <2>2
  <2> QED BY <1>1, <2>1, <2>2
<1> QED BY <1>1, <1>2, <1>3

LEMMA AppendedType ==
    ASSUME TypeOK, NEW b \in Batch
    PROVE  [quality EXCEPT ![b] = Append(@, manifest[b])] \in [Batch -> Seq(Manifest)]
<1>1. Append(quality[b], manifest[b]) \in Seq(Manifest)
  BY DEF TypeOK
<1> QED BY <1>1 DEF TypeOK

LEMMA RecordedType ==
    ASSUME TypeOK, NEW b \in Batch, NEW status \in {"success", "failed"}
    PROVE  Recorded(b, status) \in [Batch -> SUBSET {"success", "failed"}]
<1>1. ledger[b] \cup {status} \in SUBSET {"success", "failed"}
  BY DEF TypeOK
<1> QED BY <1>1 DEF TypeOK, Recorded

LEMMA FaultType ==
    ASSUME TypeOK, Fault \/ UNCHANGED faults
    PROVE  faults' \in 0..MaxFaults
  BY LoaderAssumption DEF TypeOK, Fault

LEMMA TypeInvInit == Init => TypeInv
<1> SUFFICES ASSUME Init PROVE TypeInv
  OBVIOUS
<1>1. <<>> \in Seq(Manifest)
  OBVIOUS
<1>2. TypeOK /\ AttemptLeft
  BY <1>1, LoaderAssumption DEF Init, TypeOK, AttemptLeft, Manifest, Stages
<1>3. CountsAdd
  <2>1. Total({}, "valid") = 0
    <3>1. UNION {{r} \X (1..r["valid"]) : r \in {}} = {}
      OBVIOUS
    <3> QED BY <3>1, FS_EmptySet DEF Total
  <2> QED BY <2>1 DEF Init, CountsAdd
<1> QED BY <1>2, <1>3 DEF TypeInv

LEMMA TypeInvPublish ==
    ASSUME TypeInv, NEW b \in Batch, Publish(b) PROVE TypeInv'
<1>1. PICK c \in Landings[b] :
          /\ valid' = [valid EXCEPT ![b] = c.valid]
          /\ manifest' = [manifest EXCEPT ![b] = c.manifest]
  BY DEF Publish
<1>2. c.valid \in SUBSET Rows /\ c.manifest \in Manifest
  BY LoaderAssumption
<1>3. TypeOK'
  BY <1>1, <1>2 DEF Publish, TypeInv, TypeOK, clickhouseVars, airflowVars
<1>4. CountsAdd'
  <2>1. Total(c.manifest, "valid") \in Int
    BY LoaderAssumption
  <2>2. \A a \in Batch : manifest'[a] \in {manifest[a], c.manifest}
    BY <1>1 DEF TypeInv, TypeOK
  <2> QED BY <2>1, <2>2 DEF TypeInv, CountsAdd
<1>5. AttemptLeft'
  BY DEF TypeInv, AttemptLeft, Publish, airflowVars
<1> QED BY <1>3, <1>4, <1>5 DEF TypeInv

LEMMA TypeInvRun ==
    ASSUME TypeInv, RunStep \/ StageFails PROVE TypeInv'
<1> USE DEF RunStep, StageFails, StartRun, CheckDependencies, DiscoverBatches,
            FinishRun, TypeInv
<1>1. faults' \in 0..MaxFaults
  BY FaultType
<1>2. TypeOK'
  BY <1>1, LoaderAssumption DEF TypeOK, minioVars, clickhouseVars, Stages
<1>3. CountsAdd'
  BY DEF CountsAdd, minioVars
<1>4. AttemptLeft'
  <2>1. CASE DiscoverBatches
    BY <2>1, LoaderAssumption DEF AttemptLeft
  <2>2. CASE FinishRun
    BY <2>2 DEF AttemptLeft
  <2>3. CASE UNCHANGED <<pc, tries>>
    BY <2>3 DEF AttemptLeft
  <2> QED BY <2>1, <2>2, <2>3
<1> QED BY <1>2, <1>3, <1>4

LEMMA TypeInvLoad ==
    ASSUME TypeInv, NEW b \in Batch, LoadStep(b) \/ WorkerDies(b) PROVE TypeInv'
<1> USE DEF TypeInv, minioVars, clickhouseVars
<1>1. CASE StartTask(b)
  <2>1. Goto(b, "summary") /\ tries[b] + 1 \in 0..(Retries + 1)
    BY <1>1, LoaderAssumption DEF StartTask, TypeOK, AttemptLeft
  <2>2. pc' \in [Batch -> Stages]
        /\ \A a \in Batch : pc'[a] = "queued" => a # b /\ pc[a] = "queued"
    BY <2>1, GotoType DEF Stages, Working
  <2> QED BY <1>1, <2>1, <2>2 DEF TypeOK, CountsAdd, AttemptLeft, StartTask
<1>2. CASE ReadSummary(b)
  <2>1. claimed' \in [Batch -> Int]
    BY <1>2 DEF ReadSummary, TypeOK, CountsAdd
  <2>2. \E stage \in {"quality", "count", "except"} : Goto(b, stage)
    BY <1>2 DEF ReadSummary, Raise
  <2>3. pc' \in [Batch -> Stages]
        /\ \A a \in Batch : pc'[a] = "queued" => a # b /\ pc[a] = "queued"
    BY <2>2, GotoType DEF Stages, Working
  <2>4. faults' \in 0..MaxFaults
    BY <1>2, FaultType DEF ReadSummary, Raise
  <2> QED
    BY <1>2, <2>1, <2>3, <2>4 DEF TypeOK, CountsAdd, AttemptLeft, ReadSummary
<1>3. CASE CountRows(b)
  <2>1. \E stage \in {"insert", "except"} : Goto(b, stage)
    BY <1>3 DEF CountRows, Raise
  <2>2. pc' \in [Batch -> Stages]
        /\ \A a \in Batch : pc'[a] = "queued" => a # b /\ pc[a] = "queued"
    BY <2>1, GotoType DEF Stages, Working
  <2>3. faults' \in 0..MaxFaults
    BY <1>3, FaultType DEF CountRows, Raise
  <2> QED BY <1>3, <2>2, <2>3 DEF TypeOK, CountsAdd, AttemptLeft, CountRows
<1>4. CASE InsertRows(b)
  <2>1. \E stage \in {"quality", "except"} : Goto(b, stage)
    BY <1>4 DEF InsertRows, Raise
  <2>2. pc' \in [Batch -> Stages]
        /\ \A a \in Batch : pc'[a] = "queued" => a # b /\ pc[a] = "queued"
    BY <2>1, GotoType DEF Stages, Working
  <2>3. raw' \in [Batch -> [Rows -> 0..MaxCopies]]
    BY <1>4, CopiedType DEF InsertRows
  <2>4. faults' \in 0..MaxFaults
    BY <1>4, FaultType DEF InsertRows, Raise
  <2> QED BY <1>4, <2>2, <2>3, <2>4 DEF TypeOK, CountsAdd, AttemptLeft, InsertRows
<1>5. CASE InsertQuality(b)
  <2>1. \E stage \in {"success", "except"} : Goto(b, stage)
    BY <1>5 DEF InsertQuality, Raise
  <2>2. pc' \in [Batch -> Stages]
        /\ \A a \in Batch : pc'[a] = "queued" => a # b /\ pc[a] = "queued"
    BY <2>1, GotoType DEF Stages, Working
  <2>3. quality' \in [Batch -> Seq(Manifest)]
    <3>1. CASE quality' = [quality EXCEPT ![b] = Append(@, manifest[b])]
      BY <3>1, AppendedType
    <3>2. CASE UNCHANGED quality
      BY <3>2 DEF TypeOK
    <3> QED BY <1>5, <3>1, <3>2 DEF InsertQuality
  <2>4. faults' \in 0..MaxFaults
    BY <1>5, FaultType DEF InsertQuality, Raise
  <2> QED
    BY <1>5, <2>2, <2>3, <2>4 DEF TypeOK, CountsAdd, AttemptLeft, InsertQuality
<1>6. CASE RecordSuccess(b)
  <2>1. \E stage \in {"done", "except"} : Goto(b, stage)
    BY <1>6 DEF RecordSuccess, Raise
  <2>2. pc' \in [Batch -> Stages]
        /\ \A a \in Batch : pc'[a] = "queued" => a # b /\ pc[a] = "queued"
    BY <2>1, GotoType DEF Stages, Working
  <2>3. ledger' \in [Batch -> SUBSET {"success", "failed"}]
    BY <1>6, RecordedType DEF RecordSuccess, TypeOK
  <2>4. faults' \in 0..MaxFaults
    BY <1>6, FaultType DEF RecordSuccess, Raise
  <2> QED
    BY <1>6, <2>2, <2>3, <2>4 DEF TypeOK, CountsAdd, AttemptLeft, RecordSuccess
<1>7. CASE RecordFailed(b)
  <2>1. ledger' \in [Batch -> SUBSET {"success", "failed"}]
    BY <1>7, RecordedType DEF RecordFailed, TypeOK
  <2>2. faults' \in 0..MaxFaults
    BY <1>7, FaultType DEF RecordFailed
  <2>3. pc' \in [Batch -> Stages]
        /\ \A a \in Batch : pc'[a] = "queued" =>
                (a # b /\ pc[a] = "queued") \/ (a = b /\ tries[b] <= Retries)
    BY <1>7, EndAttemptType DEF RecordFailed
  <2> QED
    BY <1>7, <2>1, <2>2, <2>3 DEF TypeOK, CountsAdd, AttemptLeft, RecordFailed
<1>8. CASE WorkerDies(b)
  <2>1. faults' \in 0..MaxFaults
    BY <1>8, FaultType DEF WorkerDies
  <2>2. pc' \in [Batch -> Stages]
        /\ \A a \in Batch : pc'[a] = "queued" =>
                (a # b /\ pc[a] = "queued") \/ (a = b /\ tries[b] <= Retries)
    BY <1>8, EndAttemptType DEF WorkerDies
  <2> QED BY <1>8, <2>1, <2>2 DEF TypeOK, CountsAdd, AttemptLeft, WorkerDies
<1> QED
  BY <1>1, <1>2, <1>3, <1>4, <1>5, <1>6, <1>7, <1>8 DEF LoadStep

LEMMA TypeInvNext == TypeInv /\ [Next]_vars => TypeInv'
<1> SUFFICES ASSUME TypeInv, [Next]_vars PROVE TypeInv'
  OBVIOUS
<1>1. CASE UNCHANGED vars
  BY <1>1 DEF vars, minioVars, clickhouseVars, airflowVars, TypeInv, TypeOK,
      CountsAdd, AttemptLeft
<1> QED
  BY <1>1, TypeInvPublish, TypeInvRun, TypeInvLoad DEF Next, Airflow

LEMMA TypeInvAlways == Spec => []TypeInv
  BY TypeInvInit, TypeInvNext, PTL DEF Spec

(* Every variable keeps its type in every behaviour. *)
THEOREM TypeCorrect == Spec => []TypeOK
<1>1. TypeInv => TypeOK
  BY DEF TypeInv
<1> QED BY <1>1, TypeInvAlways, PTL

-----------------------------------------------------------------------------
(***************************************************************************)
(* The inductive invariant, one batch at a time. AcceptedReconciles is not *)
(* inductive by itself: that a commit is sound was decided by checks made  *)
(* several calls, and possibly several attempts, earlier. BatchInv says    *)
(* what each stage may rely on.                                            *)
(***************************************************************************)

(* The rows the manifest lets in. *)
Due(b) == Accepted(valid[b], manifest[b])

(* The raw table holds what the manifest lets in, and as many rows. *)
Whole(b) ==
    /\ Loaded(b) = Due(b)
    /\ Cardinality(Due(b)) = Total(manifest[b], "valid")

BatchInv(b) ==
    /\ pc[b] # "none" => marker[b]
    /\ ~marker[b] => Loaded(b) = {} /\ quality[b] = <<>> /\ ~Committed(b)
    /\ Loaded(b) \subseteq valid[b]
    /\ Loaded(b) # {} => Cardinality(valid[b]) = Total(manifest[b], "valid")
    /\ pc[b] \in {"count", "insert", "quality", "success"} =>
          ManifestOk(b, manifest[b]) /\ claimed[b] = Total(manifest[b], "valid")
    /\ pc[b] \in {"count", "insert"} => claimed[b] # 0
    /\ pc[b] = "insert" => Cardinality(valid[b]) = claimed[b]
    /\ pc[b] \in {"quality", "success"} \/ Committed(b) => Whole(b)
    /\ Committed(b) => ManifestOk(b, manifest[b])
    /\ pc[b] = "success" \/ Committed(b) => quality[b] # <<>>
    /\ \A i \in 1..Len(quality[b]) : quality[b][i] = manifest[b]

LoadInv == \A b \in Batch : BatchInv(b)

(* The relevant state of a batch, for the batches a step leaves alone. *)
Untouched(a) ==
    /\ marker'[a] = marker[a] /\ valid'[a] = valid[a] /\ manifest'[a] = manifest[a]
    /\ raw'[a] = raw[a] /\ quality'[a] = quality[a] /\ ledger'[a] = ledger[a]
    /\ pc'[a] = pc[a] /\ claimed'[a] = claimed[a]

LEMMA UntouchedKeeps ==
    ASSUME NEW a \in Batch, BatchInv(a), Untouched(a) PROVE BatchInv(a)'
<1>1. Loaded(a)' = Loaded(a) /\ Due(a)' = Due(a) /\ Committed(a)' = Committed(a)
  BY DEF Untouched, Loaded, Due, Committed
<1> QED BY <1>1 DEF Untouched, BatchInv, Whole

(* An insert adds its rows to what is loaded of its batch, whatever was there. *)
LEMMA CopiedLoaded ==
    ASSUME TypeOK, NEW b \in Batch, NEW rows \in SUBSET Rows, raw' = Copied(b, rows)
    PROVE  /\ Loaded(b)' = Loaded(b) \cup rows
           /\ \A a \in Batch \ {b} : raw'[a] = raw[a]
<1>1. \A r \in Rows : raw'[b][r] = IF r \in rows /\ raw[b][r] < MaxCopies
                                  THEN raw[b][r] + 1 ELSE raw[b][r]
  BY DEF Copied, TypeOK
<1>2. \A r \in Rows : raw[b][r] \in 0..MaxCopies
  BY DEF TypeOK
<1>3. \A r \in Rows : raw'[b][r] > 0 <=> raw[b][r] > 0 \/ r \in rows
  BY <1>1, <1>2, LoaderAssumption
<1>4. \A a \in Batch \ {b} : raw'[a] = raw[a]
  BY DEF Copied, TypeOK
<1> QED BY <1>3, <1>4 DEF Loaded

LEMMA NothingDue == Cardinality({}) = 0 /\ \A S \in SUBSET Rows : Cardinality(S) = 0 => S = {}
<1>1. \A S \in SUBSET Rows : IsFiniteSet(S)
  BY RowsAssumption, FS_Subset
<1> QED BY <1>1, FS_EmptySet

LEMMA LoadInvInit == Init => LoadInv
  BY DEF Init, LoadInv, BatchInv, Loaded, Committed

LEMMA LoadInvPublish ==
    ASSUME TypeInv, LoadInv, NEW b \in Batch, Publish(b) PROVE LoadInv'
<1> USE DEF TypeInv, TypeOK
<1>1. ASSUME NEW a \in Batch, a # b PROVE BatchInv(a)'
  <2>1. Untouched(a)
    BY <1>1 DEF Publish, Untouched, clickhouseVars, airflowVars
  <2> QED BY <2>1, UntouchedKeeps DEF LoadInv
<1>2. BatchInv(b)'
  <2>1. /\ Loaded(b) = {} /\ quality[b] = <<>> /\ ~Committed(b) /\ pc[b] = "none"
    BY DEF LoadInv, BatchInv, Publish
  <2>2. /\ Loaded(b)' = Loaded(b) /\ Committed(b)' = Committed(b)
        /\ quality' = quality /\ pc' = pc
    BY DEF Publish, clickhouseVars, airflowVars, Loaded, Committed
  <2> QED BY <2>1, <2>2 DEF BatchInv
<1> QED BY <1>1, <1>2 DEF LoadInv

LEMMA BatchInvRun ==
    ASSUME TypeInv, NEW a \in Batch, BatchInv(a), RunStep \/ StageFails
    PROVE  BatchInv(a)'
<1>1. UNCHANGED <<minioVars, clickhouseVars, claimed>>
  BY DEF RunStep, StageFails, StartRun, CheckDependencies, DiscoverBatches, FinishRun
<1>2. \/ pc'[a] = pc[a]
      \/ pc'[a] = "none"
      \/ pc'[a] = "queued" /\ marker[a]
  BY DEF RunStep, StageFails, StartRun, CheckDependencies, DiscoverBatches, FinishRun,
      Selected, Pending
<1>3. /\ Loaded(a)' = Loaded(a) /\ Due(a)' = Due(a) /\ Committed(a)' = Committed(a)
      /\ marker' = marker /\ valid' = valid /\ manifest' = manifest
      /\ quality' = quality /\ claimed' = claimed
  BY <1>1 DEF minioVars, clickhouseVars, Loaded, Due, Committed
<1> QED BY <1>1, <1>2, <1>3 DEF BatchInv, Whole

LEMMA LoadInvRun ==
    ASSUME TypeInv, LoadInv, RunStep \/ StageFails PROVE LoadInv'
  BY BatchInvRun DEF LoadInv

(* No step of the DAG writes to MinIO. *)
LEMMA AirflowReadsMinio == ASSUME Airflow PROVE UNCHANGED minioVars
  BY DEF Airflow, RunStep, StartRun, CheckDependencies, DiscoverBatches, FinishRun, StageFails,
      LoadStep, StartTask, ReadSummary, CountRows, InsertRows, InsertQuality, RecordSuccess,
      RecordFailed, WorkerDies

(* What a step loads comes from the valid directory of the batch. *)
LEMMA LoadedFromValid ==
    ASSUME TypeInv, Airflow, NEW a \in Batch PROVE Loaded(a)' \subseteq Loaded(a) \cup valid[a]
<1>1. CASE UNCHANGED raw
  BY <1>1 DEF Loaded
<1>2. ASSUME NEW b \in Batch, InsertRows(b) PROVE Loaded(a)' \subseteq Loaded(a) \cup valid[a]
  <2>1. PICK parts \in SUBSET valid[b] : raw' = Copied(b, parts)
    BY <1>2 DEF InsertRows
  <2>2. /\ Loaded(b)' = Loaded(b) \cup parts
        /\ \A c \in Batch \ {b} : raw'[c] = raw[c]
    BY <2>1, CopiedLoaded DEF TypeInv, TypeOK
  <2> QED BY <2>1, <2>2 DEF Loaded
<1> QED
  BY <1>1, <1>2
  DEF Airflow, RunStep, StartRun, CheckDependencies, DiscoverBatches, FinishRun, StageFails,
      LoadStep, StartTask, ReadSummary, CountRows, InsertQuality, RecordSuccess,
      RecordFailed, WorkerDies, clickhouseVars

(* A step of one task leaves the other batches alone. *)
LEMMA LoadTouchesOne ==
    ASSUME TypeInv, NEW b \in Batch, LoadStep(b) \/ WorkerDies(b)
    PROVE  /\ UNCHANGED <<minioVars, run>>
           /\ \A a \in Batch \ {b} : Untouched(a)
<1> USE DEF TypeInv, TypeOK, Untouched, minioVars, clickhouseVars
<1>1. CASE StartTask(b)
  BY <1>1 DEF StartTask, Goto
<1>2. CASE ReadSummary(b)
  BY <1>2 DEF ReadSummary, Raise, Goto
<1>3. CASE CountRows(b)
  BY <1>3 DEF CountRows, Raise, Goto
<1>4. CASE InsertRows(b)
  <2>1. \A a \in Batch \ {b} : raw'[a] = raw[a]
    BY <1>4, CopiedLoaded DEF InsertRows
  <2> QED BY <1>4, <2>1 DEF InsertRows, Raise, Goto
<1>5. CASE InsertQuality(b)
  BY <1>5 DEF InsertQuality, Raise, Goto
<1>6. CASE RecordSuccess(b)
  BY <1>6 DEF RecordSuccess, Raise, Goto, Recorded
<1>7. CASE RecordFailed(b)
  BY <1>7 DEF RecordFailed, EndAttempt, Goto, Recorded
<1>8. CASE WorkerDies(b)
  BY <1>8 DEF WorkerDies, EndAttempt, Goto
<1> QED
  BY <1>1, <1>2, <1>3, <1>4, <1>5, <1>6, <1>7, <1>8 DEF LoadStep

LEMMA BatchInvLoad ==
    ASSUME TypeInv, NEW b \in Batch, BatchInv(b), LoadStep(b) \/ WorkerDies(b)
    PROVE  BatchInv(b)'
<1> USE DEF TypeInv, TypeOK
<1>0. marker' = marker /\ valid' = valid /\ manifest' = manifest /\ Due(b)' = Due(b)
  BY LoadTouchesOne DEF minioVars, Due
<1>1. ASSUME UNCHANGED <<raw, quality>>,
             Committed(b)' = Committed(b),
             pc'[b] \in {"queued", "summary", "except", "done", "failed"},
             pc[b] # "none"
      PROVE  BatchInv(b)'
  <2>1. Loaded(b)' = Loaded(b) /\ quality' = quality /\ raw' = raw
    BY <1>1 DEF Loaded
  <2> QED BY <1>0, <1>1, <2>1 DEF BatchInv, Whole
<1>2. CASE StartTask(b)
  BY <1>1, <1>2 DEF StartTask, Goto, clickhouseVars, Committed
<1>3. CASE ReadSummary(b)
  <2>1. CASE pc'[b] = "except"
    BY <1>1, <1>3, <2>1 DEF ReadSummary, clickhouseVars, Committed
  <2>2. CASE pc'[b] # "except"
    <3>1. /\ pc[b] = "summary"
          /\ ManifestOk(b, manifest[b])
          /\ claimed'[b] = Total(manifest[b], "valid")
          /\ pc'[b] = IF claimed'[b] = 0 THEN "quality" ELSE "count"
          /\ UNCHANGED <<raw, quality, ledger>>
      BY <1>3, <2>2 DEF ReadSummary, Raise, Goto, clickhouseVars
    <3>2. /\ Loaded(b)' = Loaded(b) /\ Committed(b)' = Committed(b)
          /\ quality' = quality
      BY <3>1 DEF Loaded, Committed
    <3>3. ASSUME claimed'[b] = 0 PROVE Whole(b)
      <4>1. Due(b) = {} /\ Total(manifest[b], "valid") = 0
        BY <3>1, <3>3 DEF Due, Accepted
      <4>2. Loaded(b) = {}
        <5>1. ASSUME Loaded(b) # {} PROVE FALSE
          <6>1. Cardinality(valid[b]) = 0 /\ Loaded(b) \subseteq valid[b]
            BY <4>1, <5>1 DEF BatchInv
          <6> QED BY <5>1, <6>1, NothingDue
        <5> QED BY <5>1
      <4> QED BY <4>1, <4>2, NothingDue DEF Whole
    <3> QED BY <1>0, <3>1, <3>2, <3>3 DEF BatchInv, Whole
  <2> QED BY <2>1, <2>2
<1>4. CASE CountRows(b)
  <2>1. CASE pc'[b] = "except"
    BY <1>1, <1>4, <2>1 DEF CountRows, clickhouseVars, Committed
  <2>2. CASE pc'[b] # "except"
    <3>1. /\ pc[b] = "count" /\ pc'[b] = "insert"
          /\ Cardinality(valid[b]) = claimed[b]
          /\ UNCHANGED <<raw, quality, ledger, claimed>>
      BY <1>4, <2>2 DEF CountRows, Raise, Goto, clickhouseVars
    <3>2. /\ Loaded(b)' = Loaded(b) /\ Committed(b)' = Committed(b)
          /\ quality' = quality /\ claimed' = claimed
      BY <3>1 DEF Loaded, Committed
    <3> QED BY <1>0, <3>1, <3>2 DEF BatchInv, Whole
  <2> QED BY <2>1, <2>2
<1>5. CASE InsertRows(b)
  <2>1. PICK parts \in SUBSET valid[b] :
            /\ raw' = Copied(b, parts)
            /\ \/ parts = valid[b] /\ Goto(b, "quality")
               \/ Goto(b, "except")
    BY <1>5 DEF InsertRows, Raise
  <2>2. Loaded(b)' = Loaded(b) \cup parts
    BY <2>1, CopiedLoaded
  <2>3. /\ pc[b] = "insert"
        /\ Cardinality(valid[b]) = claimed[b] /\ claimed[b] # 0
        /\ ManifestOk(b, manifest[b]) /\ claimed[b] = Total(manifest[b], "valid")
        /\ Due(b) = valid[b]
        /\ Loaded(b) \subseteq valid[b]
        /\ marker[b]
    BY <1>5 DEF InsertRows, BatchInv, Due, Accepted
  <2>4. /\ quality' = quality /\ claimed' = claimed /\ Committed(b)' = Committed(b)
        /\ pc'[b] \in {"quality", "except"}
        /\ pc'[b] = "quality" => parts = valid[b]
    BY <1>5, <2>1 DEF InsertRows, Goto, Committed
  <2>5. Committed(b) => Loaded(b) = valid[b]
    BY <2>3 DEF BatchInv, Whole
  <2> QED BY <1>0, <2>2, <2>3, <2>4, <2>5 DEF BatchInv, Whole
<1>6. CASE InsertQuality(b)
  <2>1. /\ Loaded(b)' = Loaded(b) /\ Committed(b)' = Committed(b) /\ claimed' = claimed
        /\ pc[b] = "quality" /\ pc'[b] \in {"success", "except"}
        /\ pc'[b] = "success" => quality'[b] = Append(quality[b], manifest[b])
        /\ quality'[b] \in {quality[b], Append(quality[b], manifest[b])}
    BY <1>6 DEF InsertQuality, Raise, Goto, Loaded, Committed
  <2>2. /\ quality[b] \in Seq(Manifest) /\ manifest[b] \in Manifest
    OBVIOUS
  <2>3. \A i \in 1..Len(quality[b]) : quality[b][i] = manifest[b]
    BY DEF BatchInv
  <2>4. /\ Append(quality[b], manifest[b]) # <<>>
        /\ \A i \in 1..Len(Append(quality[b], manifest[b])) :
              Append(quality[b], manifest[b])[i] = manifest[b]
    BY ONLY <2>2, <2>3, AppendedAll
  <2>5. quality[b] # <<>> => quality'[b] # <<>>
    BY <2>1, <2>4
  <2> QED BY <1>0, <2>1, <2>4, <2>5, <2>3 DEF BatchInv, Whole
<1>7. CASE RecordSuccess(b)
  <2>1. /\ Loaded(b)' = Loaded(b) /\ quality' = quality
        /\ pc[b] = "success" /\ pc'[b] \in {"done", "except"}
    BY <1>7 DEF RecordSuccess, Raise, Goto, Loaded
  <2> QED BY <1>0, <2>1 DEF BatchInv, Whole
<1>8. CASE RecordFailed(b)
  <2>1. /\ UNCHANGED <<raw, quality>>
        /\ pc[b] = "except" /\ pc'[b] \in {"queued", "failed"}
    BY <1>8 DEF RecordFailed, EndAttempt, Goto
  <2>2. Committed(b)' = Committed(b)
    BY <1>8 DEF RecordFailed, Recorded, Committed
  <2> QED BY <1>1, <2>1, <2>2
<1>9. CASE WorkerDies(b)
  BY <1>1, <1>9 DEF WorkerDies, EndAttempt, Goto, Working, clickhouseVars, Committed
<1> QED
  BY <1>2, <1>3, <1>4, <1>5, <1>6, <1>7, <1>8, <1>9 DEF LoadStep

LEMMA LoadInvLoad ==
    ASSUME TypeInv, LoadInv, NEW b \in Batch, LoadStep(b) \/ WorkerDies(b)
    PROVE  LoadInv'
<1>1. ASSUME NEW a \in Batch, a # b PROVE BatchInv(a)'
  BY <1>1, LoadTouchesOne, UntouchedKeeps DEF LoadInv
<1>2. BatchInv(b)'
  BY BatchInvLoad DEF LoadInv
<1> QED BY <1>1, <1>2 DEF LoadInv

LEMMA LoadInvNext == TypeInv /\ LoadInv /\ [Next]_vars => LoadInv'
<1> SUFFICES ASSUME TypeInv, LoadInv, [Next]_vars PROVE LoadInv'
  OBVIOUS
<1>1. CASE UNCHANGED vars
  <2>1. \A a \in Batch : Untouched(a)
    BY <1>1 DEF vars, minioVars, clickhouseVars, airflowVars, Untouched
  <2> QED BY <2>1, UntouchedKeeps DEF LoadInv
<1> QED
  BY <1>1, LoadInvPublish, LoadInvRun, LoadInvLoad DEF Next, Airflow

LEMMA LoadInvAlways == Spec => []LoadInv
  BY LoadInvInit, LoadInvNext, TypeInvAlways, PTL DEF Spec

(* A committed batch reconciles with its manifest, whatever failed before. *)
THEOREM AcceptedReconcilesAlways == Spec => []AcceptedReconciles
<1>1. LoadInv => AcceptedReconciles
  BY DEF LoadInv, BatchInv, Whole, Due, Accepted, AcceptedReconciles
<1> QED BY <1>1, LoadInvAlways, PTL

(* The quality manifest is in the warehouse before the commit marker. *)
THEOREM CommittedHasQualityAlways == Spec => []CommittedHasQuality
<1>1. LoadInv => CommittedHasQuality
  BY DEF LoadInv, BatchInv, CommittedHasQuality
<1> QED BY <1>1, LoadInvAlways, PTL

-----------------------------------------------------------------------------
(***************************************************************************)
(* The price of a copy. The invariant counts the copies against the faults *)
(* so far, with one to spare while the insert that is not yet paid for is  *)
(* behind the task: up to the end of an attempt that commits.              *)
(***************************************************************************)
Spare(b, stages) ==
    IF pc[b] \in stages \/ (pc[b] = "none" /\ Committed(b)) THEN 1 ELSE 0

CopiesInv(b) ==
    /\ run # "load" => pc[b] = "none"
    /\ pc[b] = "done" => Committed(b)
    /\ Len(quality[b]) <= faults + Spare(b, {"success", "done"})
    /\ valid[b] \cap PoisonRows = {} =>
          \A r \in Rows : raw[b][r] <= faults + Spare(b, {"quality", "success", "done"})

LEMMA CopiesInit == Init => \A b \in Batch : CopiesInv(b)
  BY DEF Init, CopiesInv, Spare, Committed

LEMMA CopiesPublish ==
    ASSUME TypeInv, NEW a \in Batch, CopiesInv(a), BatchInv(a),
           NEW b \in Batch, Publish(b)
    PROVE  CopiesInv(a)'
<1> USE DEF TypeInv, TypeOK
<1>1. UNCHANGED <<raw, quality, ledger, run, pc, faults>>
  BY DEF Publish, clickhouseVars, airflowVars
<1>2. Committed(a)' = Committed(a)
  BY <1>1 DEF Committed
<1>3. CASE a # b
  <2>1. valid'[a] = valid[a]
    BY <1>3 DEF Publish
  <2> QED BY <1>1, <1>2, <2>1 DEF CopiesInv, Spare
<1>4. CASE a = b
  <2>1. \A r \in Rows : raw[b][r] = 0
    BY <1>4 DEF Publish, BatchInv, Loaded
  <2> QED BY <1>1, <1>2, <1>4, <2>1 DEF CopiesInv, Spare
<1> QED BY <1>3, <1>4

LEMMA CopiesRun ==
    ASSUME TypeInv, NEW a \in Batch, CopiesInv(a), RunStep \/ StageFails
    PROVE  CopiesInv(a)'
<1> USE DEF TypeInv, TypeOK
<1>1. /\ UNCHANGED <<raw, quality, ledger, valid>>
      /\ faults' = faults \/ faults' = faults + 1
  BY DEF RunStep, StageFails, StartRun, CheckDependencies, DiscoverBatches, FinishRun,
      Fault, minioVars, clickhouseVars
<1>2. Committed(a)' = Committed(a)
  BY <1>1 DEF Committed
<1>3. CASE DiscoverBatches
  <2>1. pc[a] = "none" /\ (pc'[a] = "none" \/ (pc'[a] = "queued" /\ ~Committed(a)))
    BY <1>3 DEF DiscoverBatches, CopiesInv, Selected, Pending
  <2> QED BY <1>1, <1>2, <1>3, <2>1 DEF CopiesInv, Spare, DiscoverBatches
<1>4. CASE FinishRun
  <2>1. pc[a] \in {"none", "done", "failed"} /\ pc'[a] = "none"
    BY <1>4 DEF FinishRun
  <2>2. faults' = faults /\ faults \in Nat /\ Len(quality[a]) \in Nat
        /\ \A r \in Rows : raw[a][r] \in Nat
    BY <1>4, LoaderAssumption DEF FinishRun
  <2>3. Spare(a, {"success", "done"})' >= Spare(a, {"success", "done"})
    BY <1>2, <2>1 DEF Spare, CopiesInv
  <2>4. Spare(a, {"quality", "success", "done"})'
            >= Spare(a, {"quality", "success", "done"})
    BY <1>2, <2>1 DEF Spare, CopiesInv
  <2> QED BY <1>1, <1>2, <2>1, <2>2, <2>3, <2>4 DEF CopiesInv, Spare
<1>5. CASE UNCHANGED pc /\ run' # "load" /\ run # "load"
  BY <1>1, <1>2, <1>5 DEF CopiesInv, Spare
<1> QED
  BY <1>3, <1>4, <1>5 DEF RunStep, StageFails, StartRun, CheckDependencies

LEMMA CopiesLoad ==
    ASSUME TypeInv, NEW b \in Batch, CopiesInv(b), LoadStep(b) \/ WorkerDies(b)
    PROVE  CopiesInv(b)'
<1> USE DEF TypeInv, TypeOK
<1>0. valid' = valid /\ run' = run /\ faults \in Nat /\ Len(quality[b]) \in Nat
      /\ \A r \in Rows : raw[b][r] \in Nat
  BY LoadTouchesOne, LoaderAssumption DEF minioVars
<1>1. run = "load"
  BY DEF CopiesInv, LoadStep, StartTask, ReadSummary, CountRows, InsertRows,
      InsertQuality, RecordSuccess, RecordFailed, WorkerDies, Working
<1>2. ASSUME UNCHANGED <<raw, quality>>,
             pc'[b] \in {"queued", "summary", "count", "insert", "quality", "except", "failed"},
             \/ faults' = faults + 1
             \/ faults' = faults /\ pc[b] \notin {"quality", "success", "done", "none"}
      PROVE  CopiesInv(b)'
  BY <1>0, <1>1, <1>2 DEF CopiesInv, Spare
<1>3. CASE StartTask(b)
  BY <1>2, <1>3 DEF StartTask, Goto, clickhouseVars
<1>4. CASE ReadSummary(b)
  BY <1>2, <1>4 DEF ReadSummary, Raise, Fault, Goto, clickhouseVars
<1>5. CASE CountRows(b)
  BY <1>2, <1>5 DEF CountRows, Raise, Fault, Goto, clickhouseVars
<1>6. CASE InsertRows(b)
  <2>1. /\ pc[b] = "insert" /\ quality' = quality
        /\ \/ pc'[b] = "quality" /\ faults' = faults
           \/ pc'[b] = "except" /\ faults' = faults + 1
           \/ pc'[b] = "except" /\ faults' = faults /\ valid[b] \cap PoisonRows # {}
    BY <1>6 DEF InsertRows, Raise, Fault, Goto
  <2>2. PICK rows \in SUBSET Rows : raw' = Copied(b, rows)
    BY <1>6 DEF InsertRows
  <2>3. \A r \in Rows : raw'[b][r] <= raw[b][r] + 1
    BY <1>0, <2>2 DEF Copied
  <2>4. \A r \in Rows : raw'[b][r] \in Nat
    BY <1>0, <2>2 DEF Copied
  <2>5. Len(quality'[b]) <= faults' + Spare(b, {"success", "done"})'
    BY <1>0, <2>1 DEF CopiesInv, Spare
  <2>6. ASSUME valid[b] \cap PoisonRows = {}, NEW r \in Rows
        PROVE  raw'[b][r] <= faults' + Spare(b, {"quality", "success", "done"})'
    <3>1. raw[b][r] <= faults
      BY <1>0, <2>1, <2>6 DEF CopiesInv, Spare
    <3> QED BY <1>0, <2>1, <2>3, <2>4, <2>6, <3>1 DEF Spare
  <2> QED BY <1>0, <1>1, <2>1, <2>5, <2>6 DEF CopiesInv
<1>7. CASE InsertQuality(b)
  <2>1. /\ pc[b] = "quality" /\ raw' = raw
        /\ \/ pc'[b] = "success" /\ faults' = faults
           \/ pc'[b] = "except" /\ faults' = faults + 1
        /\ quality'[b] \in {quality[b], Append(quality[b], manifest[b])}
    BY <1>7 DEF InsertQuality, Raise, Fault, Goto
  <2>2. Len(Append(quality[b], manifest[b])) = Len(quality[b]) + 1
    OBVIOUS
  <2>3. Len(quality'[b]) \in Nat /\ Len(quality'[b]) <= Len(quality[b]) + 1
    BY <1>0, <2>1, <2>2
  <2> QED BY <1>0, <1>1, <2>1, <2>3 DEF CopiesInv, Spare
<1>8. CASE RecordSuccess(b)
  <2>1. /\ pc[b] = "success" /\ UNCHANGED <<raw, quality>>
        /\ \/ pc'[b] = "done" /\ faults' = faults /\ Committed(b)'
           \/ pc'[b] = "except" /\ faults' = faults + 1
    BY <1>8 DEF RecordSuccess, Raise, Fault, Goto, Recorded, Committed
  <2> QED BY <1>0, <1>1, <2>1 DEF CopiesInv, Spare
<1>9. CASE RecordFailed(b)
  BY <1>2, <1>9 DEF RecordFailed, EndAttempt, Fault, Goto
<1>10. CASE WorkerDies(b)
  BY <1>2, <1>10 DEF WorkerDies, EndAttempt, Fault, Goto, clickhouseVars
<1> QED
  BY <1>3, <1>4, <1>5, <1>6, <1>7, <1>8, <1>9, <1>10 DEF LoadStep

LEMMA CopiesElsewhere ==
    ASSUME TypeInv, NEW a \in Batch, CopiesInv(a), Untouched(a), run' = run,
           faults' \in Nat, faults <= faults'
    PROVE  CopiesInv(a)'
<1>1. Committed(a)' = Committed(a)
  BY DEF Untouched, Committed
<1>2. faults \in Nat /\ Len(quality[a]) \in Nat /\ \A r \in Rows : raw[a][r] \in Nat
  BY LoaderAssumption DEF TypeInv, TypeOK
<1> QED BY <1>1, <1>2 DEF Untouched, CopiesInv, Spare

(* Without faults a batch is loaded exactly once. *)
THEOREM CopiesCostFaultsAlways == Spec => []CopiesCostFaults
<1> DEFINE CInv == \A a \in Batch : CopiesInv(a)
<1>1. Init => CInv
  BY CopiesInit
<1>2. TypeInv /\ LoadInv /\ CInv /\ [Next]_vars => CInv'
  <2> SUFFICES ASSUME TypeInv, LoadInv, CInv, [Next]_vars, NEW a \in Batch
               PROVE  CopiesInv(a)'
    OBVIOUS
  <2>1. CopiesInv(a) /\ BatchInv(a)
    BY DEF LoadInv
  <2>2. ASSUME NEW b \in Batch, LoadStep(b) \/ WorkerDies(b) PROVE CopiesInv(a)'
    <3>1. CASE a = b
      BY <2>1, <2>2, <3>1, CopiesLoad
    <3>2. CASE a # b
      <4>1. faults' \in Nat /\ faults <= faults'
        BY <2>2, LoaderAssumption DEF LoadStep, StartTask, ReadSummary, CountRows,
            InsertRows, InsertQuality, RecordSuccess, RecordFailed, WorkerDies, Raise,
            Fault, TypeInv, TypeOK
      <4> QED BY <2>1, <2>2, <3>2, <4>1, LoadTouchesOne, CopiesElsewhere
    <3> QED BY <3>1, <3>2
  <2>3. CASE UNCHANGED vars
    BY <2>1, <2>3 DEF vars, minioVars, clickhouseVars, airflowVars, CopiesInv, Spare,
        Committed
  <2> QED BY <2>1, <2>2, <2>3, CopiesPublish, CopiesRun DEF Next, Airflow
<1>3. TypeInv /\ CInv => CopiesCostFaults
  <2> SUFFICES ASSUME TypeInv, CInv, NEW b \in Batch
               PROVE  /\ Len(quality[b]) <= 1 + faults
                      /\ valid[b] \cap PoisonRows = {} =>
                            \A r \in Rows : raw[b][r] <= 1 + faults
    BY DEF CopiesCostFaults
  <2>1. faults \in Nat /\ Len(quality[b]) \in Nat /\ \A r \in Rows : raw[b][r] \in Nat
    BY LoaderAssumption DEF TypeInv, TypeOK
  <2>2. CopiesInv(b)
    OBVIOUS
  <2> QED BY <2>1, <2>2 DEF CopiesInv, Spare
<1> QED
  BY <1>1, <1>2, <1>3, TypeInvAlways, LoadInvAlways, PTL DEF Spec

-----------------------------------------------------------------------------
(* The ledger closes a batch to every later run. *)
THEOREM CommittedIsClosedAlways == Spec => CommittedIsClosed
<1>1. ASSUME TypeInv, [Next]_vars, NEW b \in Batch,
             Committed(b), pc[b] \in {"none", "done", "failed"}
      PROVE  /\ raw'[b] = raw[b] /\ quality'[b] = quality[b]
             /\ pc'[b] \in {pc[b], "none"}
  <2>1. ASSUME NEW a \in Batch, Publish(a)
        PROVE  raw' = raw /\ quality' = quality /\ pc' = pc
    BY <2>1 DEF Publish, clickhouseVars, airflowVars
  <2>2. CASE RunStep \/ StageFails
    BY <1>1, <2>2 DEF RunStep, StageFails, StartRun, CheckDependencies,
        DiscoverBatches, FinishRun, Selected, Pending, clickhouseVars
  <2>3. ASSUME NEW a \in Batch, LoadStep(a) \/ WorkerDies(a)
        PROVE  raw'[b] = raw[b] /\ quality'[b] = quality[b] /\ pc'[b] = pc[b]
    <3>1. a # b
      BY <1>1, <2>3 DEF LoadStep, StartTask, ReadSummary, CountRows, InsertRows,
          InsertQuality, RecordSuccess, RecordFailed, WorkerDies, Working
    <3>2. Untouched(b)
      BY <1>1, <2>3, <3>1, LoadTouchesOne
    <3> QED BY <3>2 DEF Untouched
  <2>4. CASE UNCHANGED vars
    BY <2>4 DEF vars, clickhouseVars, airflowVars
  <2> QED BY <1>1, <2>1, <2>2, <2>3, <2>4 DEF Next, Airflow
<1>2. TypeInv /\ [Next]_vars =>
        [\A b \in Batch : Committed(b) /\ pc[b] \in {"none", "done", "failed"} =>
             /\ raw'[b] = raw[b] /\ quality'[b] = quality[b]
             /\ pc'[b] \in {pc[b], "none"}]_vars
  BY <1>1
<1> QED
  BY <1>2, TypeInvAlways, PTL DEF Spec, CommittedIsClosed

-----------------------------------------------------------------------------
(***************************************************************************)
(* Refinement. The step that commits is the one that first leaves a        *)
(* success row in the ledger, answered or not. Every other step of the DAG *)
(* stutters: inserts before it are not visible, and those after it insert  *)
(* rows that are there.                                                    *)
(***************************************************************************)
committedSet == {b \in Batch : Committed(b)}
visibleRows == [b \in Batch |-> IF Committed(b) THEN Loaded(b) ELSE {}]

LEMMA CommittedVisible ==
    ASSUME LoadInv PROVE visibleRows = [b \in Batch |-> IF Committed(b) THEN Due(b) ELSE {}]
  BY DEF LoadInv, BatchInv, Whole, visibleRows

LEMMA SameVisible ==
    ASSUME LoadInv, LoadInv', UNCHANGED minioVars,
           \A b \in Batch : Committed(b)' = Committed(b)
    PROVE  committedSet' = committedSet /\ visibleRows' = visibleRows
<1>1. committedSet' = committedSet
  BY DEF committedSet
<1>2. \A b \in Batch : Due(b)' = Due(b)
  BY DEF Due, minioVars
<1>3. visibleRows' = [b \in Batch |-> IF Committed(b) THEN Due(b) ELSE {}]
  BY <1>2 DEF LoadInv, BatchInv, Whole, visibleRows
<1> QED BY <1>1, <1>3, CommittedVisible

LEMMA RefinesInit == Init => Abstract!AbstractInit
<1> SUFFICES ASSUME Init PROVE Abstract!AbstractInit
  OBVIOUS
<1>1. \A b \in Batch : ~Committed(b)
  BY DEF Init, Committed
<1>2. {b \in Batch : Committed(b)} = {}
  BY <1>1
<1>3. [b \in Batch |-> IF Committed(b) THEN Loaded(b) ELSE {}] = [b \in Batch |-> {}]
  BY <1>1
<1> QED BY <1>2, <1>3 DEF Init, Abstract!AbstractInit

LEMMA RefinesNext ==
    ASSUME TypeInv, LoadInv, TypeInv', LoadInv', [Next]_vars
    PROVE  [Abstract!AbstractNext]_(Abstract!abstractVars)
<1> USE DEF TypeInv, TypeOK
<1>1. ASSUME UNCHANGED minioVars, \A b \in Batch : Committed(b)' = Committed(b)
      PROVE  UNCHANGED Abstract!abstractVars
  BY <1>1, SameVisible DEF Abstract!abstractVars, minioVars, committedSet, visibleRows
<1>2. ASSUME NEW b \in Batch, Publish(b) PROVE Abstract!AbstractPublish(b)
  <2>1. \A a \in Batch : Committed(a)' = Committed(a) /\ Loaded(a)' = Loaded(a)
    BY <1>2 DEF Publish, clickhouseVars, Committed, Loaded
  <2> QED BY <1>2, <2>1 DEF Publish, Abstract!AbstractPublish
<1>3. CASE RunStep \/ StageFails
  <2>1. UNCHANGED <<minioVars, ledger>>
    BY <1>3 DEF RunStep, StageFails, StartRun, CheckDependencies, DiscoverBatches,
        FinishRun, clickhouseVars
  <2> QED BY <1>1, <2>1 DEF Committed
<1>4. ASSUME NEW b \in Batch, LoadStep(b) \/ WorkerDies(b)
      PROVE  [Abstract!AbstractNext]_(Abstract!abstractVars)
  <2>1. UNCHANGED minioVars
    BY <1>4, LoadTouchesOne
  <2>2. \A a \in Batch \ {b} : Committed(a)' = Committed(a)
    BY <1>4, LoadTouchesOne DEF Untouched, Committed
  <2>3. CASE Committed(b)' = Committed(b)
    BY <1>1, <2>1, <2>2, <2>3
  <2>4. CASE Committed(b)' # Committed(b)
    <3>1. RecordSuccess(b) /\ ~Committed(b) /\ Committed(b)'
      <4>1. CASE RecordSuccess(b)
        BY <2>4, <4>1 DEF RecordSuccess, Recorded, Committed
      <4>2. CASE RecordFailed(b)
        BY <2>4, <4>2 DEF RecordFailed, Recorded, Committed
      <4>3. CASE UNCHANGED ledger
        BY <2>4, <4>3 DEF Committed
      <4> QED
        BY <1>4, <4>1, <4>2, <4>3 DEF LoadStep, StartTask, ReadSummary, CountRows,
            InsertRows, InsertQuality, WorkerDies, clickhouseVars
    <3>2. /\ marker[b] /\ ManifestOk(b, manifest[b]) /\ Whole(b)
      BY <3>1 DEF RecordSuccess, LoadInv, BatchInv
    <3>3. Reconciles(b, valid[b], manifest[b])
      BY <3>2 DEF Reconciles, Due, Whole
    <3>4. committedSet' = committedSet \cup {b}
      BY <2>2, <3>1 DEF committedSet
    <3>5. visibleRows' = [visibleRows EXCEPT ![b] = Due(b)]
      <4>1. raw' = raw
        BY <3>1 DEF RecordSuccess
      <4>2. \A a \in Batch : Loaded(a)' = Loaded(a)
        BY <4>1 DEF Loaded
      <4>3. Loaded(b) = Due(b)
        BY <3>2 DEF Whole
      <4>4. visibleRows' = [a \in Batch |-> IF a = b THEN Due(b)
                                           ELSE IF Committed(a) THEN Loaded(a) ELSE {}]
        BY <2>2, <3>1, <4>2, <4>3 DEF visibleRows
      <4> QED BY <4>4 DEF visibleRows
    <3>6. Abstract!Commit(b)
      <4>1. b \notin committedSet /\ marker[b]
        BY <3>1, <3>2 DEF committedSet
      <4>2. UNCHANGED <<marker, valid, manifest>>
        BY <2>1 DEF minioVars
      <4> QED
        BY <3>3, <3>4, <3>5, <4>1, <4>2
        DEF Abstract!Commit, committedSet, visibleRows, Due
    <3> QED BY <3>6 DEF Abstract!AbstractNext
  <2> QED BY <2>3, <2>4
<1>5. CASE UNCHANGED vars
  BY <1>1, <1>5 DEF vars, minioVars, clickhouseVars, Committed
<1> QED
  BY <1>1, <1>2, <1>3, <1>4, <1>5 DEF Next, Airflow, Abstract!AbstractNext

(* Readers of the ledger see atomic loads. *)
THEOREM LoaderImplementsAtomicLoad == Spec => ImplementsAtomicLoad
<1>1. TypeInv /\ LoadInv /\ TypeInv' /\ LoadInv' /\ [Next]_vars
        => [Abstract!AbstractNext]_(Abstract!abstractVars)
  BY RefinesNext
<1> QED
  BY <1>1, RefinesInit, TypeInvAlways, LoadInvAlways, PTL
  DEF Spec, ImplementsAtomicLoad, Abstract!AbstractSpec
=============================================================================
