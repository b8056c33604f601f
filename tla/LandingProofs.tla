--------------------------- MODULE LandingProofs ---------------------------
(***************************************************************************)
(* Theorems about Landing, for every log, every schema catalog and every   *)
(* number of crashes: type correctness, that each message of a batch the   *)
(* checkpoint calls done is accounted for, that no coordinate is landed    *)
(* twice, and that the completion marker comes last.                       *)
(***************************************************************************)
EXTENDS Landing, FiniteSetTheorems, FunctionTheorems, SequenceTheorems, TLAPS

-----------------------------------------------------------------------------
(* The inductive invariant. Where the query stands in a batch: while it writes,
   the last planned batch is the one that is not done. *)
Stage ==
    /\ commits \in Nat
    /\ pc = "idle" => commits = Len(offsets)
    /\ pc \in Writing => commits = Len(offsets) - 1

(* Batch n ends after at least n + 1 messages: batch numbers do not run out
   before the log does. *)
EndsGrow ==
    /\ Len(log) <= MaxLog
    /\ \A i \in 1..Len(offsets) : i <= offsets[i]

(* A directory holds rows of the range of its own batch, and a batch that is not
   planned, or is of the other pipeline, has nothing. *)
InOwnRange ==
    \A b \in Batch :
        IF b[1] = Pipeline /\ b[2] < Len(offsets)
        THEN valid[b] \subseteq BatchRange(b[2]) /\ quarantine[b] \subseteq BatchRange(b[2])
        ELSE valid[b] = {} /\ quarantine[b] = {} /\ manifest[b] = {} /\ ~marker[b]

(* What is on MinIO of the batch under way, by how far its writes have come. *)
AfterValid == {"clear_quarantine", "fill_quarantine", "clear_manifest", "fill_manifest",
               "mark_manifest", "commit"}
AfterQuarantine == {"clear_manifest", "fill_manifest", "mark_manifest", "commit"}
AfterManifest == {"mark_manifest", "commit"}

WrittenSoFar ==
    /\ pc = "fill_valid" => valid[Current] \subseteq ValidRows(CurrentId, catalog)
    /\ pc \in AfterValid => valid[Current] = ValidRows(CurrentId, catalog)
    /\ pc \in AfterQuarantine => quarantine[Current] = QuarantinedRows(CurrentId, catalog)
    /\ pc \in AfterManifest => manifest[Current] = BuildManifest(CurrentId, catalog)
    /\ pc = "commit" => marker[Current]

LandingInv ==
    TypeOK /\ Stage /\ EndsGrow /\ InOwnRange /\ WrittenSoFar /\ CommittedAccounted

-----------------------------------------------------------------------------
(* Sums over a manifest: when each of its rows counts the members of S that are
   assigned to it, the column adds up to the size of S. *)
LEMMA TotalOfGroups ==
    ASSUME NEW S, IsFiniteSet(S), NEW m, NEW count, NEW group \in [S -> m],
           \A r \in m : r[count] = Cardinality({o \in S : group[o] = r})
    PROVE  Total(m, count) = Cardinality(S)
<1> DEFINE Part(r) == {o \in S : group[o] = r}
           Num(r) == CHOOSE f : f \in Bijection(1..r[count], Part(r))
           Places == UNION {{r} \X (1..r[count]) : r \in m}
           at == [p \in Places |-> Num(p[1])[p[2]]]
<1>1. ASSUME NEW r \in m
      PROVE  /\ \A i \in 1..r[count] : Num(r)[i] \in Part(r)
             /\ \A i, j \in 1..r[count] : Num(r)[i] = Num(r)[j] => i = j
             /\ \A o \in Part(r) : \E i \in 1..r[count] : Num(r)[i] = o
  <2>1. IsFiniteSet(Part(r)) /\ r[count] = Cardinality(Part(r))
    BY FS_Subset
  <2>2. ExistsBijection(1..r[count], Part(r))
    BY <2>1, FS_CardinalityType
  <2>3. Num(r) \in Bijection(1..r[count], Part(r))
    BY <2>2 DEF ExistsBijection
  <2> HIDE DEF Num
  <2> QED BY <2>3 DEF Bijection, Injection, Surjection, IsInjective
<1>2. \A p \in Places : p[1] \in m /\ p[2] \in 1..p[1][count] /\ p = <<p[1], p[2]>>
  OBVIOUS
<1>3. \A r \in m : \A i \in 1..r[count] : <<r, i>> \in Places
  OBVIOUS
<1> HIDE DEF Num, Places
<1>4. ASSUME NEW p \in Places PROVE at[p] \in S /\ group[at[p]] = p[1]
  <2>1. p[1] \in m /\ p[2] \in 1..p[1][count]
    BY <1>2
  <2>2. Num(p[1])[p[2]] \in Part(p[1])
    BY <1>1, <2>1
  <2> QED BY <2>2
<1>5. ASSUME NEW p \in Places, NEW q \in Places, at[p] = at[q] PROVE p = q
  <2>1. p[1] = q[1]
    BY <1>4, <1>5
  <2>2. Num(p[1])[p[2]] = Num(p[1])[q[2]]
    BY <1>5, <2>1
  <2>3. p[2] = q[2]
    BY <1>1, <1>2, <2>1, <2>2
  <2> QED BY <1>2, <2>1, <2>3
<1>6. ASSUME NEW o \in S PROVE \E p \in Places : at[p] = o
  <2>1. group[o] \in m /\ o \in Part(group[o])
    OBVIOUS
  <2>2. PICK i \in 1..group[o][count] : Num(group[o])[i] = o
    BY <1>1, <2>1
  <2>3. <<group[o], i>> \in Places
    BY <1>3, <2>1
  <2>4. at[<<group[o], i>>] = o
    BY <2>2, <2>3
  <2> QED BY <2>3, <2>4
<1>7. at \in Bijection(Places, S)
  <2>1. at \in [Places -> S]
    BY <1>4
  <2> QED BY <1>5, <1>6, <2>1, Fun_IsBij
<1>8. ExistsBijection(S, Places)
  BY <1>7, Fun_ExistsBijSymmetric DEF ExistsBijection
<1>9. Cardinality(Places) = Cardinality(S)
  BY <1>8, FS_Bijection
<1> QED BY <1>9 DEF Total, Places

-----------------------------------------------------------------------------
(* Ranges of planned batches. *)
LEMMA OffsetsInLog ==
    ASSUME TypeOK
    PROVE  /\ Len(log) \in Nat /\ Len(offsets) \in Nat
           /\ \A i \in 1..Len(offsets) : offsets[i] \in Nat /\ offsets[i] \in 1..Len(log)
<1>1. offsets \in Seq(1..Len(log)) /\ log \in Seq(Messages)
  BY DEF TypeOK
<1>2. Len(log) \in Nat /\ Len(offsets) \in Nat
  BY <1>1
<1>3. \A i \in 1..Len(offsets) : offsets[i] \in 1..Len(log)
  BY <1>1
<1> QED BY <1>2, <1>3

LEMMA Ranges ==
    ASSUME TypeOK, EndsGrow, NEW n \in BatchNumbers
    PROVE  /\ n \in BatchIds /\ n \in Nat
           /\ BatchOf(n) \in Batch /\ BatchOf(n)[1] = Pipeline /\ BatchOf(n)[2] = n
           /\ n < Len(offsets) /\ n + 1 \in 1..Len(offsets)
           /\ offsets[n + 1] \in BatchRange(n)
           /\ BatchRange(n) \subseteq 1..Len(log)
           /\ BatchRange(n) \subseteq Rows
           /\ IsFiniteSet(BatchRange(n))
<1>1. /\ n \in Nat /\ n < Len(offsets) /\ n + 1 \in 1..Len(offsets)
      /\ Len(offsets) \in Nat /\ Len(log) \in Nat
  BY OffsetsInLog DEF BatchNumbers
<1>2. offsets[n + 1] \in 1..Len(log) /\ n + 1 <= offsets[n + 1] /\ Len(log) <= MaxLog
  BY <1>1, OffsetsInLog DEF EndsGrow
<1>3. n \in BatchIds
  BY <1>1, <1>2, LandingAssumption
<1>4. BatchOf(n) \in Batch /\ BatchOf(n)[1] = Pipeline /\ BatchOf(n)[2] = n
  BY <1>3, LandingAssumption DEF BatchOf, Batch
<1>5. n # 0 => /\ n \in 1..Len(offsets) /\ offsets[n] \in 1..Len(log)
               /\ offsets[n] < offsets[n + 1]
  BY <1>1 DEF TypeOK
<1>6. offsets[n + 1] \in BatchRange(n) /\ BatchRange(n) \subseteq 1..Len(log)
  BY <1>1, <1>2, <1>5 DEF BatchRange
<1>7. IsFiniteSet(BatchRange(n))
  <2>1. IsFiniteSet(1..Len(log))
    BY <1>1, FS_Interval
  <2> QED BY <1>6, <2>1, FS_Subset
<1> QED BY <1>1, <1>2, <1>3, <1>4, <1>6, <1>7, LandingAssumption

LEMMA RangesDisjoint ==
    ASSUME TypeOK, EndsGrow, NEW m \in BatchNumbers, NEW n \in BatchNumbers, m < n
    PROVE  BatchRange(m) \cap BatchRange(n) = {}
<1>1. /\ m \in Nat /\ n \in Nat /\ m + 1 \in 1..Len(offsets) /\ n \in 1..Len(offsets)
      /\ n + 1 \in 1..Len(offsets) /\ Len(log) \in Nat
  BY OffsetsInLog DEF BatchNumbers
<1>2. offsets[m + 1] \in Nat /\ offsets[n] \in Nat /\ offsets[n + 1] \in Nat
  BY <1>1, OffsetsInLog
<1>3. offsets[m + 1] <= offsets[n]
  <2>1. m + 1 = n \/ m + 1 < n
    BY <1>1
  <2>2. m + 1 < n => offsets[m + 1] < offsets[n]
    <3>1. \A i, j \in 1..Len(offsets) : i < j => offsets[i] < offsets[j]
      BY DEF TypeOK
    <3> QED BY <1>1, <3>1
  <2> QED BY <1>2, <2>1, <2>2
<1>4. \A o \in BatchRange(m) : o <= offsets[m + 1] /\ o \in Int
  BY <1>1, <1>2 DEF BatchRange
<1>5. \A o \in BatchRange(n) : offsets[n] < o
  BY <1>1, <1>2 DEF BatchRange
<1> QED BY <1>2, <1>3, <1>4, <1>5

(* The batch under way is a planned one. *)
LEMMA CurrentPlanned ==
    ASSUME TypeOK, Stage, EndsGrow, pc \in Writing
    PROVE  /\ CurrentId \in BatchNumbers
           /\ Len(offsets) = CurrentId + 1
           /\ commits = CurrentId
           /\ Current \in Batch /\ Current[1] = Pipeline /\ Current[2] = CurrentId
<1>1. CurrentId \in BatchNumbers /\ Len(offsets) = CurrentId + 1 /\ commits = CurrentId
  BY DEF Stage, CurrentId, BatchNumbers, TypeOK
<1> QED BY <1>1, Ranges DEF Current

-----------------------------------------------------------------------------
(* What process_batch writes for a batch. *)
LEMMA KeyOfType ==
    ASSUME TypeOK, NEW o \in 1..Len(log), NEW known
    PROVE  KeyOf(log[o], known) \in Keys
<1>1. log[o] \in Message
  BY LandingAssumption DEF TypeOK
<1>2. log[o].key \in Keys
  BY <1>1 DEF Message
<1> QED BY <1>2, LandingAssumption DEF KeyOf

(* Rows go to one of the two directories. *)
LEMMA RoutedOnce ==
    ASSUME NEW n, NEW known
    PROVE  /\ ValidRows(n, known) \cup QuarantinedRows(n, known) = BatchRange(n)
           /\ ValidRows(n, known) \cap QuarantinedRows(n, known) = {}
  BY DEF ValidRows, QuarantinedRows

(* The manifest a batch gets reconciles with the two directories it gets. *)
LEMMA ManifestReconciles ==
    ASSUME TypeOK, EndsGrow, NEW n \in BatchNumbers, NEW known
    PROVE  LET m == BuildManifest(n, known)
           IN  /\ m \in Manifest
               /\ Reconciles(BatchOf(n), ValidRows(n, known), m)
               /\ Cardinality(ValidRows(n, known)) = Total(m, "valid")
               /\ Cardinality(QuarantinedRows(n, known)) = Total(m, "quarantine")
<1> DEFINE range == BatchRange(n)
           good == ValidRows(n, known)
           bad == QuarantinedRows(n, known)
           key(o) == KeyOf(log[o], known)
           Of(S, k) == {o \in S : key(o) = k}
           row(k) == [batch |-> BatchOf(n), key |-> k,
                      input |-> Cardinality(Of(range, k)),
                      valid |-> Cardinality(Of(good, k)),
                      quarantine |-> Cardinality(Of(bad, k))]
           ks == {key(o) : o \in range}
           m == {row(k) : k \in ks}
<1>1. m = BuildManifest(n, known)
  BY DEF BuildManifest
<1>2. /\ range = good \cup bad /\ good \cap bad = {}
      /\ good \subseteq range /\ bad \subseteq range /\ IsFiniteSet(range)
  BY RoutedOnce, Ranges
<1>3. IsFiniteSet(good) /\ IsFiniteSet(bad)
  BY <1>2, FS_Subset
<1>4. ASSUME NEW k
      PROVE  /\ Cardinality(Of(range, k)) \in Nat
             /\ Cardinality(Of(good, k)) \in Nat
             /\ Cardinality(Of(bad, k)) \in Nat
             /\ Cardinality(Of(range, k)) = Cardinality(Of(good, k)) + Cardinality(Of(bad, k))
  <2>1. /\ IsFiniteSet(Of(range, k)) /\ IsFiniteSet(Of(good, k)) /\ IsFiniteSet(Of(bad, k))
    BY <1>2, <1>3, FS_Subset
  <2>2. Of(range, k) = Of(good, k) \cup Of(bad, k) /\ Of(good, k) \cap Of(bad, k) = {}
    BY <1>2
  <2>3. /\ Cardinality(Of(range, k)) \in Nat /\ Cardinality(Of(good, k)) \in Nat
        /\ Cardinality(Of(bad, k)) \in Nat
    BY <2>1, FS_CardinalityType
  <2>4. Cardinality(Of(good, k) \cup Of(bad, k))
           = Cardinality(Of(good, k)) + Cardinality(Of(bad, k)) - Cardinality({})
    BY <2>1, <2>2, FS_Union
  <2> QED BY <2>2, <2>3, <2>4, FS_EmptySet
<1>5. \A o \in range : key(o) \in Keys
  BY Ranges, KeyOfType
<1>7. \A k, j \in ks : row(k) = row(j) => k = j
  OBVIOUS
<1> HIDE DEF row
<1>8. ASSUME NEW S \in SUBSET range, NEW count,
             \A k \in ks : row(k)[count] = Cardinality(Of(S, k))
      PROVE  Total(m, count) = Cardinality(S)
  <2> DEFINE group == [o \in S |-> row(key(o))]
  <2>1. IsFiniteSet(S)
    BY <1>2, FS_Subset
  <2>2. group \in [S -> m]
    OBVIOUS
  <2>3. ASSUME NEW r \in m PROVE r[count] = Cardinality({o \in S : group[o] = r})
    <3>1. PICK k \in ks : r = row(k)
      OBVIOUS
    <3>2. {o \in S : group[o] = r} = Of(S, k)
      BY <1>7, <3>1
    <3> QED BY <1>8, <3>1, <3>2
  <2> HIDE DEF group, m
  <2> QED BY <2>1, <2>2, <2>3, TotalOfGroups
<1>9. /\ Total(m, "input") = Cardinality(range)
      /\ Total(m, "valid") = Cardinality(good)
      /\ Total(m, "quarantine") = Cardinality(bad)
  BY <1>2, <1>8 DEF row
<1>10. m \in Manifest
  <2>1. ASSUME NEW k \in ks PROVE row(k) \in ManifestRow
    <3>1. k \in Keys /\ BatchOf(n) \in Batch
      BY <1>5, Ranges
    <3>2. /\ Cardinality(Of(range, k)) \in Int /\ Cardinality(Of(good, k)) \in Int
          /\ Cardinality(Of(bad, k)) \in Int
      BY <1>4
    <3> HIDE DEF Of
    <3> QED BY <3>1, <3>2 DEF row, ManifestRow
  <2> QED BY <2>1 DEF Manifest
<1>11. /\ Cardinality(range) \in Nat /\ Cardinality(good) \in Nat /\ Cardinality(bad) \in Nat
       /\ Cardinality(range) # 0
       /\ Cardinality(range) = Cardinality(good) + Cardinality(bad)
  <2>1. range # {}
    BY Ranges
  <2>2. Cardinality(good \cup bad) = Cardinality(good) + Cardinality(bad) - Cardinality({})
    BY <1>2, <1>3, FS_Union
  <2>3. /\ Cardinality(range) \in Nat /\ Cardinality(good) \in Nat /\ Cardinality(bad) \in Nat
    BY <1>2, <1>3, FS_CardinalityType
  <2>4. Cardinality(range) # 0
    BY <1>2, <2>1, FS_EmptySet
  <2>5. Cardinality(range) = Cardinality(good) + Cardinality(bad) - Cardinality({})
    BY <1>2, <2>2
  <2> HIDE DEF range, good, bad
  <2> QED BY <2>3, <2>4, <2>5, FS_EmptySet
<1>12. ManifestOk(BatchOf(n), m)
  <2>1. m # {}
    BY <1>11, Ranges
  <2>2. ASSUME NEW r \in m
        PROVE  /\ r.batch = BatchOf(n) /\ r.input = r.valid + r.quarantine
               /\ r.input >= 0 /\ r.valid >= 0 /\ r.quarantine >= 0
    <3>1. PICK k \in ks : r = row(k)
      OBVIOUS
    <3>2. /\ Cardinality(Of(range, k)) \in Nat /\ Cardinality(Of(good, k)) \in Nat
          /\ Cardinality(Of(bad, k)) \in Nat
          /\ Cardinality(Of(range, k)) = Cardinality(Of(good, k)) + Cardinality(Of(bad, k))
      BY <1>4
    <3> HIDE DEF Of
    <3> QED BY <3>1, <3>2 DEF row
  <2>3. \A r, s \in m : r.key = s.key => r = s
    <3>1. \A k : row(k).key = k
      BY DEF row
    <3> QED BY <3>1
  <2> HIDE DEF m
  <2> QED BY <1>9, <1>11, <2>1, <2>2, <2>3 DEF ManifestOk
<1>13. Cardinality(Accepted(good, m)) = Total(m, "valid")
  <2> HIDE DEF m
  <2>1. CASE Total(m, "valid") = 0
    BY <2>1, FS_EmptySet DEF Accepted
  <2>2. CASE Total(m, "valid") # 0
    BY <1>9, <2>2 DEF Accepted
  <2> QED BY <2>1, <2>2
<1> HIDE DEF m
<1> QED BY <1>1, <1>9, <1>10, <1>12, <1>13 DEF Reconciles

-----------------------------------------------------------------------------
(* The topic and the checkpoint only grow, and what has been planned keeps its
   range, its routing and its manifest. *)
LogGrows == Len(log) <= Len(log') /\ \A i \in 1..Len(log) : log'[i] = log[i]
OffsetsGrow ==
    Len(offsets) <= Len(offsets') /\ \A i \in 1..Len(offsets) : offsets'[i] = offsets[i]

LEMMA StepGrows == ASSUME TypeOK, [Next]_vars PROVE LogGrows /\ OffsetsGrow
<1> USE DEF LogGrows, OffsetsGrow
<1>1. ASSUME NEW m \in Messages, Produce(m) PROVE LogGrows
  BY <1>1 DEF Produce, TypeOK
<1>2. CASE PlanBatch
  <2>1. PICK end \in (Planned + 1)..Len(log) : offsets' = Append(offsets, end)
    BY <1>2 DEF PlanBatch
  <2>2. OffsetsGrow
    BY <2>1 DEF TypeOK
  <2> QED BY <1>2, <2>2 DEF PlanBatch, kafkaVars, TypeOK
<1>3. CASE UNCHANGED <<log, offsets>>
  BY <1>3 DEF TypeOK
<1>4. ASSUME NEW m \in Messages, Produce(m) PROVE OffsetsGrow
  BY <1>4 DEF Produce, sparkVars, TypeOK
<1> QED
  BY <1>1, <1>2, <1>3, <1>4
  DEF Next, Query, Producers, QueryStep, StartQuery, ClearValid, FillValid, ClearQuarantine,
      FillQuarantine, ClearManifest, FillManifest, MarkManifest, CommitBatch, StopQuery,
      RegisterSchema, vars, kafkaVars, sparkVars

LEMMA PlannedKept ==
    ASSUME TypeOK, EndsGrow, LogGrows, OffsetsGrow, NEW n \in BatchNumbers, NEW known
    PROVE  /\ BatchRange(n)' = BatchRange(n)
           /\ ValidRows(n, known)' = ValidRows(n, known)
           /\ QuarantinedRows(n, known)' = QuarantinedRows(n, known)
           /\ BuildManifest(n, known)' = BuildManifest(n, known)
<1>1. n \in Nat /\ n + 1 \in 1..Len(offsets) /\ BatchRange(n) \subseteq 1..Len(log)
  BY Ranges
<1>2. BatchRange(n)' = BatchRange(n)
  <2>1. n # 0 => n \in 1..Len(offsets)
    BY <1>1 DEF TypeOK
  <2> QED BY <1>1, <2>1 DEF BatchRange, OffsetsGrow
<1>3. \A o \in BatchRange(n) : log'[o] = log[o]
  BY <1>1 DEF LogGrows
<1>4. ValidRows(n, known)' = ValidRows(n, known)
  BY <1>2, <1>3 DEF ValidRows
<1>5. QuarantinedRows(n, known)' = QuarantinedRows(n, known)
  BY <1>2, <1>3 DEF QuarantinedRows
<1>6. BuildManifest(n, known)' = BuildManifest(n, known)
  <2>1. \A o \in BatchRange(n) : KeyOf(log'[o], known) = KeyOf(log[o], known)
    BY <1>3
  <2>2. {KeyOf(log'[o], known) : o \in BatchRange(n)} = {KeyOf(log[o], known) : o \in BatchRange(n)}
    BY <2>1
  <2>3. ASSUME NEW k, NEW S \in SUBSET BatchRange(n)
        PROVE  {o \in S : KeyOf(log'[o], known) = k} = {o \in S : KeyOf(log[o], known) = k}
    BY <2>1
  <2>4. ValidRows(n, known) \subseteq BatchRange(n) /\ QuarantinedRows(n, known) \subseteq BatchRange(n)
    BY DEF ValidRows, QuarantinedRows
  <2> DEFINE ks == {KeyOf(log[o], known) : o \in BatchRange(n)}
             row(k) == [batch |-> BatchOf(n), key |-> k,
                input |-> Cardinality({o \in BatchRange(n) : KeyOf(log[o], known) = k}),
                valid |-> Cardinality({o \in ValidRows(n, known) : KeyOf(log[o], known) = k}),
                quarantine |->
                    Cardinality({o \in QuarantinedRows(n, known) : KeyOf(log[o], known) = k})]
             rowAfter(k) == [batch |-> BatchOf(n), key |-> k,
                input |-> Cardinality({o \in BatchRange(n) : KeyOf(log'[o], known) = k}),
                valid |-> Cardinality({o \in ValidRows(n, known) : KeyOf(log'[o], known) = k}),
                quarantine |->
                    Cardinality({o \in QuarantinedRows(n, known) : KeyOf(log'[o], known) = k})]
  <2>5. ASSUME NEW k PROVE rowAfter(k) = row(k)
    BY <2>3, <2>4
  <2>6. BuildManifest(n, known) = {row(k) : k \in ks}
    BY DEF BuildManifest
  <2>7. BuildManifest(n, known)' = {rowAfter(k) : k \in ks}
    BY <1>2, <1>4, <1>5, <2>2 DEF BuildManifest
  <2> HIDE DEF row, rowAfter
  <2> QED BY <2>5, <2>6, <2>7
<1> QED BY <1>2, <1>4, <1>5, <1>6

LEMMA WholeKept ==
    ASSUME TypeOK, EndsGrow, LogGrows, OffsetsGrow, NEW n \in BatchNumbers, Whole(n),
           valid'[BatchOf(n)] = valid[BatchOf(n)],
           quarantine'[BatchOf(n)] = quarantine[BatchOf(n)],
           manifest'[BatchOf(n)] = manifest[BatchOf(n)],
           marker'[BatchOf(n)] = marker[BatchOf(n)]
    PROVE  Whole(n)'
  BY PlannedKept DEF Whole

LEMMA LandingInvInit == Init => LandingInv
<1> SUFFICES ASSUME Init PROVE LandingInv
  OBVIOUS
<1>1. Len(offsets) = 0 /\ Len(log) = 0 /\ log \in Seq(Messages) /\ offsets \in Seq(1..0)
  BY DEF Init
<1>2. TypeOK
  <2>1. /\ valid \in [Batch -> SUBSET Rows] /\ quarantine \in [Batch -> SUBSET Rows]
        /\ manifest \in [Batch -> Manifest] /\ marker \in [Batch -> BOOLEAN]
    BY DEF Init, Manifest
  <2>2. offsets \in Seq(1..Len(log))
    BY <1>1
  <2> QED BY <1>1, <2>1, <2>2, LandingAssumption DEF Init, TypeOK
<1>3. Stage /\ EndsGrow /\ WrittenSoFar /\ CommittedAccounted
  BY <1>1, LandingAssumption
  DEF Init, Stage, EndsGrow, WrittenSoFar, CommittedAccounted, Writing, AfterValid,
      AfterQuarantine, AfterManifest, BatchNumbers
<1>4. InOwnRange
  BY <1>1, BatchIdsAssumption DEF Init, InOwnRange, Batch
<1> QED BY <1>2, <1>3, <1>4 DEF LandingInv

-----------------------------------------------------------------------------
(* Steps that touch neither the planned ranges nor MinIO. *)
LEMMA OutputsKept ==
    ASSUME LandingInv, LogGrows, UNCHANGED <<offsets, commits, outputVars>>
    PROVE  InOwnRange' /\ CommittedAccounted'
<1> USE DEF outputVars
<1>0. TypeOK /\ EndsGrow
  BY DEF LandingInv
<1>1. OffsetsGrow
  BY DEF OffsetsGrow, LandingInv, TypeOK
<1>2. InOwnRange'
  <2>1. \A b \in Batch : b[1] = Pipeline /\ b[2] < Len(offsets) => b[2] \in BatchNumbers
    <3>1. \A b \in Batch : b[2] \in Nat
      BY BatchIdsAssumption DEF Batch
    <3>2. Len(offsets) \in Nat
      BY <1>0 DEF TypeOK
    <3> QED BY <3>1, <3>2 DEF BatchNumbers
  <2>2. ASSUME NEW b \in Batch, b[1] = Pipeline, b[2] < Len(offsets)
        PROVE  BatchRange(b[2])' = BatchRange(b[2])
    BY <1>0, <1>1, <2>1, <2>2, PlannedKept
  <2>3. /\ valid' = valid /\ quarantine' = quarantine
        /\ manifest' = manifest /\ marker' = marker /\ offsets' = offsets
    OBVIOUS
  <2> QED BY <2>2, <2>3 DEF LandingInv, InOwnRange
<1>3. CommittedAccounted'
  <2>1. BatchNumbers' = BatchNumbers /\ commits' = commits
    BY DEF BatchNumbers
  <2>2. ASSUME NEW n \in BatchNumbers, Whole(n) PROVE Whole(n)'
    <3>1. /\ valid' = valid /\ quarantine' = quarantine
          /\ manifest' = manifest /\ marker' = marker
      OBVIOUS
    <3> QED BY <1>0, <1>1, <2>2, <3>1, WholeKept
  <2> QED BY <2>1, <2>2 DEF LandingInv, CommittedAccounted
<1> QED BY <1>2, <1>3

LEMMA StageKept ==
    ASSUME LandingInv, LogGrows, UNCHANGED <<sparkVars, outputVars>>
    PROVE  WrittenSoFar'
<1> USE DEF sparkVars, outputVars
<1>1. /\ pc' = pc /\ catalog' = catalog /\ offsets' = offsets /\ valid' = valid
      /\ quarantine' = quarantine /\ manifest' = manifest /\ marker' = marker
  OBVIOUS
<1>2. CASE pc \in Writing
  <2>1. TypeOK /\ EndsGrow /\ OffsetsGrow /\ CurrentId \in BatchNumbers
    BY <1>1, <1>2, CurrentPlanned DEF OffsetsGrow, LandingInv, TypeOK
  <2>2. /\ ValidRows(CurrentId, catalog)' = ValidRows(CurrentId, catalog)
        /\ QuarantinedRows(CurrentId, catalog)' = QuarantinedRows(CurrentId, catalog)
        /\ BuildManifest(CurrentId, catalog)' = BuildManifest(CurrentId, catalog)
        /\ Current' = Current
    BY <1>1, <2>1, PlannedKept DEF Current, CurrentId, BatchOf
  <2> QED BY <1>1, <2>2 DEF LandingInv, WrittenSoFar
<1>3. CASE pc \notin Writing
  BY <1>1, <1>3 DEF WrittenSoFar, Writing, AfterValid, AfterQuarantine, AfterManifest
<1> QED BY <1>2, <1>3

LEMMA InvProduce ==
    ASSUME LandingInv, NEW m \in Messages, Produce(m) PROVE LandingInv'
<1> USE DEF Produce, LandingInv
<1>1. LogGrows
  BY StepGrows DEF Next, Producers
<1>2. InOwnRange' /\ CommittedAccounted'
  BY <1>1, OutputsKept DEF sparkVars
<1>3. /\ log' \in Seq(Messages) /\ Len(log') = Len(log) + 1 /\ Len(log) \in Nat
      /\ Len(log') <= MaxLog
  BY LandingAssumption DEF TypeOK
<1>4. TypeOK'
  <2>1. offsets' \in Seq(1..Len(log'))
    <3>1. 1..Len(log) \subseteq 1..Len(log')
      BY <1>3
    <3>2. offsets \in Seq(1..Len(log)) /\ offsets' = offsets
      BY DEF TypeOK, sparkVars
    <3> QED BY <3>1, <3>2, SeqMonotonic
  <2> QED BY <1>3, <2>1 DEF TypeOK, sparkVars, outputVars
<1>5. Stage' /\ EndsGrow'
  BY <1>3 DEF Stage, EndsGrow, sparkVars
<1>6. WrittenSoFar'
  BY <1>1, StageKept
<1> QED BY <1>2, <1>4, <1>5, <1>6

LEMMA InvRegisterSchema ==
    ASSUME LandingInv, NEW s \in Schemas, RegisterSchema(s) PROVE LandingInv'
<1> USE DEF RegisterSchema, LandingInv
<1>1. LogGrows
  BY StepGrows DEF Next, Producers
<1>2. InOwnRange' /\ CommittedAccounted'
  BY <1>1, OutputsKept DEF sparkVars
<1>3. TypeOK'
  BY DEF TypeOK, sparkVars, outputVars
<1>4. Stage' /\ EndsGrow' /\ WrittenSoFar'
  BY <1>1, StageKept DEF Stage, EndsGrow, sparkVars
<1> QED BY <1>2, <1>3, <1>4

(* Before a batch is cleared nothing is said of its directories. *)
NotWritten == {"down", "idle", "clear_valid"}

LEMMA InvStartStop ==
    ASSUME LandingInv, StartQuery \/ StopQuery PROVE LandingInv'
<1> USE DEF LandingInv
<1>1. UNCHANGED <<log, registry, offsets, commits, outputVars>> /\ pc' \in NotWritten
  BY DEF StartQuery, StopQuery, kafkaVars, NotWritten
<1>2. LogGrows
  BY <1>1 DEF LogGrows, TypeOK
<1>3. InOwnRange' /\ CommittedAccounted'
  BY <1>1, <1>2, OutputsKept
<1>4. catalog' \subseteq registry' /\ crashes' \in 0..MaxCrashes
  BY LandingAssumption DEF StartQuery, StopQuery, kafkaVars, TypeOK
<1>5. TypeOK'
  BY <1>1, <1>4 DEF TypeOK, NotWritten, Writing, outputVars
<1>6. Stage' /\ EndsGrow'
  <2>1. EndsGrow'
    BY <1>1 DEF EndsGrow
  <2>2. CASE StartQuery
    <3>1. pc' = "clear_valid" => commits < Len(offsets)
      BY <2>2 DEF StartQuery
    <3>2. pc' = "idle" => ~(commits < Len(offsets))
      BY <2>2 DEF StartQuery
    <3>3. commits \in Nat /\ Len(offsets) \in Nat /\ commits \in {Len(offsets), Len(offsets) - 1}
      BY DEF Stage, TypeOK
    <3> QED BY <1>1, <2>1, <3>1, <3>2, <3>3 DEF Stage, NotWritten, Writing
  <2>3. CASE StopQuery
    BY <1>1, <2>1, <2>3 DEF StopQuery, Stage, Writing
  <2> QED BY <2>2, <2>3
<1>7. WrittenSoFar'
  BY <1>1 DEF WrittenSoFar, NotWritten, AfterValid, AfterQuarantine, AfterManifest
<1> QED BY <1>3, <1>5, <1>6, <1>7

LEMMA InvPlanBatch == ASSUME LandingInv, PlanBatch PROVE LandingInv'
<1> USE DEF LandingInv
<1>1. /\ pc = "idle" /\ commits = Len(offsets) /\ pc' = "clear_valid"
      /\ UNCHANGED <<log, registry, catalog, commits, outputVars, crashes>>
  BY DEF PlanBatch, kafkaVars
<1>2. PICK end \in (Planned + 1)..Len(log) : offsets' = Append(offsets, end)
  BY DEF PlanBatch
<1>3. LogGrows /\ OffsetsGrow
  BY StepGrows DEF Next, Query, QueryStep
<1>4. /\ Len(offsets) \in Nat /\ Len(log) \in Nat /\ Planned \in Nat
      /\ Len(offsets) <= Planned
      /\ \A i \in 1..Len(offsets) : offsets[i] \in Nat /\ offsets[i] <= Planned
  <2>1. CASE offsets = <<>>
    BY <2>1 DEF Planned, TypeOK
  <2>2. CASE offsets # <<>>
    <3>1. Len(offsets) \in Nat /\ Len(offsets) \in 1..Len(offsets) /\ Planned = offsets[Len(offsets)]
      BY <2>2 DEF Planned, TypeOK
    <3>2. \A i \in 1..Len(offsets) : offsets[i] \in Nat
      BY <3>1 DEF TypeOK
    <3>3. \A i \in 1..Len(offsets) : offsets[i] <= Planned
      BY <3>1, <3>2 DEF TypeOK
    <3> QED BY <3>1, <3>2, <3>3 DEF EndsGrow, TypeOK
  <2> QED BY <2>1, <2>2
<1>5. /\ end \in 1..Len(log) /\ Planned < end /\ end \in Nat
      /\ Len(offsets') = Len(offsets) + 1
      /\ \A i \in 1..Len(offsets) : offsets'[i] = offsets[i]
      /\ offsets'[Len(offsets) + 1] = end
  BY <1>2, <1>4 DEF TypeOK
<1>6. offsets' \in Seq(1..Len(log))
  BY <1>2, <1>5 DEF TypeOK
<1>7. ASSUME NEW i \in 1..Len(offsets'), NEW j \in 1..Len(offsets'), i < j
      PROVE  offsets'[i] < offsets'[j]
  <2>1. i \in 1..Len(offsets)
    BY <1>4, <1>5, <1>7
  <2>2. CASE j \in 1..Len(offsets)
    BY <1>5, <1>7, <2>1, <2>2 DEF TypeOK
  <2>3. CASE j = Len(offsets) + 1
    BY <1>4, <1>5, <2>1, <2>3
  <2> QED BY <1>4, <1>5, <2>2, <2>3
<1>8. TypeOK'
  <2>1. commits' \in {Len(offsets'), Len(offsets') - 1}
    BY <1>1, <1>4, <1>5
  <2>2. pc' \in {"down", "idle"} \cup Writing
    BY <1>1 DEF Writing
  <2> QED BY <1>1, <1>6, <1>7, <2>1, <2>2 DEF TypeOK, outputVars
<1>9. Stage' /\ EndsGrow'
  <2>1. \A i \in 1..Len(offsets') : i <= offsets'[i]
    BY <1>4, <1>5 DEF EndsGrow
  <2> QED BY <1>1, <1>4, <1>5, <2>1 DEF Stage, EndsGrow
<1>10. WrittenSoFar'
  BY <1>1 DEF WrittenSoFar, AfterValid, AfterQuarantine, AfterManifest
<1>11. /\ valid' = valid /\ quarantine' = quarantine
       /\ manifest' = manifest /\ marker' = marker
  BY <1>1 DEF outputVars
<1>12. InOwnRange'
  <2> SUFFICES ASSUME NEW b \in Batch
               PROVE  IF b[1] = Pipeline /\ b[2] < Len(offsets')
                      THEN valid[b] \subseteq BatchRange(b[2])' /\ quarantine[b] \subseteq BatchRange(b[2])'
                      ELSE valid[b] = {} /\ quarantine[b] = {} /\ manifest[b] = {} /\ ~marker[b]
    BY <1>11 DEF InOwnRange
  <2>1. b[2] \in Nat
    BY BatchIdsAssumption DEF Batch
  <2>2. CASE b[1] = Pipeline /\ b[2] < Len(offsets)
    <3>1. b[2] \in BatchNumbers
      BY <1>4, <2>1, <2>2 DEF BatchNumbers
    <3>2. BatchRange(b[2])' = BatchRange(b[2])
      BY <1>3, <3>1, PlannedKept
    <3>3. b[2] < Len(offsets')
      BY <1>4, <1>5, <2>1, <2>2
    <3> QED BY <2>2, <3>2, <3>3 DEF InOwnRange
  <2>3. CASE ~(b[1] = Pipeline /\ b[2] < Len(offsets))
    BY <2>3 DEF InOwnRange
  <2> QED BY <1>4, <1>5, <2>1, <2>2, <2>3
<1>13. CommittedAccounted'
  <2> SUFFICES ASSUME NEW n \in BatchNumbers', n < commits' PROVE Whole(n)'
    BY DEF CommittedAccounted
  <2>1. n \in BatchNumbers /\ n < commits
    BY <1>1, <1>4 DEF BatchNumbers
  <2> QED BY <1>3, <1>11, <2>1, WholeKept DEF CommittedAccounted
<1> QED BY <1>8, <1>9, <1>10, <1>12, <1>13

-----------------------------------------------------------------------------
(* The writes of process_batch touch the directories of the current batch, which
   keep to the range of that batch. *)
LEMMA WriteKeeps ==
    ASSUME LandingInv, pc \in Writing, pc' \in Writing,
           UNCHANGED <<kafkaVars, catalog, offsets, commits, crashes>>,
           valid' \in [Batch -> SUBSET Rows], quarantine' \in [Batch -> SUBSET Rows],
           manifest' \in [Batch -> Manifest], marker' \in [Batch -> BOOLEAN],
           \A b \in Batch \ {Current} :
               /\ valid'[b] = valid[b] /\ quarantine'[b] = quarantine[b]
               /\ manifest'[b] = manifest[b] /\ marker'[b] = marker[b],
           valid'[Current] \subseteq BatchRange(CurrentId),
           quarantine'[Current] \subseteq BatchRange(CurrentId),
           WrittenSoFar'
    PROVE  LandingInv'
<1> USE DEF LandingInv
<1>1. /\ log' = log /\ registry' = registry /\ catalog' = catalog /\ offsets' = offsets
      /\ commits' = commits /\ crashes' = crashes
  BY DEF kafkaVars
<1>2. LogGrows /\ OffsetsGrow
  BY <1>1 DEF LogGrows, OffsetsGrow, TypeOK
<1>3. /\ CurrentId \in BatchNumbers /\ Len(offsets) = CurrentId + 1 /\ commits = CurrentId
      /\ Current \in Batch /\ Current[1] = Pipeline /\ Current[2] = CurrentId
  BY CurrentPlanned
<1>4. TypeOK'
  BY <1>1 DEF TypeOK
<1>5. Stage' /\ EndsGrow'
  BY <1>1 DEF Stage, EndsGrow, Writing
<1>6. InOwnRange'
  <2> SUFFICES ASSUME NEW b \in Batch
               PROVE  IF b[1] = Pipeline /\ b[2] < Len(offsets)
                      THEN valid'[b] \subseteq BatchRange(b[2]) /\ quarantine'[b] \subseteq BatchRange(b[2])
                      ELSE valid'[b] = {} /\ quarantine'[b] = {} /\ manifest'[b] = {} /\ ~marker'[b]
    BY <1>1 DEF InOwnRange, BatchRange
  <2>1. CASE b = Current
    <3>1. CurrentId < Len(offsets)
      BY <1>3, Ranges
    <3> QED BY <1>3, <2>1, <3>1
  <2>2. CASE b # Current
    BY <2>2 DEF InOwnRange
  <2> QED BY <2>1, <2>2
<1>7. CommittedAccounted'
  <2> SUFFICES ASSUME NEW n \in BatchNumbers, n < CurrentId PROVE Whole(n)'
    BY <1>1, <1>3 DEF CommittedAccounted, BatchNumbers
  <2>1. Whole(n)
    BY <1>3 DEF CommittedAccounted
  <2>2. CurrentId \in Nat /\ n # CurrentId
    BY <1>3, Ranges
  <2>3. BatchOf(n) \in Batch \ {Current}
    BY <1>3, <2>2, Ranges
  <2> QED BY <1>2, <2>1, <2>3, WholeKept
<1> QED BY <1>4, <1>5, <1>6, <1>7

(* While a batch is written, what is due in it stays the same. *)
LEMMA DueKept ==
    ASSUME UNCHANGED <<log, catalog, offsets>>
    PROVE  /\ CurrentId' = CurrentId /\ Current' = Current
           /\ ValidRows(CurrentId, catalog)' = ValidRows(CurrentId, catalog)
           /\ QuarantinedRows(CurrentId, catalog)' = QuarantinedRows(CurrentId, catalog)
           /\ BuildManifest(CurrentId, catalog)' = BuildManifest(CurrentId, catalog)
<1>1. CurrentId' = CurrentId /\ Current' = Current
  BY DEF CurrentId, Current
<1>2. BatchRange(CurrentId)' = BatchRange(CurrentId)
  BY <1>1 DEF BatchRange
<1>3. ValidRows(CurrentId, catalog)' = ValidRows(CurrentId, catalog)
  BY <1>1, <1>2 DEF ValidRows
<1>4. QuarantinedRows(CurrentId, catalog)' = QuarantinedRows(CurrentId, catalog)
  BY <1>1, <1>2 DEF QuarantinedRows
<1>5. BuildManifest(CurrentId, catalog)' = BuildManifest(CurrentId, catalog)
  BY <1>1, <1>2, <1>3, <1>4 DEF BuildManifest
<1> QED BY <1>1, <1>3, <1>4, <1>5

WriteStep ==
    \/ ClearValid \/ FillValid \/ ClearQuarantine \/ FillQuarantine
    \/ ClearManifest \/ FillManifest \/ MarkManifest

(* A write leaves the other batches alone, and its types and stages are kept. *)
LEMMA WriteTouchesOne ==
    ASSUME LandingInv, WriteStep
    PROVE  /\ pc \in Writing /\ pc' \in Writing
           /\ UNCHANGED <<log, registry, catalog, offsets, commits, crashes>>
           /\ CurrentId \in BatchNumbers /\ Current \in Batch
           /\ BatchRange(CurrentId) \subseteq Rows
           /\ \A b \in Batch \ {Current} :
                  /\ valid'[b] = valid[b] /\ quarantine'[b] = quarantine[b]
                  /\ manifest'[b] = manifest[b] /\ marker'[b] = marker[b]
<1> USE DEF LandingInv
<1>1. /\ pc \in Writing /\ pc' \in Writing
      /\ UNCHANGED <<log, registry, catalog, offsets, commits, crashes>>
  BY DEF WriteStep, ClearValid, FillValid, ClearQuarantine, FillQuarantine, ClearManifest,
         FillManifest, MarkManifest, Writing, kafkaVars
<1>2. CurrentId \in BatchNumbers /\ Current \in Batch
  BY <1>1, CurrentPlanned
<1>3. BatchRange(CurrentId) \subseteq Rows
  BY <1>2, Ranges
<1>4. \A b \in Batch \ {Current} :
          /\ valid'[b] = valid[b] /\ quarantine'[b] = quarantine[b]
          /\ manifest'[b] = manifest[b] /\ marker'[b] = marker[b]
  BY DEF WriteStep, ClearValid, FillValid, ClearQuarantine, FillQuarantine, ClearManifest,
         FillManifest, MarkManifest, TypeOK
<1> QED BY <1>1, <1>2, <1>3, <1>4

LEMMA InvWrite == ASSUME LandingInv, WriteStep PROVE LandingInv'
<1> USE DEF LandingInv
<1>1. /\ pc \in Writing /\ pc' \in Writing
      /\ UNCHANGED <<log, registry, catalog, offsets, commits, crashes>>
      /\ CurrentId \in BatchNumbers /\ Current \in Batch
      /\ BatchRange(CurrentId) \subseteq Rows
      /\ \A b \in Batch \ {Current} :
             /\ valid'[b] = valid[b] /\ quarantine'[b] = quarantine[b]
             /\ manifest'[b] = manifest[b] /\ marker'[b] = marker[b]
  BY WriteTouchesOne
<1>2. /\ CurrentId' = CurrentId /\ Current' = Current
      /\ ValidRows(CurrentId, catalog)' = ValidRows(CurrentId, catalog)
      /\ QuarantinedRows(CurrentId, catalog)' = QuarantinedRows(CurrentId, catalog)
      /\ BuildManifest(CurrentId, catalog)' = BuildManifest(CurrentId, catalog)
  BY <1>1, DueKept
<1>3. /\ valid[Current] \subseteq BatchRange(CurrentId)
      /\ quarantine[Current] \subseteq BatchRange(CurrentId)
  <2>1. Current[1] = Pipeline /\ Current[2] = CurrentId /\ CurrentId < Len(offsets)
    BY <1>1, CurrentPlanned, Ranges
  <2> QED BY <1>1, <2>1 DEF InOwnRange
<1>4. /\ ValidRows(CurrentId, catalog) \subseteq BatchRange(CurrentId)
      /\ QuarantinedRows(CurrentId, catalog) \subseteq BatchRange(CurrentId)
      /\ BuildManifest(CurrentId, catalog) \in Manifest
  BY <1>1, RoutedOnce, ManifestReconciles
<1>5. /\ valid \in [Batch -> SUBSET Rows] /\ quarantine \in [Batch -> SUBSET Rows]
      /\ manifest \in [Batch -> Manifest] /\ marker \in [Batch -> BOOLEAN]
  BY DEF TypeOK
<1> DEFINE due == ValidRows(CurrentId, catalog)
<1>6. SUFFICES
        /\ valid' \in [Batch -> SUBSET Rows] /\ quarantine' \in [Batch -> SUBSET Rows]
        /\ manifest' \in [Batch -> Manifest] /\ marker' \in [Batch -> BOOLEAN]
        /\ valid'[Current] \subseteq BatchRange(CurrentId)
        /\ quarantine'[Current] \subseteq BatchRange(CurrentId)
        /\ WrittenSoFar'
  BY <1>1, WriteKeeps DEF kafkaVars
<1>7. CASE ClearValid
  <2>1. /\ pc' = "fill_valid" /\ valid' = [valid EXCEPT ![Current] = {}]
        /\ UNCHANGED <<quarantine, manifest, marker>>
    BY <1>7 DEF ClearValid
  <2>2. valid'[Current] = {} /\ valid' \in [Batch -> SUBSET Rows]
    BY <1>1, <1>5, <2>1
  <2>3. WrittenSoFar'
    BY <1>2, <2>1, <2>2 DEF WrittenSoFar, AfterValid, AfterQuarantine, AfterManifest
  <2> QED BY <1>3, <1>5, <2>1, <2>2, <2>3
<1>8. CASE FillValid
  <2>1. PICK files \in SUBSET (due \ valid[Current]) :
            valid' = [valid EXCEPT ![Current] = valid[Current] \cup files]
    BY <1>8 DEF FillValid
  <2>2. /\ pc = "fill_valid" /\ UNCHANGED <<quarantine, manifest, marker>>
        /\ pc' = IF valid'[Current] = due THEN "clear_quarantine" ELSE pc
    BY <1>8 DEF FillValid
  <2>3. valid'[Current] = valid[Current] \cup files
    BY <1>1, <1>5, <2>1
  <2>4. valid'[Current] \subseteq due
    BY <2>2, <2>3 DEF WrittenSoFar
  <2>5. valid' \in [Batch -> SUBSET Rows]
    BY <1>1, <1>4, <1>5, <2>1
  <2>6. WrittenSoFar'
    BY <1>2, <2>2, <2>4 DEF WrittenSoFar, AfterValid, AfterQuarantine, AfterManifest
  <2> QED BY <1>3, <1>4, <1>5, <2>2, <2>4, <2>5, <2>6
<1>9. CASE ClearQuarantine
  <2>1. /\ pc = "clear_quarantine" /\ pc' = "fill_quarantine"
        /\ quarantine' = [quarantine EXCEPT ![Current] = {}]
        /\ UNCHANGED <<valid, manifest, marker>>
    BY <1>9 DEF ClearQuarantine
  <2>2. quarantine'[Current] = {} /\ quarantine' \in [Batch -> SUBSET Rows]
    BY <1>1, <1>5, <2>1
  <2>3. WrittenSoFar'
    BY <1>2, <2>1 DEF WrittenSoFar, AfterValid, AfterQuarantine, AfterManifest
  <2> QED BY <1>3, <1>5, <2>1, <2>2, <2>3
<1>10. CASE FillQuarantine
  <2>1. /\ pc = "fill_quarantine" /\ pc' = "clear_manifest"
        /\ quarantine' = [quarantine EXCEPT ![Current] = QuarantinedRows(CurrentId, catalog)]
        /\ UNCHANGED <<valid, manifest, marker>>
    BY <1>10 DEF FillQuarantine
  <2>2. /\ quarantine'[Current] = QuarantinedRows(CurrentId, catalog)
        /\ quarantine' \in [Batch -> SUBSET Rows]
    BY <1>1, <1>4, <1>5, <2>1
  <2>3. WrittenSoFar'
    BY <1>2, <2>1, <2>2 DEF WrittenSoFar, AfterValid, AfterQuarantine, AfterManifest
  <2> QED BY <1>3, <1>4, <1>5, <2>1, <2>2, <2>3
<1>11. CASE ClearManifest
  <2>1. /\ pc = "clear_manifest" /\ pc' = "fill_manifest"
        /\ manifest' = [manifest EXCEPT ![Current] = {}]
        /\ marker' = [marker EXCEPT ![Current] = FALSE]
        /\ UNCHANGED <<valid, quarantine>>
    BY <1>11 DEF ClearManifest
  <2>2. manifest' \in [Batch -> Manifest] /\ marker' \in [Batch -> BOOLEAN]
    BY <1>5, <2>1 DEF Manifest
  <2>3. WrittenSoFar'
    BY <1>2, <2>1 DEF WrittenSoFar, AfterValid, AfterQuarantine, AfterManifest
  <2> QED BY <1>3, <1>5, <2>1, <2>2, <2>3
<1>12. CASE FillManifest
  <2>1. /\ pc = "fill_manifest" /\ pc' = "mark_manifest"
        /\ manifest' = [manifest EXCEPT ![Current] = BuildManifest(CurrentId, catalog)]
        /\ UNCHANGED <<valid, quarantine, marker>>
    BY <1>12 DEF FillManifest
  <2>2. /\ manifest'[Current] = BuildManifest(CurrentId, catalog)
        /\ manifest' \in [Batch -> Manifest]
    BY <1>1, <1>4, <1>5, <2>1
  <2>3. WrittenSoFar'
    BY <1>2, <2>1, <2>2 DEF WrittenSoFar, AfterValid, AfterQuarantine, AfterManifest
  <2> QED BY <1>3, <1>5, <2>1, <2>2, <2>3
<1>13. CASE MarkManifest
  <2>1. /\ pc = "mark_manifest" /\ pc' = "commit"
        /\ marker' = [marker EXCEPT ![Current] = TRUE]
        /\ UNCHANGED <<valid, quarantine, manifest>>
    BY <1>13 DEF MarkManifest
  <2>2. marker'[Current] /\ marker' \in [Batch -> BOOLEAN]
    BY <1>1, <1>5, <2>1
  <2>3. WrittenSoFar'
    BY <1>2, <2>1, <2>2 DEF WrittenSoFar, AfterValid, AfterQuarantine, AfterManifest
  <2> QED BY <1>3, <1>5, <2>1, <2>2, <2>3
<1> QED BY <1>7, <1>8, <1>9, <1>10, <1>11, <1>12, <1>13 DEF WriteStep

(* A batch whose writes are over is whole. *)
LEMMA WrittenIsWhole ==
    ASSUME LandingInv, pc \in AfterManifest
    PROVE  /\ CurrentId \in BatchNumbers
           /\ valid[Current] \cup quarantine[Current] = BatchRange(CurrentId)
           /\ valid[Current] \cap quarantine[Current] = {}
           /\ Reconciles(Current, valid[Current], manifest[Current])
           /\ Cardinality(valid[Current]) = Total(manifest[Current], "valid")
           /\ Cardinality(quarantine[Current]) = Total(manifest[Current], "quarantine")
<1>1. CurrentId \in BatchNumbers
  BY CurrentPlanned DEF LandingInv, AfterManifest, Writing
<1>2. /\ valid[Current] = ValidRows(CurrentId, catalog)
      /\ quarantine[Current] = QuarantinedRows(CurrentId, catalog)
      /\ manifest[Current] = BuildManifest(CurrentId, catalog)
  BY DEF LandingInv, WrittenSoFar, AfterManifest, AfterQuarantine, AfterValid
<1>3. /\ Reconciles(Current, valid[Current], manifest[Current])
      /\ Cardinality(valid[Current]) = Total(manifest[Current], "valid")
      /\ Cardinality(quarantine[Current]) = Total(manifest[Current], "quarantine")
  BY <1>1, <1>2, ManifestReconciles DEF LandingInv, Current
<1> QED BY <1>1, <1>2, <1>3, RoutedOnce

LEMMA InvCommitBatch == ASSUME LandingInv, CommitBatch PROVE LandingInv'
<1> USE DEF LandingInv
<1>1. /\ pc = "commit" /\ pc' = "idle" /\ commits' = commits + 1
      /\ log' = log /\ registry' = registry /\ catalog' = catalog /\ offsets' = offsets
      /\ valid' = valid /\ quarantine' = quarantine
      /\ manifest' = manifest /\ marker' = marker /\ crashes' = crashes
  BY DEF CommitBatch, kafkaVars, outputVars
<1>2. /\ CurrentId \in BatchNumbers /\ CurrentId \in Nat
      /\ Len(offsets) = CurrentId + 1 /\ commits = CurrentId
  BY <1>1, CurrentPlanned, Ranges DEF Writing
<1>3. TypeOK' /\ Stage' /\ EndsGrow' /\ InOwnRange' /\ WrittenSoFar'
  <2>1. TypeOK'
    BY <1>1, <1>2 DEF TypeOK
  <2>2. Stage' /\ EndsGrow'
    BY <1>1, <1>2 DEF Stage, EndsGrow, Writing
  <2>3. InOwnRange'
    BY <1>1 DEF InOwnRange, BatchRange
  <2> QED
    BY <1>1, <2>1, <2>2, <2>3 DEF WrittenSoFar, AfterValid, AfterQuarantine, AfterManifest
<1>4. CommittedAccounted'
  <2> SUFFICES ASSUME NEW n \in BatchNumbers, n < CurrentId + 1 PROVE Whole(n)
    BY <1>1, <1>2 DEF CommittedAccounted, BatchNumbers, Whole, BatchRange
  <2>1. CASE n = CurrentId
    <3>1. marker[Current]
      BY <1>1 DEF WrittenSoFar
    <3> QED BY <1>1, <2>1, <3>1, WrittenIsWhole DEF AfterManifest, Whole, Current
  <2>2. CASE n # CurrentId
    <3>1. n < commits
      BY <1>2, <2>2, Ranges
    <3> QED BY <3>1 DEF CommittedAccounted
  <2> QED BY <2>1, <2>2
<1> QED BY <1>3, <1>4

LEMMA LandingInvNext == ASSUME LandingInv, [Next]_vars PROVE LandingInv'
<1>1. CASE UNCHANGED vars
  <2>1. LogGrows
    BY <1>1 DEF LogGrows, vars, kafkaVars, LandingInv, TypeOK
  <2>2. InOwnRange' /\ CommittedAccounted' /\ WrittenSoFar'
    BY <1>1, <2>1, OutputsKept, StageKept DEF vars, sparkVars
  <2>3. TypeOK' /\ Stage' /\ EndsGrow'
    BY <1>1 DEF vars, kafkaVars, sparkVars, outputVars, LandingInv, TypeOK, Stage, EndsGrow
  <2> QED BY <2>2, <2>3 DEF LandingInv
<1>2. CASE StartQuery \/ StopQuery
  BY <1>2, InvStartStop
<1>3. CASE PlanBatch
  BY <1>3, InvPlanBatch
<1>4. CASE WriteStep
  BY <1>4, InvWrite
<1>5. CASE CommitBatch
  BY <1>5, InvCommitBatch
<1>6. CASE Producers
  BY <1>6, InvProduce, InvRegisterSchema DEF Producers
<1> QED
  BY <1>1, <1>2, <1>3, <1>4, <1>5, <1>6 DEF Next, Query, QueryStep, WriteStep

(* The inductive invariant holds throughout. *)
THEOREM LandingInvAlways == Spec => []LandingInv
  BY LandingInvInit, LandingInvNext, PTL DEF Spec

-----------------------------------------------------------------------------
(* Types, the checkpoint at most one batch ahead of its commits, and planned
   ranges that follow each other. *)
THEOREM LandingTypes == Spec => []TypeOK
  BY LandingInvAlways, PTL DEF LandingInv

(* No message of a batch that the checkpoint calls done is lost or counted
   twice, for every routing, catalog and crash. *)
THEOREM LandingAccounts == Spec => []CommittedAccounted
  BY LandingInvAlways, PTL DEF LandingInv

LEMMA BatchParts ==
    ASSUME NEW b \in Batch PROVE b[2] \in Nat /\ b = <<b[1], b[2]>>
<1>1. b[2] \in Nat
  BY BatchIdsAssumption DEF Batch
<1>2. b = <<b[1], b[2]>>
  BY DEF Batch
<1> QED BY <1>1, <1>2

LEMMA OnceInInv == ASSUME LandingInv PROVE OffsetsOnce
<1> SUFFICES ASSUME NEW a \in Batch, NEW b \in Batch, a # b
             PROVE  (valid[a] \cup quarantine[a]) \cap (valid[b] \cup quarantine[b]) = {}
  BY DEF OffsetsOnce
<1>1. InOwnRange /\ TypeOK /\ EndsGrow /\ Len(offsets) \in Nat
  BY DEF LandingInv, TypeOK
<1>2. a[2] \in Nat /\ b[2] \in Nat /\ a = <<a[1], a[2]>> /\ b = <<b[1], b[2]>>
  BY BatchParts
<1> DEFINE planned(c) == c[1] = Pipeline /\ c[2] < Len(offsets)
<1>3. CASE planned(a) /\ planned(b)
  <2>1. a[2] \in BatchNumbers /\ b[2] \in BatchNumbers
    BY <1>1, <1>2, <1>3 DEF BatchNumbers
  <2>2. a[2] < b[2] \/ b[2] < a[2]
    BY <1>2, <1>3
  <2>3. BatchRange(a[2]) \cap BatchRange(b[2]) = {}
    BY <1>1, <2>1, <2>2, RangesDisjoint
  <2> QED BY <1>1, <1>3, <2>3 DEF InOwnRange
<1>4. CASE ~(planned(a) /\ planned(b))
  BY <1>1, <1>4 DEF InOwnRange
<1> QED BY <1>3, <1>4

(* Whatever is replayed, a Kafka coordinate is in the directories of one batch. *)
THEOREM LandingOnce == Spec => []OffsetsOnce
  BY LandingInvAlways, OnceInInv, PTL

LEMMA MarkerOnWhole ==
    ASSUME LandingInv, [Next]_vars, NEW n \in BatchNumbers,
           ~marker[BatchOf(n)], marker'[BatchOf(n)]
    PROVE  Whole(n)'
<1>1. MarkManifest
  <2>1. marker' = marker \/ ClearManifest \/ MarkManifest
    BY DEF Next, Query, Producers, QueryStep, StartQuery, PlanBatch, ClearValid, FillValid,
        ClearQuarantine, FillQuarantine, FillManifest, CommitBatch, StopQuery, RegisterSchema,
        Produce, vars, outputVars
  <2>2. ASSUME ClearManifest PROVE FALSE
    <3>1. BatchOf(n) \in Batch /\ marker \in [Batch -> BOOLEAN]
      BY Ranges DEF LandingInv, TypeOK
    <3>2. marker' = [marker EXCEPT ![Current] = FALSE]
      BY <2>2 DEF ClearManifest
    <3> QED BY <3>1, <3>2
  <2> QED BY <2>1, <2>2
<1>2. /\ pc = "mark_manifest" /\ marker' = [marker EXCEPT ![Current] = TRUE]
      /\ UNCHANGED <<log, offsets, valid, quarantine, manifest>>
  BY <1>1 DEF MarkManifest, kafkaVars
<1>3. BatchOf(n) = Current
  <2>1. BatchOf(n) \in Batch /\ marker \in [Batch -> BOOLEAN]
    BY Ranges DEF LandingInv, TypeOK
  <2> QED BY <1>2, <2>1
<1>4. n = CurrentId
  BY <1>3 DEF BatchOf, Current
<1> QED BY <1>2, <1>3, <1>4, WrittenIsWhole DEF AfterManifest, Whole, BatchRange

(* The completion marker comes last: it appears on a batch whose rows and counts
   are all there. *)
THEOREM LandingMarksLast == Spec => MarkerLast
<1> DEFINE Last ==
        \A n \in BatchNumbers : ~marker[BatchOf(n)] /\ marker'[BatchOf(n)] => Whole(n)'
<1>1. LandingInv /\ [Next]_vars => [Last]_vars
  BY MarkerOnWhole
<1> QED BY <1>1, LandingInvAlways, PTL DEF Spec, MarkerLast
=============================================================================
