----------------------------- MODULE MartsProofs -----------------------------
(***************************************************************************)
(* Theorems about Marts, for every set of keys, batches and rows, and any  *)
(* number of overlapping builds: type correctness, that the training mart  *)
(* has nothing but committed versions, and that a row of it never changes  *)
(* its content while it stays eligible.                                    *)
(*                                                                         *)
(* The argument: a value that some table shows without a conflict, be it   *)
(* one a build has queried and not yet put in its place, is settled. It is *)
(* a committed version of its key, and no table shows another one. A later *)
(* query cannot find another one without a conflict, since versions do not *)
(* go away.                                                                *)
(***************************************************************************)
EXTENDS Marts, FiniteSetTheorems, WellFoundedInduction, TLAPS

-----------------------------------------------------------------------------
(* The canonical row *)

LEMMA SmallestNat ==
    ASSUME NEW S, S \subseteq Nat, S # {}
    PROVE  \E n \in S : \A m \in S : n <= m
<1>1. PICK n \in S : \A m \in S : <<m, n>> \notin OpToRel(<, Nat)
  BY WFMin, NatLessThanWellFounded
<1>2. ASSUME NEW m \in S PROVE n <= m
  <2>1. ~(m < n)
    BY <1>1 DEF OpToRel
  <2> QED BY <2>1
<1> QED BY <1>2

LEMMA RowOfBatch ==
    ASSUME committed \subseteq Batch, NEW pipeline, NEW k, NEW q \in RowsOf(pipeline, k)
    PROVE  /\ q = <<q[1], q[2]>> /\ q[1] \in Nat /\ q[2].offset \in Nat
           /\ q[2].key = k /\ k \in Keys
           /\ <<pipeline, q[1]>> \in Batch /\ q[2] \in Landed[<<pipeline, q[1]>>]
<1>1. PICK b \in committed : b[1] = pipeline /\ \E r \in Landed[b] : q = <<b[2], r>>
  BY DEF RowsOf, CommittedRows, RowsWithBatch
<1>2. PICK r \in Landed[b] : q = <<b[2], r>>
  BY <1>1
<1>3. b \in Batch /\ b = <<pipeline, b[2]>> /\ b[2] \in Nat
  BY <1>1, MartsAssumption
<1>4. q[1] = b[2] /\ q[2] = r
  BY <1>2
<1>5. r.offset \in Nat /\ r.key \in Keys /\ q[2].key = k
  BY <1>3, <1>4, MartsAssumption DEF RowsOf
<1> QED BY <1>2, <1>3, <1>4, <1>5

(* There is one row before all others: canonical_rank = 1 is one of the committed
   rows of the key. *)
LEMMA CanonicalRow ==
    ASSUME committed \subseteq Batch, NEW pipeline, NEW k, RowsOf(pipeline, k) # {}
    PROVE  Canonical(RowsOf(pipeline, k)) \in RowsOf(pipeline, k)
<1> DEFINE S == RowsOf(pipeline, k)
           offsets == {q[2].offset : q \in S}
<1>0. \A q \in S : q[1] \in Nat /\ q[2].offset \in Nat
  BY RowOfBatch
<1>1. PICK o \in offsets : \A m \in offsets : o <= m
  <2>1. offsets \subseteq Nat /\ offsets # {}
    BY <1>0
  <2> QED BY <2>1, SmallestNat
<1> DEFINE T == {q \in S : q[2].offset = o}
           ids == {q[1] : q \in T}
<1>2. PICK n \in ids : \A m \in ids : n <= m
  <2>1. ids \subseteq Nat /\ ids # {}
    BY <1>0, <1>1
  <2> QED BY <2>1, SmallestNat
<1>3. PICK p \in T : p[1] = n
  BY <1>2
<1>4. ASSUME NEW q \in S \ {p} PROVE Before(p, q)
  <2>1. q[2].offset \in Nat /\ p[2].offset = o /\ o \in Nat /\ o <= q[2].offset
    BY <1>0, <1>1, <1>3
  <2>2. ASSUME q[2].offset = o PROVE p[1] < q[1]
    <3>1. q[1] \in Nat /\ p[1] \in Nat /\ p[1] <= q[1]
      BY <1>0, <1>2, <1>3, <2>2
    <3>2. ASSUME p[1] = q[1] PROVE FALSE
      <4> DEFINE b == <<pipeline, p[1]>>
      <4>1. /\ p = <<p[1], p[2]>> /\ q = <<q[1], q[2]>>
            /\ b \in Batch /\ p[2] \in Landed[b] /\ q[2] \in Landed[b]
        BY <1>3, <3>2, RowOfBatch
      <4>2. p[2] = q[2]
        BY <2>1, <2>2, <4>1, MartsAssumption
      <4> QED BY <3>2, <4>1, <4>2
    <3> QED BY <3>1, <3>2
  <2> QED BY <2>1, <2>2 DEF Before
<1>5. \E p_1 \in S : \A q \in S \ {p_1} : Before(p_1, q)
  BY <1>3, <1>4
<1> QED BY <1>5 DEF Canonical

-----------------------------------------------------------------------------
(* What a step does to the tables there are *)

Fields == {"running", "alone", "done", "hand"}

(* The part of TypeOK that does not look into a table, and the nodes in hand. *)
Shape ==
    /\ committed \subseteq Batch
    /\ DOMAIN tables = Models
    /\ DOMAIN build = Builders
    /\ \A w \in Builders :
          /\ DOMAIN build[w] = Fields
          /\ build[w].done \subseteq Nodes
          /\ DOMAIN build[w].hand \subseteq (Models \cap Nodes) \ build[w].done
          /\ ~build[w].running => build[w] = Idle
    /\ failures \in 0..MaxFailures

(* Every table readers see was there or in the hand of a build; what is in a hand was
   there or is the answer of a query; versions do not go away. *)
Inherited ==
    /\ committed \subseteq committed'
    /\ \A m \in Models :
          \/ tables'[m] = tables[m]
          \/ \E w \in Builders : m \in DOMAIN build[w].hand /\ tables'[m] = build[w].hand[m]
    /\ \A w \in Builders : \A m \in DOMAIN build'[w].hand :
          \/ m \in DOMAIN build[w].hand /\ build'[w].hand[m] = build[w].hand[m]
          \/ build'[w].hand[m] = Query(m)

LEMMA IdleShape ==
    /\ DOMAIN Idle = Fields
    /\ Idle.running = FALSE /\ Idle.alone = FALSE /\ Idle.done = {} /\ DOMAIN Idle.hand = {}
  BY DEF Idle, Empty, Fields

LEMMA IdleNotAlone == [Idle EXCEPT !.alone = FALSE] = Idle
<1>1. [Idle EXCEPT !.alone = FALSE] =
          [f \in DOMAIN Idle |-> IF f = "alone" THEN FALSE ELSE Idle[f]]
  OBVIOUS
<1>2. Idle = [f \in Fields |-> Idle[f]]
  BY DEF Idle, Fields
<1>3. \A f \in Fields : Idle[f] = IF f = "alone" THEN FALSE ELSE Idle[f]
  BY IdleShape
<1> QED BY <1>1, <1>2, <1>3, IdleShape

LEMMA ShapeInit == Init => Shape
  BY IdleShape, MartsAssumption DEF Init, Shape

LEMMA CommitStep ==
    ASSUME Shape, NEW b \in Batch, Commit(b) PROVE Shape' /\ Inherited
  BY DEF Shape, Inherited, Commit

LEMMA StartStep ==
    ASSUME Shape, NEW w \in Builders, Start(w) PROVE Shape' /\ Inherited
<1>1. DOMAIN build' = Builders
  BY DEF Start
<1>2. ASSUME NEW v \in Builders
      PROVE  /\ DOMAIN build'[v] = Fields
             /\ build'[v].done = build[v].done \/ build'[v].done = {}
             /\ build'[v].hand = build[v].hand \/ DOMAIN build'[v].hand = {}
             /\ build'[v].done \subseteq Nodes
             /\ DOMAIN build'[v].hand \subseteq (Models \cap Nodes) \ build'[v].done
             /\ ~build'[v].running => build'[v] = Idle
  <2>1. CASE v = w
    <3>1. build'[v] = [Idle EXCEPT !.running = TRUE,
                                   !.alone = \A u \in Builders : ~build[u].running]
      BY <2>1 DEF Start
    <3>2. /\ DOMAIN build'[v] = Fields /\ build'[v].running = TRUE
          /\ build'[v].done = {} /\ DOMAIN build'[v].hand = {}
      BY <3>1, IdleShape DEF Fields
    <3> QED BY <3>2
  <2>2. CASE v # w
    <3>1. build'[v] = [build[v] EXCEPT !.alone = FALSE]
      BY <2>2 DEF Start
    <3>2. /\ DOMAIN build'[v] = Fields /\ build'[v].running = build[v].running
          /\ build'[v].done = build[v].done /\ build'[v].hand = build[v].hand
      BY <3>1 DEF Shape, Fields
    <3>3. ASSUME ~build[v].running PROVE build'[v] = Idle
      <4>1. build[v] = Idle
        BY <3>3 DEF Shape
      <4> QED BY <3>1, <4>1, IdleNotAlone
    <3> QED BY <3>2, <3>3 DEF Shape
  <2> QED BY <2>1, <2>2
<1>3. Shape'
  BY <1>1, <1>2 DEF Shape, Start
<1>4. Inherited
  BY <1>2 DEF Inherited, Start
<1> QED BY <1>3, <1>4

LEMMA QueryStep ==
    ASSUME Shape, NEW w \in Builders, NEW model \in Models, QueryModel(w, model)
    PROVE  Shape' /\ Inherited
<1> DEFINE hand == [m \in DOMAIN build[w].hand \cup {model} |->
                        IF m = model THEN Query(model) ELSE build[w].hand[m]]
<1>1. /\ build' = [build EXCEPT ![w].hand = hand]
      /\ model \in Nodes \ build[w].done /\ build[w].running
      /\ UNCHANGED <<committed, tables, failures>>
  BY DEF QueryModel, Ready
<1>2. /\ DOMAIN build' = Builders
      /\ \A v \in Builders \ {w} : build'[v] = build[v]
      /\ build'[w] = [build[w] EXCEPT !.hand = hand]
  BY <1>1 DEF Shape
<1>3. /\ DOMAIN build'[w] = Fields /\ build'[w].running = build[w].running
      /\ build'[w].done = build[w].done /\ build'[w].hand = hand
  BY <1>2 DEF Shape, Fields
<1>4. Shape'
  BY <1>1, <1>2, <1>3 DEF Shape
<1>5. Inherited
  BY <1>1, <1>2, <1>3 DEF Inherited
<1> QED BY <1>4, <1>5

LEMMA ExchangeStep ==
    ASSUME Shape, NEW w \in Builders, NEW model \in Models, Exchange(w, model)
    PROVE  Shape' /\ Inherited
<1> DEFINE hand == [m \in DOMAIN build[w].hand \ {model} |-> build[w].hand[m]]
           done == build[w].done \cup {model}
<1>1. /\ model \in DOMAIN build[w].hand
      /\ tables' = [tables EXCEPT ![model] = build[w].hand[model]]
      /\ build' = [build EXCEPT ![w].done = done, ![w].hand = hand]
      /\ UNCHANGED <<committed, failures>>
  BY DEF Exchange
<1>2. /\ DOMAIN build' = Builders
      /\ \A v \in Builders \ {w} : build'[v] = build[v]
      /\ build'[w] = [build[w] EXCEPT !.done = done, !.hand = hand]
  BY <1>1 DEF Shape
<1>3. /\ DOMAIN build'[w] = Fields /\ build'[w].running = build[w].running
      /\ build'[w].done = done /\ build'[w].hand = hand
  BY <1>2 DEF Shape, Fields
<1>4. build[w].running /\ model \in Nodes
  BY <1>1, IdleShape DEF Shape
<1>5. Shape'
  BY <1>1, <1>2, <1>3, <1>4 DEF Shape
<1>6. Inherited
  BY <1>1, <1>2, <1>3 DEF Inherited, Shape
<1> QED BY <1>5, <1>6

LEMMA IdleStep ==
    ASSUME Shape, NEW w \in Builders, build' = [build EXCEPT ![w] = Idle],
           UNCHANGED <<committed, tables>>, failures' \in 0..MaxFailures
    PROVE  Shape' /\ Inherited
  BY IdleShape DEF Shape, Inherited

LEMMA TestStep ==
    ASSUME Shape, NEW w \in Builders, NEW test \in Tests, RunTest(w, test)
    PROVE  Shape' /\ Inherited
<1> USE DEF RunTest
<1>1. CASE ~Passes(test)
  <2>1. failures' \in 0..MaxFailures
    BY DEF Shape
  <2> QED BY <1>1, <2>1, IdleStep
<1>2. CASE Passes(test)
  <2> DEFINE done == build[w].done \cup {test}
  <2>1. /\ build' = [build EXCEPT ![w].done = done]
        /\ test \in Nodes \ build[w].done /\ build[w].running
        /\ UNCHANGED <<committed, tables, failures>>
    BY <1>2 DEF Ready
  <2>2. /\ DOMAIN build' = Builders
        /\ \A v \in Builders \ {w} : build'[v] = build[v]
        /\ build'[w] = [build[w] EXCEPT !.done = done]
    BY <2>1 DEF Shape
  <2>3. /\ DOMAIN build'[w] = Fields /\ build'[w].running = build[w].running
        /\ build'[w].done = done /\ build'[w].hand = build[w].hand
    BY <2>2 DEF Shape, Fields
  <2>4. test \notin Models
    BY DEF Tests, Models
  <2>5. Shape'
    BY <2>1, <2>2, <2>3, <2>4 DEF Shape
  <2>6. Inherited
    BY <2>1, <2>2, <2>3 DEF Inherited
  <2> QED BY <2>5, <2>6
<1> QED BY <1>1, <1>2

LEMMA NextStep == ASSUME Shape, Next PROVE Shape' /\ Inherited
<1>1. CASE \E b \in Batch : Commit(b)
  BY <1>1, CommitStep
<1>2. ASSUME NEW w \in Builders, Start(w) PROVE Shape' /\ Inherited
  BY <1>2, StartStep
<1>3. ASSUME NEW w \in Builders, Work(w) PROVE Shape' /\ Inherited
  <2>1. ASSUME NEW model \in Models, QueryModel(w, model) PROVE Shape' /\ Inherited
    BY <2>1, QueryStep
  <2>2. ASSUME NEW model \in Models, Exchange(w, model) PROVE Shape' /\ Inherited
    BY <2>2, ExchangeStep
  <2>3. ASSUME NEW test \in Tests, RunTest(w, test) PROVE Shape' /\ Inherited
    BY <2>3, TestStep
  <2>4. CASE Finish(w)
    <3>1. failures' \in 0..MaxFailures
      BY <2>4 DEF Finish, Shape
    <3> QED BY <2>4, <3>1, IdleStep DEF Finish
  <2> QED BY <1>3, <2>1, <2>2, <2>3, <2>4 DEF Work
<1>4. ASSUME NEW w \in Builders, Fail(w) PROVE Shape' /\ Inherited
  <2>1. failures' \in 0..MaxFailures
    BY <1>4, MartsAssumption DEF Fail, Shape
  <2> QED BY <1>4, <2>1, IdleStep DEF Fail
<1> QED BY <1>1, <1>2, <1>3, <1>4 DEF Next

LEMMA StutterStep == ASSUME Shape, UNCHANGED vars PROVE Shape' /\ Inherited
  BY DEF Shape, Inherited, vars

-----------------------------------------------------------------------------
(* Versions *)

(* The keys of the rows there are. *)
Known == {r.key : r \in Row}

LEMMA FiniteKnown == IsFiniteSet(Known) /\ Known \subseteq Keys
<1> DEFINE f == [r \in Row |-> r.key]
<1>1. f \in Surjection(Row, Known)
  BY DEF Surjection, Known
<1>2. IsFiniteSet(Known)
  BY <1>1, FS_Surjection, MartsAssumption
<1>3. Known \subseteq Keys
  BY MartsAssumption DEF Known, Row
<1> QED BY <1>2, <1>3

LEMMA RowIsKnown ==
    ASSUME committed \subseteq Batch, NEW pipeline, NEW k, NEW q \in RowsOf(pipeline, k)
    PROVE  q[2] \in Row /\ k \in Known /\ q[2].payload # NoLabel
<1>1. <<pipeline, q[1]>> \in Batch /\ q[2] \in Landed[<<pipeline, q[1]>>] /\ q[2].key = k
  BY RowOfBatch
<1>2. q[2] \in Row
  BY <1>1 DEF Row
<1>3. q[2].payload \in Payload
  BY <1>2 DEF Payload
<1> QED BY <1>1, <1>2, <1>3, MartsAssumption DEF Known

LEMMA FiniteVersions ==
    ASSUME committed \subseteq Batch, NEW pipeline, NEW k
    PROVE  IsFiniteSet(Versions(pipeline, k))
<1> DEFINE f == [r \in Row |-> r.payload]
<1>1. f \in Surjection(Row, Payload)
  BY DEF Surjection, Payload
<1>2. IsFiniteSet(Payload)
  BY <1>1, FS_Surjection, MartsAssumption
<1>3. Versions(pipeline, k) \subseteq Payload
  BY RowIsKnown DEF Versions, Payload
<1> QED BY <1>2, <1>3, FS_Subset

(* payload_version_count is at most one. *)
LEMMA OneVersion ==
    ASSUME committed \subseteq Batch, NEW pipeline, NEW k, ~Conflict(pipeline, k),
           NEW x \in Versions(pipeline, k), NEW y \in Versions(pipeline, k)
    PROVE  x = y
<1> SUFFICES ASSUME x # y PROVE FALSE
  OBVIOUS
<1>1. IsFiniteSet({x}) /\ Cardinality({x}) = 1
  BY FS_Singleton
<1>2. IsFiniteSet({x} \cup {y}) /\ Cardinality({x} \cup {y}) = 2
  BY <1>1, FS_AddElement
<1>3. {x} \cup {y} \in SUBSET Versions(pipeline, k)
  OBVIOUS
<1>4. Cardinality({x} \cup {y}) <= Cardinality(Versions(pipeline, k))
  BY <1>3, FiniteVersions, FS_Subset
<1>5. Cardinality(Versions(pipeline, k)) \in Nat
  BY FiniteVersions, FS_CardinalityType
<1> QED BY <1>2, <1>4, <1>5 DEF Conflict

LEMMA VersionsStay ==
    ASSUME committed \subseteq committed', NEW pipeline, NEW k
    PROVE  Versions(pipeline, k) \subseteq Versions(pipeline, k)'
  BY DEF Versions, RowsOf, CommittedRows, RowsWithBatch

LEMMA FactOfVersion ==
    ASSUME committed \subseteq Batch, NEW pipeline, NEW k \in DOMAIN Fact(pipeline)
    PROVE  /\ k \in Known
           /\ Fact(pipeline)[k].payload # NoLabel
           /\ Fact(pipeline)[k].payload \in Versions(pipeline, k)
           /\ ~Fact(pipeline)[k].conflict => ~Conflict(pipeline, k)
<1>1. k \in Keys /\ RowsOf(pipeline, k) # {}
  BY DEF Fact, Present
<1>2. Fact(pipeline)[k] = [payload  |-> Canonical(RowsOf(pipeline, k))[2].payload,
                           conflict |-> Conflict(pipeline, k)]
  BY DEF Fact
<1>3. Canonical(RowsOf(pipeline, k)) \in RowsOf(pipeline, k)
  BY <1>1, CanonicalRow
<1>4. k \in Known /\ Canonical(RowsOf(pipeline, k))[2].payload # NoLabel
  BY <1>3, RowIsKnown
<1> QED BY <1>2, <1>3, <1>4 DEF Versions

-----------------------------------------------------------------------------
(* Settled values *)

Side(pipeline, row) == IF pipeline = "transactions" THEN row.payload ELSE row.label

(* x is what table t of a model says of k, without a conflict. *)
Clean(pipeline, model, t, k, x) ==
    /\ k \in DOMAIN t
    /\ \/ /\ model = "fct_transactions" /\ pipeline = "transactions"
          /\ ~t[k].conflict /\ x = t[k].payload
       \/ /\ model = "fct_transaction_labels" /\ pipeline = "labels"
          /\ ~t[k].conflict /\ x = t[k].payload
       \/ /\ model = "fct_transactions_labeled" /\ pipeline = "transactions"
          /\ ~t[k].conflict /\ x = t[k].payload
       \/ /\ model = "fct_transactions_labeled" /\ pipeline = "labels"
          /\ t[k].label # NoLabel /\ ~t[k].labelConflict /\ x = t[k].label
       \/ /\ model = "ml_training_candidates"
          /\ t[k].eligible /\ x = Side(pipeline, t[k])
       \/ /\ model = "ml_training_transactions"
          /\ x = Side(pipeline, t[k])

Shown(pipeline, k, x) ==
    \/ \E m \in Models : Clean(pipeline, m, tables[m], k, x)
    \/ \E w \in Builders : \E m \in DOMAIN build[w].hand :
          Clean(pipeline, m, build[w].hand[m], k, x)

(* A committed version of k which no table contradicts. *)
Settled(pipeline, k, x) ==
    /\ x \in Versions(pipeline, k)
    /\ \A y : Shown(pipeline, k, y) => y = x

AllSettled ==
    \A pipeline \in Pipelines : \A k, x : Shown(pipeline, k, x) => Settled(pipeline, k, x)

(* What a query finds is shown already, or is the only version there is. *)
LEMMA QueryClean ==
    ASSUME Shape, NEW pipeline \in Pipelines, NEW m \in Models, NEW k, NEW x,
           Clean(pipeline, m, Query(m), k, x)
    PROVE  \/ \E n \in Models : Clean(pipeline, n, tables[n], k, x)
           \/ x \in Versions(pipeline, k) /\ ~Conflict(pipeline, k)
<1>0. committed \subseteq Batch
  BY DEF Shape
<1>1. CASE m = "fct_transactions"
  <2>1. /\ pipeline = "transactions" /\ k \in DOMAIN Fact(pipeline)
        /\ ~Fact(pipeline)[k].conflict /\ x = Fact(pipeline)[k].payload
    BY <1>1 DEF Clean, Query
  <2> QED BY <1>0, <2>1, FactOfVersion
<1>2. CASE m = "fct_transaction_labels"
  <2>1. /\ pipeline = "labels" /\ k \in DOMAIN Fact(pipeline)
        /\ ~Fact(pipeline)[k].conflict /\ x = Fact(pipeline)[k].payload
    BY <1>2 DEF Clean, Query
  <2> QED BY <1>0, <2>1, FactOfVersion
<1>3. CASE m = "fct_transactions_labeled"
  <2> DEFINE tx == tables["fct_transactions"]
             labels == tables["fct_transaction_labels"]
             t == Labeled(tx, labels)
  <2>1. Clean(pipeline, "fct_transactions_labeled", t, k, x)
    BY <1>3 DEF Query
  <2>2. /\ k \in DOMAIN tx
        /\ t[k] = [payload       |-> tx[k].payload,
                   conflict      |-> tx[k].conflict,
                   label         |-> IF k \in DOMAIN labels \ EmptyIds THEN labels[k].payload ELSE NoLabel,
                   labelConflict |-> k \in DOMAIN labels /\ labels[k].conflict]
    BY <2>1 DEF Clean, Labeled
  <2>3. CASE pipeline = "transactions"
    <3>1. ~t[k].conflict /\ x = t[k].payload
      BY <2>1, <2>3 DEF Clean
    <3>2. Clean(pipeline, "fct_transactions", tx, k, x)
      BY <2>2, <2>3, <3>1 DEF Clean
    <3> QED BY <3>2 DEF Models
  <2>4. CASE pipeline = "labels"
    <3>1. t[k].label # NoLabel /\ ~t[k].labelConflict /\ x = t[k].label
      BY <2>1, <2>4 DEF Clean
    <3>2. k \in DOMAIN labels /\ x = labels[k].payload
      BY <2>2, <3>1
    <3>3. ~labels[k].conflict
      <4>1. t[k].labelConflict = (k \in DOMAIN labels /\ labels[k].conflict)
        BY <2>2
      <4> QED BY <3>1, <3>2, <4>1, Zenon
    <3>4. Clean(pipeline, "fct_transaction_labels", labels, k, x)
      BY <2>4, <3>2, <3>3 DEF Clean
    <3> QED BY <3>4 DEF Models
  <2> QED BY <2>3, <2>4 DEF Pipelines
<1>4. CASE m = "ml_training_candidates"
  <2> DEFINE labeled == tables["fct_transactions_labeled"]
             t == Candidates(labeled)
  <2>1. Clean(pipeline, "ml_training_candidates", t, k, x)
    BY <1>4 DEF Query
  <2>2. /\ k \in DOMAIN labeled
        /\ t[k] = [payload  |-> labeled[k].payload,
                   label    |-> labeled[k].label,
                   eligible |-> Eligible(labeled[k]),
                   reason   |-> Reason(labeled[k])]
    BY <2>1 DEF Clean, Candidates
  <2>3. t[k].eligible /\ x = Side(pipeline, t[k])
    BY <2>1 DEF Clean
  <2>4. /\ labeled[k].label # NoLabel
        /\ ~labeled[k].conflict /\ ~labeled[k].labelConflict
    BY <2>2, <2>3 DEF Eligible
  <2>5. Clean(pipeline, "fct_transactions_labeled", labeled, k, x)
    BY <2>2, <2>3, <2>4 DEF Clean, Side, Pipelines
  <2> QED BY <2>5 DEF Models
<1>5. CASE m = "ml_training_transactions"
  <2> DEFINE candidates == tables["ml_training_candidates"]
             t == TrainingRows(candidates)
  <2>1. Clean(pipeline, "ml_training_transactions", t, k, x)
    BY <1>5 DEF Query
  <2>2. /\ k \in DOMAIN candidates /\ candidates[k].eligible
        /\ t[k] = [payload |-> candidates[k].payload, label |-> candidates[k].label]
        /\ x = Side(pipeline, t[k])
    BY <2>1 DEF Clean, TrainingRows
  <2>3. Clean(pipeline, "ml_training_candidates", candidates, k, x)
    BY <2>2 DEF Clean, Side
  <2> QED BY <2>3 DEF Models
<1>6. CASE m = "ml_training_exclusion_summary"
  BY <1>6 DEF Clean
<1> QED BY <1>1, <1>2, <1>3, <1>4, <1>5, <1>6 DEF Models

LEMMA ShownStep ==
    ASSUME Shape, Shape', Inherited, NEW pipeline \in Pipelines, NEW k, NEW x,
           Shown(pipeline, k, x)'
    PROVE  \/ Shown(pipeline, k, x)
           \/ x \in Versions(pipeline, k) /\ ~Conflict(pipeline, k)
<1>1. CASE \E m \in Models : Clean(pipeline, m, tables'[m], k, x)
  <2>1. PICK m \in Models : Clean(pipeline, m, tables'[m], k, x)
    BY <1>1
  <2>2. CASE tables'[m] = tables[m]
    BY <2>1, <2>2 DEF Shown
  <2>3. CASE \E w \in Builders :
                m \in DOMAIN build[w].hand /\ tables'[m] = build[w].hand[m]
    BY <2>1, <2>3 DEF Shown
  <2> QED BY <2>2, <2>3 DEF Inherited
<1>2. CASE \E w \in Builders : \E m \in DOMAIN build'[w].hand :
              Clean(pipeline, m, build'[w].hand[m], k, x)
  <2>0. PICK w \in Builders : \E m \in DOMAIN build'[w].hand :
                Clean(pipeline, m, build'[w].hand[m], k, x)
    BY <1>2
  <2>1. PICK m \in DOMAIN build'[w].hand : Clean(pipeline, m, build'[w].hand[m], k, x)
    BY <2>0
  <2>2. m \in Models
    BY <2>1 DEF Shape
  <2>3. CASE m \in DOMAIN build[w].hand /\ build'[w].hand[m] = build[w].hand[m]
    BY <2>1, <2>3 DEF Shown
  <2>4. CASE build'[w].hand[m] = Query(m)
    <3>1. \/ \E n \in Models : Clean(pipeline, n, tables[n], k, x)
          \/ x \in Versions(pipeline, k) /\ ~Conflict(pipeline, k)
      BY <2>1, <2>2, <2>4, QueryClean
    <3> QED BY <3>1 DEF Shown
  <2> QED BY <2>3, <2>4 DEF Inherited
<1> QED BY <1>1, <1>2 DEF Shown, Clean

(* What is settled stays settled. *)
LEMMA SettledStays ==
    ASSUME Shape, Shape', Inherited, AllSettled, NEW pipeline \in Pipelines, NEW k, NEW x,
           Settled(pipeline, k, x)
    PROVE  Settled(pipeline, k, x)'
<1>0. committed \subseteq Batch /\ x \in Versions(pipeline, k)
  BY DEF Shape, Settled
<1>1. x \in Versions(pipeline, k)'
  BY <1>0, VersionsStay DEF Inherited
<1>2. ASSUME NEW y, Shown(pipeline, k, y)' PROVE y = x
  <2>1. CASE Shown(pipeline, k, y)
    BY <2>1 DEF Settled
  <2>2. CASE y \in Versions(pipeline, k) /\ ~Conflict(pipeline, k)
    BY <1>0, <2>2, OneVersion
  <2> QED BY <1>2, <2>1, <2>2, ShownStep
<1> QED BY <1>1, <1>2 DEF Settled

LEMMA AllSettledNext ==
    ASSUME Shape, Shape', Inherited, AllSettled PROVE AllSettled'
<1> SUFFICES ASSUME NEW pipeline \in Pipelines, NEW k, NEW x, Shown(pipeline, k, x)'
             PROVE  Settled(pipeline, k, x)'
  BY DEF AllSettled
<1>1. CASE Shown(pipeline, k, x)
  <2>1. Settled(pipeline, k, x)
    BY <1>1 DEF AllSettled
  <2> QED BY <2>1, SettledStays
<1>2. CASE x \in Versions(pipeline, k) /\ ~Conflict(pipeline, k)
  <2>0. committed \subseteq Batch
    BY DEF Shape
  <2>1. x \in Versions(pipeline, k)'
    BY <1>2, VersionsStay DEF Inherited
  <2>2. ASSUME NEW y, Shown(pipeline, k, y)' PROVE y = x
    <3>1. CASE Shown(pipeline, k, y)
      <4>1. y \in Versions(pipeline, k)
        BY <3>1 DEF AllSettled, Settled
      <4> QED BY <1>2, <2>0, <4>1, OneVersion
    <3>2. CASE y \in Versions(pipeline, k) /\ ~Conflict(pipeline, k)
      BY <1>2, <2>0, <3>2, OneVersion
    <3> QED BY <2>2, <3>1, <3>2, ShownStep
  <2> QED BY <2>1, <2>2 DEF Settled
<1> QED BY <1>1, <1>2, ShownStep

-----------------------------------------------------------------------------
(* Columns: the keys or reasons a table is about, and what eligibility says of a row. *)

Valid(row) == row.payload \notin InvalidAmount \cup InvalidBalance

Sound(m, t) ==
    /\ DOMAIN t \subseteq (IF m = "ml_training_exclusion_summary" THEN Reasons ELSE Known)
    /\ m = "fct_transaction_labels" => \A k \in DOMAIN t : t[k].payload # NoLabel
    /\ m = "ml_training_candidates" =>
          \A k \in DOMAIN t : t[k].reason \in Reasons /\ (t[k].eligible => Valid(t[k]))
    /\ m = "ml_training_transactions" =>
          \A k \in DOMAIN t :
              Valid(t[k]) /\ t[k] = [payload |-> t[k].payload, label |-> t[k].label]

AllSound ==
    /\ \A m \in Models : Sound(m, tables[m])
    /\ \A w \in Builders : \A m \in DOMAIN build[w].hand : Sound(m, build[w].hand[m])

LEMMA QuerySound ==
    ASSUME Shape, AllSound, NEW m \in Models PROVE Sound(m, Query(m))
<1>0. committed \subseteq Batch
  BY DEF Shape
<1>1. CASE m = "fct_transactions"
  <2>1. DOMAIN Fact("transactions") \subseteq Known
    BY <1>0, FactOfVersion
  <2> QED BY <1>1, <2>1 DEF Sound, Query
<1>2. CASE m = "fct_transaction_labels"
  <2>1. \A k \in DOMAIN Fact("labels") : k \in Known /\ Fact("labels")[k].payload # NoLabel
    BY <1>0, FactOfVersion
  <2> QED BY <1>2, <2>1 DEF Sound, Query
<1>3. CASE m = "fct_transactions_labeled"
  <2>1. Sound("fct_transactions", tables["fct_transactions"])
    BY DEF AllSound, Models
  <2>2. DOMAIN Query(m) \subseteq Known
    BY <1>3, <2>1 DEF Sound, Query, Labeled
  <2> QED BY <1>3, <2>2 DEF Sound
<1>4. CASE m = "ml_training_candidates"
  <2> DEFINE labeled == tables["fct_transactions_labeled"]
  <2>1. DOMAIN labeled \subseteq Known
    BY DEF AllSound, Models, Sound
  <2>2. Query(m) = Candidates(labeled)
    BY <1>4 DEF Query
  <2>3. ASSUME NEW k \in DOMAIN Candidates(labeled)
        PROVE  /\ k \in DOMAIN labeled
               /\ Candidates(labeled)[k].reason \in Reasons
               /\ Candidates(labeled)[k].eligible => Valid(Candidates(labeled)[k])
    <3>1. /\ k \in DOMAIN labeled
          /\ Candidates(labeled)[k] =
                [payload  |-> labeled[k].payload,
                 label    |-> labeled[k].label,
                 eligible |-> Eligible(labeled[k]),
                 reason   |-> Reason(labeled[k])]
      BY DEF Candidates
    <3>2. Reason(labeled[k]) \in Reasons
      BY DEF Reason, Reasons
    <3>3. Eligible(labeled[k]) => Valid(labeled[k])
      BY DEF Eligible, Valid
    <3> QED BY <3>1, <3>2, <3>3 DEF Valid
  <2> QED BY <1>4, <2>1, <2>2, <2>3 DEF Sound
<1>5. CASE m = "ml_training_transactions"
  <2> DEFINE candidates == tables["ml_training_candidates"]
  <2>1. Sound("ml_training_candidates", candidates)
    BY DEF AllSound, Models
  <2>2. Query(m) = TrainingRows(candidates)
    BY <1>5 DEF Query
  <2>3. ASSUME NEW k \in DOMAIN TrainingRows(candidates)
        PROVE  /\ k \in DOMAIN candidates /\ candidates[k].eligible
               /\ TrainingRows(candidates)[k] =
                     [payload |-> candidates[k].payload, label |-> candidates[k].label]
    BY DEF TrainingRows
  <2>4. \A k \in DOMAIN TrainingRows(candidates) : k \in Known /\ Valid(candidates[k])
    BY <2>1, <2>3 DEF Sound
  <2> DEFINE t == TrainingRows(candidates)
  <2>5. ASSUME NEW k \in DOMAIN t
        PROVE  k \in Known /\ Valid(t[k]) /\ t[k] = [payload |-> t[k].payload, label |-> t[k].label]
    <3>1. t[k] = [payload |-> candidates[k].payload, label |-> candidates[k].label]
      BY <2>3
    <3>2. t[k].payload = candidates[k].payload /\ t[k].label = candidates[k].label
      BY <3>1
    <3> QED BY <2>4, <3>1, <3>2 DEF Valid
  <2>6. Sound("ml_training_transactions", t)
    BY <2>5 DEF Sound
  <2> QED BY <1>5, <2>2, <2>6
<1>6. CASE m = "ml_training_exclusion_summary"
  <2>1. Sound("ml_training_candidates", tables["ml_training_candidates"])
    BY DEF AllSound, Models
  <2>2. Query(m) = Summary(tables["ml_training_candidates"])
    BY <1>6 DEF Query
  <2>3. DOMAIN Query(m) \subseteq Reasons
    BY <2>1, <2>2 DEF Sound, Summary
  <2> QED BY <1>6, <2>3 DEF Sound
<1> QED BY <1>1, <1>2, <1>3, <1>4, <1>5, <1>6 DEF Models

LEMMA AllSoundNext ==
    ASSUME Shape, Shape', Inherited, AllSound PROVE AllSound'
<1>1. ASSUME NEW m \in Models PROVE Sound(m, tables'[m])
  BY DEF Inherited, AllSound
<1>2. ASSUME NEW w \in Builders, NEW m, m \in DOMAIN build'[w].hand
      PROVE  Sound(m, build'[w].hand[m])
  <2>1. m \in Models
    BY <1>2 DEF Shape
  <2>2. Sound(m, Query(m))
    BY <2>1, QuerySound
  <2> QED BY <1>2, <2>2 DEF Inherited, AllSound
<1>3. ASSUME NEW m, NEW t, Sound(m, t) PROVE Sound(m, t)'
  <2>1. Known' = Known
    BY DEF Known, Row, Batch
  <2> QED BY <1>3, <2>1 DEF Sound, Valid
<1> QED BY <1>1, <1>2, <1>3 DEF AllSound

-----------------------------------------------------------------------------
(* The inductive invariant *)

MartsInv == Shape /\ AllSound /\ AllSettled

LEMMA MartsInvInit == Init => MartsInv
<1> SUFFICES ASSUME Init PROVE MartsInv
  OBVIOUS
<1>1. Shape
  BY ShapeInit
<1>2. /\ \A m \in Models : DOMAIN tables[m] = {}
      /\ \A w \in Builders : DOMAIN build[w].hand = {}
  BY IdleShape DEF Init, Empty
<1>3. AllSound
  BY <1>2 DEF AllSound, Sound
<1>4. \A pipeline, m, t, k, x : Clean(pipeline, m, t, k, x) => k \in DOMAIN t
  BY DEF Clean
<1>5. AllSettled
  <2>1. ASSUME NEW pipeline, NEW k, NEW x PROVE ~Shown(pipeline, k, x)
    BY <1>2, <1>4 DEF Shown
  <2> QED BY <2>1 DEF AllSettled
<1> QED BY <1>1, <1>3, <1>5 DEF MartsInv

LEMMA MartsInvNext == MartsInv /\ [Next]_vars => MartsInv' /\ Inherited
<1> SUFFICES ASSUME MartsInv, [Next]_vars PROVE MartsInv' /\ Inherited
  OBVIOUS
<1>1. Shape' /\ Inherited
  BY NextStep, StutterStep DEF MartsInv
<1> QED BY <1>1, AllSoundNext, AllSettledNext DEF MartsInv

THEOREM MartsInductive == Spec => []MartsInv
<1>1. Init => MartsInv
  BY MartsInvInit
<1>2. MartsInv /\ [Next]_vars => MartsInv'
  BY MartsInvNext
<1> QED BY <1>1, <1>2, PTL DEF Spec

-----------------------------------------------------------------------------
(* What a row of the training mart shows *)

LEMMA TrainingShown ==
    ASSUME NEW k \in DOMAIN training
    PROVE  /\ Shown("transactions", k, training[k].payload)
           /\ Shown("labels", k, training[k].label)
<1>1. /\ Clean("transactions", "ml_training_transactions", training, k, training[k].payload)
      /\ Clean("labels", "ml_training_transactions", training, k, training[k].label)
  BY DEF Clean, Side
<1>2. "ml_training_transactions" \in Models
      /\ training = tables["ml_training_transactions"]
  BY DEF Models, training
<1> QED BY <1>1, <1>2 DEF Shown

LEMMA TrainingSettled ==
    ASSUME AllSettled, NEW k \in DOMAIN training
    PROVE  /\ Settled("transactions", k, training[k].payload)
           /\ Settled("labels", k, training[k].label)
  BY TrainingShown DEF AllSettled, Pipelines

LEMMA TrainingSound ==
    ASSUME AllSound, NEW k \in DOMAIN training
    PROVE  /\ Valid(training[k])
           /\ training[k] = [payload |-> training[k].payload, label |-> training[k].label]
<1>1. Sound("ml_training_transactions", training)
  BY DEF AllSound, Models, training
<1> QED BY <1>1 DEF Sound

(* A row the mart has says what is settled of its key. *)
RowsSettled ==
    \A k, x, y :
        k \in DOMAIN training /\ Settled("transactions", k, x) /\ Settled("labels", k, y)
            => training[k] = [payload |-> x, label |-> y]

LEMMA SettledRow == MartsInv => RowsSettled
<1> SUFFICES ASSUME MartsInv, NEW k \in DOMAIN training, NEW x, NEW y,
                    Settled("transactions", k, x), Settled("labels", k, y)
             PROVE  training[k] = [payload |-> x, label |-> y]
  BY DEF RowsSettled
<1>1. training[k].payload = x /\ training[k].label = y
  BY TrainingShown DEF Settled
<1> QED BY <1>1, TrainingSound DEF MartsInv

-----------------------------------------------------------------------------
(* Every reachable state of the marts is well typed, whatever builds overlap. *)
THEOREM MartsTypeCorrect == Spec => []TypeOK
<1>1. MartsInv => TypeOK
  <2> SUFFICES ASSUME MartsInv PROVE TypeOK
    OBVIOUS
  <2>1. ASSUME NEW m \in Models PROVE DOMAIN tables[m] \subseteq Keys \cup Reasons
    BY FiniteKnown DEF MartsInv, AllSound, Sound
  <2> QED BY <2>1 DEF MartsInv, Shape, TypeOK
<1> QED BY <1>1, MartsInductive, PTL

(* The rows of the training mart are valid committed versions, whatever order batches
   are committed in and builds overlap in. *)
THEOREM MartsTrainOnCommitted == Spec => []TrainedOnCommitted
<1>1. MartsInv => TrainedOnCommitted
  BY TrainingSettled, TrainingSound DEF MartsInv, TrainedOnCommitted, Settled, Valid
<1> QED BY <1>1, MartsInductive, PTL

(* No step gives a row of the training mart another content. *)
THEOREM MartsKeepContent == Spec => ContentKept
<1> DEFINE Kept == \A k \in DOMAIN training \cap DOMAIN training' : training'[k] = training[k]
<1>1. MartsInv /\ [Next]_vars => Kept
  <2> SUFFICES ASSUME MartsInv, [Next]_vars, NEW k \in DOMAIN training \cap DOMAIN training'
               PROVE  training'[k] = training[k]
    OBVIOUS
  <2>1. MartsInv' /\ Inherited
    BY MartsInvNext
  <2>2. PICK x, y : x = training[k].payload /\ y = training[k].label
    OBVIOUS
  <2>3. Settled("transactions", k, x) /\ Settled("labels", k, y)
    BY <2>2, TrainingSettled DEF MartsInv
  <2>4. Settled("transactions", k, x)' /\ Settled("labels", k, y)'
    BY <2>1, <2>3, SettledStays DEF MartsInv, Pipelines
  <2>5. RowsSettled /\ RowsSettled'
    BY <2>1, SettledRow, PTL
  <2>6. training[k] = [payload |-> x, label |-> y]
    BY <2>3, <2>5 DEF RowsSettled
  <2>7. training'[k] = [payload |-> x, label |-> y]
    BY <2>4, <2>5 DEF RowsSettled
  <2> QED BY <2>6, <2>7
<1>2. MartsInv /\ [Next]_vars => [Kept]_vars
  BY <1>1
<1> QED BY <1>2, MartsInductive, PTL DEF Spec, ContentKept
-----------------------------------------------------------------------------
(* A build on its own: what it has in place, or in hand, is derived from the tables
   that are in place. The two fact tables are what a query once found. *)

Orphans == "assert_no_orphan_final_labels"

Derived(w) ==
    /\ build[w].running
    /\ \A u \in Builders \ {w} : ~build[u].running
    /\ \A m \in DOMAIN build[w].hand :
          Reads(m) \subseteq build[w].done /\ (m \notin Facts => build[w].hand[m] = Query(m))
    /\ \A m \in Models \cap build[w].done :
          Reads(m) \subseteq build[w].done /\ (m \notin Facts => tables[m] = Query(m))
    /\ Orphans \in build[w].done => Facts \subseteq build[w].done /\ Passes(Orphans)

AloneDerives == \A w \in Builders : build[w].alone => Derived(w)

LEMMA ReadsParents ==
    ASSUME NEW m \in Models
    PROVE  Reads(m) \subseteq Parents(m) \cap Nodes /\ m \notin Reads(m)
<1>1. Reads(m) \subseteq Models \ {m, "ml_training_exclusion_summary"}
  BY DEF Models, Facts, Reads
<1> QED BY <1>1, NodesAssumption DEF Parents

LEMMA OrphansParents == Facts \subseteq Parents(Orphans) \cap Nodes
<1>1. Reads(Orphans) = Facts
  BY DEF Reads, Orphans, Facts
<1>2. Facts \subseteq Models \ {"ml_training_exclusion_summary"}
  BY DEF Models, Facts
<1> QED BY <1>1, <1>2, NodesAssumption DEF Parents

(* A query of tables that did not change has the answer it had. *)
LEMMA SameAnswer ==
    ASSUME NEW m \in Models \ Facts, \A n \in Reads(m) : tables'[n] = tables[n]
    PROVE  Query(m)' = Query(m)
<1>1. CASE m = "fct_transactions_labeled"
  <2>1. /\ tables'["fct_transactions"] = tables["fct_transactions"]
        /\ tables'["fct_transaction_labels"] = tables["fct_transaction_labels"]
    BY <1>1 DEF Reads, Facts
  <2> QED BY <1>1, <2>1 DEF Query, Labeled
<1>2. CASE m = "ml_training_candidates"
  <2>1. tables'["fct_transactions_labeled"] = tables["fct_transactions_labeled"]
    BY <1>2 DEF Reads, Facts
  <2> QED BY <1>2, <2>1 DEF Query, Candidates, Eligible, Reason
<1>3. CASE m = "ml_training_transactions"
  <2>1. tables'["ml_training_candidates"] = tables["ml_training_candidates"]
    BY <1>3 DEF Reads, Facts
  <2> QED BY <1>3, <2>1 DEF Query, TrainingRows
<1>4. CASE m = "ml_training_exclusion_summary"
  <2>1. tables'["ml_training_candidates"] = tables["ml_training_candidates"]
    BY <1>4 DEF Reads, Facts
  <2> QED BY <1>4, <2>1 DEF Query, Summary
<1> QED BY <1>1, <1>2, <1>3, <1>4 DEF Models, Facts

LEMMA SamePass ==
    ASSUME \A n \in Facts : tables'[n] = tables[n]
    PROVE  Passes(Orphans)' = Passes(Orphans)
  BY DEF Passes, Orphans, Facts

(* Who works has started. *)
LEMMA WorkerRuns ==
    ASSUME Shape, NEW w \in Builders, Work(w) \/ Fail(w) PROVE build[w].running
<1>1. "fct_transactions" \in Nodes
  BY NodesAssumption DEF Models
<1>2. ASSUME ~build[w].running PROVE build[w].done = {} /\ DOMAIN build[w].hand = {}
  BY <1>2, IdleShape DEF Shape
<1> QED BY <1>1, <1>2 DEF Work, Fail, QueryModel, Exchange, RunTest, Finish, Ready

LEMMA DerivedInit == Init => AloneDerives
  BY IdleShape DEF Init, AloneDerives

LEMMA DerivedKept ==
    ASSUME Shape, AloneDerives, UNCHANGED <<tables, build>> PROVE AloneDerives'
<1> SUFFICES ASSUME NEW w \in Builders, build[w].alone PROVE Derived(w)'
  BY DEF AloneDerives
<1>1. Derived(w)
  BY DEF AloneDerives
<1>2. \A m \in Models \ Facts : Query(m)' = Query(m)
  BY SameAnswer
<1>3. Passes(Orphans)' = Passes(Orphans)
  BY SamePass
<1>4. DOMAIN build[w].hand \subseteq Models
  BY DEF Shape
<1> QED BY <1>1, <1>2, <1>3, <1>4 DEF Derived

LEMMA DerivedStart ==
    ASSUME Shape, AloneDerives, NEW v \in Builders, Start(v) PROVE AloneDerives'
<1> SUFFICES ASSUME NEW w \in Builders, build'[w].alone PROVE Derived(w)'
  BY DEF AloneDerives
<1>1. ASSUME NEW u \in Builders \ {v}
      PROVE  build'[u].alone = FALSE /\ build'[u].running = build[u].running
  <2>1. build'[u] = [build[u] EXCEPT !.alone = FALSE]
    BY DEF Start
  <2> QED BY <2>1 DEF Shape, Fields
<1>2. w = v
  BY <1>1
<1>3. build'[v] = [Idle EXCEPT !.running = TRUE,
                               !.alone = \A u \in Builders : ~build[u].running]
  BY DEF Start
<1>4. /\ build'[v].running = TRUE /\ build'[v].done = {} /\ DOMAIN build'[v].hand = {}
      /\ build'[v].alone = (\A u \in Builders : ~build[u].running)
  BY <1>3, IdleShape DEF Fields
<1>5. \A u \in Builders : ~build[u].running
  BY <1>2, <1>4
<1> QED BY <1>1, <1>2, <1>4, <1>5 DEF Derived

LEMMA DerivedQuery ==
    ASSUME Shape, NEW w \in Builders, Derived(w), NEW model \in Models, QueryModel(w, model)
    PROVE  Derived(w)'
<1> DEFINE hand == [m \in DOMAIN build[w].hand \cup {model} |->
                        IF m = model THEN Query(model) ELSE build[w].hand[m]]
<1>1. /\ build' = [build EXCEPT ![w].hand = hand]
      /\ Parents(model) \cap Nodes \subseteq build[w].done
      /\ UNCHANGED tables
  BY DEF QueryModel, Ready
<1>2. /\ \A v \in Builders \ {w} : build'[v] = build[v]
      /\ build'[w].running = build[w].running
      /\ build'[w].done = build[w].done /\ build'[w].hand = hand
  BY <1>1 DEF Shape, Fields
<1>3. \A m \in Models \ Facts : Query(m)' = Query(m)
  BY <1>1, SameAnswer
<1>4. Passes(Orphans)' = Passes(Orphans)
  BY <1>1, SamePass
<1>5. DOMAIN build[w].hand \subseteq Models
  BY DEF Shape
<1>6. ASSUME NEW m \in DOMAIN build'[w].hand
      PROVE  /\ Reads(m) \subseteq build'[w].done
             /\ m \notin Facts => build'[w].hand[m] = Query(m)'
  <2>1. m \in DOMAIN build[w].hand \cup {model} /\ m \in Models
        /\ build'[w].hand[m] = IF m = model THEN Query(model) ELSE build[w].hand[m]
    BY <1>2, <1>5
  <2>2. Reads(m) \subseteq build[w].done
    BY <1>1, <2>1, ReadsParents DEF Derived
  <2>3. m \notin Facts => build'[w].hand[m] = Query(m)
    BY <2>1 DEF Derived
  <2> QED BY <1>2, <1>3, <2>1, <2>2, <2>3
<1>7. ASSUME NEW m \in Models \cap build'[w].done
      PROVE  /\ Reads(m) \subseteq build'[w].done
             /\ m \notin Facts => tables'[m] = Query(m)'
  BY <1>1, <1>2, <1>3 DEF Derived
<1> QED BY <1>2, <1>4, <1>6, <1>7 DEF Derived

LEMMA DerivedExchange ==
    ASSUME Shape, NEW w \in Builders, Derived(w), NEW model \in Models, Exchange(w, model)
    PROVE  Derived(w)'
<1> DEFINE hand == [m \in DOMAIN build[w].hand \ {model} |-> build[w].hand[m]]
           done == build[w].done \cup {model}
<1>1. /\ model \in DOMAIN build[w].hand
      /\ tables' = [tables EXCEPT ![model] = build[w].hand[model]]
      /\ build' = [build EXCEPT ![w].done = done, ![w].hand = hand]
  BY DEF Exchange
<1>2. /\ \A v \in Builders \ {w} : build'[v] = build[v]
      /\ build'[w].running = build[w].running
      /\ build'[w].done = done /\ build'[w].hand = hand
  BY <1>1 DEF Shape, Fields
<1>3. /\ tables'[model] = build[w].hand[model]
      /\ \A m \in Models \ {model} : tables'[m] = tables[m]
  BY <1>1 DEF Shape
<1>4. model \notin build[w].done /\ DOMAIN build[w].hand \subseteq Models
  BY <1>1 DEF Shape
<1>5. ASSUME NEW m \in Models \ Facts, Reads(m) \subseteq build[w].done
      PROVE  Query(m)' = Query(m)
  <2>1. Reads(m) \subseteq Models
    BY DEF Reads, Models, Facts
  <2> QED BY <1>3, <1>4, <1>5, <2>1, SameAnswer
<1>6. ASSUME NEW m \in DOMAIN build'[w].hand
      PROVE  /\ Reads(m) \subseteq build'[w].done
             /\ m \notin Facts => build'[w].hand[m] = Query(m)'
  <2>1. m \in DOMAIN build[w].hand /\ m \in Models /\ build'[w].hand[m] = build[w].hand[m]
    BY <1>2, <1>4
  <2>2. Reads(m) \subseteq build[w].done /\ (m \notin Facts => build[w].hand[m] = Query(m))
    BY <2>1 DEF Derived
  <2> QED BY <1>2, <1>5, <2>1, <2>2
<1>7. ASSUME NEW m \in Models \cap build'[w].done
      PROVE  /\ Reads(m) \subseteq build'[w].done
             /\ m \notin Facts => tables'[m] = Query(m)'
  <2>1. CASE m = model
    <3>1. Reads(m) \subseteq build[w].done /\ (m \notin Facts => build[w].hand[m] = Query(m))
      BY <1>1, <2>1 DEF Derived
    <3> QED BY <1>2, <1>3, <1>5, <2>1, <3>1
  <2>2. CASE m # model
    <3>1. m \in build[w].done
      BY <1>2, <2>2
    <3>2. Reads(m) \subseteq build[w].done /\ (m \notin Facts => tables[m] = Query(m))
      BY <3>1 DEF Derived
    <3> QED BY <1>2, <1>3, <1>5, <2>2, <3>2
  <2> QED BY <2>1, <2>2
<1>8. ASSUME Orphans \in build'[w].done
      PROVE  Facts \subseteq build'[w].done /\ Passes(Orphans)'
  <2>1. Orphans \in build[w].done
    BY <1>2, <1>8 DEF Orphans, Models
  <2>2. Facts \subseteq build[w].done /\ Passes(Orphans)
    BY <2>1 DEF Derived
  <2>3. \A n \in Facts : tables'[n] = tables[n]
    BY <1>3, <1>4, <2>2 DEF Facts, Models
  <2> QED BY <1>2, <2>2, <2>3, SamePass
<1> QED BY <1>2, <1>6, <1>7, <1>8 DEF Derived

LEMMA DerivedTest ==
    ASSUME Shape, NEW w \in Builders, Derived(w), NEW test \in Tests, RunTest(w, test), Passes(test)
    PROVE  Derived(w)'
<1> DEFINE done == build[w].done \cup {test}
<1>1. /\ build' = [build EXCEPT ![w].done = done]
      /\ Parents(test) \cap Nodes \subseteq build[w].done
      /\ UNCHANGED tables
  BY DEF RunTest, Ready
<1>2. /\ \A v \in Builders \ {w} : build'[v] = build[v]
      /\ build'[w].running = build[w].running
      /\ build'[w].done = done /\ build'[w].hand = build[w].hand
  BY <1>1 DEF Shape, Fields
<1>3. \A m \in Models \ Facts : Query(m)' = Query(m)
  BY <1>1, SameAnswer
<1>4. Passes(Orphans)' = Passes(Orphans)
  BY <1>1, SamePass
<1>5. DOMAIN build[w].hand \subseteq Models /\ test \notin Models
  BY DEF Shape, Tests, Models
<1>6. ASSUME Orphans \in build'[w].done
      PROVE  Facts \subseteq build'[w].done /\ Passes(Orphans)'
  <2>1. CASE test = Orphans
    <3>1. Facts \subseteq build[w].done
      BY <1>1, <2>1, OrphansParents
    <3> QED BY <1>2, <1>4, <2>1, <3>1
  <2>2. CASE test # Orphans
    BY <1>2, <1>4, <1>6, <2>2 DEF Derived
  <2> QED BY <2>1, <2>2
<1>7. ASSUME NEW m \in DOMAIN build'[w].hand
      PROVE  /\ Reads(m) \subseteq build'[w].done
             /\ m \notin Facts => build'[w].hand[m] = Query(m)'
  BY <1>2, <1>3, <1>5 DEF Derived
<1>8. ASSUME NEW m \in Models \cap build'[w].done
      PROVE  /\ Reads(m) \subseteq build'[w].done
             /\ m \notin Facts => tables'[m] = Query(m)'
  <2>1. m \in build[w].done
    BY <1>2, <1>5
  <2> QED BY <1>1, <1>2, <1>3, <2>1 DEF Derived
<1> QED BY <1>2, <1>6, <1>7, <1>8 DEF Derived

(* A build that is alone is the only one to take a step; one that ends is not alone. *)
LEMMA DerivedWork ==
    ASSUME Shape, AloneDerives, NEW v \in Builders, Work(v) \/ Fail(v) PROVE AloneDerives'
<1> SUFFICES ASSUME NEW w \in Builders, build'[w].alone PROVE Derived(w)'
  BY DEF AloneDerives
<1>1. build[v].running
  BY WorkerRuns
<1>2. ASSUME build' = [build EXCEPT ![v] = Idle] PROVE FALSE
  <2>1. w # v
    BY <1>2, IdleShape DEF Shape
  <2>2. build[w].alone
    BY <1>2, <2>1 DEF Shape
  <2> QED BY <1>1, <2>1, <2>2 DEF AloneDerives, Derived
<1>3. ASSUME \A u \in Builders : build'[u].alone = build[u].alone PROVE w = v /\ Derived(w)
  BY <1>1, <1>3 DEF AloneDerives, Derived
<1>4. ASSUME NEW model \in Models, QueryModel(v, model) PROVE Derived(w)'
  <2>1. \A u \in Builders : build'[u].alone = build[u].alone
    BY <1>4 DEF QueryModel, Shape, Fields
  <2> QED BY <1>3, <1>4, <2>1, DerivedQuery
<1>5. ASSUME NEW model \in Models, Exchange(v, model) PROVE Derived(w)'
  <2>1. \A u \in Builders : build'[u].alone = build[u].alone
    BY <1>5 DEF Exchange, Shape, Fields
  <2> QED BY <1>3, <1>5, <2>1, DerivedExchange
<1>6. ASSUME NEW test \in Tests, RunTest(v, test) PROVE Derived(w)'
  <2>1. CASE Passes(test)
    <3>1. \A u \in Builders : build'[u].alone = build[u].alone
      BY <1>6, <2>1 DEF RunTest, Shape, Fields
    <3> QED BY <1>3, <1>6, <2>1, <3>1, DerivedTest
  <2>2. CASE ~Passes(test)
    BY <1>2, <1>6, <2>2 DEF RunTest
  <2> QED BY <2>1, <2>2
<1>7. CASE Finish(v)
  BY <1>2, <1>7 DEF Finish
<1>8. CASE Fail(v)
  BY <1>2, <1>8 DEF Fail
<1> QED BY <1>4, <1>5, <1>6, <1>7, <1>8 DEF Work

LEMMA DerivedNext == Shape /\ AloneDerives /\ [Next]_vars => AloneDerives'
<1> SUFFICES ASSUME Shape, AloneDerives, [Next]_vars PROVE AloneDerives'
  OBVIOUS
<1>1. CASE \E b \in Batch : Commit(b)
  BY <1>1, DerivedKept DEF Commit
<1>2. ASSUME NEW w \in Builders, Start(w) PROVE AloneDerives'
  BY <1>2, DerivedStart
<1>3. ASSUME NEW w \in Builders, Work(w) \/ Fail(w) PROVE AloneDerives'
  BY <1>3, DerivedWork
<1>4. CASE UNCHANGED vars
  BY <1>4, DerivedKept DEF vars
<1> QED BY <1>1, <1>2, <1>3, <1>4 DEF Next

-----------------------------------------------------------------------------
(* What follows for marts that are derived from each other *)

LEMMA EligibleIsReason == ASSUME NEW row PROVE Eligible(row) <=> Reason(row) = "eligible"
  BY DEF Eligible, Reason

(* The rows of the training mart, in terms of the fact tables. *)
LEMMA DerivedRow ==
    ASSUME NEW tx, NEW labels, NEW k,
           \A j \in DOMAIN labels : labels[j].payload # NoLabel,
           DOMAIN labels \subseteq DOMAIN tx \ EmptyIds
    PROVE  k \in DOMAIN TrainingRows(Candidates(Labeled(tx, labels))) <=>
              /\ k \in DOMAIN labels
              /\ ~tx[k].conflict
              /\ ~labels[k].conflict
              /\ tx[k].payload \notin InvalidAmount \cup InvalidBalance
<1> DEFINE labeled == Labeled(tx, labels)
           candidates == Candidates(labeled)
<1>1. DOMAIN labeled = DOMAIN tx /\ DOMAIN candidates = DOMAIN tx
  BY DEF Labeled, Candidates
<1>2. k \in DOMAIN TrainingRows(candidates) <=> k \in DOMAIN tx /\ candidates[k].eligible
  BY <1>1 DEF TrainingRows
<1>3. ASSUME k \in DOMAIN tx PROVE candidates[k].eligible <=> Eligible(labeled[k])
  BY <1>1, <1>3 DEF Candidates
<1>4. ASSUME k \in DOMAIN tx
      PROVE  labeled[k] = [payload       |-> tx[k].payload,
                           conflict      |-> tx[k].conflict,
                           label         |-> IF k \in DOMAIN labels \ EmptyIds THEN labels[k].payload ELSE NoLabel,
                           labelConflict |-> k \in DOMAIN labels /\ labels[k].conflict]
  BY <1>4 DEF Labeled
<1>5. ASSUME k \in DOMAIN labels PROVE labeled[k].labelConflict <=> labels[k].conflict
  <2>1. labeled[k].labelConflict = (k \in DOMAIN labels /\ labels[k].conflict)
    BY <1>4, <1>5
  <2> QED BY <1>5, <2>1, Zenon
<1>6. ASSUME k \in DOMAIN labels
      PROVE  Eligible(labeled[k]) <=>
                /\ ~tx[k].conflict
                /\ ~labels[k].conflict
                /\ tx[k].payload \notin InvalidAmount \cup InvalidBalance
  <2>1. /\ labeled[k].payload = tx[k].payload
        /\ labeled[k].conflict = tx[k].conflict
        /\ labeled[k].label # NoLabel
    BY <1>4, <1>6
  <2> HIDE DEF labeled
  <2> QED BY <1>5, <1>6, <2>1 DEF Eligible
<1>7. ASSUME k \in DOMAIN tx, k \notin DOMAIN labels PROVE ~Eligible(labeled[k])
  <2>1. labeled[k].label = NoLabel
    BY <1>4, <1>7
  <2> QED BY <2>1 DEF Eligible
<1> QED BY <1>2, <1>3, <1>6, <1>7

LEMMA DerivedSummary ==
    ASSUME NEW labeled, IsFiniteSet(DOMAIN labeled),
           NEW candidates, candidates = Candidates(labeled),
           NEW rows, rows = TrainingRows(candidates),
           NEW summary, summary = Summary(candidates),
           NEW n, n = Cardinality(DOMAIN rows)
    PROVE  IF n = 0 THEN "eligible" \notin DOMAIN summary ELSE summary["eligible"] = n
<1>1. ASSUME NEW k \in DOMAIN candidates
      PROVE  candidates[k].eligible <=> candidates[k].reason = "eligible"
  <2>1. candidates[k].reason = Reason(labeled[k])
        /\ (candidates[k].eligible <=> Eligible(labeled[k]))
    BY DEF Candidates
  <2> QED BY <2>1, EligibleIsReason
<1>2. DOMAIN rows = {k \in DOMAIN candidates : candidates[k].reason = "eligible"}
  BY <1>1 DEF TrainingRows
<1>3. IsFiniteSet(DOMAIN rows)
  <2>1. DOMAIN rows \subseteq DOMAIN labeled
    BY <1>2 DEF Candidates
  <2> QED BY <2>1, FS_Subset
<1>4. n = 0 <=> DOMAIN rows = {}
  BY <1>3, FS_EmptySet
<1>5. "eligible" \in DOMAIN summary <=> DOMAIN rows # {}
  BY <1>2 DEF Summary
<1>6. "eligible" \in DOMAIN summary => summary["eligible"] = n
  BY <1>2 DEF Summary
<1> QED BY <1>4, <1>5, <1>6

LEMMA DerivedReconciles == Shape /\ AllSound /\ AloneDerives => AloneReconciles
<1> SUFFICES ASSUME Shape, AllSound, AloneDerives,
                    NEW w \in Builders, build[w].done = Nodes, build[w].alone
             PROVE  /\ DOMAIN tables.fct_transaction_labels \subseteq DOMAIN tables.fct_transactions
                    /\ tables.fct_transactions_labeled =
                          Labeled(tables.fct_transactions, tables.fct_transaction_labels)
                    /\ \A k \in Keys :
                          k \in DOMAIN training <=>
                              /\ k \in DOMAIN tables.fct_transaction_labels
                              /\ ~tables.fct_transactions[k].conflict
                              /\ ~tables.fct_transaction_labels[k].conflict
                              /\ tables.fct_transactions[k].payload \notin InvalidAmount \cup InvalidBalance
                    /\ "ml_training_exclusion_summary" \in Nodes =>
                       LET summary == tables.ml_training_exclusion_summary
                           n == Cardinality(DOMAIN training)
                       IN  IF n = 0 THEN "eligible" \notin DOMAIN summary ELSE summary["eligible"] = n
  BY DEF AloneReconciles
<1>1. Derived(w)
  BY DEF AloneDerives
<1> DEFINE tx == tables["fct_transactions"]
           labels == tables["fct_transaction_labels"]
           labeled == tables["fct_transactions_labeled"]
           candidates == tables["ml_training_candidates"]
           summary == tables["ml_training_exclusion_summary"]
<1>2. DOMAIN labels \subseteq DOMAIN tx \ EmptyIds
  <2>1. Orphans \in Nodes
    BY NodesAssumption DEF Orphans, Tests
  <2> QED BY <1>1, <2>1 DEF Derived, Passes, Orphans
<1>3. /\ labeled = Labeled(tx, labels)
      /\ candidates = Candidates(labeled)
      /\ training = TrainingRows(candidates)
  <2>1. \A m \in {"fct_transactions_labeled", "ml_training_candidates", "ml_training_transactions"} :
            m \in Models \cap Nodes /\ m \notin Facts
    BY NodesAssumption DEF Models, Facts
  <2>2. \A m \in {"fct_transactions_labeled", "ml_training_candidates", "ml_training_transactions"} :
            tables[m] = Query(m)
    BY <1>1, <2>1 DEF Derived
  <2> QED BY <2>2 DEF Query, training
<1>4. "ml_training_exclusion_summary" \in Nodes => summary = Summary(candidates)
  <2>1. "ml_training_exclusion_summary" \in Models \ Facts
    BY DEF Models, Facts
  <2> QED BY <1>1, <2>1 DEF Derived, Query
<1>5. \A j \in DOMAIN labels : labels[j].payload # NoLabel
  BY DEF AllSound, Sound, Models
<1>6. IsFiniteSet(DOMAIN labeled)
  <2>1. DOMAIN labeled \subseteq Known
    BY DEF AllSound, Sound, Models
  <2> QED BY <2>1, FiniteKnown, FS_Subset
<1>7. ASSUME NEW k \in Keys
      PROVE  k \in DOMAIN training <=>
                /\ k \in DOMAIN labels
                /\ ~tx[k].conflict
                /\ ~labels[k].conflict
                /\ tx[k].payload \notin InvalidAmount \cup InvalidBalance
  <2> HIDE DEF tx, labels, labeled, candidates
  <2> QED BY <1>2, <1>3, <1>5, DerivedRow
<1>8. ASSUME "ml_training_exclusion_summary" \in Nodes, NEW n, n = Cardinality(DOMAIN training)
      PROVE  IF n = 0 THEN "eligible" \notin DOMAIN summary ELSE summary["eligible"] = n
  <2> HIDE DEF labeled, candidates, summary
  <2> QED BY <1>3, <1>4, <1>6, <1>8, DerivedSummary
<1> QED BY <1>2, <1>3, <1>7, <1>8

(* A build that ran alone, for whatever batches and whatever was committed meanwhile,
   leaves marts that are derived from each other and a summary that adds up. *)
THEOREM MartsReconcile == Spec => []AloneReconciles
<1> DEFINE Inv == MartsInv /\ AloneDerives
<1>1. Init => Inv
  BY MartsInvInit, DerivedInit
<1>2. Inv /\ [Next]_vars => Inv'
  BY MartsInvNext, DerivedNext DEF MartsInv
<1>3. Inv => AloneReconciles
  BY DerivedReconciles DEF MartsInv
<1> QED BY <1>1, <1>2, <1>3, PTL DEF Spec
=============================================================================
