-------------------------- MODULE ExperimentProofs --------------------------
(***************************************************************************)
(* Theorems about Experiment, for any number of candidates, any batches    *)
(* and any other builds: the script is a builder like the others, so what  *)
(* MartsProofs says of the marts goes for it, and the candidates that are  *)
(* compared were fitted on one and the same population, although each read *)
(* the mart anew and the fingerprint does not cover the features.          *)
(*                                                                         *)
(* The argument: a row of a snapshot is settled when it is read and stays  *)
(* settled, so two snapshots that both have a key have the same row for    *)
(* it; equal fingerprints then leave no difference.                        *)
(***************************************************************************)
EXTENDS Experiment, MartsProofs

-----------------------------------------------------------------------------
(* Candidate selection *)

LEMMA LeastExists ==
    ASSUME NEW S, S # {}, NEW f \in [S -> Nat]
    PROVE  \E c \in S : \A d \in S : f[c] <= f[d]
<1> DEFINE values == {f[c] : c \in S}
<1>1. values \subseteq Nat /\ values # {}
  OBVIOUS
<1>2. PICK v \in values : \A u \in values : v <= u
  BY <1>1, SmallestNat
<1> QED BY <1>2

LEMMA GreatestExists ==
    ASSUME NEW N \in Nat, NEW S, S # {}, NEW f \in [S -> 0..N]
    PROVE  \E c \in S : \A d \in S : f[c] >= f[d]
<1> DEFINE g == [c \in S |-> N - f[c]]
<1>1. g \in [S -> Nat]
  OBVIOUS
<1>2. PICK c \in S : \A d \in S : g[c] <= g[d]
  BY <1>1, LeastExists
<1>3. ASSUME NEW d \in S PROVE f[c] >= f[d]
  <2>1. N - f[c] <= N - f[d] /\ f[c] \in 0..N /\ f[d] \in 0..N
    BY <1>2
  <2> QED BY <2>1
<1> QED BY <1>3

(* What the notebook's selection works on. *)
Metric(m, C) ==
    /\ DOMAIN m = C
    /\ \A c \in C : /\ m[c].precision \in 0..Scale /\ m[c].recall \in 0..Scale
                    /\ m[c].pr_auc \in 0..Scale /\ m[c].alert_rate \in 0..Scale

LEMMA MetricsAreNumbers ==
    ASSUME NEW C, NEW m, Metric(m, C)
    PROVE  \A c \in C : m[c].recall \in Int /\ m[c].pr_auc \in Int
<1>1. ASSUME NEW c \in C PROVE m[c].recall \in Int /\ m[c].pr_auc \in Int
  <2>1. Scale \in Nat
    BY ScaleAssumption
  <2>2. m[c].recall \in 0..Scale /\ m[c].pr_auc \in 0..Scale
    BY DEF Metric
  <2> QED BY <2>1, <2>2
<1> QED BY <1>1

LEMMA RecallPoolNotEmpty ==
    ASSUME NEW C, NEW m, Metric(m, C), NEW p, NEW tolerance \in Nat, EligibleCandidates(m, p) # {}
    PROVE  RecallPool(m, p, tolerance) # {}
<1> DEFINE E == EligibleCandidates(m, p)
           f == [c \in E |-> m[c].recall]
<1>1. E \subseteq C
  BY DEF EligibleCandidates, Metric
<1>2. f \in [E -> 0..Scale] /\ Scale \in Nat
  BY <1>1, ScaleAssumption DEF Metric
<1>3. PICK c \in E : \A d \in E : f[c] >= f[d]
  BY <1>2, GreatestExists
<1>4. ASSUME NEW d \in E PROVE m[c].recall >= m[d].recall - tolerance
  <2>1. m[c].recall \in Int /\ m[d].recall \in Int /\ m[c].recall >= m[d].recall
    BY <1>1, <1>3, ScaleAssumption DEF Metric
  <2> QED BY <2>1
<1>5. c \in RecallPool(m, p, tolerance)
  BY <1>4 DEF RecallPool
<1> QED BY <1>5

LEMMA AucPoolNotEmpty ==
    ASSUME NEW C, NEW m, Metric(m, C), NEW pool \in SUBSET C, pool # {}, NEW tolerance \in Nat
    PROVE  AucPool(m, pool, tolerance) # {}
<1> DEFINE f == [c \in pool |-> m[c].pr_auc]
<1>1. f \in [pool -> 0..Scale] /\ Scale \in Nat
  BY ScaleAssumption DEF Metric
<1>2. PICK c \in pool : \A d \in pool : f[c] >= f[d]
  BY <1>1, GreatestExists
<1>3. ASSUME NEW d \in pool PROVE m[c].pr_auc >= m[d].pr_auc - tolerance
  <2>1. m[c].pr_auc \in Int /\ m[d].pr_auc \in Int /\ m[c].pr_auc >= m[d].pr_auc
    BY <1>2, ScaleAssumption DEF Metric
  <2> QED BY <2>1
<1>4. c \in AucPool(m, pool, tolerance)
  BY <1>3 DEF AucPool
<1> QED BY <1>4

(* sort_values has a first row, and candidate ids break ties. *)
LEMMA CheapestExists ==
    ASSUME NEW C \in SUBSET Nat, NEW m, Metric(m, C), NEW seconds \in [C -> Nat],
           NEW pool \in SUBSET C, pool # {}
    PROVE  /\ Cheapest(m, seconds, pool) \in pool
           /\ \A d \in pool : m[d].alert_rate >= m[Cheapest(m, seconds, pool)].alert_rate
<1> DEFINE rate == [c \in pool |-> m[c].alert_rate]
<1>0. \A c \in pool : m[c].alert_rate \in Nat /\ seconds[c] \in Nat /\ c \in Nat
  BY ScaleAssumption DEF Metric
<1>1. PICK a \in pool : \A d \in pool : rate[a] <= rate[d]
  <2>1. rate \in [pool -> Nat]
    BY <1>0
  <2> QED BY <2>1, LeastExists
<1> DEFINE A == {c \in pool : m[c].alert_rate = m[a].alert_rate}
           time == [c \in A |-> seconds[c]]
<1>2. PICK b \in A : \A d \in A : time[b] <= time[d]
  <2>1. time \in [A -> Nat] /\ A # {}
    BY <1>0
  <2> QED BY <2>1, LeastExists
<1> DEFINE B == {c \in A : seconds[c] = seconds[b]}
<1>3. PICK w \in B : \A d \in B : w <= d
  <2>1. B \subseteq Nat /\ B # {}
    BY <1>0
  <2> QED BY <2>1, SmallestNat
<1>4. ASSUME NEW d \in pool \ {w} PROVE Cheaper(m, seconds, w, d)
  <2>1. m[w].alert_rate <= m[d].alert_rate
    BY <1>1
  <2>2. m[w].alert_rate = m[d].alert_rate => seconds[w] <= seconds[d]
    BY <1>2
  <2>3. m[w].alert_rate = m[d].alert_rate /\ seconds[w] = seconds[d] => w <= d
    BY <1>3
  <2> QED BY <1>0, <2>1, <2>2, <2>3 DEF Cheaper
<1> DEFINE v == Cheapest(m, seconds, pool)
<1>5. v \in pool /\ \A d \in pool \ {v} : Cheaper(m, seconds, v, d)
  <2>1. \E c \in pool : \A d \in pool \ {c} : Cheaper(m, seconds, c, d)
    BY <1>4
  <2> QED BY <2>1 DEF Cheapest
<1>6. ASSUME NEW d \in pool PROVE m[d].alert_rate >= m[v].alert_rate
  <2> HIDE DEF v
  <2>1. m[d].alert_rate \in Nat /\ m[v].alert_rate \in Nat
    BY <1>0, <1>5
  <2>2. CASE d = v
    BY <2>1, <2>2
  <2>3. CASE d # v
    <3>1. Cheaper(m, seconds, v, d)
      BY <1>5, <2>3
    <3> QED BY <2>1, <3>1 DEF Cheaper
  <2> QED BY <2>2, <2>3
<1> QED BY <1>5, <1>6

(* For any number of candidates, any metrics and any tolerances: nobody who is precise
   enough is better than the winner by more than they allow. *)
THEOREM SelectionUnbeaten ==
    ASSUME NEW C \in SUBSET Nat, NEW m, Metric(m, C), NEW seconds \in [C -> Nat],
           NEW kind \in [C -> {"logistic_regression", "xgboost"}],
           NEW p, NEW rt \in Nat, NEW at \in Nat, EligibleCandidates(m, p) # {},
           NEW w, w = SelectCandidate(kind, m, seconds, p, rt, at)
    PROVE  /\ w \in EligibleCandidates(m, p)
           /\ \A c \in EligibleCandidates(m, p) :
                 /\ m[c].recall <= m[w].recall + rt
                 /\ m[c].recall >= m[w].recall => m[c].pr_auc <= m[w].pr_auc + at
                 /\ m[c].recall >= m[w].recall /\ m[c].pr_auc >= m[w].pr_auc =>
                       /\ kind[w] = "xgboost" => kind[c] = "xgboost"
                       /\ kind[w] = kind[c] => m[c].alert_rate >= m[w].alert_rate
<1> DEFINE E == EligibleCandidates(m, p)
           R == RecallPool(m, p, rt)
           A == AucPool(m, R, at)
           P == IF Simpler(kind, A) # {} THEN Simpler(kind, A) ELSE A
<1>1. /\ A \subseteq R /\ R \subseteq E /\ E \subseteq C /\ P \subseteq A
      /\ R = {c \in E : \A d \in E : m[c].recall >= m[d].recall - rt}
      /\ A = {c \in R : \A d \in R : m[c].pr_auc >= m[d].pr_auc - at}
  BY DEF AucPool, RecallPool, EligibleCandidates, Simpler, Metric
<1>2. P # {}
  BY <1>1, RecallPoolNotEmpty, AucPoolNotEmpty
<1>3. w = Cheapest(m, seconds, P)
  BY DEF SelectCandidate
<1>4. w \in P /\ \A d \in P : m[d].alert_rate >= m[w].alert_rate
  <2>1. P \in SUBSET C
    BY <1>1
  <2> HIDE DEF P
  <2> QED BY <1>2, <1>3, <2>1, CheapestExists
<1>5. \A c \in C : m[c].recall \in Int /\ m[c].pr_auc \in Int
  BY MetricsAreNumbers
<1>6. w \in E
  BY <1>1, <1>4
<1>7. ASSUME NEW c \in E
      PROVE  /\ m[c].recall <= m[w].recall + rt
             /\ m[c].recall >= m[w].recall => m[c].pr_auc <= m[w].pr_auc + at
             /\ m[c].recall >= m[w].recall /\ m[c].pr_auc >= m[w].pr_auc =>
                   /\ kind[w] = "xgboost" => kind[c] = "xgboost"
                   /\ kind[w] = kind[c] => m[c].alert_rate >= m[w].alert_rate
  <2>1. w \in A /\ w \in R /\ w \in C /\ c \in C
    BY <1>1, <1>4
  <2>2. m[w].recall >= m[c].recall - rt
    BY <1>1, <2>1
  <2>3. m[c].recall <= m[w].recall + rt
    BY <1>5, <2>1, <2>2
  <2>4. ASSUME m[c].recall >= m[w].recall PROVE c \in R
    <3>1. ASSUME NEW d \in E PROVE m[c].recall >= m[d].recall - rt
      <4>1. m[w].recall >= m[d].recall - rt /\ d \in C
        BY <1>1, <2>1
      <4> QED BY <1>5, <2>1, <2>4, <4>1
    <3> QED BY <1>1, <3>1
  <2>5. ASSUME m[c].recall >= m[w].recall PROVE m[c].pr_auc <= m[w].pr_auc + at
    <3>1. m[w].pr_auc >= m[c].pr_auc - at
      BY <1>1, <2>1, <2>4, <2>5
    <3> QED BY <1>5, <2>1, <3>1
  <2>6. ASSUME m[c].recall >= m[w].recall, m[c].pr_auc >= m[w].pr_auc PROVE c \in A
    <3>1. ASSUME NEW d \in R PROVE m[c].pr_auc >= m[d].pr_auc - at
      <4>1. m[w].pr_auc >= m[d].pr_auc - at /\ d \in C
        BY <1>1, <2>1
      <4> QED BY <1>5, <2>1, <2>6, <4>1
    <3> QED BY <1>1, <2>4, <2>6, <3>1
  <2>7. ASSUME m[c].recall >= m[w].recall, m[c].pr_auc >= m[w].pr_auc
        PROVE  /\ kind[w] = "xgboost" => kind[c] = "xgboost"
               /\ kind[w] = kind[c] => m[c].alert_rate >= m[w].alert_rate
    <3>1. c \in A
      BY <2>6, <2>7
    <3>2. kind[w] = "xgboost" => Simpler(kind, A) = {}
      BY <1>4 DEF Simpler
    <3>3. kind[w] = "xgboost" => kind[c] = "xgboost"
      BY <2>1, <3>1, <3>2 DEF Simpler
    <3>4. kind[w] = kind[c] => c \in P
      BY <2>1, <3>1, <3>2 DEF Simpler
    <3> QED BY <1>4, <3>3, <3>4
  <2> QED BY <2>3, <2>5, <2>7
<1> QED BY <1>6, <1>7

-----------------------------------------------------------------------------
(* Threshold selection *)

LEMMA RateBounds ==
    ASSUME NEW n \in Int, NEW d \in Nat \ {0}
    PROVE  /\ Rate(n, d) \in Int
           /\ Rate(n, d) * d <= n * Scale
           /\ n * Scale < Rate(n, d) * d + d
<1>1. ASSUME NEW a \in Int
      PROVE  a \div d \in Int /\ (a \div d) * d <= a /\ a < (a \div d) * d + d
  OBVIOUS
<1>2. n * Scale \in Int
  BY ScaleAssumption
<1> QED BY <1>1, <1>2 DEF Rate

LEMMA RateIsNumber == ASSUME NEW n \in Int, NEW d \in Nat PROVE Rate(n, d) \in Int
<1>1. CASE d = 0
  BY <1>1 DEF Rate
<1> QED BY <1>1, RateBounds

LEMMA Products ==
    ASSUME NEW a \in Int, NEW b \in Int, NEW d \in Nat \ {0}
    PROVE  /\ a * d \in Int /\ a <= b => a * d <= b * d
           /\ a * d < b * d => a < b
<1>1. a * d \in Int /\ b * d \in Int /\ (a <= b => a * d <= b * d)
  OBVIOUS
<1>2. b <= a => b * d <= a * d
  OBVIOUS
<1> QED BY <1>1, <1>2

(* A part that is large enough has a rate that is, rounded down as it may be. *)
LEMMA RateAtLeast ==
    ASSUME NEW n \in Nat, NEW d \in Nat \ {0}, NEW p \in Nat, n * Scale >= p * d
    PROVE  Rate(n, d) >= p
<1> DEFINE r == Rate(n, d)
<1>1. r \in Int /\ n * Scale < r * d + d /\ n * Scale \in Int
  BY RateBounds, ScaleAssumption
<1> HIDE DEF r
<1>2. r * d \in Int /\ p * d \in Int /\ (r + 1) * d = r * d + d
  BY <1>1, Products
<1>3. p * d < (r + 1) * d
  BY <1>1, <1>2
<1>4. p < r + 1
  BY <1>1, <1>3, Products
<1> QED BY <1>1, <1>4 DEF r

LEMMA RateIsPart ==
    ASSUME NEW n \in Nat, NEW d \in Nat, n <= d PROVE Rate(n, d) \in 0..Scale
<1>1. CASE d = 0
  BY <1>1, ScaleAssumption DEF Rate
<1>2. CASE d # 0
  <2> DEFINE r == Rate(n, d)
  <2>1. /\ r \in Int /\ r * d <= n * Scale /\ n * Scale < r * d + d
        /\ Scale \in Nat \ {0}
    BY <1>2, RateBounds, ScaleAssumption
  <2> HIDE DEF r
  <2>2. n * Scale \in Nat /\ n * Scale <= d * Scale /\ d * Scale = Scale * d
    BY <2>1, Products
  <2>3. /\ r * d \in Int /\ (r + 1) * d = r * d + d
        /\ (Scale + 1) * d = Scale * d + d /\ Scale * d \in Nat
    BY <2>1
  <2>4. r * d < (Scale + 1) * d /\ 0 * d < (r + 1) * d
    BY <1>2, <2>1, <2>2, <2>3
  <2>5. r < Scale + 1 /\ 0 < r + 1
    BY <1>2, <2>1, <2>4, Products
  <2> QED BY <2>1, <2>5 DEF r
<1> QED BY <1>1, <1>2

(* The rate of a difference is at most the difference of the rates. *)
LEMMA RateGap ==
    ASSUME NEW x \in Nat, NEW y \in Nat, NEW z \in Nat, NEW d \in Nat, x <= z
    PROVE  Rate(x - y, d) <= Rate(z, d) - Rate(y, d)
<1>1. CASE d = 0
  BY <1>1 DEF Rate
<1>2. CASE d # 0
  <2> DEFINE a == Rate(x - y, d)
             b == Rate(z, d)
             c == Rate(y, d)
  <2>1. /\ a \in Int /\ a * d <= (x - y) * Scale
        /\ b \in Int /\ z * Scale < b * d + d
        /\ c \in Int /\ c * d <= y * Scale
    BY <1>2, RateBounds
  <2> HIDE DEF a, b, c
  <2>2. /\ (x - y) * Scale = x * Scale - y * Scale /\ x * Scale <= z * Scale
        /\ x * Scale \in Int /\ y * Scale \in Int /\ z * Scale \in Int
    BY ScaleAssumption, Products
  <2>3. /\ a * d \in Int /\ b * d \in Int /\ c * d \in Int
        /\ (b - c + 1) * d = b * d - c * d + d
    BY <2>1
  <2>4. a * d < (b - c + 1) * d
    BY <2>1, <2>2, <2>3
  <2>5. a < b - c + 1
    BY <1>2, <2>1, <2>4, Products
  <2> QED BY <2>1, <2>5 DEF a, b, c
<1> QED BY <1>1, <1>2

LEMMA CountsAreNumbers ==
    ASSUME NEW target, IsFiniteSet(DOMAIN target), NEW score \in [DOMAIN target -> Nat], NEW t
    PROVE  /\ Cardinality(Frauds(target)) \in Nat
           /\ TP(target, score, t) \in 0..Cardinality(Frauds(target))
           /\ Cardinality(Alerts(score, t)) \in Nat
           /\ TP(target, score, t) <= Cardinality(Alerts(score, t))
           /\ Cardinality(DOMAIN score) \in Nat
           /\ Cardinality(Alerts(score, t)) <= Cardinality(DOMAIN score)
           /\ t \in Thresholds(score) => Cardinality(Alerts(score, t)) # 0
<1>1. Frauds(target) \subseteq DOMAIN target /\ Alerts(score, t) \subseteq DOMAIN target
  BY DEF Frauds, Alerts
<1>2. IsFiniteSet(Frauds(target)) /\ IsFiniteSet(Alerts(score, t))
  BY <1>1, FS_Subset
<1>3. /\ TP(target, score, t) \in Nat
      /\ TP(target, score, t) <= Cardinality(Frauds(target))
      /\ TP(target, score, t) <= Cardinality(Alerts(score, t))
  <2>1. /\ Alerts(score, t) \cap Frauds(target) \subseteq Frauds(target)
        /\ Alerts(score, t) \cap Frauds(target) \subseteq Alerts(score, t)
    OBVIOUS
  <2> QED BY <1>2, <2>1, FS_Subset, FS_CardinalityType DEF TP
<1>4. ASSUME t \in Thresholds(score) PROVE Alerts(score, t) # {}
  <2>1. PICK s \in DOMAIN score : t = score[s]
    BY <1>4 DEF Thresholds
  <2>2. s \in Alerts(score, t)
    BY <2>1 DEF Alerts
  <2> QED BY <2>2
<1>5. /\ Cardinality(DOMAIN score) \in Nat
      /\ Cardinality(Alerts(score, t)) <= Cardinality(DOMAIN score)
  BY <1>1, FS_Subset, FS_CardinalityType
<1> QED BY <1>2, <1>3, <1>4, <1>5, FS_CardinalityType, FS_EmptySet

(* If some threshold is precise, the one that is selected is, and catches as many
   frauds as any that is. *)
LEMMA SelectedThreshold ==
    ASSUME NEW target, IsFiniteSet(DOMAIN target), NEW score \in [DOMAIN target -> Nat],
           NEW p, NEW t \in Thresholds(score), Precise(target, score, p, t),
           NEW chosen, chosen = SelectThreshold(target, score, p).threshold
    PROVE  /\ chosen \in Thresholds(score)
           /\ Precise(target, score, p, chosen)
           /\ TP(target, score, chosen) >= TP(target, score, t)
<1> DEFINE precise == {u \in Thresholds(score) : Precise(target, score, p, u)}
           best == MaxRecall(target, score, precise)
           caught == [u \in precise |-> TP(target, score, u)]
<1>1. t \in precise
  OBVIOUS
<1>2. chosen = LowestOf(best)
  BY <1>1 DEF SelectThreshold
<1>3. best # {}
  <2>1. /\ Cardinality(Frauds(target)) \in Nat
        /\ caught \in [precise -> 0..Cardinality(Frauds(target))]
    BY CountsAreNumbers
  <2>2. PICK u \in precise : \A v \in precise : caught[u] >= caught[v]
    <3> HIDE DEF precise, caught
    <3> QED BY <1>1, <2>1, GreatestExists
  <2>3. u \in best
    BY <2>2 DEF MaxRecall
  <2> QED BY <2>3
<1>4. best \subseteq Nat
  BY DEF MaxRecall, Thresholds
<1>5. chosen \in best
  <2> HIDE DEF best
  <2> QED BY <1>2, <1>3, <1>4, SmallestNat DEF LowestOf
<1> QED BY <1>1, <1>5 DEF MaxRecall

-----------------------------------------------------------------------------
(* The script as a builder *)

LEMMA ScriptStep == [ExperimentNext]_allVars => [Next]_vars
<1> SUFFICES ASSUME [ExperimentNext]_allVars PROVE [Next]_vars
  OBVIOUS
<1>1. Script \in Builders /\ Scheduled \in Builders
  BY ExperimentAssumption, MartsAssumption
<1>2. CASE \E b \in Batch : Commit(b)
  BY <1>2 DEF Next
<1>3. CASE Start(Scheduled) \/ Work(Scheduled) \/ Fail(Scheduled)
  BY <1>1, <1>3 DEF Next
<1>4. CASE Launch
  BY <1>1, <1>4 DEF Next, Launch
<1>5. CASE Build
  BY <1>1, <1>5 DEF Next, Build
<1>6. CASE Validate \/ RunCandidate \/ Abort \/ Compare
  BY <1>6 DEF Validate, RunCandidate, Abort, Compare
<1>7. CASE UNCHANGED allVars
  BY <1>7 DEF allVars
<1> QED BY <1>2, <1>3, <1>4, <1>5, <1>6, <1>7 DEF ExperimentNext

(* The experiment implements the marts: its build is one of the overlapping builds, its
   other steps leave the marts alone. *)
THEOREM ExperimentIsABuilder == ExperimentSpec => Spec
<1>1. ExperimentInit => Init
  BY DEF ExperimentInit
<1> QED BY <1>1, ScriptStep, PTL DEF ExperimentSpec, Spec

-----------------------------------------------------------------------------
(* The snapshots *)

SnapshotSettled(s) ==
    /\ s = [k \in DOMAIN s |-> s[k]]
    /\ \A k \in DOMAIN s :
          /\ s[k] = [payload |-> s[k].payload, label |-> s[k].label]
          /\ Settled("transactions", k, s[k].payload)
          /\ Settled("labels", k, s[k].label)

AllSnapshotsSettled ==
    \A i \in DOMAIN snapshots : \A s : s = snapshots[i] => SnapshotSettled(s)

SnapshotsAgree ==
    \A i, j \in DOMAIN snapshots : \A k \in DOMAIN snapshots[i] \cap DOMAIN snapshots[j] :
        snapshots[i][k] = snapshots[j][k]

(* How many snapshots there are at each step of the script. *)
ScriptShape ==
    /\ \E S : snapshots \in Seq(S)
    /\ step \in {"off", "build", "validate", "candidates", "compare", "end"}
    /\ step \in {"off", "build", "validate"} => snapshots = <<>>
    /\ step = "candidates" => Len(snapshots) < Len(Kinds)
    /\ step = "compare" => Len(snapshots) = Len(Kinds)
    /\ verdict # None => step = "end"

ScriptInv == ScriptShape /\ AllSnapshotsSettled /\ SnapshotsAgree /\ ComparedAlike

LEMMA SnapshotStaysSettled ==
    ASSUME MartsInv, [Next]_vars, NEW s, SnapshotSettled(s) PROVE SnapshotSettled(s)'
<1>1. MartsInv' /\ Inherited
  BY MartsInvNext
<1>2. ASSUME NEW k \in DOMAIN s
      PROVE  Settled("transactions", k, s[k].payload)' /\ Settled("labels", k, s[k].label)'
  BY <1>1, SettledStays DEF SnapshotSettled, MartsInv, Pipelines
<1> QED BY <1>2 DEF SnapshotSettled

LEMMA SnapshotOfMart ==
    ASSUME MartsInv, NEW s, s = Snapshot(training)
    PROVE  /\ SnapshotSettled(s)
           /\ \A k \in DOMAIN s : k \in DOMAIN training /\ s[k] = training[k]
<1>1. /\ s = [k \in DOMAIN s |-> s[k]]
      /\ \A k \in DOMAIN s : k \in DOMAIN training /\ s[k] = training[k]
  BY DEF Snapshot
<1>2. ASSUME NEW k \in DOMAIN s
      PROVE  /\ s[k] = [payload |-> s[k].payload, label |-> s[k].label]
             /\ Settled("transactions", k, s[k].payload)
             /\ Settled("labels", k, s[k].label)
  BY <1>1, TrainingSound, TrainingSettled DEF MartsInv
<1> QED BY <1>1, <1>2 DEF SnapshotSettled

(* Two snapshots with one fingerprint, which agree where they overlap, are equal. *)
LEMMA SameFingerprint ==
    ASSUME NEW s, NEW t, SnapshotSettled(s), SnapshotSettled(t),
           Fingerprint(s) = Fingerprint(t),
           \A k \in DOMAIN s \cap DOMAIN t : s[k] = t[k]
    PROVE  s = t
<1>1. ASSUME NEW k \in DOMAIN s PROVE k \in DOMAIN t
  <2>1. [key |-> k, time |-> s[k].payload.time, fraud |-> s[k].label.fraud] \in Fingerprint(t)
    BY DEF Fingerprint
  <2>2. PICK j \in DOMAIN t :
            [key |-> k, time |-> s[k].payload.time, fraud |-> s[k].label.fraud] =
            [key |-> j, time |-> t[j].payload.time, fraud |-> t[j].label.fraud]
    BY <2>1 DEF Fingerprint
  <2> QED BY <2>2
<1>2. ASSUME NEW k \in DOMAIN t PROVE k \in DOMAIN s
  <2>1. [key |-> k, time |-> t[k].payload.time, fraud |-> t[k].label.fraud] \in Fingerprint(s)
    BY DEF Fingerprint
  <2>2. PICK j \in DOMAIN s :
            [key |-> k, time |-> t[k].payload.time, fraud |-> t[k].label.fraud] =
            [key |-> j, time |-> s[j].payload.time, fraud |-> s[j].label.fraud]
    BY <2>1 DEF Fingerprint
  <2> QED BY <2>2
<1>3. DOMAIN s = DOMAIN t
  BY <1>1, <1>2
<1> QED BY <1>3 DEF SnapshotSettled

-----------------------------------------------------------------------------
(* The steps of the script *)

LEMMA ScriptInvInit == ExperimentInit => ScriptInv
<1> SUFFICES ASSUME ExperimentInit PROVE ScriptInv
  OBVIOUS
<1>1. snapshots = <<>> /\ step = "off" /\ verdict = None
  BY DEF ExperimentInit
<1>2. ScriptShape
  BY <1>1 DEF ScriptShape
<1> QED BY <1>1, <1>2 DEF ScriptInv, AllSnapshotsSettled, SnapshotsAgree, ComparedAlike

(* The snapshots are what they were: they stay settled. *)
LEMMA SnapshotsKept ==
    ASSUME ScriptInv, MartsInv, [Next]_vars, UNCHANGED snapshots
    PROVE  AllSnapshotsSettled' /\ SnapshotsAgree'
<1>1. ASSUME NEW i \in DOMAIN snapshots', NEW s, s = snapshots'[i]
      PROVE  SnapshotSettled(s)'
  <2>1. SnapshotSettled(s)
    BY <1>1 DEF ScriptInv, AllSnapshotsSettled
  <2> QED BY <2>1, SnapshotStaysSettled
<1> QED BY <1>1 DEF ScriptInv, AllSnapshotsSettled, SnapshotsAgree

LEMMA SnapshotsDropped ==
    ASSUME ScriptInv, End, step \in {"build", "validate", "candidates", "compare"}
    PROVE  ScriptInv'
<1>1. verdict = None /\ snapshots' = <<>> /\ step' = "end" /\ verdict' = None
  BY DEF End, ScriptInv, ScriptShape
<1>2. ScriptShape'
  BY <1>1 DEF ScriptShape
<1> QED BY <1>1, <1>2 DEF ScriptInv, AllSnapshotsSettled, SnapshotsAgree, ComparedAlike

LEMMA ScriptGoesOn ==
    ASSUME ScriptInv, MartsInv, [Next]_vars, NEW next, Goto(next),
           \/ step = "off" /\ next = "build"
           \/ step = "build" /\ next = "validate"
           \/ step = "validate" /\ next = "candidates"
    PROVE  ScriptInv'
<1>1. UNCHANGED <<snapshots, verdict>> /\ step' = next /\ verdict = None /\ snapshots = <<>>
  BY DEF Goto, ScriptInv, ScriptShape
<1>2. 0 < Len(Kinds) /\ Len(<<>>) = 0
  BY ExperimentAssumption
<1>3. ScriptShape'
  BY <1>1, <1>2 DEF ScriptShape
<1>4. ComparedAlike'
  BY <1>1 DEF ComparedAlike
<1> QED BY <1>1, <1>3, <1>4, SnapshotsKept DEF ScriptInv

LEMMA CandidateStep ==
    ASSUME ScriptInv, MartsInv, RunCandidate PROVE ScriptInv'
<1> DEFINE n == Snapshot(training)
<1>1. /\ step = "candidates" /\ verdict = None /\ verdict' = None
      /\ Len(snapshots) < Len(Kinds)
      /\ snapshots' = Append(snapshots, n)
      /\ step' = IF Len(snapshots') < Len(Kinds) THEN "candidates" ELSE "compare"
      /\ UNCHANGED vars
  BY DEF RunCandidate, ScriptInv, ScriptShape, training
<1>2. PICK S : snapshots \in Seq(S)
  BY DEF ScriptInv, ScriptShape
<1>3. /\ snapshots' \in Seq(S \cup {n})
      /\ Len(snapshots') = Len(snapshots) + 1 /\ Len(snapshots) \in Nat
      /\ DOMAIN snapshots = 1..Len(snapshots)
      /\ DOMAIN snapshots' = 1..(Len(snapshots) + 1)
      /\ \A i \in 1..Len(snapshots) : snapshots'[i] = snapshots[i]
      /\ snapshots'[Len(snapshots) + 1] = n
  <2>1. snapshots \in Seq(S \cup {n})
    BY <1>2
  <2> HIDE DEF n
  <2> QED BY <1>1, <2>1
<1>4. Len(Kinds) \in Nat
  BY ExperimentAssumption
<1>5. ScriptShape'
  <2>1. step' \in {"candidates", "compare"}
    BY <1>1
  <2>2. step' = "candidates" => Len(snapshots') < Len(Kinds)
    BY <1>1
  <2>3. step' = "compare" => Len(snapshots') = Len(Kinds)
    BY <1>1, <1>3, <1>4
  <2> QED BY <1>1, <1>3, <2>1, <2>2, <2>3 DEF ScriptShape
<1>6. [Next]_vars
  BY <1>1
<1>7. AllSnapshotsSettled'
  <2> SUFFICES ASSUME NEW i \in DOMAIN snapshots', NEW s, s = snapshots'[i]
               PROVE  SnapshotSettled(s)'
    BY DEF AllSnapshotsSettled
  <2>1. SnapshotSettled(s)
    <3>1. CASE i \in DOMAIN snapshots
      BY <1>3, <3>1 DEF ScriptInv, AllSnapshotsSettled
    <3>2. CASE i = Len(snapshots) + 1
      BY <1>3, <3>2, SnapshotOfMart
    <3> QED BY <1>3, <3>1, <3>2
  <2> QED BY <1>6, <2>1, SnapshotStaysSettled
<1>8. ASSUME NEW i \in DOMAIN snapshots, NEW k \in DOMAIN snapshots[i] \cap DOMAIN n
      PROVE  snapshots[i][k] = n[k]
  <2>1. PICK s : s = snapshots[i]
    OBVIOUS
  <2>2. SnapshotSettled(s)
    BY <2>1 DEF ScriptInv, AllSnapshotsSettled
  <2>3. k \in DOMAIN training /\ n[k] = training[k]
    BY DEF Snapshot
  <2>4. training[k] = [payload |-> s[k].payload, label |-> s[k].label]
    BY <2>1, <2>2, <2>3, SettledRow DEF SnapshotSettled, RowsSettled
  <2> QED BY <2>1, <2>2, <2>3, <2>4 DEF SnapshotSettled
<1>9. SnapshotsAgree'
  <2> SUFFICES ASSUME NEW i \in DOMAIN snapshots', NEW j \in DOMAIN snapshots',
                      NEW k \in DOMAIN snapshots'[i] \cap DOMAIN snapshots'[j]
               PROVE  snapshots'[i][k] = snapshots'[j][k]
    BY DEF SnapshotsAgree
  <2> HIDE DEF n
  <2>1. CASE i \in DOMAIN snapshots /\ j \in DOMAIN snapshots
    BY <1>3, <2>1 DEF ScriptInv, SnapshotsAgree
  <2>2. CASE i \in DOMAIN snapshots /\ j = Len(snapshots) + 1
    BY <1>3, <1>8, <2>2
  <2>3. CASE i = Len(snapshots) + 1 /\ j \in DOMAIN snapshots
    BY <1>3, <1>8, <2>3
  <2>4. CASE i = j
    BY <2>4
  <2> QED BY <1>3, <2>1, <2>2, <2>3, <2>4
<1>10. ComparedAlike'
  BY <1>1 DEF ComparedAlike
<1> QED BY <1>5, <1>7, <1>9, <1>10 DEF ScriptInv

LEMMA CompareStep ==
    ASSUME ScriptInv, MartsInv, Compare PROVE ScriptInv'
<1>1. CASE End
  BY <1>1, SnapshotsDropped DEF Compare
<1>2. CASE Comparable(snapshots) /\ step' = "end" /\ UNCHANGED <<vars, snapshots>>
  <2>1. step = "compare" /\ Len(snapshots) = Len(Kinds) /\ [Next]_vars
    BY <1>2 DEF Compare, ScriptInv, ScriptShape
  <2>2. AllSnapshotsSettled' /\ SnapshotsAgree'
    BY <1>2, <2>1, SnapshotsKept
  <2>3. ScriptShape'
    BY <1>2 DEF ScriptInv, ScriptShape
  <2>4. ASSUME NEW i \in Candidate, NEW j \in Candidate PROVE snapshots[i] = snapshots[j]
    <3>1. i \in DOMAIN snapshots /\ j \in DOMAIN snapshots
      BY <2>1 DEF Candidate, ScriptInv, ScriptShape
    <3>2. PICK s, t : s = snapshots[i] /\ t = snapshots[j]
      OBVIOUS
    <3>3. SnapshotSettled(s) /\ SnapshotSettled(t)
      BY <3>1, <3>2 DEF ScriptInv, AllSnapshotsSettled
    <3>4. Fingerprint(s) = Fingerprint(t)
      BY <1>2, <3>1, <3>2 DEF Comparable
    <3>5. \A k \in DOMAIN s \cap DOMAIN t : s[k] = t[k]
      BY <3>1, <3>2 DEF ScriptInv, SnapshotsAgree
    <3> QED BY <3>2, <3>3, <3>4, <3>5, SameFingerprint
  <2>5. ComparedAlike'
    BY <1>2, <2>4 DEF ComparedAlike
  <2> QED BY <2>2, <2>3, <2>5 DEF ScriptInv
<1> QED BY <1>1, <1>2 DEF Compare

LEMMA ScriptInvNext == ScriptInv /\ MartsInv /\ [ExperimentNext]_allVars => ScriptInv'
<1> SUFFICES ASSUME ScriptInv, MartsInv, [ExperimentNext]_allVars PROVE ScriptInv'
  OBVIOUS
<1>1. [Next]_vars
  BY ScriptStep
<1>2. CASE UNCHANGED scriptVars
  <2>1. UNCHANGED <<step, snapshots, verdict>>
    BY <1>2 DEF scriptVars
  <2>2. ScriptShape' /\ ComparedAlike'
    BY <2>1 DEF ScriptInv, ScriptShape, ComparedAlike
  <2> QED BY <1>1, <2>1, <2>2, SnapshotsKept DEF ScriptInv
<1>3. CASE Launch
  BY <1>1, <1>3, ScriptGoesOn DEF Launch
<1>4. CASE Build
  BY <1>1, <1>2, <1>4, ScriptGoesOn, SnapshotsDropped DEF Build
<1>5. CASE Validate
  BY <1>1, <1>5, ScriptGoesOn, SnapshotsDropped DEF Validate
<1>6. CASE RunCandidate
  BY <1>6, CandidateStep
<1>7. CASE Abort
  BY <1>7, SnapshotsDropped DEF Abort
<1>8. CASE Compare
  BY <1>8, CompareStep
<1> QED BY <1>2, <1>3, <1>4, <1>5, <1>6, <1>7, <1>8 DEF ExperimentNext, allVars, scriptVars

-----------------------------------------------------------------------------
(* The candidates that are compared took the same rows, features and all, out of the
   mart, however many there are and whatever the scheduled build did between their
   snapshots. *)
THEOREM CandidatesComparedAlike == ExperimentSpec => []ComparedAlike
<1>1. ExperimentInit => ScriptInv
  BY ScriptInvInit
<1>2. ScriptInv /\ MartsInv /\ [ExperimentNext]_allVars => ScriptInv'
  BY ScriptInvNext
<1>3. ScriptInv => ComparedAlike
  BY DEF ScriptInv
<1>4. ExperimentSpec => []MartsInv
  BY ExperimentIsABuilder, MartsInductive, PTL
<1> QED BY <1>1, <1>2, <1>3, <1>4, PTL DEF ExperimentSpec

(* What is proved of the marts, of the experiment. *)
THEOREM ExperimentMarts ==
    ExperimentSpec => /\ []TypeOK
                      /\ []TrainedOnCommitted
                      /\ []AloneReconciles
                      /\ ContentKept
  BY ExperimentIsABuilder, MartsTypeCorrect, MartsTrainOnCommitted, MartsReconcile,
     MartsKeepContent, PTL

-----------------------------------------------------------------------------
(* The winner *)

Selected(v) ==
    \E sheet \in Sheets :
        /\ EligibleCandidates(sheet.metrics, MinPrecision) # {}
        /\ v = [sheet |-> sheet, winner |->
             SelectCandidate(Kinds, sheet.metrics, Seconds, MinPrecision, RecallTolerance, AucTolerance)]

VerdictInv == verdict = None \/ Selected(verdict)

LEMMA VerdictInvNext == VerdictInv /\ [ExperimentNext]_allVars => VerdictInv'
<1> SUFFICES ASSUME VerdictInv, [ExperimentNext]_allVars PROVE VerdictInv'
  OBVIOUS
<1>1. ASSUME UNCHANGED verdict PROVE VerdictInv'
  BY <1>1 DEF VerdictInv, Selected
<1>2. CASE Compare
  <2>1. CASE End
    BY <1>1, <2>1 DEF End
  <2>2. CASE \E sheet \in Sheets :
            /\ EligibleCandidates(sheet.metrics, MinPrecision) # {}
            /\ verdict' = [sheet |-> sheet, winner |->
                 SelectCandidate(Kinds, sheet.metrics, Seconds, MinPrecision, RecallTolerance, AucTolerance)]
    <3>1. Selected(verdict')
      BY <2>2 DEF Selected
    <3> QED BY <3>1 DEF VerdictInv, Selected
  <2> QED BY <1>2, <2>1, <2>2 DEF Compare
<1>3. CASE UNCHANGED scriptVars
  BY <1>1, <1>3 DEF scriptVars
<1>4. CASE Launch
  BY <1>1, <1>4 DEF Launch, Goto
<1>5. CASE Build
  BY <1>1, <1>5 DEF Build, Goto, End, scriptVars
<1>6. CASE Validate \/ RunCandidate \/ Abort
  BY <1>1, <1>6 DEF Validate, RunCandidate, Abort, Goto, End
<1> QED BY <1>2, <1>3, <1>4, <1>5, <1>6 DEF ExperimentNext, allVars, scriptVars

LEMMA SelectedMetrics ==
    ASSUME NEW sheet \in Sheets PROVE Metric(sheet.metrics, Candidate)
<1>1. /\ sheet.scores \in Scores
      /\ sheet.metrics = [d \in Candidate |->
             ValidationMetrics(Truth, sheet.scores[d], MinPrecision)]
  BY DEF Sheets
<1>2. ASSUME NEW c \in Candidate
      PROVE  /\ sheet.metrics[c].precision \in 0..Scale /\ sheet.metrics[c].recall \in 0..Scale
             /\ sheet.metrics[c].pr_auc \in 0..Scale /\ sheet.metrics[c].alert_rate \in 0..Scale
  <2> DEFINE score == sheet.scores[c]
             t == sheet.metrics[c].threshold
  <2>1. /\ sheet.metrics[c].precision = Rate(TP(Truth, score, t), Cardinality(Alerts(score, t)))
        /\ sheet.metrics[c].recall = Rate(TP(Truth, score, t), Cardinality(Frauds(Truth)))
        /\ sheet.metrics[c].alert_rate = Rate(Cardinality(Alerts(score, t)), Cardinality(DOMAIN score))
    BY <1>1 DEF ValidationMetrics
  <2>2. IsFiniteSet(DOMAIN Truth) /\ score \in [DOMAIN Truth -> Nat]
    BY <1>1, ExperimentAssumption
  <2> HIDE DEF score, t
  <2>3. /\ TP(Truth, score, t) \in Nat
        /\ Cardinality(Frauds(Truth)) \in Nat /\ TP(Truth, score, t) <= Cardinality(Frauds(Truth))
        /\ Cardinality(Alerts(score, t)) \in Nat
        /\ TP(Truth, score, t) <= Cardinality(Alerts(score, t))
        /\ Cardinality(DOMAIN score) \in Nat
        /\ Cardinality(Alerts(score, t)) <= Cardinality(DOMAIN score)
    BY <2>2, CountsAreNumbers
  <2>4. sheet.metrics[c].pr_auc \in 0..Scale
    BY SheetAssumption
  <2> QED BY <2>1, <2>3, <2>4, RateIsPart
<1> QED BY <1>1, <1>2 DEF Metric

LEMMA SelectedUnbeaten ==
    ASSUME NEW v, Selected(v), NEW m, m = v.sheet.metrics, NEW w, w = v.winner
    PROVE  /\ v.sheet \in Sheets /\ w \in Candidate
           /\ w \in EligibleCandidates(m, MinPrecision)
           /\ \A c \in EligibleCandidates(m, MinPrecision) :
                 /\ m[c].recall <= m[w].recall + RecallTolerance
                 /\ m[c].recall >= m[w].recall => m[c].pr_auc <= m[w].pr_auc + AucTolerance
                 /\ m[c].recall >= m[w].recall /\ m[c].pr_auc >= m[w].pr_auc =>
                       /\ Kinds[w] = "xgboost" => Kinds[c] = "xgboost"
                       /\ Kinds[w] = Kinds[c] => m[c].alert_rate >= m[w].alert_rate
<1>1. PICK sheet \in Sheets :
          /\ EligibleCandidates(sheet.metrics, MinPrecision) # {}
          /\ v = [sheet |-> sheet, winner |->
               SelectCandidate(Kinds, sheet.metrics, Seconds, MinPrecision, RecallTolerance, AucTolerance)]
  BY DEF Selected
<1>2. /\ v.sheet = sheet /\ m = sheet.metrics /\ EligibleCandidates(m, MinPrecision) # {}
      /\ w = SelectCandidate(Kinds, m, Seconds, MinPrecision, RecallTolerance, AucTolerance)
  BY <1>1
<1>3. Metric(m, Candidate)
  BY <1>2, SelectedMetrics
<1>4. /\ Candidate \in SUBSET Nat /\ Seconds \in [Candidate -> Nat]
      /\ Kinds \in [Candidate -> {"logistic_regression", "xgboost"}]
      /\ RecallTolerance \in Nat /\ AucTolerance \in Nat
  BY ExperimentAssumption, SheetAssumption DEF Candidate
<1>5. DOMAIN m = Candidate
  BY <1>3 DEF Metric
<1>6. EligibleCandidates(m, MinPrecision) \subseteq Candidate
  BY <1>5 DEF EligibleCandidates
<1> QED BY <1>2, <1>3, <1>4, <1>6, SelectionUnbeaten

LEMMA VerdictUnbeaten == VerdictInv => WinnerUnbeaten
<1> SUFFICES ASSUME verdict # None, Selected(verdict) PROVE WinnerUnbeaten
  BY DEF VerdictInv, WinnerUnbeaten
<1>1. verdict.sheet.metrics[verdict.winner].precision >= MinPrecision
  BY SelectedUnbeaten DEF EligibleCandidates
<1> QED BY <1>1, SelectedUnbeaten DEF WinnerUnbeaten

LEMMA VerdictInvInit == ExperimentInit => VerdictInv
  BY DEF ExperimentInit, VerdictInv

(* No candidate that is precise enough beats the winner by more than the tolerances the
   notebook declares, for any number of candidates and whatever their models score. *)
THEOREM WinnerIsUnbeaten == ExperimentSpec => []WinnerUnbeaten
  BY VerdictInvInit, VerdictInvNext, VerdictUnbeaten, PTL DEF ExperimentSpec

(* What the notebook knows of a candidate that has a precise threshold: it is one of
   those it selects from, and recalls as much as that threshold does. *)
LEMMA PreciseCandidate ==
    ASSUME NEW sheet \in Sheets, NEW c \in Candidate, NEW t \in Thresholds(sheet.scores[c]),
           Precise(Truth, sheet.scores[c], MinPrecision, t)
    PROVE  /\ c \in EligibleCandidates(sheet.metrics, MinPrecision)
           /\ sheet.metrics[c].recall =
                 Rate(TP(Truth, sheet.scores[c], sheet.metrics[c].threshold), Cardinality(Frauds(Truth)))
           /\ TP(Truth, sheet.scores[c], t) <=
                 TP(Truth, sheet.scores[c], sheet.metrics[c].threshold)
<1> DEFINE score == sheet.scores[c]
           chosen == SelectThreshold(Truth, score, MinPrecision).threshold
<1>1. /\ sheet.scores \in Scores
      /\ sheet.metrics = [d \in Candidate |->
             ValidationMetrics(Truth, sheet.scores[d], MinPrecision)]
  BY DEF Sheets
<1>2. /\ IsFiniteSet(DOMAIN Truth) /\ score \in [DOMAIN Truth -> Nat]
      /\ MinPrecision \in Nat
  BY <1>1, ExperimentAssumption
<1>3. /\ sheet.metrics[c].threshold = chosen
      /\ sheet.metrics[c].precision = Rate(TP(Truth, score, chosen), Cardinality(Alerts(score, chosen)))
      /\ sheet.metrics[c].recall = Rate(TP(Truth, score, chosen), Cardinality(Frauds(Truth)))
  BY <1>1 DEF ValidationMetrics
<1> HIDE DEF score, chosen
<1>4. /\ chosen \in Thresholds(score)
      /\ Precise(Truth, score, MinPrecision, chosen)
      /\ TP(Truth, score, chosen) >= TP(Truth, score, t)
  BY <1>2, SelectedThreshold DEF score, chosen
<1>5. /\ TP(Truth, score, chosen) \in Nat
      /\ Cardinality(Alerts(score, chosen)) \in Nat \ {0}
      /\ TP(Truth, score, t) \in Nat
  BY <1>2, <1>4, CountsAreNumbers
<1>6. sheet.metrics[c].precision >= MinPrecision
  BY <1>2, <1>3, <1>4, <1>5, RateAtLeast DEF Precise
<1>7. c \in EligibleCandidates(sheet.metrics, MinPrecision)
  BY <1>1, <1>6 DEF EligibleCandidates
<1> QED BY <1>3, <1>4, <1>5, <1>7 DEF score

LEMMA VerdictWastesNoFraud == VerdictInv => NoFraudWasted
<1> SUFFICES ASSUME verdict # None, Selected(verdict), NEW c \in Candidate,
                    NEW t \in Thresholds(verdict.sheet.scores[c]),
                    Precise(Truth, verdict.sheet.scores[c], MinPrecision, t)
             PROVE  Rate(TP(Truth, verdict.sheet.scores[c], t)
                           - TP(Truth, verdict.sheet.scores[verdict.winner],
                                verdict.sheet.metrics[verdict.winner].threshold),
                         Cardinality(Frauds(Truth))) <= RecallTolerance
  BY DEF VerdictInv, NoFraudWasted
<1> DEFINE sheet == verdict.sheet
           w == verdict.winner
           P == Cardinality(Frauds(Truth))
           x == TP(Truth, sheet.scores[c], t)
           y == TP(Truth, sheet.scores[w], sheet.metrics[w].threshold)
           z == TP(Truth, sheet.scores[c], sheet.metrics[c].threshold)
<1>1. sheet \in Sheets /\ w \in Candidate
  BY SelectedUnbeaten
<1>2. /\ c \in EligibleCandidates(sheet.metrics, MinPrecision)
      /\ sheet.metrics[c].recall = Rate(z, P) /\ x <= z
  BY <1>1, PreciseCandidate
<1>3. sheet.metrics[c].recall <= sheet.metrics[w].recall + RecallTolerance
  BY <1>2, SelectedUnbeaten
<1>4. sheet.metrics[w].recall = Rate(y, P)
  BY <1>1 DEF Sheets, ValidationMetrics
<1>5. x \in Nat /\ y \in Nat /\ z \in Nat /\ P \in Nat /\ RecallTolerance \in Nat
  <2>1. sheet.scores \in Scores
    BY <1>1 DEF Sheets
  <2>2. IsFiniteSet(DOMAIN Truth) /\ \A d \in Candidate : sheet.scores[d] \in [DOMAIN Truth -> Nat]
    BY <2>1, ExperimentAssumption
  <2>3. c \in Candidate /\ sheet.scores[c] \in [DOMAIN Truth -> Nat]
        /\ sheet.scores[w] \in [DOMAIN Truth -> Nat]
    BY <1>1, <2>2
  <2>4. P \in Nat /\ x \in 0..P /\ y \in 0..P /\ z \in 0..P
    <3> HIDE DEF sheet, w
    <3> QED BY <2>2, <2>3, CountsAreNumbers
  <2> QED BY <2>4, ExperimentAssumption
<1> HIDE DEF sheet, w, P, x, y, z
<1>6. Rate(x - y, P) <= Rate(z, P) - Rate(y, P)
  BY <1>2, <1>5, RateGap
<1>7. Rate(x - y, P) \in Int /\ Rate(y, P) \in Int /\ Rate(z, P) \in Int
  BY <1>5, RateIsNumber
<1>8. Rate(x - y, P) <= RecallTolerance
  BY <1>2, <1>3, <1>4, <1>5, <1>6, <1>7
<1> QED BY <1>8 DEF sheet, w, P, x, y

(* Two selections in a row, of thresholds and of a candidate, lose no more frauds than
   the tolerance of the second: no precise threshold of any candidate catches more. *)
THEOREM WinnerWastesNoFraud == ExperimentSpec => []NoFraudWasted
  BY VerdictInvInit, VerdictInvNext, VerdictWastesNoFraud, PTL DEF ExperimentSpec
=============================================================================
