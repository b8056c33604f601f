--------------------------- MODULE ProducerProofs ---------------------------
(***************************************************************************)
(* Proofs about Producer: however often a file is replayed, interrupted or *)
(* skipped into, each row has one transaction, and a replay that ends      *)
(* without an error has delivered what it published.                       *)
(***************************************************************************)
EXTENDS Producer, FiniteSetTheorems, TLAPS

(* The two messages of a row, as a reader of the file would number its steps. *)
Before(r, s) == {q \in 1..r : StepOf[q] = s}

Earlier(r) == Cardinality(Before(r - 1, StepOf[r]))

TransactionOf(r) ==
    [topic |-> "transaction", row |-> r, time |-> EventTime(StepOf[r], Earlier(r))]

LabelOf(r) == [topic |-> "label", row |-> r]

AllMessages == {TransactionOf(r) : r \in 1..Rows} \cup {LabelOf(r) : r \in 1..Rows}

-----------------------------------------------------------------------------
(* The inductive invariant, in parts. *)

Active == pc \notin {"stopped", "interrupted"}

Numbers ==
    /\ pc \in {"stopped", "read", "transaction", "label", "poll", "flush", "interrupted"}
    /\ row \in 0..Rows
    /\ skip \in Nat /\ limit \in Nat \cup {NoLimit}
    /\ published \in Nat
    /\ session \in 0..MaxSessions
    /\ outcome \in {"none", "done", "failed", "timeout", "interrupted", "died"}
    /\ outcome = "done" => pc = "stopped"

Held ==
    /\ stats \in [delivered : Nat, failed : Nat]
    /\ queue \subseteq AllMessages
    /\ reports \subseteq AllMessages \X BOOLEAN
    /\ \A entry \in log : entry[1] \in 0..session /\ entry[2] \in AllMessages
    /\ pc = "stopped" => queue = {} /\ reports = {}

(* The step of a row has been counted for every row up to it, the skipped ones too. *)
Numbered == ordinals = [s \in {StepOf[r] : r \in 1..Rows} |-> Cardinality(Before(row, s))]

(* A message is with librdkafka, or has one report. *)
Apart ==
    /\ \A report \in reports : report[1] \notin queue
    /\ \A a, b \in reports : a[1] = b[1] => a = b

(* How far a replay is, and how far it may get. *)
Left == IF skip < Rows THEN Rows - skip ELSE 0

Progress ==
    /\ pc = "read" => published = IF skip < row THEN row - skip ELSE 0
    /\ pc \in {"transaction", "label", "poll"} => skip < row /\ published = row - skip - 1
    /\ Active /\ limit # NoLimit => published <= limit
    /\ pc \in {"transaction", "label", "poll"} /\ limit # NoLimit => published < limit
    /\ pc = "flush" => published = IF limit # NoLimit /\ limit < Left THEN limit ELSE Left

(* What a replay has given to librdkafka, as a set and as a number. *)
Produced ==
    {m \in AllMessages :
        /\ skip < m.row
        /\ \/ m.row <= skip + published
           \/ m.row = row /\ (pc = "poll" \/ (pc = "label" /\ m.topic = "transaction"))}

Counted == InQueue + stats.delivered + stats.failed

Bounded ==
    /\ InQueue <= QueueSize
    /\ Counted <= 2 * Rows
    /\ published <= Rows
    /\ pc # "stopped" => published <= row

Balanced ==
    Active => Counted = 2 * published + (CASE pc = "poll" -> 2 [] pc = "label" -> 1 [] OTHER -> 0)

(* A message that was produced is in the queue or in the log, or it has failed. *)
Accounted ==
    Active =>
        /\ queue \subseteq Produced
        /\ \A report \in reports : report[1] \in Produced
        /\ \A m \in AllMessages : <<session, m>> \in log => m \in Produced
        /\ stats.failed = 0 =>
              \A m \in Produced : m \in queue \/ <<session, m>> \in log \/ <<m, FALSE>> \in reports

ProducerInv ==
    /\ Numbers /\ Held /\ Numbered /\ Apart /\ Progress
    /\ Bounded /\ Balanced /\ Accounted
    /\ DoneMeansDelivered

-----------------------------------------------------------------------------
(* Whole division. *)

LEMMA Quotient ==
    ASSUME NEW a \in Nat, NEW n \in Nat \ {0}
    PROVE  /\ a \div n \in Nat
           /\ (a \div n) * n <= a
           /\ a < (a \div n) * n + n
OBVIOUS

LEMMA ProductMonotonic ==
    ASSUME NEW a \in Nat, NEW b \in Nat, NEW n \in Nat, a <= b
    PROVE  a * n \in Nat /\ a * n <= b * n
OBVIOUS

(* A quotient is the only number that fits. *)
LEMMA QuotientUnique ==
    ASSUME NEW a \in Nat, NEW n \in Nat \ {0}, NEW q \in Nat, q * n <= a, a < q * n + n
    PROVE  a \div n = q
<1> DEFINE p == a \div n
<1>1. p \in Nat /\ p * n <= a /\ a < p * n + n
  BY Quotient
<1> HIDE DEF p
<1>2. CASE p < q
  <2>1. (p + 1) * n <= q * n
    BY <1>1, <1>2, ProductMonotonic
  <2>2. (p + 1) * n = p * n + n
    BY <1>1
  <2>3. p * n \in Nat /\ q * n \in Nat
    BY <1>1, ProductMonotonic
  <2> QED
    BY <1>1, <2>1, <2>2, <2>3
<1>3. CASE q < p
  <2>1. (q + 1) * n <= p * n
    BY <1>1, <1>3, ProductMonotonic
  <2>2. (q + 1) * n = q * n + n
    OBVIOUS
  <2>3. p * n \in Nat /\ q * n \in Nat
    BY <1>1, ProductMonotonic
  <2> QED
    BY <1>1, <2>1, <2>2, <2>3
<1>4. p = q
  BY <1>1, <1>2, <1>3
<1> QED
  BY <1>4 DEF p

LEMMA QuotientMonotonic ==
    ASSUME NEW a \in Nat, NEW b \in Nat, NEW n \in Nat \ {0}, a <= b
    PROVE  a \div n <= b \div n
<1> DEFINE p == a \div n
           q == b \div n
<1>1. /\ p \in Nat /\ p * n <= a /\ a < p * n + n
      /\ q \in Nat /\ q * n <= b /\ b < q * n + n
  BY Quotient
<1> HIDE DEF p, q
<1>2. CASE q < p
  <2>1. (q + 1) * n <= p * n
    BY <1>1, <1>2, ProductMonotonic
  <2>2. (q + 1) * n = q * n + n
    BY <1>1
  <2>3. p * n \in Nat /\ q * n \in Nat
    BY <1>1, ProductMonotonic
  <2> QED
    BY <1>1, <2>1, <2>2, <2>3
<1>3. p <= q
  BY <1>1, <1>2
<1> QED
  BY <1>3 DEF p, q

(* Less than a whole of n parts makes less than a whole. *)
LEMMA QuotientBelow ==
    ASSUME NEW k \in Nat, NEW d \in Nat \ {0}, NEW n \in Nat \ {0}, k < n
    PROVE  (k * d) \div n \in Nat /\ (k * d) \div n < d
<1>1. k * d \in Nat /\ (k + 1) * d <= n * d /\ (k + 1) * d = k * d + d
  BY ProductMonotonic
<1>2. k * d < n * d
  BY <1>1
<1> DEFINE q == (k * d) \div n
<1>3. q \in Nat /\ q * n <= k * d
  BY <1>1, Quotient
<1> HIDE DEF q
<1>4. CASE d <= q
  <2>1. d * n <= q * n
    BY <1>3, <1>4, ProductMonotonic
  <2>2. d * n = n * d /\ q * n \in Nat /\ n * d \in Nat
    BY <1>3, ProductMonotonic
  <2> QED
    BY <1>1, <1>2, <1>3, <2>1, <2>2
<1>5. q < d
  BY <1>3, <1>4
<1> QED
  BY <1>3, <1>5 DEF q

-----------------------------------------------------------------------------
(* The messages of the rows. *)

LEMMA BeforeFinite ==
    ASSUME NEW r \in Int, NEW s
    PROVE  IsFiniteSet(Before(r, s)) /\ Cardinality(Before(r, s)) \in Nat
<1>1. IsFiniteSet(1..r)
  BY FS_Interval
<1>2. IsFiniteSet(Before(r, s))
  BY <1>1, FS_Subset DEF Before
<1> QED
  BY <1>2, FS_CardinalityType

LEMMA BeforeGrows ==
    ASSUME NEW r \in Nat, NEW t \in Int, r <= t, NEW s
    PROVE  Cardinality(Before(r, s)) <= Cardinality(Before(t, s))
<1>1. Before(r, s) \subseteq Before(t, s)
  BY DEF Before
<1> QED
  BY <1>1, BeforeFinite, FS_Subset

LEMMA NextCounted ==
    ASSUME NEW r \in Nat, NEW s
    PROVE  Cardinality(Before(r + 1, s))
              = IF StepOf[r + 1] = s THEN Cardinality(Before(r, s)) + 1
                ELSE Cardinality(Before(r, s))
<1>1. r + 1 \notin Before(r, s) /\ IsFiniteSet(Before(r, s))
  <2>1. r \in Int /\ r + 1 \notin 1..r
    OBVIOUS
  <2> QED
    BY <2>1, BeforeFinite DEF Before
<1>2. CASE StepOf[r + 1] = s
  <2>1. Before(r + 1, s) = Before(r, s) \cup {r + 1}
    BY <1>2 DEF Before
  <2> QED
    BY <1>1, <1>2, <2>1, FS_AddElement
<1>3. CASE StepOf[r + 1] # s
  <2>1. Before(r + 1, s) = Before(r, s)
    BY <1>3 DEF Before
  <2> QED
    BY <1>3, <2>1
<1> QED
  BY <1>2, <1>3

LEMMA EarlierFacts ==
    ASSUME NEW r \in 1..Rows
    PROVE  /\ StepOf[r] \in Nat \ {0}
           /\ Earlier(r) \in Nat
           /\ RowsPerStep(StepOf[r]) \in Nat \ {0}
           /\ Earlier(r) < RowsPerStep(StepOf[r])
           /\ Cardinality(Before(r, StepOf[r])) = Earlier(r) + 1
<1>1. Rows \in Nat /\ StepOf[r] \in Nat \ {0}
  BY ProducerAssumption DEF ProducerAssumption
<1>2. Earlier(r) \in Nat
  BY <1>1, BeforeFinite DEF Earlier
<1>3. Cardinality(Before(r, StepOf[r])) = Earlier(r) + 1
  <2>1. r - 1 \in Nat /\ (r - 1) + 1 = r
    BY <1>1
  <2> QED
    BY <2>1, NextCounted DEF Earlier
<1>4. RowsPerStep(StepOf[r]) = Cardinality(Before(Rows, StepOf[r]))
  BY DEF RowsPerStep, Before
<1>5. Cardinality(Before(r, StepOf[r])) <= Cardinality(Before(Rows, StepOf[r]))
  BY <1>1, BeforeGrows
<1>6. Cardinality(Before(Rows, StepOf[r])) \in Nat
  BY <1>1, BeforeFinite
<1> QED
  BY <1>1, <1>2, <1>3, <1>4, <1>5, <1>6

LEMMA MessageFacts ==
    ASSUME NEW m \in AllMessages
    PROVE  /\ m.row \in 1..Rows
           /\ m.topic \in {"transaction", "label"}
           /\ m.topic = "transaction" => m = TransactionOf(m.row)
           /\ m.topic = "label" => m = LabelOf(m.row)
BY DEF AllMessages, TransactionOf, LabelOf

LEMMA RowMessages ==
    ASSUME NEW r \in 1..Rows
    PROVE  /\ TransactionOf(r) \in AllMessages /\ LabelOf(r) \in AllMessages
           /\ TransactionOf(r).row = r /\ LabelOf(r).row = r
           /\ TransactionOf(r).topic = "transaction" /\ LabelOf(r).topic = "label"
BY DEF AllMessages, TransactionOf, LabelOf

LEMMA MessagesFinite ==
    /\ IsFiniteSet(AllMessages)
    /\ \A S : S \subseteq AllMessages \X BOOLEAN => IsFiniteSet(S)
<1>1. IsFiniteSet(1..Rows)
  BY ProducerAssumption, FS_Interval DEF ProducerAssumption
<1>2. IsFiniteSet({TransactionOf(r) : r \in 1..Rows}) /\ IsFiniteSet({LabelOf(r) : r \in 1..Rows})
  <2> DEFINE T == [r \in 1..Rows |-> TransactionOf(r)]
             L == [r \in 1..Rows |-> LabelOf(r)]
  <2>1. /\ T \in Surjection(1..Rows, {TransactionOf(r) : r \in 1..Rows})
        /\ L \in Surjection(1..Rows, {LabelOf(r) : r \in 1..Rows})
    BY DEF Surjection
  <2> HIDE DEF T, L
  <2> QED
    BY <1>1, <2>1, FS_Surjection
<1>3. IsFiniteSet(AllMessages)
  BY <1>2, FS_Union DEF AllMessages
<1>4. IsFiniteSet(AllMessages \X BOOLEAN)
  <2>1. IsFiniteSet(BOOLEAN)
    <3>1. BOOLEAN = {TRUE, FALSE}
      OBVIOUS
    <3>2. IsFiniteSet({FALSE}) /\ IsFiniteSet({TRUE} \cup {FALSE})
      BY FS_EmptySet, FS_AddElement, FS_Singleton
    <3> QED
      BY <3>1, <3>2
  <2> QED
    BY <1>3, <2>1, FS_Product
<1> QED
  BY <1>3, <1>4, FS_Subset

(* A row has one event time, in the hour of its step, in the order of the file. *)
LEMMA TimeInHour ==
    ASSUME NEW r \in 1..Rows
    PROVE  /\ TransactionOf(r).time \in Nat
           /\ TransactionOf(r).time \div StepDuration = StepOf[r] - 1
<1>1. StepDuration \in Nat \ {0}
  BY ProducerAssumption DEF ProducerAssumption
<1> DEFINE x == (Earlier(r) * StepDuration) \div RowsPerStep(StepOf[r])
           h == StepOf[r] - 1
<1>2. x \in Nat /\ x < StepDuration
  BY <1>1, EarlierFacts, QuotientBelow
<1>3. h \in Nat
  BY EarlierFacts
<1>4. TransactionOf(r).time = h * StepDuration + x
  BY DEF TransactionOf, EventTime
<1> HIDE DEF x, h
<1>5. h * StepDuration \in Nat
  BY <1>1, <1>3, ProductMonotonic
<1>6. /\ h * StepDuration + x \in Nat
      /\ h * StepDuration <= h * StepDuration + x
      /\ h * StepDuration + x < h * StepDuration + StepDuration
  BY <1>1, <1>2, <1>5
<1>7. (h * StepDuration + x) \div StepDuration = h
  BY <1>1, <1>3, <1>6, QuotientUnique
<1> QED
  BY <1>4, <1>6, <1>7 DEF h

LEMMA TimeInOrder ==
    ASSUME NEW r \in 1..Rows, NEW q \in 1..Rows, r < q, StepOf[r] = StepOf[q]
    PROVE  TransactionOf(r).time <= TransactionOf(q).time
<1> DEFINE s == StepOf[r]
           n == RowsPerStep(s)
<1>1. Rows \in Nat /\ StepDuration \in Nat \ {0}
  BY ProducerAssumption DEF ProducerAssumption
<1>2. Earlier(r) \in Nat /\ Earlier(q) \in Nat /\ n \in Nat \ {0} /\ s \in Nat \ {0}
  BY EarlierFacts
<1>3. Earlier(r) <= Earlier(q)
  <2>1. r - 1 \in Nat /\ q - 1 \in Int /\ r - 1 <= q - 1
    BY <1>1
  <2> QED
    BY <2>1, BeforeGrows DEF Earlier
<1> DEFINE x == Earlier(r) * StepDuration
           y == Earlier(q) * StepDuration
<1>4. x \in Nat /\ y \in Nat /\ x <= y
  BY <1>1, <1>2, <1>3, ProductMonotonic
<1>5. /\ TransactionOf(r).time = (s - 1) * StepDuration + x \div n
      /\ TransactionOf(q).time = (s - 1) * StepDuration + y \div n
  BY DEF TransactionOf, EventTime
<1> HIDE DEF x, y, n, s
<1>6. x \div n <= y \div n /\ x \div n \in Nat /\ y \div n \in Nat
  BY <1>2, <1>4, QuotientMonotonic, Quotient
<1>7. (s - 1) * StepDuration \in Nat
  BY <1>1, <1>2, ProductMonotonic
<1> QED
  BY <1>5, <1>6, <1>7

-----------------------------------------------------------------------------
(* The queue and its callbacks. *)

LEMMA QueueTypes ==
    ASSUME Held
    PROVE  /\ IsFiniteSet(queue) /\ IsFiniteSet(reports)
           /\ Cardinality(queue) \in Nat /\ Cardinality(reports) \in Nat
           /\ stats.delivered \in Nat /\ stats.failed \in Nat
           /\ InQueue \in Nat /\ Counted \in Nat
<1>1. IsFiniteSet(queue) /\ IsFiniteSet(reports)
  BY MessagesFinite, FS_Subset DEF Held
<1>2. Cardinality(queue) \in Nat /\ Cardinality(reports) \in Nat
  BY <1>1, FS_CardinalityType
<1>3. stats.delivered \in Nat /\ stats.failed \in Nat
  BY DEF Held
<1> QED
  BY <1>1, <1>2, <1>3 DEF InQueue, Counted

LEMMA EmptyQueue == Cardinality({}) = 0
BY FS_EmptySet

LEMMA Callbacks ==
    ASSUME Held, RunCallbacks
    PROVE  /\ stats' \in [delivered : Nat, failed : Nat]
           /\ stats'.delivered + stats'.failed
                 = stats.delivered + stats.failed + Cardinality(reports)
           /\ stats'.failed = 0 => stats.failed = 0 /\ \A m : <<m, FALSE>> \notin reports
           /\ reports' = {} /\ Cardinality(reports') = 0
<1> DEFINE good == {r \in reports : r[2]}
           bad == {r \in reports : ~r[2]}
<1>1. IsFiniteSet(good) /\ IsFiniteSet(bad)
  BY QueueTypes, FS_Subset
<1>2. Cardinality(good) \in Nat /\ Cardinality(bad) \in Nat
  BY <1>1, FS_CardinalityType
<1>3. Cardinality(reports) = Cardinality(good) + Cardinality(bad)
  <2>1. reports = good \cup bad /\ good \cap bad = {}
    OBVIOUS
  <2> HIDE DEF good, bad
  <2>2. Cardinality(good \cup bad) = Cardinality(good) + Cardinality(bad) - Cardinality(good \cap bad)
    BY <1>1, FS_Union
  <2>3. Cardinality(good \cap bad) = 0
    BY <2>1, EmptyQueue
  <2>4. Cardinality(reports) = Cardinality(good \cup bad)
    BY <2>1
  <2> QED
    BY <1>2, <2>2, <2>3, <2>4
<1>4. stats' = [delivered |-> stats.delivered + Cardinality(good),
               failed    |-> stats.failed + Cardinality(bad)]
  BY DEF RunCallbacks
<1>5. ASSUME NEW m, <<m, FALSE>> \in reports PROVE Cardinality(bad) # 0
  <2>1. <<m, FALSE>> \in bad
    BY <1>5
  <2> QED
    BY <1>1, <2>1, FS_EmptySet
<1> HIDE DEF good, bad
<1>6. stats.delivered \in Nat /\ stats.failed \in Nat
  BY QueueTypes
<1>7. /\ stats'.delivered = stats.delivered + Cardinality(good)
      /\ stats'.failed = stats.failed + Cardinality(bad)
      /\ stats' \in [delivered : Nat, failed : Nat]
  BY <1>2, <1>4, <1>6
<1>8. stats'.delivered + stats'.failed = stats.delivered + stats.failed + Cardinality(reports)
  BY <1>2, <1>3, <1>6, <1>7
<1>9. stats'.failed = 0 => stats.failed = 0 /\ Cardinality(bad) = 0
  BY <1>2, <1>6, <1>7
<1>10. reports' = {} /\ Cardinality(reports') = 0
  BY EmptyQueue DEF RunCallbacks
<1> QED
  BY <1>5, <1>7, <1>8, <1>9, <1>10

LEMMA RowsOfStep ==
    ASSUME Numbered, row \in 1..Rows
    PROVE  Transaction = TransactionOf(row) /\ Label = LabelOf(row)
<1>1. ordinals[StepOf[row]] = Earlier(row) + 1
  BY EarlierFacts DEF Numbered
<1>2. ordinals[StepOf[row]] - 1 = Earlier(row)
  BY <1>1, EarlierFacts
<1> QED
  BY <1>2 DEF Transaction, TransactionOf, Label, LabelOf

LEMMA NoRowsNumbered == NoRows = [s \in {StepOf[r] : r \in 1..Rows} |-> Cardinality(Before(0, s))]
<1>1. \A s : Before(0, s) = {}
  BY DEF Before
<1> QED
  BY <1>1, EmptyQueue DEF NoRows

LEMMA Constants ==
    /\ Rows \in Nat /\ MaxSessions \in Nat /\ QueueSize \in Nat /\ NoLimit \notin Nat
    /\ \A s \in SkipRows : s \in Nat
    /\ \A n \in MaxRecords : n \in Nat \/ n = NoLimit
BY ProducerAssumption DEF ProducerAssumption

(* The types of the counters, one by one. *)
LEMMA Ranges ==
    ASSUME Numbers
    PROVE  /\ row \in Nat /\ row <= Rows
           /\ skip \in Nat /\ published \in Nat
           /\ limit # NoLimit => limit \in Nat
           /\ session \in Nat /\ session <= MaxSessions
<1>1. row \in 0..Rows /\ session \in 0..MaxSessions
  BY DEF Numbers
<1>2. skip \in Nat /\ published \in Nat /\ (limit # NoLimit => limit \in Nat)
  BY DEF Numbers
<1> QED
  BY <1>1, <1>2, Constants

LEMMA Running ==
    ASSUME Numbers, pc # "stopped", outcome' = outcome
    PROVE  outcome' # "done" /\ DoneMeansDelivered'
BY DEF Numbers, DoneMeansDelivered

-----------------------------------------------------------------------------
(* Every step keeps the invariant. *)

LEMMA Initially == Init => ProducerInv
<1> SUFFICES ASSUME Init PROVE ProducerInv
  OBVIOUS
<1> USE Constants
<1>1. Numbers /\ Held
  BY DEF Init, Numbers, Held, NoStats
<1>2. Numbered
  BY NoRowsNumbered DEF Init, Numbered
<1>3. Apart /\ Progress /\ Balanced /\ Accounted
  BY DEF Init, Apart, Progress, Balanced, Accounted, Active
<1>4. Counted = 0 /\ InQueue = 0
  BY EmptyQueue DEF Init, Counted, InQueue, NoStats
<1>5. Bounded
  BY <1>4 DEF Init, Bounded
<1>6. DoneMeansDelivered
  BY DEF Init, DoneMeansDelivered
<1> QED
  BY <1>1, <1>2, <1>3, <1>5, <1>6 DEF ProducerInv

LEMMA StartKeeps ==
    ASSUME ProducerInv, NEW s \in SkipRows, NEW n \in MaxRecords, StartReplay(s, n)
    PROVE  ProducerInv'
<1> USE Constants
<1>0. /\ session \in Nat /\ session < MaxSessions /\ session' = session + 1
      /\ log' = log /\ stats' = NoStats
      /\ skip' = s /\ limit' = n /\ row' = 0 /\ published' = 0
      /\ queue' = {} /\ reports' = {} /\ pc' = "read" /\ outcome' = "none"
  BY Ranges DEF ProducerInv, StartReplay
<1>1. Numbers' /\ Held'
  <2>1. Numbers'
    BY <1>0 DEF Numbers
  <2>2. \A entry \in log : entry[1] \in 0..session /\ entry[2] \in AllMessages
    BY DEF ProducerInv, Held
  <2>3. \A entry \in log' : entry[1] \in 0..session' /\ entry[2] \in AllMessages
    BY <1>0, <2>2
  <2>4. stats' \in [delivered : Nat, failed : Nat]
    BY <1>0 DEF NoStats
  <2> QED
    BY <1>0, <2>1, <2>3, <2>4 DEF Held
<1>2. Numbered'
  BY NoRowsNumbered DEF StartReplay, Numbered
<1>3. Counted' = 0 /\ InQueue' = 0
  BY EmptyQueue DEF StartReplay, Counted, InQueue, NoStats
<1>4. Apart' /\ Progress' /\ Balanced' /\ Bounded'
  BY <1>3 DEF StartReplay, Apart, Progress, Balanced, Bounded, Active
<1>5. Accounted'
  <2>1. \A m \in AllMessages : <<session', m>> \notin log'
    BY <1>0 DEF ProducerInv, Held
  <2>2. Produced' = {}
    BY MessageFacts DEF StartReplay, Produced
  <2> QED
    BY <2>1, <2>2 DEF StartReplay, Accounted
<1>6. DoneMeansDelivered'
  BY DEF StartReplay, DoneMeansDelivered
<1> QED
  BY <1>1, <1>2, <1>4, <1>5, <1>6 DEF ProducerInv

LEMMA ReadKeeps ==
    ASSUME ProducerInv, ReadRow
    PROVE  ProducerInv'
<1> USE Constants
<1>0. /\ pc = "read" /\ row < Rows /\ row' = row + 1
      /\ pc' \in {"read", "flush", "transaction"}
      /\ UNCHANGED <<skip, limit, published, queue, reports, stats, log, session, outcome>>
  BY DEF ReadRow, arguments
<1> USE Ranges DEF ProducerInv
<1>1. Numbers' /\ Held'
  <2>1. row' \in 0..Rows
    BY <1>0
  <2> QED
    BY <1>0, <2>1 DEF Numbers, Held
<1>2. Numbered'
  <2>1. row \in Nat /\ DOMAIN ordinals = {StepOf[r] : r \in 1..Rows}
    BY DEF Numbered
  <2>2. ordinals' = [ordinals EXCEPT ![StepOf[row + 1]] = @ + 1]
    BY <1>0 DEF ReadRow
  <2>3. \A s \in {StepOf[r] : r \in 1..Rows} :
          Cardinality(Before(row + 1, s))
            = IF StepOf[row + 1] = s THEN Cardinality(Before(row, s)) + 1
              ELSE Cardinality(Before(row, s))
    BY <2>1, NextCounted
  <2> QED
    BY <1>0, <2>1, <2>2, <2>3 DEF ProducerInv, Numbered
<1>3. InQueue' = InQueue /\ Counted' = Counted
  BY <1>0 DEF InQueue, Counted
<1>4. Apart' /\ Balanced'
  BY <1>0, <1>3 DEF ProducerInv, Apart, Balanced, Active
<1>5. Bounded'
  BY <1>0, <1>3 DEF Bounded
<1>6. Progress'
  <2>1. /\ row \in Nat /\ skip \in Nat /\ published \in Nat
        /\ limit # NoLimit => limit \in Nat /\ published <= limit
        /\ published = IF skip < row THEN row - skip ELSE 0
    BY <1>0 DEF Progress, Active
  <2>2. CASE row + 1 <= skip /\ pc' = "read"
    BY <1>0, <2>1, <2>2 DEF Progress, Active
  <2>3. CASE skip < row + 1 /\ limit # NoLimit /\ published >= limit /\ pc' = "flush"
    BY <1>0, <2>1, <2>3 DEF Progress, Active, Left
  <2>4. CASE skip < row + 1 /\ ~(limit # NoLimit /\ published >= limit) /\ pc' = "transaction"
    BY <1>0, <2>1, <2>4 DEF Progress, Active
  <2> QED
    BY <1>0, <2>1, <2>2, <2>3, <2>4 DEF ReadRow
<1>7. Accounted'
  <2>1. Produced' = Produced
    BY <1>0 DEF Produced
  <2> QED
    BY <1>0, <2>1 DEF ProducerInv, Accounted, Active
<1>8. DoneMeansDelivered'
  BY <1>0, Running DEF ProducerInv
<1> QED
  BY <1>1, <1>2, <1>4, <1>5, <1>6, <1>7, <1>8 DEF ProducerInv

LEMMA EndOfFileKeeps ==
    ASSUME ProducerInv, EndOfFile
    PROVE  ProducerInv'
<1> USE Constants
<1>0. /\ pc = "read" /\ row = Rows /\ pc' = "flush"
      /\ UNCHANGED <<skip, limit, row, ordinals, published, queue, reports, stats, log, session,
                     outcome>>
  BY DEF EndOfFile, arguments
<1>1. Numbers' /\ Held' /\ Numbered'
  BY <1>0 DEF ProducerInv, Numbers, Held, Numbered
<1>2. InQueue' = InQueue /\ Counted' = Counted
  BY <1>0 DEF InQueue, Counted
<1>3. Apart' /\ Balanced' /\ Bounded'
  BY <1>0, <1>2 DEF ProducerInv, Apart, Balanced, Bounded, Active
<1>4. Progress'
  BY <1>0, Ranges DEF ProducerInv, Progress, Active, Left
<1>5. Accounted'
  <2>1. Produced' = Produced
    BY <1>0 DEF Produced
  <2> QED
    BY <1>0, <2>1 DEF ProducerInv, Accounted, Active
<1>6. DoneMeansDelivered'
  BY <1>0, Running DEF ProducerInv
<1> QED
  BY <1>1, <1>3, <1>4, <1>5, <1>6 DEF ProducerInv

(* A message that is produced was not with librdkafka before. *)
LEMMA ProduceKeeps ==
    ASSUME ProducerInv, NEW message \in AllMessages, message.row = row, NEW next,
           \/ pc = "transaction" /\ next = "label" /\ message.topic = "transaction"
           \/ pc = "label" /\ next = "poll" /\ message.topic = "label",
           Produce(message, next)
    PROVE  ProducerInv'
<1> USE Constants, Ranges DEF ProducerInv
<1>0. /\ InQueue < QueueSize /\ queue' = queue \cup {message} /\ pc' = next
      /\ UNCHANGED <<skip, limit, row, ordinals, published, reports, stats, log, session, outcome>>
  BY DEF Produce, arguments
<1>1. skip < row /\ published = row - skip - 1
  BY DEF Progress
<1>2. /\ message \notin Produced
      /\ Produced' = Produced \cup {message}
  <2>1. message \notin Produced
    BY <1>1 DEF Produced
  <2>2. ASSUME NEW m \in AllMessages, m.row = row, m.topic = message.topic PROVE m = message
    BY <2>2, MessageFacts
  <2>3. \A m \in AllMessages : m.row \in Nat /\ m.topic \in {"transaction", "label"}
    BY MessageFacts
  <2>4. skip + published < row
    BY <1>1
  <2>5. CASE pc = "transaction" /\ next = "label" /\ message.topic = "transaction"
    <3>1. Produced = {m \in AllMessages : skip < m.row /\ m.row <= skip + published}
      BY <2>5 DEF Produced
    <3>2. Produced' = {m \in AllMessages : skip < m.row /\ (m.row <= skip + published
                          \/ (m.row = row /\ m.topic = "transaction"))}
      BY <1>0, <2>5 DEF Produced
    <3> QED
      BY <1>1, <2>2, <2>5, <3>1, <3>2
  <2>6. CASE pc = "label" /\ next = "poll" /\ message.topic = "label"
    <3>1. Produced = {m \in AllMessages : skip < m.row /\ (m.row <= skip + published
                          \/ (m.row = row /\ m.topic = "transaction"))}
      BY <2>6 DEF Produced
    <3>2. Produced' = {m \in AllMessages : skip < m.row /\ (m.row <= skip + published
                          \/ m.row = row)}
      BY <1>0, <2>6 DEF Produced
    <3> QED
      BY <1>1, <2>2, <2>3, <2>6, <3>1, <3>2
  <2> QED
    BY <2>1, <2>5, <2>6
<1>3. Active /\ Active'
  BY <1>0 DEF Active
<1>4. message \notin queue /\ \A report \in reports : report[1] # message
  BY <1>2, <1>3 DEF Accounted
<1>5. Numbers' /\ Held' /\ Numbered'
  <2>1. pc \in {"transaction", "label"} /\ pc' \in {"label", "poll"}
    BY <1>0
  <2>2. Numbers'
    BY <1>0, <2>1 DEF Numbers
  <2>3. Held' /\ Numbered'
    BY <1>0, <2>1 DEF Held, Numbered
  <2> QED
    BY <2>2, <2>3
<1>6. /\ InQueue' = InQueue + 1 /\ Counted' = Counted + 1
      /\ InQueue \in Nat /\ Counted \in Nat
  <2>1. Cardinality(queue') = Cardinality(queue) + 1
    BY <1>0, <1>4, QueueTypes, FS_AddElement
  <2> QED
    BY <1>0, <2>1, QueueTypes DEF InQueue, Counted
<1>7. Apart'
  BY <1>0, <1>4 DEF Apart
<1>8. Progress'
  BY <1>0 DEF Progress, Active
<1>9. Balanced'
  BY <1>0, <1>3, <1>6 DEF Balanced
<1>10. Bounded'
  <2>1. Counted' <= 2 * published + 2
    BY <1>0, <1>3, <1>6 DEF Balanced
  <2>2. published + 1 <= Rows
    BY <1>1
  <2> QED
    BY <1>0, <1>6, <2>1, <2>2 DEF Bounded
<1>11. Accounted'
  BY <1>0, <1>2, <1>3 DEF Accounted
<1>12. DoneMeansDelivered'
  BY <1>0, Running
<1> QED
  BY <1>5, <1>7, <1>8, <1>9, <1>10, <1>11, <1>12

LEMMA ProducesKeep ==
    ASSUME ProducerInv, ProduceTransaction \/ ProduceLabel
    PROVE  ProducerInv'
<1> USE Constants, Ranges DEF ProducerInv
<1>1. row \in 1..Rows
  BY DEF Progress, ProduceTransaction, ProduceLabel
<1>2. Transaction = TransactionOf(row) /\ Label = LabelOf(row)
  BY <1>1, RowsOfStep
<1>3. /\ TransactionOf(row) \in AllMessages /\ LabelOf(row) \in AllMessages
      /\ TransactionOf(row).row = row /\ LabelOf(row).row = row
      /\ TransactionOf(row).topic = "transaction" /\ LabelOf(row).topic = "label"
  BY <1>1, RowMessages
<1>4. CASE ProduceTransaction
  BY <1>2, <1>3, <1>4, ProduceKeeps DEF ProduceTransaction
<1>5. CASE ProduceLabel
  BY <1>2, <1>3, <1>5, ProduceKeeps DEF ProduceLabel
<1> QED
  BY <1>4, <1>5

(* Callbacks move what is reported into the statistics. *)
LEMMA CallbacksCount ==
    ASSUME ProducerInv, RunCallbacks, queue' = queue
    PROVE  /\ Counted' = Counted /\ InQueue' <= InQueue
           /\ InQueue \in Nat /\ InQueue' \in Nat /\ Counted \in Nat
           /\ stats' \in [delivered : Nat, failed : Nat]
<1>1. /\ stats' \in [delivered : Nat, failed : Nat]
      /\ stats'.delivered + stats'.failed = stats.delivered + stats.failed + Cardinality(reports)
      /\ Cardinality(reports') = 0
  BY Callbacks DEF ProducerInv
<1>2. stats'.delivered \in Nat /\ stats'.failed \in Nat
  BY <1>1
<1>3. /\ Cardinality(queue) \in Nat /\ Cardinality(reports) \in Nat
      /\ stats.delivered \in Nat /\ stats.failed \in Nat
  BY QueueTypes DEF ProducerInv
<1> QED
  BY <1>1, <1>2, <1>3 DEF InQueue, Counted

LEMMA WaitsKeep ==
    ASSUME ProducerInv, WaitForRoom \/ Flush
    PROVE  ProducerInv'
<1> USE Constants, Ranges DEF ProducerInv
<1>0. /\ pc \in {"transaction", "label", "flush", "interrupted"} /\ RunCallbacks
      /\ UNCHANGED <<pc, skip, limit, row, ordinals, published, queue, log, session, outcome>>
  BY DEF WaitForRoom, Flush, arguments
<1>1. /\ stats' \in [delivered : Nat, failed : Nat]
      /\ stats'.failed = 0 => stats.failed = 0 /\ \A m : <<m, FALSE>> \notin reports
      /\ reports' = {}
  BY <1>0, Callbacks
<1>2. Numbers' /\ Held' /\ Numbered'
  <2>1. Numbers' /\ Numbered'
    BY <1>0 DEF Numbers, Numbered
  <2> QED
    BY <1>0, <1>1, <2>1 DEF Held
<1>3. /\ Counted' = Counted /\ InQueue' <= InQueue
      /\ InQueue \in Nat /\ InQueue' \in Nat /\ Counted \in Nat
  BY <1>0, CallbacksCount
<1>4. Apart'
  BY <1>0, <1>1 DEF Apart
<1>5. Progress'
  BY <1>0 DEF Progress, Active, Left
<1>6. Bounded' /\ Balanced'
  BY <1>0, <1>3 DEF Bounded, Balanced, Active
<1>7. Accounted'
  <2>1. Produced' = Produced
    BY <1>0 DEF Produced
  <2> QED
    BY <1>0, <1>1, <2>1 DEF Accounted, Active
<1>8. DoneMeansDelivered'
  BY <1>0, Running
<1> QED
  BY <1>2, <1>4, <1>5, <1>6, <1>7, <1>8

LEMMA PollKeeps ==
    ASSUME ProducerInv, PollAndCount
    PROVE  ProducerInv'
<1> USE Constants, Ranges DEF ProducerInv
<1>0. /\ pc = "poll" /\ pc' = "read" /\ published' = published + 1 /\ RunCallbacks
      /\ UNCHANGED <<skip, limit, row, ordinals, queue, log, session, outcome>>
  BY DEF PollAndCount, arguments
<1>1. /\ stats' \in [delivered : Nat, failed : Nat]
      /\ stats'.failed = 0 => stats.failed = 0 /\ \A m : <<m, FALSE>> \notin reports
      /\ reports' = {}
  BY <1>0, Callbacks
<1>2. Numbers' /\ Held' /\ Numbered'
  <2>1. published' \in Nat
    BY <1>0
  <2>2. Numbers'
    BY <1>0, <2>1 DEF Numbers
  <2>3. Numbered'
    BY <1>0 DEF Numbered
  <2> QED
    BY <1>0, <1>1, <2>2, <2>3 DEF Held
<1>3. /\ Counted' = Counted /\ InQueue' <= InQueue
      /\ InQueue \in Nat /\ InQueue' \in Nat /\ Counted \in Nat
  BY <1>0, CallbacksCount
<1>4. skip < row /\ published = row - skip - 1
  BY <1>0 DEF Progress
<1>5. Apart'
  BY <1>0, <1>1 DEF Apart
<1>6. Progress'
  BY <1>0, <1>4 DEF Progress, Active
<1>7. Bounded'
  BY <1>0, <1>3, <1>4 DEF Bounded
<1>8. Balanced'
  BY <1>0, <1>3 DEF Balanced, Active
<1>9. Accounted'
  <2>1. Produced' = Produced
    <3>1. \A m \in AllMessages : m.row \in Nat
      BY MessageFacts
    <3>2. Produced = {m \in AllMessages : skip < m.row /\ (m.row <= skip + published \/ m.row = row)}
      BY <1>0 DEF Produced
    <3>3. Produced' = {m \in AllMessages : skip < m.row /\ m.row <= skip + (published + 1)}
      BY <1>0 DEF Produced
    <3> QED
      BY <1>4, <3>1, <3>2, <3>3
  <2> QED
    BY <1>0, <1>1, <2>1 DEF Accounted, Active
<1>10. DoneMeansDelivered'
  BY <1>0, Running
<1> QED
  BY <1>2, <1>5, <1>6, <1>7, <1>8, <1>9, <1>10

(* What librdkafka and the brokers do leaves the program where it is. *)
LEMMA AppendKeeps ==
    ASSUME ProducerInv, NEW message \in queue, Append(message)
    PROVE  ProducerInv'
<1> USE Constants, Ranges DEF ProducerInv
<1>0. /\ pc # "stopped"
      /\ log' = log \cup {<<session, message>>} /\ message \in AllMessages
      /\ UNCHANGED <<pc, skip, limit, row, ordinals, published, queue, reports, stats, session,
                     outcome>>
  BY DEF Append, arguments, Held
<1>1. Numbers' /\ Numbered'
  BY <1>0 DEF Numbers, Numbered
<1>2. Held'
  <2>1. \A entry \in log' : entry[1] \in 0..session /\ entry[2] \in AllMessages
    BY <1>0 DEF Held
  <2> QED
    BY <1>0, <2>1 DEF Held
<1>3. InQueue' = InQueue /\ Counted' = Counted
  BY <1>0 DEF InQueue, Counted
<1>4. Apart' /\ Progress'
  BY <1>0 DEF Apart, Progress, Active, Left
<1>5. Bounded' /\ Balanced'
  BY <1>0, <1>3 DEF Bounded, Balanced, Active
<1>6. Accounted'
  <2>1. Produced' = Produced
    BY <1>0 DEF Produced
  <2> QED
    BY <1>0, <2>1 DEF Accounted, Active
<1>7. DoneMeansDelivered'
  BY <1>0, Running
<1> QED
  BY <1>1, <1>2, <1>4, <1>5, <1>6, <1>7

LEMMA ReportKeeps ==
    ASSUME ProducerInv, NEW message \in queue, NEW delivered \in BOOLEAN,
           delivered => <<session, message>> \in log, Report(message, delivered)
    PROVE  ProducerInv'
<1> USE Constants, Ranges DEF ProducerInv
<1>0. /\ pc # "stopped" /\ message \in AllMessages
      /\ queue' = queue \ {message} /\ reports' = reports \cup {<<message, delivered>>}
      /\ UNCHANGED <<pc, skip, limit, row, ordinals, published, stats, log, session, outcome>>
  BY DEF Report, arguments, Held
<1>1. Numbers' /\ Numbered'
  BY <1>0 DEF Numbers, Numbered
<1>2. Held'
  BY <1>0 DEF Held
<1>3. <<message, delivered>> \notin reports
  BY DEF Apart
<1>4. InQueue' = InQueue /\ Counted' = Counted
  <2>1. Cardinality(queue') = Cardinality(queue) - 1
    BY <1>0, QueueTypes, FS_RemoveElement
  <2>2. Cardinality(reports') = Cardinality(reports) + 1
    BY <1>0, <1>3, QueueTypes, FS_AddElement
  <2> QED
    BY <1>0, <2>1, <2>2, QueueTypes DEF InQueue, Counted
<1>5. Apart'
  BY <1>0 DEF Apart
<1>6. Progress'
  BY <1>0 DEF Progress, Active, Left
<1>7. Bounded' /\ Balanced'
  BY <1>0, <1>4 DEF Bounded, Balanced, Active
<1>8. Accounted'
  <2>1. Produced' = Produced
    BY <1>0 DEF Produced
  <2> SUFFICES ASSUME Active PROVE Accounted'
    BY <1>0 DEF Accounted, Active
  <2>2. queue' \subseteq Produced /\ \A report \in reports' : report[1] \in Produced
    BY <1>0 DEF Accounted
  <2>3. \A m \in AllMessages : <<session, m>> \in log' => m \in Produced
    BY <1>0 DEF Accounted
  <2>4. <<session, message>> \in log \/ <<message, FALSE>> \in reports'
    <3>1. CASE delivered = TRUE
      BY <3>1
    <3>2. CASE delivered = FALSE
      BY <1>0, <3>2
    <3> QED
      BY <3>1, <3>2
  <2>5. stats.failed = 0 =>
          \A m \in Produced : m \in queue' \/ <<session, m>> \in log \/ <<m, FALSE>> \in reports'
    BY <1>0, <2>4 DEF Accounted
  <2> QED
    BY <1>0, <2>1, <2>2, <2>3, <2>5 DEF Accounted, Active
<1>9. DoneMeansDelivered'
  BY <1>0, Running
<1> QED
  BY <1>1, <1>2, <1>5, <1>6, <1>7, <1>8, <1>9

LEMMA InterruptKeeps ==
    ASSUME ProducerInv, Interrupt
    PROVE  ProducerInv'
<1> USE Constants, Ranges DEF ProducerInv
<1>0. /\ pc # "stopped" /\ pc' = "interrupted"
      /\ UNCHANGED <<skip, limit, row, ordinals, published, queue, reports, stats, log, session,
                     outcome>>
  BY DEF Interrupt, arguments
<1>1. Numbers' /\ Held' /\ Numbered'
  BY <1>0 DEF Numbers, Held, Numbered
<1>2. InQueue' = InQueue /\ Counted' = Counted
  BY <1>0 DEF InQueue, Counted
<1>3. Apart' /\ Progress' /\ Balanced' /\ Accounted' /\ Bounded'
  BY <1>0, <1>2 DEF Apart, Progress, Balanced, Accounted, Bounded, Active
<1>4. DoneMeansDelivered'
  BY <1>0, Running
<1> QED
  BY <1>1, <1>3, <1>4

(* A replay that ends without an error: nothing is in the queue, nothing has failed. *)
LEMMA EndDelivers ==
    ASSUME ProducerInv, EndReplay, stats.failed = 0
    PROVE  DoneMeansDelivered'
<1> USE Constants, Ranges DEF ProducerInv
<1>0. /\ pc = "flush" /\ InQueue = 0
      /\ UNCHANGED <<skip, limit, published, stats, log, session>>
  BY DEF EndReplay, Exit, arguments
<1>1. queue = {} /\ reports = {}
  BY <1>0, QueueTypes, FS_EmptySet DEF InQueue
<1>2. published = IF limit # NoLimit /\ limit < Left THEN limit ELSE Left
  BY <1>0 DEF Progress
<1>3. skip + published <= Rows \/ published = 0
  BY <1>2 DEF Left
<1>4. stats.delivered = 2 * published
  <2>1. Counted = 2 * published
    BY <1>0 DEF Balanced, Active
  <2> QED
    BY <1>0, <2>1, QueueTypes DEF Counted
<1>5. \A m \in AllMessages : <<session, m>> \in log <=>
          skip < m.row /\ m.row <= skip + published
  BY <1>0, <1>1 DEF Accounted, Active, Produced
<1>6. \A m : <<session, m>> \in log => m \in AllMessages
  BY DEF Held
<1> DEFINE sent == {r \in 1..Rows : {m \in Messages(r) : <<session, m>> \in log} # {}}
<1>7. \A r \in 1..Rows, m \in AllMessages :
         m.row = r /\ <<session, m>> \in log => m \in Messages(r)
  BY DEF Messages
<1>8. ASSUME NEW r \in (skip + 1)..(skip + published)
      PROVE  /\ r \in 1..Rows
             /\ TransactionOf(r) \in Messages(r) /\ <<session, TransactionOf(r)>> \in log
             /\ LabelOf(r) \in Messages(r) /\ <<session, LabelOf(r)>> \in log
  <2>1. r \in 1..Rows /\ skip < r /\ r <= skip + published
    BY <1>3
  <2> QED
    BY <2>1, <1>5, <1>7, RowMessages
<1>9. sent = (skip + 1)..(skip + published)
  <2>1. ASSUME NEW r \in sent PROVE r \in (skip + 1)..(skip + published)
    <3>1. PICK m \in Messages(r) : <<session, m>> \in log
      OBVIOUS
    <3>2. m.row = r /\ m \in AllMessages /\ r \in Nat
      BY <3>1, <1>6 DEF Messages
    <3> QED
      BY <3>1, <3>2, <1>5
  <2>2. (skip + 1)..(skip + published) \subseteq sent
    BY <1>8
  <2> QED
    BY <2>1, <2>2
<1>10. \A r \in sent, topic \in {"transaction", "label"} :
          \E m \in Messages(r) : m.topic = topic /\ <<session, m>> \in log
  BY <1>8, <1>9, RowMessages
<1>11. \A r : Messages(r)' = Messages(r)
  BY <1>0 DEF Messages
<1> QED
  BY <1>0, <1>2, <1>4, <1>9, <1>10, <1>11 DEF DoneMeansDelivered, Left

LEMMA ExitKeeps ==
    ASSUME ProducerInv, pc # "stopped",
           NEW how \in {"done", "failed", "timeout", "interrupted", "died"}, Exit(how),
           outcome' = "done" => DoneMeansDelivered'
    PROVE  ProducerInv'
<1>1. /\ pc' = "stopped" /\ outcome' = how /\ row' = 0 /\ ordinals' = NoRows
      /\ queue' = {} /\ reports' = {} /\ log' = log /\ session' = session
  BY DEF Exit
<1>2. \/ UNCHANGED <<skip, limit, published, stats>>
      \/ skip' = 0 /\ limit' = NoLimit /\ published' = 0 /\ stats' = NoStats
  BY DEF Exit, arguments
<1>3. Numbers'
  <2>1. session' \in 0..MaxSessions /\ row' \in 0..Rows
    <3>1. session \in 0..MaxSessions
      BY DEF ProducerInv, Numbers
    <3>2. 0 \in 0..Rows
      BY Constants
    <3> QED
      BY <1>1, <3>1, <3>2
  <2>2. skip' \in Nat /\ limit' \in Nat \cup {NoLimit} /\ published' \in Nat
    BY <1>2 DEF ProducerInv, Numbers
  <2> QED
    BY <1>1, <2>1, <2>2 DEF Numbers
<1>4. Held'
  <2>1. stats' \in [delivered : Nat, failed : Nat]
    BY <1>2 DEF ProducerInv, Held, NoStats
  <2>2. \A entry \in log : entry[1] \in 0..session /\ entry[2] \in AllMessages
    BY DEF ProducerInv, Held
  <2> QED
    BY <1>1, <2>1, <2>2 DEF Held
<1>5. Numbered'
  BY <1>1, NoRowsNumbered DEF Numbered
<1>6. Apart' /\ Progress' /\ Balanced' /\ Accounted'
  BY <1>1 DEF Apart, Progress, Balanced, Accounted, Active
<1>7. Bounded'
  <2>1. InQueue' = 0
    <3>1. Cardinality(queue') = 0 /\ Cardinality(reports') = 0
      BY <1>1, EmptyQueue
    <3> QED
      BY <3>1 DEF InQueue
  <2>2. InQueue \in Nat /\ stats.delivered \in Nat /\ stats.failed \in Nat
    BY QueueTypes DEF ProducerInv
  <2>3. Counted' = 0 \/ Counted' = stats.delivered + stats.failed
    BY <1>2, <2>1, <2>2 DEF Counted, NoStats
  <2>4. Counted = InQueue + stats.delivered + stats.failed /\ Counted <= 2 * Rows
    BY DEF ProducerInv, Bounded, Counted
  <2>5. /\ Counted' <= 2 * Rows
        /\ InQueue' <= QueueSize
    BY <2>1, <2>2, <2>3, <2>4, Constants
  <2>6. published' <= Rows
    BY <1>2, Constants DEF ProducerInv, Bounded
  <2> QED
    BY <1>1, <2>5, <2>6 DEF Bounded
<1>8. DoneMeansDelivered'
  BY DEF DoneMeansDelivered
<1> QED
  BY <1>3, <1>4, <1>5, <1>6, <1>7, <1>8 DEF ProducerInv

LEMMA ProducerInvKept == ProducerInv /\ [Next]_vars => ProducerInv'
<1> SUFFICES ASSUME ProducerInv, [Next]_vars
             PROVE  ProducerInv'
  OBVIOUS
<1>1. CASE \E s \in SkipRows, n \in MaxRecords : StartReplay(s, n)
  BY <1>1, StartKeeps
<1>2. CASE ReadRow
  BY <1>2, ReadKeeps
<1>3. CASE EndOfFile
  BY <1>3, EndOfFileKeeps
<1>4. CASE ProduceTransaction \/ ProduceLabel
  BY <1>4, ProducesKeep
<1>5. CASE WaitForRoom \/ Flush
  BY <1>5, WaitsKeep
<1>6. CASE PollAndCount
  BY <1>6, PollKeeps
<1>7. CASE EndReplay
  <2>1. /\ pc # "stopped"
        /\ Exit(IF stats.failed > 0 THEN "failed" ELSE "done")
    BY <1>7 DEF EndReplay
  <2>2. stats.failed \in Nat
    BY QueueTypes DEF ProducerInv
  <2>3. CASE stats.failed > 0
    <3>1. Exit("failed")
      BY <2>1, <2>3
    <3>2. outcome' # "done"
      BY <3>1 DEF Exit
    <3> QED
      BY <2>1, <3>1, <3>2, ExitKeeps
  <2>4. CASE stats.failed = 0
    <3>1. Exit("done")
      BY <2>1, <2>4
    <3>2. DoneMeansDelivered'
      BY <1>7, <2>4, EndDelivers
    <3> QED
      BY <2>1, <3>1, <3>2, ExitKeeps
  <2> QED
    BY <2>2, <2>3, <2>4
<1>8. CASE EndInterrupted \/ FlushTimesOut \/ Die
  <2>1. PICK how \in {"interrupted", "timeout", "died"} : Exit(how)
    BY <1>8 DEF EndInterrupted, FlushTimesOut, Die
  <2>2. pc # "stopped" /\ outcome' # "done"
    BY <1>8, <2>1 DEF EndInterrupted, FlushTimesOut, Die, Exit
  <2> QED
    BY <2>1, <2>2, ExitKeeps
<1>9. CASE Interrupt
  BY <1>9, InterruptKeeps
<1>10. CASE Kafka
  <2>1. CASE \E message \in queue : Append(message)
    BY <2>1, AppendKeeps
  <2>2. CASE \E message \in queue : Acknowledge(message)
    <3>1. PICK message \in queue : Acknowledge(message)
      BY <2>2
    <3>2. <<session, message>> \in log /\ Report(message, TRUE)
      BY <3>1 DEF Acknowledge
    <3> QED
      BY <3>2, ReportKeeps
  <2>3. CASE \E message \in queue : Expire(message)
    BY <2>3, ReportKeeps DEF Expire
  <2> QED
    BY <1>10, <2>1, <2>2, <2>3 DEF Kafka, Answer
<1>11. CASE UNCHANGED vars
  <2>0. UNCHANGED <<pc, skip, limit, row, ordinals, published, queue, reports, stats, log,
                    session, outcome>>
    BY <1>11 DEF vars, arguments
  <2>1. Numbers' /\ Held' /\ Numbered'
    BY <2>0 DEF ProducerInv, Numbers, Held, Numbered
  <2>2. Counted' = Counted /\ InQueue' = InQueue /\ Produced' = Produced
    BY <2>0 DEF Counted, InQueue, Produced
  <2>3. Apart' /\ Progress' /\ Bounded'
    BY <2>0, <2>2 DEF ProducerInv, Apart, Progress, Bounded, Active, Left
  <2>4. Balanced' /\ Accounted'
    BY <2>0, <2>2 DEF ProducerInv, Balanced, Accounted, Active
  <2>5. DoneMeansDelivered'
    <3>1. \A r : Messages(r)' = Messages(r)
      BY <2>0 DEF Messages
    <3> QED
      BY <2>0, <3>1 DEF ProducerInv, DoneMeansDelivered
  <2> QED
    BY <2>1, <2>3, <2>4, <2>5 DEF ProducerInv
<1> QED
  BY <1>1, <1>2, <1>3, <1>4, <1>5, <1>6, <1>7, <1>8, <1>9, <1>10, <1>11 DEF Next, ReplayStep

-----------------------------------------------------------------------------
(* The theorems. *)

(* The invariant holds of every replay. *)
THEOREM ProducerInvAlways == Spec => []ProducerInv
BY Initially, ProducerInvKept, PTL DEF Spec

(* DoneMeansDelivered holds in every instance: a replay that ends without an error has
   put both messages of every row it was asked for into Kafka. *)
THEOREM ProducerDelivers == Spec => []DoneMeansDelivered
<1>1. ProducerInv => DoneMeansDelivered
  BY DEF ProducerInv
<1> QED
  BY <1>1, ProducerInvAlways, PTL

(* TypeOK holds in every instance: the queue has its bound, and no row is numbered
   beyond the rows of its step. *)
THEOREM ProducerTypes == Spec => []TypeOK
<1>1. ASSUME ProducerInv PROVE TypeOK
  <2> USE <1>1, Constants, Ranges DEF ProducerInv
  <2>1. published \in 0..Rows /\ (pc # "stopped" => published <= row)
    BY DEF Bounded
  <2>2. \A s \in DOMAIN ordinals : ordinals[s] \in 0..RowsPerStep(s)
    <3> SUFFICES ASSUME NEW s \in DOMAIN ordinals PROVE ordinals[s] \in 0..RowsPerStep(s)
      OBVIOUS
    <3>1. ordinals[s] = Cardinality(Before(row, s))
      BY DEF Numbered
    <3>2. RowsPerStep(s) = Cardinality(Before(Rows, s))
      BY DEF RowsPerStep, Before
    <3>3. /\ Cardinality(Before(row, s)) <= Cardinality(Before(Rows, s))
          /\ Cardinality(Before(row, s)) \in Nat /\ Cardinality(Before(Rows, s)) \in Nat
      BY BeforeGrows, BeforeFinite
    <3> QED
      BY <3>1, <3>2, <3>3
  <2>3. /\ InQueue \in 0..QueueSize
        /\ stats.delivered \in 0..(2 * Rows) /\ stats.failed \in 0..(2 * Rows)
    <3>1. /\ InQueue \in Nat /\ stats.delivered \in Nat /\ stats.failed \in Nat
          /\ InQueue + stats.delivered + stats.failed <= 2 * Rows
          /\ InQueue <= QueueSize
      BY QueueTypes DEF Bounded, Counted
    <3> QED
      BY <3>1
  <2> QED
    BY <2>1, <2>2, <2>3 DEF TypeOK, Numbers
<1> QED
  BY <1>1, ProducerInvAlways, PTL

(* EventTimeDeterministic holds in every instance: every copy of a transaction has the
   event time its row has, whatever rows a replay skips. *)
THEOREM ProducerEventTimes == Spec => []EventTimeDeterministic
<1>1. ASSUME ProducerInv PROVE EventTimeDeterministic
  <2> SUFFICES ASSUME NEW m1 \in {entry[2] : entry \in log}, m1.topic = "transaction",
                      NEW m2 \in {entry[2] : entry \in log}, m2.topic = "transaction"
               PROVE  /\ m1.row = m2.row => m1 = m2
                      /\ m1.row < m2.row /\ StepOf[m1.row] = StepOf[m2.row] => m1.time <= m2.time
                      /\ m1.time \div StepDuration = StepOf[m1.row] - 1
    BY DEF EventTimeDeterministic
  <2>1. m1 \in AllMessages /\ m2 \in AllMessages
    BY <1>1 DEF ProducerInv, Held
  <2>2. /\ m1.row \in 1..Rows /\ m1 = TransactionOf(m1.row)
        /\ m2.row \in 1..Rows /\ m2 = TransactionOf(m2.row)
    BY <2>1, MessageFacts
  <2>3. ASSUME m1.row < m2.row, StepOf[m1.row] = StepOf[m2.row] PROVE m1.time <= m2.time
    BY <2>2, <2>3, TimeInOrder
  <2>4. m1.time \div StepDuration = StepOf[m1.row] - 1
    BY <2>2, TimeInHour
  <2> QED
    BY <2>2, <2>3, <2>4
<1> QED
  BY <1>1, ProducerInvAlways, PTL
=============================================================================
