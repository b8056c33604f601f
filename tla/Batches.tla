------------------------------ MODULE Batches ------------------------------
(***************************************************************************)
(* What the landing jobs, the ingestion DAG and the raw tables share: the  *)
(* identity and the load order of a batch, and its quality manifest.       *)
(***************************************************************************)
EXTENDS Integers, FiniteSets

CONSTANTS BatchIds,   \* the micro-batch numbers Spark assigns
          Rows,       \* Kafka coordinates: the identity of a landed row
          Keys        \* (event_date, source) pairs a manifest counts by

ASSUME BatchIdsAssumption == BatchIds \subseteq Nat /\ IsFiniteSet(BatchIds)
ASSUME RowsAssumption == IsFiniteSet(Rows)

Pipelines == {"labels", "transactions"}
Batch == Pipelines \X BatchIds

(* sort(key=(pipeline, batch_id)): the pipelines compare as strings. *)
Before(a, b) ==
    \/ a[1] = "labels" /\ b[1] = "transactions"
    \/ a[1] = b[1] /\ a[2] < b[2]

(***************************************************************************)
(* A manifest is the set of its rows, one per (event_date, source) pair.   *)
(***************************************************************************)
ManifestRow == [batch: Batch, key: Keys, input: Int, valid: Int, quarantine: Int]
Manifest == SUBSET ManifestRow

(* sum(count) over the rows, as the number of things they count. A negative count
   adds nothing here; a manifest that has one is refused whatever its totals. *)
Total(m, count) == Cardinality(UNION {{r} \X (1..r[count]) : r \in m})

(* QUALITY_SUMMARY_SQL and the checks load_batch makes of its result. *)
ManifestOk(b, m) ==
    /\ m # {}
    /\ Total(m, "input") # 0
    /\ \A r \in m : /\ r.batch = b
                    /\ r.input = r.valid + r.quarantine
                    /\ r.input >= 0 /\ r.valid >= 0 /\ r.quarantine >= 0
    /\ \A r, s \in m : r.key = s.key => r = s
    /\ Total(m, "input") = Total(m, "valid") + Total(m, "quarantine")

(* The rows a manifest lets in. Without valid rows nothing is read of the valid
   directory, whatever it holds. *)
Accepted(v, m) == IF Total(m, "valid") = 0 THEN {} ELSE v

(* What load_batch checks before it inserts anything. *)
Reconciles(b, v, m) ==
    /\ ManifestOk(b, m)
    /\ Cardinality(Accepted(v, m)) = Total(m, "valid")
=============================================================================
