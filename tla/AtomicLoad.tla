---------------------------- MODULE AtomicLoad ----------------------------
(***************************************************************************)
(* What the ingestion DAG promises its readers, who see a batch through    *)
(* the commit marker of the ledger: a batch appears once, whole, and is    *)
(* never seen to change, although three inserts without a transaction,     *)
(* retries and lost answers are behind it.                                 *)
(***************************************************************************)
CONSTANTS Batch,
          Landings,              \* contents each batch can be published with
          Accepted(_, _),        \* the rows a manifest lets in of a directory
          Reconciles(_, _, _)    \* a directory and a manifest fit each other

VARIABLES marker,     \* batches whose manifest has its _SUCCESS object
          valid,      \* rows of the batch's valid Parquet directory
          manifest,   \* rows of the batch's quality manifest
          committed,  \* batches readers see
          visible     \* the rows readers see of each batch

abstractVars == <<marker, valid, manifest, committed, visible>>

AbstractInit ==
    /\ marker = [b \in Batch |-> FALSE]
    /\ valid = [b \in Batch |-> {}]
    /\ manifest = [b \in Batch |-> {}]
    /\ committed = {}
    /\ visible = [b \in Batch |-> {}]

AbstractPublish(b) ==
    /\ ~marker[b]
    /\ \E c \in Landings[b] :
          /\ valid' = [valid EXCEPT ![b] = c.valid]
          /\ manifest' = [manifest EXCEPT ![b] = c.manifest]
    /\ marker' = [marker EXCEPT ![b] = TRUE]
    /\ UNCHANGED <<committed, visible>>

Commit(b) ==
    /\ b \notin committed
    /\ marker[b]
    /\ Reconciles(b, valid[b], manifest[b])
    /\ committed' = committed \cup {b}
    /\ visible' = [visible EXCEPT ![b] = Accepted(valid[b], manifest[b])]
    /\ UNCHANGED <<marker, valid, manifest>>

AbstractNext == \E b \in Batch : AbstractPublish(b) \/ Commit(b)

AbstractSpec == AbstractInit /\ [][AbstractNext]_abstractVars
=============================================================================
