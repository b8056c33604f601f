------------------------------ MODULE Landing ------------------------------
(***************************************************************************)
(* spark/jobs/kafka_minio_landing.py: the streaming query that takes one   *)
(* Kafka topic to MinIO. Spark plans a batch as an offset range in its     *)
(* checkpoint, process_batch overwrites the valid, quarantine and manifest *)
(* directories of the batch in that order, and Spark marks the batch done  *)
(* in the checkpoint. A query that dies anywhere in between is started     *)
(* again by hand, reads the Schema Registry anew, and runs the planned     *)
(* batch again under the same number.                                      *)
(*                                                                         *)
(* The partitions of the topic are one log: a batch is any next stretch of *)
(* it. A batch Spark plans is never empty, so the early return of          *)
(* process_batch is not reached.                                           *)
(***************************************************************************)
EXTENDS Batches, Sequences

CONSTANTS Pipeline,    \* the pipeline of this query
          Schemas,     \* schema ids the subject may come to hold
          ForeignId,   \* a schema id the subject never holds
          MaxOffsets,  \* maxOffsetsPerTrigger
          MaxLog,      \* bound: messages produced
          MaxCrashes   \* bound: times the query dies

(* What validation finds in a decoded record: for each pipeline the rules of its job,
   of which a record is quarantined for the first it breaks. *)
TransactionReasons ==
    {"MISSING_EVENT_TIME", "MISSING_INGESTED_AT", "EVENT_TIME_AFTER_INGESTED_AT", "INVALID_STEP"}
LabelReasons == {"INVALID_IS_FRAUD", "INVALID_IS_FLAGGED_FRAUD"}

(* A payload is named for the first rule it breaks. *)
Payloads == {"valid", "undecodable"} \cup TransactionReasons \cup LabelReasons
Frames == {"null", "short", "bad_magic", "framed"}
Message == [frame : Frames, schema : Schemas \cup {ForeignId}, payload : Payloads, key : Keys]

CONSTANTS Messages,    \* the messages producers may send
          UnknownKey   \* (null, "unknown"): the manifest key of what has no other

ASSUME LandingAssumption ==
    /\ Pipeline \in Pipelines
    /\ ForeignId \notin Schemas
    /\ Messages \subseteq Message
    /\ UnknownKey \in Keys
    /\ Rows = 1..MaxLog
    /\ MaxOffsets \in Nat \ {0} /\ MaxLog \in Nat /\ MaxCrashes \in Nat
    /\ 0..(MaxLog - 1) \subseteq BatchIds

VARIABLES
    log,         \* the Kafka topic
    registry,    \* schema ids of the subject in the Schema Registry
    (* Spark *)
    pc,          \* where the query stands
    catalog,     \* schema ids loaded when the query started
    offsets,     \* checkpoint: end offset of every planned batch
    commits,     \* checkpoint: number of batches marked done
    (* MinIO, by batch *)
    valid, quarantine, manifest, marker,
    (* bound *)
    crashes

sparkVars == <<pc, catalog, offsets, commits>>
outputVars == <<valid, quarantine, manifest, marker>>
kafkaVars == <<log, registry>>
vars == <<kafkaVars, sparkVars, outputVars, crashes>>

Writing == {"clear_valid", "fill_valid", "clear_quarantine", "fill_quarantine",
            "clear_manifest", "fill_manifest", "mark_manifest", "commit"}

-----------------------------------------------------------------------------
(* Routing: inspect_confluent_message, then decoding and validation. *)

None == "none"

HeaderReason(m, known) ==
    CASE m.frame = "null"         -> "NULL_KAFKA_VALUE"
      [] m.frame = "short"        -> "CONFLUENT_MESSAGE_TOO_SHORT"
      [] m.frame = "bad_magic"    -> "INVALID_CONFLUENT_MAGIC_BYTE"
      [] m.schema \notin known    -> "UNSUPPORTED_SCHEMA_ID"
      [] OTHER                    -> None

(* transaction_validation_reason and label_validation_reason. A record the decoder
   gives up has no event_id. *)
ValidationReason(m) ==
    CASE m.payload = "undecodable" -> "AVRO_DECODE_FAILED"
      [] Pipeline = "transactions" /\ m.payload \in TransactionReasons -> m.payload
      [] Pipeline = "labels" /\ m.payload \in LabelReasons -> m.payload
      [] OTHER -> None

Reason(m, known) ==
    IF HeaderReason(m, known) # None THEN HeaderReason(m, known) ELSE ValidationReason(m)

(* decode_supported_schemas: each schema of the catalog decodes its own messages. *)
Decoded(m, known) == HeaderReason(m, known) = None /\ m.payload # "undecodable"

(* A record that was not decoded has no business date and no source. *)
KeyOf(m, known) == IF Decoded(m, known) THEN m.key ELSE UnknownKey

(* The range of batch n: from the end of the batch before to its own. *)
BatchRange(n) == (IF n = 0 THEN 1 ELSE offsets[n] + 1) .. offsets[n + 1]

(* Mutant of ValidRows: rows of earlier batches are among those it writes. *)
ValidRowsSoFar(n, known) == {o \in 1..offsets[n + 1] : Reason(log[o], known) = None}

ValidRows(n, known) == {o \in BatchRange(n) : Reason(log[o], known) = None}
QuarantinedRows(n, known) == {o \in BatchRange(n) : Reason(log[o], known) # None}

BatchOf(n) == <<Pipeline, n>>

BuildManifest(n, known) ==
    {[batch      |-> BatchOf(n),
      key        |-> k,
      input      |-> Cardinality({o \in BatchRange(n) : KeyOf(log[o], known) = k}),
      valid      |-> Cardinality({o \in ValidRows(n, known) : KeyOf(log[o], known) = k}),
      quarantine |-> Cardinality({o \in QuarantinedRows(n, known) : KeyOf(log[o], known) = k})]
        : k \in {KeyOf(log[o], known) : o \in BatchRange(n)}}

-----------------------------------------------------------------------------
Init ==
    /\ log = <<>>
    /\ registry = {}
    /\ pc = "down"
    /\ catalog = {}
    /\ offsets = <<>>
    /\ commits = 0
    /\ valid = [b \in Batch |-> {}]
    /\ quarantine = [b \in Batch |-> {}]
    /\ manifest = [b \in Batch |-> {}]
    /\ marker = [b \in Batch |-> FALSE]
    /\ crashes = 0

(* Producers register the schema they serialize with before they send. *)
RegisterSchema(s) ==
    /\ s \notin registry
    /\ registry' = registry \cup {s}
    /\ UNCHANGED <<log, sparkVars, outputVars, crashes>>

Produce(m) ==
    /\ Len(log) < MaxLog
    /\ m.frame = "framed" => m.schema \in registry \cup {ForeignId}
    /\ log' = Append(log, m)
    /\ UNCHANGED <<registry, sparkVars, outputVars, crashes>>

-----------------------------------------------------------------------------
(* run_landing: nothing is read before the subject has a schema. Mutants: the
   batch that was under way is taken for done, or is left as it is. *)
StartQueryPastPlanned ==
    /\ pc = "down"
    /\ registry # {}
    /\ catalog' = registry
    /\ pc' = "idle"
    /\ commits' = Len(offsets)
    /\ UNCHANGED <<kafkaVars, offsets, outputVars, crashes>>

StartQueryIdle ==
    /\ pc = "down"
    /\ registry # {}
    /\ catalog' = registry
    /\ pc' = "idle"
    /\ UNCHANGED <<kafkaVars, offsets, commits, outputVars, crashes>>

StartQuery ==
    /\ pc = "down"
    /\ registry # {}
    /\ catalog' = registry
    /\ pc' = IF commits < Len(offsets) THEN "clear_valid" ELSE "idle"
    /\ UNCHANGED <<kafkaVars, offsets, commits, outputVars, crashes>>

Planned == IF offsets = <<>> THEN 0 ELSE offsets[Len(offsets)]

(* Mutant of PlanBatch: a batch may be planned that holds nothing new. *)
PlanBatchEmpty ==
    /\ pc = "idle"
    /\ commits = Len(offsets)
    /\ \E end \in Planned..Len(log) :
          /\ end > 0 /\ end - Planned <= MaxOffsets
          /\ offsets' = Append(offsets, end)
    /\ pc' = "clear_valid"
    /\ UNCHANGED <<kafkaVars, catalog, commits, outputVars, crashes>>

PlanBatch ==
    /\ pc = "idle"
    /\ commits = Len(offsets)
    /\ \E end \in (Planned + 1)..Len(log) :
          /\ end - Planned <= MaxOffsets
          /\ offsets' = Append(offsets, end)
    /\ pc' = "clear_valid"
    /\ UNCHANGED <<kafkaVars, catalog, commits, outputVars, crashes>>

-----------------------------------------------------------------------------
(* process_batch. A write in mode "overwrite" empties the directory and then
   commits its files, which appear in MinIO one after the other. *)

CurrentId == Len(offsets) - 1
Current == BatchOf(CurrentId)

ClearValid ==
    /\ pc = "clear_valid"
    /\ valid' = [valid EXCEPT ![Current] = {}]
    /\ pc' = "fill_valid"
    /\ UNCHANGED <<kafkaVars, catalog, offsets, commits, quarantine, manifest, marker, crashes>>

FillValid ==
    /\ pc = "fill_valid"
    /\ LET due == ValidRows(CurrentId, catalog)
       IN  /\ \E files \in SUBSET (due \ valid[Current]) :
                 valid' = [valid EXCEPT ![Current] = @ \cup files]
           /\ pc' = IF valid'[Current] = due THEN "clear_quarantine" ELSE pc
    /\ UNCHANGED <<kafkaVars, catalog, offsets, commits, quarantine, manifest, marker, crashes>>

ClearQuarantine ==
    /\ pc = "clear_quarantine"
    /\ quarantine' = [quarantine EXCEPT ![Current] = {}]
    /\ pc' = "fill_quarantine"
    /\ UNCHANGED <<kafkaVars, catalog, offsets, commits, valid, manifest, marker, crashes>>

(* Mutant of FillQuarantine: the rows that failed to decode are left out. *)
FillQuarantineHeadersOnly ==
    /\ pc = "fill_quarantine"
    /\ quarantine' = [quarantine EXCEPT ![Current] =
          {o \in BatchRange(CurrentId) : HeaderReason(log[o], catalog) # None}]
    /\ pc' = "clear_manifest"
    /\ UNCHANGED <<kafkaVars, catalog, offsets, commits, valid, manifest, marker, crashes>>

FillQuarantine ==
    /\ pc = "fill_quarantine"
    /\ quarantine' =
          [quarantine EXCEPT ![Current] = QuarantinedRows(CurrentId, catalog)]
    /\ pc' = "clear_manifest"
    /\ UNCHANGED <<kafkaVars, catalog, offsets, commits, valid, manifest, marker, crashes>>

ClearManifest ==
    /\ pc = "clear_manifest"
    /\ manifest' = [manifest EXCEPT ![Current] = {}]
    /\ marker' = [marker EXCEPT ![Current] = FALSE]
    /\ pc' = "fill_manifest"
    /\ UNCHANGED <<kafkaVars, catalog, offsets, commits, valid, quarantine, crashes>>

(* coalesce(1): the manifest is one file. *)
FillManifest ==
    /\ pc = "fill_manifest"
    /\ manifest' = [manifest EXCEPT ![Current] = BuildManifest(CurrentId, catalog)]
    /\ pc' = "mark_manifest"
    /\ UNCHANGED <<kafkaVars, catalog, offsets, commits, valid, quarantine, marker, crashes>>

MarkManifest ==
    /\ pc = "mark_manifest"
    /\ marker' = [marker EXCEPT ![Current] = TRUE]
    /\ pc' = "commit"
    /\ UNCHANGED <<kafkaVars, catalog, offsets, commits, valid, quarantine, manifest, crashes>>

CommitBatch ==
    /\ pc = "commit"
    /\ commits' = commits + 1
    /\ pc' = "idle"
    /\ UNCHANGED <<kafkaVars, catalog, offsets, outputVars, crashes>>

(* An exception of a write ends the query as a lost driver does. *)
StopQuery ==
    /\ pc # "down"
    /\ crashes < MaxCrashes
    /\ crashes' = crashes + 1
    /\ pc' = "down"
    /\ UNCHANGED <<kafkaVars, catalog, offsets, commits, outputVars>>

QueryStep ==
    \/ PlanBatch \/ ClearValid \/ FillValid \/ ClearQuarantine \/ FillQuarantine
    \/ ClearManifest \/ FillManifest \/ MarkManifest \/ CommitBatch

Query == StartQuery \/ QueryStep \/ StopQuery

Producers ==
    \/ \E s \in Schemas : RegisterSchema(s)
    \/ \E m \in Messages : Produce(m)

Next == Query \/ Producers

Spec == Init /\ [][Next]_vars

(* A query that is up keeps working, and somebody starts one that is down. *)
FairSpec == Spec /\ WF_vars(QueryStep) /\ WF_vars(StartQuery)

-----------------------------------------------------------------------------
BatchNumbers == 0..(Len(offsets) - 1)

(* Every message of the batch is in one of its two directories, and its
   manifest says so. *)
Whole(n) ==
    LET b == BatchOf(n)
    IN  /\ marker[b]
        /\ valid[b] \cup quarantine[b] = BatchRange(n)
        /\ valid[b] \cap quarantine[b] = {}
        /\ Reconciles(b, valid[b], manifest[b])
        /\ Cardinality(valid[b]) = Total(manifest[b], "valid")
        /\ Cardinality(quarantine[b]) = Total(manifest[b], "quarantine")

(* Every variable has its type, the checkpoint is never more than one batch
   ahead of its commits, and planned ranges follow each other. *)
TypeOK ==
    /\ log \in Seq(Messages)
    /\ registry \subseteq Schemas
    /\ catalog \subseteq registry
    /\ pc \in {"down", "idle"} \cup Writing
    /\ offsets \in Seq(1..Len(log))
    /\ \A i, j \in 1..Len(offsets) : i < j => offsets[i] < offsets[j]
    /\ commits \in {Len(offsets), Len(offsets) - 1}
    /\ valid \in [Batch -> SUBSET Rows]
    /\ quarantine \in [Batch -> SUBSET Rows]
    /\ manifest \in [Batch -> Manifest]
    /\ marker \in [Batch -> BOOLEAN]
    /\ crashes \in 0..MaxCrashes

(* No message is lost between Kafka and MinIO: when the checkpoint says that a
   batch is done, which is when Spark never looks at its offsets again, each of
   its messages is in the valid or in the quarantine directory, in one of them
   only, and the manifest counts them, whatever crash and whatever change of
   the schema catalog came between two tries of the batch. *)
CommittedAccounted == \A n \in BatchNumbers : n < commits => Whole(n)

(* "Write the manifest last. Its _SUCCESS marker is the batch-level completion
   signal": the marker appears on a batch that is whole. *)
MarkerLast ==
    [][\A n \in BatchNumbers :
          ~marker[BatchOf(n)] /\ marker'[BatchOf(n)] => Whole(n)']_vars

(* A Kafka coordinate lands in one batch: replays reuse the batch number, so no
   directory keeps a row that another batch lands again. *)
OffsetsOnce ==
    \A a, b \in Batch :
        a # b => (valid[a] \cup quarantine[a]) \cap (valid[b] \cup quarantine[b]) = {}

(* Every message is landed in a batch the checkpoint calls done, once the
   subject has a schema. *)
EventuallyLanded ==
    \A o \in Rows :
        o <= Len(log) /\ registry # {} ~> \E n \in BatchNumbers : n < commits /\ o \in BatchRange(n)

(* "immutable MinIO landings": what is published under a completion marker
   stays as it is. *)
PublishedImmutable ==
    [][\A b \in Batch : marker[b] /\ marker'[b] => valid'[b] = valid[b]]_vars
=============================================================================
