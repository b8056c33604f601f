------------------------------ MODULE Producer ------------------------------
(***************************************************************************)
(* producer/kafka_producer.py: replays the rows of a CSV file into two     *)
(* Kafka topics, a transaction and its label for each row, through the     *)
(* bounded queue of librdkafka. A replay can be interrupted or die at any  *)
(* step; the next one may skip any number of rows.                         *)
(*                                                                         *)
(* Messages of a session are appended at most once (enable.idempotence),   *)
(* in any order, for the topics have several partitions. The answer to an  *)
(* append can be lost. Callbacks run only when the program polls.          *)
(***************************************************************************)
EXTENDS Integers, FiniteSets

CONSTANTS Rows,           \* number of rows of the file
          StepOf,         \* the PaySim step of each row
          StepDuration,   \* STEP_DURATION_MS
          QueueSize,      \* queue.buffering.max.messages
          SkipRows,       \* arguments --skip-rows
          MaxRecords,     \* arguments --max-records
          NoLimit,        \* no such argument
          MaxSessions     \* bound: replays that are started

ASSUME ProducerAssumption ==
    /\ Rows \in Nat \ {0}
    /\ StepOf \in [1..Rows -> Nat \ {0}]
    /\ StepDuration \in Nat \ {0}
    /\ QueueSize \in Nat \ {0}
    /\ SkipRows \subseteq Nat
    /\ MaxRecords \subseteq (Nat \ {0}) \cup {NoLimit}
    /\ NoLimit \notin Nat
    /\ MaxSessions \in Nat

VARIABLES
    pc,          \* where replay_csv is
    skip, limit, \* its arguments
    row,         \* the last row it has read
    ordinals,    \* ordinals_by_step
    published,
    queue,       \* messages with librdkafka, not reported yet
    reports,     \* callbacks to run: <<message, delivered>>
    stats,       \* DeliveryStats
    log,         \* what Kafka holds: <<session, message>>
    session,     \* replays started so far
    outcome      \* how the last one ended

arguments == <<skip, limit>>
vars == <<pc, arguments, row, ordinals, published, queue, reports, stats, log, session, outcome>>

-----------------------------------------------------------------------------
(* count_rows_per_step *)
RowsPerStep(step) == Cardinality({r \in 1..Rows : StepOf[r] = step})

(* deterministic_event_time_ms, from REPLAY_EPOCH_MS on *)
EventTime(step, ordinal) ==
    (step - 1) * StepDuration + (ordinal * StepDuration) \div RowsPerStep(step)

(* convert_paysim_row: the event id is the number of the row. *)
Transaction == [topic |-> "transaction", row |-> row,
                time |-> EventTime(StepOf[row], ordinals[StepOf[row]] - 1)]
Label == [topic |-> "label", row |-> row]

InQueue == Cardinality(queue) + Cardinality(reports)

(* Everything that is to be reported is, as poll and flush do. Mutant: an error
   is logged and not counted; or a callback stays to be run again. *)
RunCallbacksUncounted ==
    /\ stats' = [stats EXCEPT !.delivered = @ + Cardinality({r \in reports : r[2]})]
    /\ reports' = {}

RunCallbacksAgain ==
    /\ stats' = [stats EXCEPT !.delivered = @ + Cardinality({r \in reports : r[2]})]
    /\ UNCHANGED reports

RunCallbacks ==
    /\ stats' = [delivered |-> stats.delivered + Cardinality({r \in reports : r[2]}),
                 failed    |-> stats.failed + Cardinality({r \in reports : ~r[2]})]
    /\ reports' = {}

-----------------------------------------------------------------------------
NoRows == [s \in {StepOf[r] : r \in 1..Rows} |-> 0]
NoStats == [delivered |-> 0, failed |-> 0]

Init ==
    /\ pc = "stopped" /\ skip = 0 /\ limit = NoLimit
    /\ row = 0 /\ ordinals = NoRows /\ published = 0
    /\ queue = {} /\ reports = {} /\ stats = NoStats
    /\ log = {} /\ session = 0 /\ outcome = "none"

StartReplay(s, n) ==
    /\ pc = "stopped"
    /\ session < MaxSessions
    /\ session' = session + 1
    /\ skip' = s /\ limit' = n
    /\ row' = 0 /\ ordinals' = NoRows /\ published' = 0
    /\ queue' = {} /\ reports' = {} /\ stats' = NoStats
    /\ pc' = "read"
    /\ outcome' = "none"
    /\ UNCHANGED log

(* Mutant of ReadRow: rows that are skipped are not counted. *)
ReadRowUncounted ==
    /\ pc = "read"
    /\ row < Rows
    /\ row' = row + 1
    /\ ordinals' = IF row' <= skip THEN ordinals
                   ELSE [ordinals EXCEPT ![StepOf[row']] = @ + 1]
    /\ pc' = IF row' <= skip THEN "read"
             ELSE IF limit # NoLimit /\ published >= limit THEN "flush"
             ELSE "transaction"
    /\ UNCHANGED <<arguments, published, queue, reports, stats, log, session, outcome>>

(* The next row is counted, then skipped, or past the limit, or converted. *)
ReadRow ==
    /\ pc = "read"
    /\ row < Rows
    /\ row' = row + 1
    /\ ordinals' = [ordinals EXCEPT ![StepOf[row']] = @ + 1]
    /\ pc' = IF row' <= skip THEN "read"
             ELSE IF limit # NoLimit /\ published >= limit THEN "flush"
             ELSE "transaction"
    /\ UNCHANGED <<arguments, published, queue, reports, stats, log, session, outcome>>

EndOfFile ==
    /\ pc = "read"
    /\ row = Rows
    /\ pc' = "flush"
    /\ UNCHANGED <<arguments, row, ordinals, published, queue, reports, stats, log, session,
                   outcome>>

(* produce_with_backpressure *)
Produce(message, next) ==
    /\ InQueue < QueueSize
    /\ queue' = queue \cup {message}
    /\ pc' = next
    /\ UNCHANGED <<arguments, row, ordinals, published, reports, stats, log, session, outcome>>

ProduceTransaction == pc = "transaction" /\ Produce(Transaction, "label")

ProduceLabel == pc = "label" /\ Produce(Label, "poll")

(* BufferError: poll and try again. Mutant: try again without a poll. *)
WaitForRoomBlind ==
    /\ pc \in {"transaction", "label"}
    /\ InQueue >= QueueSize
    /\ UNCHANGED vars

WaitForRoom ==
    /\ pc \in {"transaction", "label"}
    /\ InQueue >= QueueSize
    /\ RunCallbacks
    /\ UNCHANGED <<pc, arguments, row, ordinals, published, queue, log, session, outcome>>

PollAndCount ==
    /\ pc = "poll"
    /\ RunCallbacks
    /\ published' = published + 1
    /\ pc' = "read"
    /\ UNCHANGED <<arguments, row, ordinals, queue, log, session, outcome>>

Flush ==
    /\ pc \in {"flush", "interrupted"}
    /\ reports # {}
    /\ RunCallbacks
    /\ UNCHANGED <<pc, arguments, row, ordinals, published, queue, log, session, outcome>>

(* The process ends; what librdkafka still has is lost. Without a result there is
   nothing but the log of it. *)
Exit(how) ==
    /\ pc' = "stopped"
    /\ outcome' = how
    /\ row' = 0 /\ ordinals' = NoRows
    /\ queue' = {} /\ reports' = {}
    /\ IF how = "done"
       THEN UNCHANGED <<arguments, published, stats>>
       ELSE skip' = 0 /\ limit' = NoLimit /\ published' = 0 /\ stats' = NoStats
    /\ UNCHANGED <<log, session>>

(* Mutant of EndReplay: an empty queue is taken for delivery. *)
EndReplayUnchecked ==
    /\ pc = "flush"
    /\ InQueue = 0
    /\ Exit("done")

EndReplay ==
    /\ pc = "flush"
    /\ InQueue = 0
    /\ Exit(IF stats.failed > 0 THEN "failed" ELSE "done")

(* flush(30) gives up *)
FlushTimesOut ==
    /\ pc = "flush"
    /\ InQueue > 0
    /\ Exit("timeout")

(* KeyboardInterrupt; flush(10) may give up too, and nothing is said of it. *)
Interrupt ==
    /\ pc \notin {"stopped", "interrupted"}
    /\ pc' = "interrupted"
    /\ UNCHANGED <<arguments, row, ordinals, published, queue, reports, stats, log, session,
                   outcome>>

EndInterrupted == pc = "interrupted" /\ Exit("interrupted")

(* The process is killed, a row does not convert, the registry does not answer. *)
Die == pc # "stopped" /\ Exit("died")

-----------------------------------------------------------------------------
(* librdkafka and the brokers *)

Append(message) ==
    /\ <<session, message>> \notin log
    /\ log' = log \cup {<<session, message>>}
    /\ UNCHANGED <<pc, arguments, row, ordinals, published, queue, reports, stats, session,
                   outcome>>

Report(message, delivered) ==
    /\ queue' = queue \ {message}
    /\ reports' = reports \cup {<<message, delivered>>}
    /\ UNCHANGED <<pc, arguments, row, ordinals, published, stats, log, session, outcome>>

Acknowledge(message) == <<session, message>> \in log /\ Report(message, TRUE)

(* delivery.timeout.ms has passed; the message may have been appended. *)
Expire(message) == Report(message, FALSE)

Answer == \E message \in queue : Acknowledge(message) \/ Expire(message)

Kafka == Answer \/ \E message \in queue : Append(message)

ReplayStep ==
    \/ ReadRow \/ EndOfFile
    \/ ProduceTransaction \/ ProduceLabel \/ WaitForRoom \/ PollAndCount
    \/ Flush \/ EndReplay \/ EndInterrupted

Next ==
    \/ \E s \in SkipRows, n \in MaxRecords : StartReplay(s, n)
    \/ ReplayStep \/ FlushTimesOut \/ Interrupt \/ Die
    \/ Kafka

Spec == Init /\ [][Next]_vars

(* The program takes its steps, and delivery.timeout.ms bounds the wait for an
   answer. No append and no answer but that is assumed, and no end of a flush
   by its own timeout. *)
FairSpec == Spec /\ WF_vars(ReplayStep) /\ WF_vars(Answer)

-----------------------------------------------------------------------------
Messages(r) == {m \in {entry[2] : entry \in log} : m.row = r}

(* Every variable has its type, the queue of librdkafka its bound. *)
TypeOK ==
    /\ pc \in {"stopped", "read", "transaction", "label", "poll", "flush", "interrupted"}
    /\ row \in 0..Rows
    /\ published \in 0..Rows
    /\ pc # "stopped" => published <= row
    /\ \A s \in DOMAIN ordinals : ordinals[s] \in 0..RowsPerStep(s)
    /\ InQueue \in 0..QueueSize
    /\ stats.delivered \in 0..(2 * Rows) /\ stats.failed \in 0..(2 * Rows)
    /\ session \in 0..MaxSessions
    /\ outcome \in {"none", "done", "failed", "timeout", "interrupted", "died"}

(* A replay that ends without an error has put the transaction and the label of
   every row from skip_rows on, up to max_records of them, into Kafka: no answer
   that is lost and no message that expired goes unnoticed behind the queue. *)
DoneMeansDelivered ==
    outcome = "done" =>
        LET left == IF skip < Rows THEN Rows - skip ELSE 0
            sent == {r \in 1..Rows : {m \in Messages(r) : <<session, m>> \in log} # {}}
        IN  /\ published = (IF limit # NoLimit /\ limit < left THEN limit ELSE left)
            /\ sent = (skip + 1)..(skip + published)
            /\ stats.delivered = 2 * published
            /\ \A r \in sent, topic \in {"transaction", "label"} :
                  \E m \in Messages(r) : m.topic = topic /\ <<session, m>> \in log

(* Whatever rows a replay skips, every copy of a transaction has the same event
   time, in the hour of its step and in the order of the file: what dbt later
   takes for copies of one payload is that. *)
EventTimeDeterministic ==
    \A m1, m2 \in {m \in {entry[2] : entry \in log} : m.topic = "transaction"} :
        /\ m1.row = m2.row => m1 = m2
        /\ m1.row < m2.row /\ StepOf[m1.row] = StepOf[m2.row] => m1.time <= m2.time
        /\ m1.time \div StepDuration = StepOf[m1.row] - 1

(* A replay that was started ends, though brokers may never answer and the queue
   may be full: the loop that waits for room lets callbacks make it. *)
EventuallyStopped == [](pc # "stopped" => <>(pc = "stopped"))
=============================================================================
