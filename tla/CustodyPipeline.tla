---------------------------- MODULE CustodyPipeline ----------------------------
(***************************************************************************)
(* How a custody event travels: from the outbox of the evidence collector  *)
(* (or straight from the audit reporter) through RabbitMQ into the table   *)
(* custody_events of the chain-of-custody service.                         *)
(*                                                                         *)
(* Actors: the request handlers that emit events, the outbox worker, the   *)
(* broker, and the one consumer coroutine.  Each of them fails on its own. *)
(* Every failure (an exception from the database or from the broker, a     *)
(* confirmation that never arrives, a process that stops) counts against   *)
(* MaxFaults, the bound of the model.                                      *)
(***************************************************************************)
EXTENDS Integers, Sequences, FiniteSets

CONSTANTS
    Events,             \* events: [name, artifact, direct]; direct events skip the outbox
    CONSUMER_RETRIES,   \* consumer.py: _MAX_RETRIES
    BatchLimit,         \* LIMIT of the worker's query
    TicksPerSecond,     \* the audit reporter's timestamps are cut to seconds
    MaxFaults,          \* bound: failures of any kind in one behaviour
    BrokerMayFail,      \* the connection to RabbitMQ may break
    QueueDeclared       \* custody-service has run before, so its queue exists

ASSUME ParameterTypes ==
    /\ {CONSUMER_RETRIES, MaxFaults} \subseteq Nat
    /\ {BatchLimit, TicksPerSecond} \subseteq Nat \ {0}
    /\ {BrokerMayFail, QueueDeclared} \subseteq BOOLEAN

VARIABLES
    sent,           \* where each event is on its producer's side
    created_at,     \* outbox_events.created_at: when the transaction began
    timestamp,      \* the timestamp in the envelope of each event
    retry_count,    \* outbox_events.retry_count, as committed
    batch,          \* rows the worker has selected and not yet tried
    done,           \* rows the worker has published in this cycle
    bumped,         \* rows whose publication failed in this cycle
    bound,          \* the queue exists and is bound to the exchange
    queue,          \* custody.events.queue: [event, retry], unacknowledged first
    dlq,            \* events in the dead letter queue
    consumer,       \* where the consumer coroutine is
    custody_events, \* the table, in insertion (id) order
    processed,      \* processed_event_ids
    failures,       \* how often processing a delivery of the event has failed
    clock,          \* time, read when an envelope is built
    faults          \* failures so far

producerVars == <<sent, created_at, timestamp, clock>>
workerVars == <<retry_count, batch, done, bumped>>
brokerVars == <<bound, queue, dlq>>
consumerVars == <<consumer, custody_events, processed, failures>>
vars == <<producerVars, workerVars, brokerVars, consumerVars, faults>>

Init ==
    /\ sent = [e \in Events |-> "none"]
    /\ created_at = [e \in Events |-> 0]
    /\ timestamp = [e \in Events |-> 0]
    /\ retry_count = [e \in Events |-> 0]
    /\ batch = {} /\ done = {} /\ bumped = {}
    /\ bound = QueueDeclared
    /\ queue = <<>>
    /\ dlq = {}
    /\ consumer = "down"
    /\ custody_events = <<>>
    /\ processed = {}
    /\ failures = [e \in Events |-> 0]
    /\ clock = 0
    /\ faults = 0

Fault == faults < MaxFaults /\ faults' = faults + 1
BrokerFault == BrokerMayFail /\ Fault

\* A persistent message to the topic exchange; the binding forensicchain.#
\* takes every routing key.  Without the queue the broker drops it, and the
\* publisher is told that all is well.
Route(e, retry) ==
    queue' = IF bound THEN Append(queue, [event |-> e, retry |-> retry]) ELSE queue

-----------------------------------------------------------------------------
(* Producers *)

\* A handler of the evidence collector reads the artifact: its transaction
\* begins, and now() in that transaction will be created_at of the row ...
BeginTransaction(e) ==
    /\ ~e.direct /\ sent[e] = "none"
    /\ created_at' = [created_at EXCEPT ![e] = clock]
    /\ clock' = clock + 1
    /\ sent' = [sent EXCEPT ![e] = "begun"]
    /\ UNCHANGED <<timestamp, workerVars, brokerVars, consumerVars, faults>>

\* ... later it builds the envelope, with its own timestamp ...
BuildEnvelope(e) ==
    /\ sent[e] = "begun"
    /\ timestamp' = [timestamp EXCEPT ![e] = clock]
    /\ clock' = clock + 1
    /\ sent' = [sent EXCEPT ![e] = "open"]
    /\ UNCHANGED <<created_at, workerVars, brokerVars, consumerVars, faults>>

\* ... and commits the outbox row; other handlers may be quicker.
CommitOutbox(e) ==
    /\ sent[e] = "open"
    /\ sent' = [sent EXCEPT ![e] = "unpublished"]
    /\ UNCHANGED <<created_at, timestamp, clock, workerVars, brokerVars, consumerVars, faults>>

\* The audit reporter publishes from the request handler, with a timestamp
\* without fractions of a second; if that raises, the event is gone.
PublishDirect(e) ==
    /\ e.direct /\ sent[e] = "none"
    /\ timestamp' = [timestamp EXCEPT ![e] = clock - (clock % TicksPerSecond)]
    /\ clock' = clock + 1
    /\ \/ Route(e, 0) /\ sent' = [sent EXCEPT ![e] = "published"] /\ UNCHANGED faults
       \/ sent' = [sent EXCEPT ![e] = "refused"] /\ BrokerFault /\ UNCHANGED queue
    /\ UNCHANGED <<created_at, workerVars, bound, dlq, consumerVars>>

-----------------------------------------------------------------------------
(* The outbox worker: publish_outbox_events *)

Unpublished == {e \in Events : sent[e] = "unpublished"}
Oldest(R) ==
    {e \in R : Cardinality({f \in R : created_at[f] < created_at[e]}) < BatchLimit}

\* SELECT .. WHERE published = FALSE ORDER BY created_at LIMIT n FOR UPDATE
\* SKIP LOCKED.  Nothing filters on retry_count: MAX_RETRIES only changes
\* what is logged, and an event is tried for as long as it takes.
SelectBatch ==
    /\ batch \cup done \cup bumped = {}
    /\ Unpublished # {}
    /\ batch' = Oldest(Unpublished)
    /\ UNCHANGED <<producerVars, retry_count, done, bumped, brokerVars, consumerVars, faults>>

\* The rows are loaded again without ORDER BY, so any of them can be next.
Publish(e) ==
    /\ e \in batch
    /\ Route(e, 0)
    /\ batch' = batch \ {e}
    /\ done' = done \cup {e}
    /\ UNCHANGED <<producerVars, retry_count, bumped, bound, dlq, consumerVars, faults>>

\* Mutation: event.published = True before the await of publish().
PublishFails_MarkedFirst(e) ==
    /\ e \in batch
    /\ BrokerFault
    /\ Route(e, 0) \/ UNCHANGED queue
    /\ batch' = batch \ {e}
    /\ done' = done \cup {e}
    /\ bumped' = bumped \cup {e}
    /\ UNCHANGED <<producerVars, retry_count, bound, dlq, consumerVars>>

\* publish() raises: the message never arrived, or its confirmation did not.
PublishFails(e) ==
    /\ e \in batch
    /\ BrokerFault
    /\ Route(e, 0) \/ UNCHANGED queue
    /\ batch' = batch \ {e}
    /\ bumped' = bumped \cup {e}
    /\ UNCHANGED <<producerVars, retry_count, done, bound, dlq, consumerVars>>

\* db.commit() at the end of the cycle.
CommitCycle ==
    /\ batch = {} /\ done \cup bumped # {}
    /\ sent' = [e \in Events |-> IF e \in done THEN "published" ELSE sent[e]]
    /\ retry_count' = [e \in Events |-> IF e \in bumped THEN retry_count[e] + 1
                                        ELSE retry_count[e]]
    /\ done' = {} /\ bumped' = {}
    /\ UNCHANGED <<created_at, timestamp, clock, batch, brokerVars, consumerVars, faults>>

\* The worker stops, or the commit fails: what was published stays
\* published, what the cycle meant to record about it is rolled back.
AbandonCycle ==
    /\ batch \cup done \cup bumped # {}
    /\ Fault
    /\ batch' = {} /\ done' = {} /\ bumped' = {}
    /\ UNCHANGED <<producerVars, retry_count, brokerVars, consumerVars>>

-----------------------------------------------------------------------------
(* The custody tables *)

NoHash == <<>>
compute_event_hash(e, previous) == Append(previous, e)

RowsOf(a) == {i \in DOMAIN custody_events : custody_events[i].event.artifact = a}

\* ORDER BY timestamp, id
Before(i, j) ==
    \/ custody_events[i].timestamp < custody_events[j].timestamp
    \/ custody_events[i].timestamp = custody_events[j].timestamp /\ i < j

IsLast(i, R) == i \in R /\ \A j \in R : j = i \/ Before(j, i)
\* Mutation: ORDER BY without DESC.
get_last_event_hash_Ascending(a) ==
    IF RowsOf(a) = {} THEN NoHash
    ELSE custody_events[CHOOSE i \in RowsOf(a) :
                           \A j \in RowsOf(a) : j = i \/ Before(i, j)].event_hash

\* get_last_event_hash: the hash of the row that is last in that order.
get_last_event_hash(a) ==
    IF RowsOf(a) = {} THEN NoHash
    ELSE custody_events[CHOOSE i \in RowsOf(a) : IsLast(i, RowsOf(a))].event_hash

\* Mutation: no look at processed_event_ids.
Persist_Unchecked(e) ==
    LET previous == get_last_event_hash(e.artifact)
    IN  /\ custody_events' = Append(custody_events,
                [event |-> e,
                 timestamp |-> timestamp[e],
                 previous_event_hash |-> previous,
                 event_hash |-> compute_event_hash(e, previous)])
        /\ processed' = processed \cup {e}

\* insert_custody_event and mark_processed, committed together; an event_id
\* that is marked is skipped.
Persist(e) ==
    LET previous == get_last_event_hash(e.artifact)
    IN  IF e \in processed
        THEN UNCHANGED <<custody_events, processed>>
        ELSE /\ custody_events' = Append(custody_events,
                    [event |-> e,
                     timestamp |-> timestamp[e],
                     previous_event_hash |-> previous,
                     event_hash |-> compute_event_hash(e, previous)])
             /\ processed' = processed \cup {e}

\* _validate_chain over get_timeline: each row carries the hash of the row
\* before it in the timeline.
Earlier(i) == {j \in RowsOf(custody_events[i].event.artifact) : Before(j, i)}
TimelineValid(a) ==
    \A i \in RowsOf(a) :
        IF Earlier(i) = {}
        THEN custody_events[i].previous_event_hash = NoHash
        ELSE \E j \in Earlier(i) :
                /\ IsLast(j, Earlier(i))
                /\ custody_events[i].previous_event_hash = custody_events[j].event_hash

-----------------------------------------------------------------------------
(* The consumer: consume_events.  It works on the head of the queue, which  *)
(* stays there, unacknowledged, until an ack or a reject reaches the broker *)

Delivered == Head(queue)

\* The lifespan of the service declares exchange, queue and binding, and
\* starts the coroutine; unacknowledged messages are delivered again.
StartCustody ==
    /\ consumer = "down"
    /\ bound' = TRUE
    /\ consumer' = "idle"
    /\ UNCHANGED <<producerVars, workerVars, queue, dlq, custody_events, processed,
                   failures, faults>>

\* _process_message returns: the event is in the tables.
Process ==
    /\ consumer = "idle" /\ queue # <<>>
    /\ Persist(Delivered.event)
    /\ consumer' = "acking"
    /\ UNCHANGED <<producerVars, workerVars, brokerVars, failures, faults>>

\* _process_message raises, before its commit or in spite of it.
ProcessFails ==
    /\ consumer = "idle" /\ queue # <<>>
    /\ Fault
    /\ Persist(Delivered.event) \/ UNCHANGED <<custody_events, processed>>
    /\ consumer' = "handling"
    /\ failures' = [failures EXCEPT ![Delivered.event] = @ + 1]
    /\ UNCHANGED <<producerVars, workerVars, brokerVars>>

\* The message has an answer that only has to reach the broker.
Answering ==
    \/ consumer \in {"acking", "copied"}
    \/ consumer = "handling" /\ Delivered.retry >= CONSUMER_RETRIES

\* message.ack() reaches the broker ...
Ack ==
    /\ consumer \in {"acking", "copied"}
    /\ queue' = Tail(queue)
    /\ consumer' = "idle"
    /\ UNCHANGED <<producerVars, workerVars, bound, dlq, custody_events, processed,
                   failures, faults>>

\* ... or, like a reject, is lost with the connection, so that the message
\* comes again ...
AnswerLost ==
    /\ Answering
    /\ BrokerFault
    /\ consumer' = "idle"
    /\ UNCHANGED <<producerVars, workerVars, brokerVars, custody_events, processed, failures>>

\* ... or raises, which the except clause takes for a failure to process.
AckRaises ==
    /\ consumer = "acking"
    /\ BrokerFault
    /\ consumer' = "handling"
    /\ failures' = [failures EXCEPT ![Delivered.event] = @ + 1]
    /\ UNCHANGED <<producerVars, workerVars, brokerVars, custody_events, processed>>

\* Mutation: no limit on x-retry-count.
Requeue_NoLimit ==
    /\ consumer = "handling"
    /\ Route(Delivered.event, Delivered.retry + 1)
    /\ consumer' = "copied"
    /\ UNCHANGED <<producerVars, workerVars, bound, dlq, custody_events, processed,
                   failures, faults>>

\* Mutation: the original is acknowledged, the copy is never published.
Requeue_NoCopy ==
    /\ consumer = "handling"
    /\ Delivered.retry < CONSUMER_RETRIES
    /\ consumer' = "copied"
    /\ UNCHANGED <<producerVars, workerVars, brokerVars, custody_events, processed,
                   failures, faults>>

\* The except clause: a copy with a higher x-retry-count goes to the end of
\* the queue, then the original is acknowledged (Ack) ...
Requeue ==
    /\ consumer = "handling"
    /\ Delivered.retry < CONSUMER_RETRIES
    /\ Route(Delivered.event, Delivered.retry + 1)
    /\ consumer' = "copied"
    /\ UNCHANGED <<producerVars, workerVars, bound, dlq, custody_events, processed,
                   failures, faults>>

\* Mutation: the attempts are counted from one.
Reject_OneEarly ==
    /\ consumer = "handling"
    /\ Delivered.retry + 1 >= CONSUMER_RETRIES
    /\ dlq' = dlq \cup {Delivered.event}
    /\ queue' = Tail(queue)
    /\ consumer' = "idle"
    /\ UNCHANGED <<producerVars, workerVars, bound, custody_events, processed,
                   failures, faults>>

\* ... or, after the last retry, the message is rejected and dead-lettered.
Reject ==
    /\ consumer = "handling"
    /\ Delivered.retry >= CONSUMER_RETRIES
    /\ dlq' = dlq \cup {Delivered.event}
    /\ queue' = Tail(queue)
    /\ consumer' = "idle"
    /\ UNCHANGED <<producerVars, workerVars, bound, custody_events, processed,
                   failures, faults>>

\* Publishing the copy (which may have arrived), the ack behind it or the
\* reject raises inside the except clause: the exception leaves
\* consume_events and the task is over, while the service runs on.
HandlerRaises ==
    /\ consumer \in {"handling", "copied"}
    /\ BrokerFault
    /\ \/ UNCHANGED queue
       \/ /\ consumer = "handling" /\ Delivered.retry < CONSUMER_RETRIES
          /\ Route(Delivered.event, Delivered.retry + 1)
    /\ consumer' = "dead"
    /\ UNCHANGED <<producerVars, workerVars, bound, dlq, custody_events, processed, failures>>

\* The service stops at any point.
StopCustody ==
    /\ consumer # "down"
    /\ Fault
    /\ consumer' = "down"
    /\ UNCHANGED <<producerVars, workerVars, brokerVars, custody_events, processed, failures>>

-----------------------------------------------------------------------------

Producers ==
    \E e \in Events :
        BeginTransaction(e) \/ BuildEnvelope(e) \/ CommitOutbox(e) \/ PublishDirect(e)
Worker ==
    \/ SelectBatch
    \/ \E e \in Events : Publish(e) \/ PublishFails(e)
    \/ CommitCycle
    \/ AbandonCycle
Consumer ==
    \/ Process \/ ProcessFails
    \/ Ack \/ AnswerLost \/ AckRaises
    \/ Requeue \/ Reject \/ HandlerRaises
    \/ StartCustody \/ StopCustody

Next == Producers \/ Worker \/ Consumer

Spec == Init /\ [][Next]_vars

-----------------------------------------------------------------------------
(* Properties *)

Messages == [event : Events, retry : 0..CONSUMER_RETRIES]
CustodyRows == [event : Events, timestamp : Nat,
                previous_event_hash : Seq(Events), event_hash : Seq(Events)]

\* The variables hold what the tables, the queue and the coroutines can hold;
\* x-retry-count never exceeds _MAX_RETRIES (consumer.py:109-135).
TypeOK ==
    /\ sent \in [Events -> {"none", "begun", "open", "unpublished", "published", "refused"}]
    /\ created_at \in [Events -> Nat]
    /\ timestamp \in [Events -> Nat]
    /\ retry_count \in [Events -> Nat]
    /\ batch \subseteq Events /\ done \subseteq Events /\ bumped \subseteq Events
    /\ bound \in BOOLEAN
    /\ queue \in Seq(Messages)
    /\ dlq \subseteq Events
    /\ consumer \in {"down", "idle", "acking", "handling", "copied", "dead"}
    /\ custody_events \in Seq(CustodyRows)
    /\ processed \subseteq Events
    /\ failures \in [Events -> Nat]
    /\ clock \in Nat
    /\ faults \in 0..MaxFaults

\* However often the worker, the broker and the retries deliver an event, it
\* is recorded once (consumer.py:39-41, 79-80).
RecordedOnce ==
    \A i, j \in DOMAIN custody_events :
        custody_events[i].event = custody_events[j].event => i = j

InQueue(e) == \E i \in DOMAIN queue : queue[i].event = e
Settled(e) == e \in processed \/ e \in dlq

\* An event that its producer counts as published is on its way, recorded or
\* dead-lettered: no crash, lost ack or retry makes it vanish
\* (worker.py:45-57, consumer.py:111-141).  It needs the queue to exist.
NoPublishedEventLost ==
    \A e \in Events : sent[e] = "published" => InQueue(e) \/ Settled(e)

\* An event is dead-lettered only after one attempt and all its retries have
\* failed (consumer.py:93-99), also when crashes leave several copies of it.
DeadLetterAfterAllAttempts ==
    \A e \in dlq : failures[e] >= CONSUMER_RETRIES + 1

InTimestampOrder(a) ==
    \A i, j \in RowsOf(a) :
        i < j => custody_events[i].timestamp <= custody_events[j].timestamp

\* What chain_valid tells about rows nobody has touched: exactly whether the
\* events of the artifact were recorded in the order of their timestamps
\* (repository.py:13-21, 64-70, custody.py:40-45).
TimelineValidIffInOrder ==
    \A e \in Events : TimelineValid(e.artifact) <=> InTimestampOrder(e.artifact)

\* What the end-to-end tests say of a timeline nobody has touched: its
\* chain_valid is true (tests/test_e2e.py:261).
TimelineAlwaysValid == \A e \in Events : TimelineValid(e.artifact)

\* The worker polls for ever, the event loop runs the coroutine whenever the
\* broker delivers, and someone starts a stopped service again.  Producers
\* and failures are not fair.
Fairness ==
    /\ WF_vars(SelectBatch)
    /\ WF_vars(\E e \in Events : Publish(e))
    /\ WF_vars(CommitCycle)
    /\ WF_vars(StartCustody)
    /\ WF_vars(Process)
    /\ WF_vars(Ack)
    /\ WF_vars(Requeue)
    /\ WF_vars(Reject)
FairSpec == Spec /\ Fairness

\* The outbox delivers (README.md:67): an event that was committed is
\* recorded or, after its retries, dead-lettered.
EveryOutboxEventSettles ==
    \A e \in Events : sent[e] = "unpublished" ~> Settled(e)
================================================================================
