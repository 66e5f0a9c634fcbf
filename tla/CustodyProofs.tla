----------------------------- MODULE CustodyProofs -----------------------------
(***************************************************************************)
(* Theorems about the custody pipeline, for every set of events, retry     *)
(* limit, batch size and number of failures: types, the single record of   *)
(* each event, what dead-lettering means, that nothing published is lost   *)
(* once the queue exists, and what chain_valid says of a timeline.         *)
(***************************************************************************)
EXTENDS CustodyPipeline, SequenceTheorems, FiniteSetTheorems,
        WellFoundedInduction, TLAPS

-----------------------------------------------------------------------------
(* Facts about the queue and the timeline *)

\* A non-empty set of natural numbers has a least element.
LEMMA LeastNatural ==
    ASSUME NEW T, T \subseteq Nat, T # {}
    PROVE  \E m \in T : \A n \in T : m <= n
<1> DEFINE Initial == {0..n : n \in T}
<1>1. Initial \subseteq FiniteSubsetsOf(Nat) /\ Initial # {}
    <2>1. \A n \in T : IsFiniteSet(0..n) /\ 0..n \subseteq Nat
        BY FS_Interval
    <2> QED
        BY <2>1 DEF FiniteSubsetsOf
<1>2. PICK I \in Initial : \A J \in Initial : ~ (<<J, I>> \in StrictSubsetOrdering(Nat))
    <2>1. IsWellFoundedOn(StrictSubsetOrdering(Nat), FiniteSubsetsOf(Nat))
        BY FS_StrictSubsetOrderingWellFounded
    <2> QED
        BY <1>1, <2>1, WFMin
<1>3. PICK m \in T : I = 0..m
    BY <1>2
<1>4. ASSUME NEW n \in T, n < m PROVE FALSE
    <2>1. 0..n \in Initial /\ 0..n \subseteq I /\ m \in I /\ m \notin 0..n
        BY <1>3, <1>4
    <2>2. 0..n \subseteq Nat /\ I \subseteq Nat
        BY <1>3
    <2>3. <<0..n, I>> \in StrictSubsetOrdering(Nat)
        BY <2>1, <2>2 DEF StrictSubsetOrdering
    <2> QED
        BY <1>2, <2>1, <2>3
<1> QED
    BY <1>4

\* A message that is being answered is at the head of the queue, and no
\* envelope is younger than the clock.
TypeInv ==
    /\ TypeOK
    /\ consumer \in {"acking", "handling", "copied"} => queue # <<>>
    /\ \A e \in Events : timestamp[e] <= clock
    /\ \A i \in DOMAIN custody_events : custody_events[i].timestamp <= clock

\* The timeline of an artifact that has rows has a last row: ORDER BY
\* timestamp, id is total (repository.py:13-21).
LEMMA LastRowExists ==
    ASSUME TypeInv, NEW a, RowsOf(a) # {}
    PROVE  \E i \in RowsOf(a) : IsLast(i, RowsOf(a))
<1> DEFINE R == RowsOf(a)
           n == Len(custody_events)
           Ages == {clock - custody_events[i].timestamp : i \in R}
<1>1. n \in Nat /\ DOMAIN custody_events = 1..n
    BY LenProperties DEF TypeInv, TypeOK
<1>2. \A i \in R : /\ i \in 1..n
                   /\ custody_events[i].timestamp \in Nat
                   /\ custody_events[i].timestamp <= clock
    <2> SUFFICES ASSUME NEW i \in R
                 PROVE  /\ i \in 1..n
                        /\ custody_events[i].timestamp \in Nat
                        /\ custody_events[i].timestamp <= clock
        OBVIOUS
    <2>1. i \in 1..n
        BY <1>1 DEF RowsOf
    <2>2. custody_events[i] \in CustodyRows
        BY <2>1, ElementOfSeq DEF TypeInv, TypeOK
    <2> QED
        BY <1>1, <2>1, <2>2 DEF TypeInv, CustodyRows
<1>3. clock \in Nat
    BY DEF TypeInv, TypeOK
<1>4. PICK k \in R : \A i \in R : custody_events[i].timestamp <= custody_events[k].timestamp
    <2>1. Ages \subseteq Nat /\ Ages # {}
        BY <1>2, <1>3
    <2>2. PICK m \in Ages : \A t \in Ages : m <= t
        BY <2>1, LeastNatural
    <2>3. PICK k \in R : m = clock - custody_events[k].timestamp
        BY <2>2
    <2>4. ASSUME NEW i \in R
          PROVE  custody_events[i].timestamp <= custody_events[k].timestamp
        <3>1. m <= clock - custody_events[i].timestamp
            BY <2>2
        <3> QED
            BY <1>2, <1>3, <2>3, <3>1
    <2> QED
        BY <2>4
<1> DEFINE Newest == {i \in R : custody_events[i].timestamp = custody_events[k].timestamp}
           Places == {n - i : i \in Newest}
<1>5. PICK l \in Newest : \A i \in Newest : i <= l
    <2>1. Places \subseteq Nat /\ Places # {}
        BY <1>1, <1>2
    <2>2. PICK m \in Places : \A t \in Places : m <= t
        BY <2>1, LeastNatural
    <2>3. PICK l \in Newest : m = n - l
        BY <2>2
    <2>4. ASSUME NEW i \in Newest PROVE i <= l
        <3>1. m <= n - i
            BY <2>2
        <3> QED
            BY <1>1, <1>2, <2>3, <3>1
    <2> QED
        BY <2>4
<1>6. ASSUME NEW j \in R, j # l PROVE Before(j, l)
    <2>1. l \in R /\ custody_events[l].timestamp = custody_events[k].timestamp
        BY <1>5
    <2>2. custody_events[j].timestamp <= custody_events[l].timestamp
        BY <1>4, <2>1
    <2>3. CASE custody_events[j].timestamp = custody_events[l].timestamp
        <3>1. j <= l
            BY <1>5, <2>1, <2>3
        <3> QED
            BY <1>2, <1>6, <2>1, <2>3, <3>1 DEF Before
    <2>4. CASE custody_events[j].timestamp # custody_events[l].timestamp
        BY <1>2, <2>1, <2>2, <2>4 DEF Before
    <2> QED
        BY <2>3, <2>4
<1> QED
    BY <1>5, <1>6 DEF IsLast

\* The hash a new row is linked to is a chain of events.
LEMMA LastHashType ==
    ASSUME TypeInv, NEW a
    PROVE  get_last_event_hash(a) \in Seq(Events)
<1>1. CASE RowsOf(a) = {}
    BY <1>1 DEF get_last_event_hash, NoHash
<1>2. CASE RowsOf(a) # {}
    <2> DEFINE k == CHOOSE i \in RowsOf(a) : IsLast(i, RowsOf(a))
    <2>1. k \in RowsOf(a)
        BY <1>2, LastRowExists
    <2>2. custody_events[k] \in CustodyRows
        BY <2>1, LenProperties, ElementOfSeq DEF RowsOf, TypeInv, TypeOK
    <2> QED
        BY <1>2, <2>2 DEF get_last_event_hash, CustodyRows
<1> QED
    BY <1>1, <1>2

\* Publishing leaves what is queued where it is.
LEMMA RouteKeeps ==
    ASSUME TypeInv, NEW e \in Events, NEW n \in 0..CONSUMER_RETRIES, Route(e, n)
    PROVE  /\ queue' \in Seq(Messages)
           /\ queue # <<>> => queue' # <<>> /\ Delivered' = Delivered
           /\ \A i \in DOMAIN queue : i \in DOMAIN queue' /\ queue'[i] = queue[i]
           /\ \A i \in DOMAIN queue' :
                 \/ i \in DOMAIN queue /\ queue'[i] = queue[i]
                 \/ queue'[i] = [event |-> e, retry |-> n]
           /\ bound => /\ Len(queue) + 1 \in DOMAIN queue'
                       /\ queue'[Len(queue) + 1] = [event |-> e, retry |-> n]
<1> DEFINE x == [event |-> e, retry |-> n]
<1>1. queue \in Seq(Messages) /\ x \in Messages
    BY DEF TypeInv, TypeOK, Messages
<1>2. CASE ~bound
    BY <1>1, <1>2 DEF Route, Delivered
<1>3. CASE bound
    <2>1. queue' = Append(queue, x)
        BY <1>3 DEF Route
    <2>2. /\ queue' \in Seq(Messages)
          /\ queue' # <<>>
          /\ Len(queue') = Len(queue) + 1
          /\ \A i \in 1..Len(queue) : queue'[i] = queue[i]
          /\ queue'[Len(queue) + 1] = x
        BY <1>1, <2>1, AppendProperties
    <2>3. Head(queue') = IF queue = <<>> THEN x ELSE Head(queue)
        BY <1>1, <2>1, HeadTailAppend
    <2>4. /\ Len(queue) \in Nat
          /\ DOMAIN queue = 1..Len(queue)
          /\ DOMAIN queue' = 1..(Len(queue) + 1)
        BY <1>1, <2>2, LenProperties
    <2> QED
        BY <2>2, <2>3, <2>4 DEF Delivered
<1> QED
    BY <1>2, <1>3

\* An answered message leaves the queue, the others move up.
LEMMA TailKeeps ==
    ASSUME TypeInv, queue # <<>>, queue' = Tail(queue)
    PROVE  /\ queue' \in Seq(Messages)
           /\ \A i \in DOMAIN queue' : i + 1 \in DOMAIN queue /\ queue'[i] = queue[i + 1]
           /\ \A i \in DOMAIN queue : i # 1 => i - 1 \in DOMAIN queue' /\ queue'[i - 1] = queue[i]
           /\ queue[1] = Delivered
<1>1. queue \in Seq(Messages)
    BY DEF TypeInv, TypeOK
<1>2. /\ queue' \in Seq(Messages)
      /\ Len(queue') = Len(queue) - 1
      /\ \A i \in 1..Len(queue') : queue'[i] = queue[i + 1]
    BY <1>1, HeadTailProperties
<1>3. /\ Len(queue) \in Nat /\ DOMAIN queue = 1..Len(queue)
      /\ DOMAIN queue' = 1..(Len(queue) - 1)
    BY <1>1, <1>2, LenProperties
<1>4. queue[1] = Head(queue)
    BY <1>1
<1> QED
    BY <1>2, <1>3, <1>4 DEF Delivered

\* The message at the head of the queue is one of the events.
LEMMA DeliveredType ==
    ASSUME TypeInv, queue # <<>>
    PROVE  /\ Delivered.event \in Events
           /\ Delivered.retry \in 0..CONSUMER_RETRIES
           /\ 1 \in DOMAIN queue /\ queue[1] = Delivered
<1>1. queue \in Seq(Messages)
    BY DEF TypeInv, TypeOK
<1>2. Delivered \in Messages /\ Delivered = queue[1]
    BY <1>1, HeadTailProperties DEF Delivered
<1>3. 1 \in DOMAIN queue
    BY <1>1, EmptySeq, LenProperties
<1> QED
    BY <1>2, <1>3 DEF Messages

\* A copy that may still be made counts within the limit (consumer.py:122-139).
LEMMA RetryAllowed ==
    ASSUME TypeInv, consumer = "handling", Delivered.retry < CONSUMER_RETRIES
    PROVE  /\ queue # <<>> /\ Delivered.event \in Events
           /\ Delivered.retry + 1 \in 0..CONSUMER_RETRIES
<1>1. queue # <<>>
    BY DEF TypeInv
<1>2. Delivered.event \in Events /\ Delivered.retry \in 0..CONSUMER_RETRIES
    BY <1>1, DeliveredType
<1> QED
    BY <1>1, <1>2, ParameterTypes

\* What one call of insert_custody_event and mark_processed does to the
\* tables (consumer.py:39-80).
LEMMA PersistEffect ==
    ASSUME TypeInv, NEW e \in Events, Persist(e)
    PROVE  /\ custody_events' \in Seq(CustodyRows)
           /\ processed' = processed \cup {e}
           /\ \A i \in DOMAIN custody_events :
                 i \in DOMAIN custody_events' /\ custody_events'[i] = custody_events[i]
           /\ \A i \in DOMAIN custody_events' \ DOMAIN custody_events :
                 /\ e \notin processed
                 /\ i = Len(custody_events) + 1
                 /\ custody_events'[i].event = e
                 /\ custody_events'[i].timestamp = timestamp[e]
<1>1. custody_events \in Seq(CustodyRows)
    BY DEF TypeInv, TypeOK
<1>2. CASE e \in processed
    BY <1>1, <1>2 DEF Persist
<1>3. CASE e \notin processed
    <2> DEFINE p == get_last_event_hash(e.artifact)
               x == [event |-> e, timestamp |-> timestamp[e],
                     previous_event_hash |-> p, event_hash |-> compute_event_hash(e, p)]
    <2>1. p \in Seq(Events)
        BY LastHashType
    <2>2. compute_event_hash(e, p) \in Seq(Events)
        BY <2>1, AppendProperties DEF compute_event_hash
    <2>3. x \in CustodyRows
        BY <2>1, <2>2 DEF CustodyRows, TypeInv, TypeOK
    <2>4. custody_events' = Append(custody_events, x) /\ processed' = processed \cup {e}
        BY <1>3 DEF Persist
    <2>5. /\ custody_events' \in Seq(CustodyRows)
          /\ Len(custody_events') = Len(custody_events) + 1
          /\ \A i \in 1..Len(custody_events) : custody_events'[i] = custody_events[i]
          /\ custody_events'[Len(custody_events) + 1] = x
        BY <1>1, <2>3, <2>4, AppendProperties
    <2>6. /\ Len(custody_events) \in Nat
          /\ DOMAIN custody_events = 1..Len(custody_events)
          /\ DOMAIN custody_events' = 1..(Len(custody_events) + 1)
        BY <1>1, <2>5, LenProperties
    <2> QED
        BY <1>3, <2>4, <2>5, <2>6
<1> QED
    BY <1>2, <1>3

-----------------------------------------------------------------------------
(* Types *)

\* The audit reporter's timestamp lies in the past (publisher.py).
LEMMA CutTimestamp ==
    ASSUME NEW t \in Nat
    PROVE  t - (t % TicksPerSecond) \in Nat /\ t - (t % TicksPerSecond) <= t
<1>1. TicksPerSecond \in Nat \ {0}
    BY ParameterTypes
<1>2. t % TicksPerSecond \in 0..t
    BY <1>1
<1> QED
    BY <1>2

\* Recorded timestamps stay in the past as time goes on.
LEMMA RowsInThePast ==
    ASSUME TypeInv, UNCHANGED custody_events, clock' = clock + 1
    PROVE  \A i \in DOMAIN custody_events' : custody_events'[i].timestamp <= clock'
<1> SUFFICES ASSUME NEW i \in DOMAIN custody_events
             PROVE  custody_events[i].timestamp <= clock + 1
    OBVIOUS
<1>1. custody_events[i] \in CustodyRows
    BY LenProperties, ElementOfSeq DEF TypeInv, TypeOK
<1> QED
    BY <1>1 DEF TypeInv, TypeOK, CustodyRows

LEMMA FaultType ==
    ASSUME TypeInv, Fault
    PROVE  faults' \in 0..MaxFaults
<1>1. MaxFaults \in Nat
    BY ParameterTypes
<1> QED
    BY <1>1 DEF TypeInv, TypeOK, Fault

LEMMA FirstAttempt == 0 \in 0..CONSUMER_RETRIES
BY ParameterTypes

LEMMA PersistTypes ==
    ASSUME TypeInv, NEW e \in Events, Persist(e), UNCHANGED clock
    PROVE  /\ custody_events' \in Seq(CustodyRows)
           /\ processed' \subseteq Events
           /\ \A i \in DOMAIN custody_events' : custody_events'[i].timestamp <= clock'
<1>1. processed' \subseteq Events
    BY PersistEffect DEF TypeInv, TypeOK
<1>2. ASSUME NEW i \in DOMAIN custody_events' PROVE custody_events'[i].timestamp <= clock'
    <2>1. CASE i \in DOMAIN custody_events
        BY <2>1, PersistEffect DEF TypeInv
    <2>2. CASE i \notin DOMAIN custody_events
        BY <1>2, <2>2, PersistEffect DEF TypeInv
    <2> QED
        BY <2>1, <2>2
<1> QED
    BY <1>1, <1>2, PersistEffect

LEMMA InitTypeInv == Init => TypeInv
BY ParameterTypes DEF Init, TypeInv, TypeOK, NoHash

LEMMA NextTypeInv ==
    ASSUME TypeInv, [Next]_vars
    PROVE  TypeInv'
<1> USE DEF TypeInv
<1> USE DEF producerVars, workerVars, brokerVars, consumerVars
<1>1. ASSUME NEW e \in Events, BeginTransaction(e) PROVE TypeInv'
    <2>1. \A i \in DOMAIN custody_events' : custody_events'[i].timestamp <= clock'
        BY <1>1, RowsInThePast DEF BeginTransaction
    <2>2. \A d \in Events : timestamp'[d] <= clock'
        BY <1>1 DEF TypeOK, BeginTransaction
    <2> QED
        BY <1>1, <2>1, <2>2 DEF TypeOK, BeginTransaction
<1>2. ASSUME NEW e \in Events, BuildEnvelope(e) PROVE TypeInv'
    <2>1. \A i \in DOMAIN custody_events' : custody_events'[i].timestamp <= clock'
        BY <1>2, RowsInThePast DEF BuildEnvelope
    <2>2. \A d \in Events : timestamp'[d] <= clock'
        BY <1>2 DEF TypeOK, BuildEnvelope
    <2> QED
        BY <1>2, <2>1, <2>2 DEF TypeOK, BuildEnvelope
<1>3. ASSUME NEW e \in Events, CommitOutbox(e) PROVE TypeInv'
    BY <1>3 DEF TypeOK, CommitOutbox
<1>4. ASSUME NEW e \in Events, PublishDirect(e) PROVE TypeInv'
    <2>1. /\ queue' \in Seq(Messages)
          /\ queue # <<>> => queue' # <<>>
        <3>1. CASE Route(e, 0)
            BY <3>1, RouteKeeps, FirstAttempt
        <3>2. CASE UNCHANGED queue
            BY <3>2 DEF TypeOK
        <3> QED
            BY <1>4, <3>1, <3>2 DEF PublishDirect
    <2>2. /\ clock' \in Nat /\ clock <= clock'
          /\ clock - (clock % TicksPerSecond) \in Nat
          /\ clock - (clock % TicksPerSecond) <= clock'
        <3> DEFINE cut == clock - (clock % TicksPerSecond)
        <3>1. clock \in Nat
            BY DEF TypeOK
        <3>2. cut \in Nat /\ cut <= clock
            BY <3>1, CutTimestamp
        <3>3. clock' = clock + 1
            BY <1>4 DEF PublishDirect
        <3> HIDE DEF cut
        <3>4. cut <= clock'
            BY <3>1, <3>2, <3>3
        <3> QED
            BY <3>1, <3>2, <3>3, <3>4 DEF cut
    <2>3. faults' \in 0..MaxFaults
        BY <1>4, FaultType DEF TypeOK, PublishDirect, BrokerFault
    <2>4. /\ timestamp' \in [Events -> Nat]
          /\ \A d \in Events : timestamp'[d] <= clock'
        BY <1>4, <2>2 DEF TypeOK, PublishDirect
    <2>5. \A i \in DOMAIN custody_events' : custody_events'[i].timestamp <= clock'
        BY <1>4, RowsInThePast DEF PublishDirect
    <2>6. sent' \in [Events -> {"none", "begun", "open", "unpublished", "published", "refused"}]
        BY <1>4 DEF TypeOK, PublishDirect
    <2> QED
        BY <1>4, <2>1, <2>2, <2>3, <2>4, <2>5, <2>6 DEF TypeOK, PublishDirect
<1>5. CASE SelectBatch
    BY <1>5 DEF TypeOK, SelectBatch, Oldest, Unpublished
<1>6. ASSUME NEW e \in Events, Publish(e) PROVE TypeInv'
    <2>1. queue' \in Seq(Messages) /\ (queue # <<>> => queue' # <<>>)
        BY <1>6, RouteKeeps, FirstAttempt DEF Publish
    <2> QED
        BY <1>6, <2>1 DEF TypeOK, Publish
<1>7. ASSUME NEW e \in Events, PublishFails(e) PROVE TypeInv'
    <2>1. queue' \in Seq(Messages) /\ (queue # <<>> => queue' # <<>>)
        <3>1. CASE Route(e, 0)
            BY <3>1, RouteKeeps, FirstAttempt
        <3>2. CASE UNCHANGED queue
            BY <3>2 DEF TypeOK
        <3> QED
            BY <1>7, <3>1, <3>2 DEF PublishFails
    <2> QED
        BY <1>7, <2>1, FaultType DEF TypeOK, PublishFails, BrokerFault
<1>8. CASE CommitCycle
    BY <1>8 DEF TypeOK, CommitCycle
<1>9. CASE AbandonCycle
    BY <1>9, FaultType DEF TypeOK, AbandonCycle
<1>10. CASE Process
    <2>1. Delivered.event \in Events
        BY <1>10, DeliveredType DEF Process
    <2> QED
        BY <1>10, <2>1, PersistTypes DEF TypeOK, Process
<1>11. CASE ProcessFails
    <2>1. Delivered.event \in Events
        BY <1>11, DeliveredType DEF ProcessFails
    <2>2. /\ custody_events' \in Seq(CustodyRows)
          /\ processed' \subseteq Events
          /\ \A i \in DOMAIN custody_events' : custody_events'[i].timestamp <= clock'
        <3>1. CASE Persist(Delivered.event)
            BY <1>11, <2>1, <3>1, PersistTypes DEF ProcessFails
        <3>2. CASE UNCHANGED <<custody_events, processed>>
            BY <1>11, <3>2 DEF TypeOK, ProcessFails
        <3> QED
            BY <1>11, <3>1, <3>2 DEF ProcessFails
    <2>3. failures' \in [Events -> Nat]
        BY <1>11, <2>1 DEF TypeOK, ProcessFails
    <2>4. faults' \in 0..MaxFaults
        BY <1>11, FaultType DEF TypeOK, ProcessFails
    <2> QED
        BY <1>11, <2>2, <2>3, <2>4 DEF TypeOK, ProcessFails
<1>12. CASE Ack
    BY <1>12, TailKeeps DEF TypeOK, Ack
<1>13. CASE AnswerLost
    BY <1>13, FaultType DEF TypeOK, AnswerLost, BrokerFault
<1>14. CASE AckRaises
    <2>1. Delivered.event \in Events
        BY <1>14, DeliveredType DEF AckRaises
    <2>2. failures' \in [Events -> Nat]
        BY <1>14, <2>1 DEF TypeOK, AckRaises
    <2>3. faults' \in 0..MaxFaults
        BY <1>14, FaultType DEF TypeOK, AckRaises, BrokerFault
    <2> QED
        BY <1>14, <2>2, <2>3 DEF TypeOK, AckRaises
<1>15. CASE Requeue
    <2>1. queue' \in Seq(Messages) /\ queue' # <<>>
        BY <1>15, RetryAllowed, RouteKeeps DEF Requeue
    <2> QED
        BY <1>15, <2>1 DEF TypeOK, Requeue
<1>16. CASE Reject
    <2>1. queue # <<>> /\ Delivered.event \in Events
        BY <1>16, DeliveredType DEF Reject
    <2> QED
        BY <1>16, <2>1, TailKeeps DEF TypeOK, Reject
<1>17. CASE HandlerRaises
    <2>1. queue' \in Seq(Messages)
        <3>1. CASE UNCHANGED queue
            BY <3>1 DEF TypeOK
        <3>2. CASE /\ consumer = "handling" /\ Delivered.retry < CONSUMER_RETRIES
                   /\ Route(Delivered.event, Delivered.retry + 1)
            BY <3>2, RetryAllowed, RouteKeeps
        <3> QED
            BY <1>17, <3>1, <3>2 DEF HandlerRaises
    <2> QED
        BY <1>17, <2>1, FaultType DEF TypeOK, HandlerRaises, BrokerFault
<1>18. CASE StartCustody
    BY <1>18 DEF TypeOK, StartCustody
<1>19. CASE StopCustody
    BY <1>19, FaultType DEF TypeOK, StopCustody
<1>20. CASE UNCHANGED vars
    BY <1>20 DEF TypeOK, vars
<1> QED
    BY <1>1, <1>2, <1>3, <1>4, <1>5, <1>6, <1>7, <1>8, <1>9, <1>10, <1>11, <1>12, <1>13,
       <1>14, <1>15, <1>16, <1>17, <1>18, <1>19, <1>20 DEF Next, Producers, Worker, Consumer

LEMMA SpecTypeInv == Spec => []TypeInv
BY InitTypeInv, NextTypeInv, PTL DEF Spec

\* No failure, crash or retry takes a variable out of its type; in
\* particular x-retry-count never exceeds _MAX_RETRIES (consumer.py:109-135).
THEOREM PipelineTypeCorrect == Spec => []TypeOK
<1>1. TypeInv => TypeOK
    BY DEF TypeInv
<1> QED
    BY <1>1, SpecTypeInv, PTL

-----------------------------------------------------------------------------
(* Recording *)

\* The tables change only by one call of _process_message for one event.
LEMMA TablesStep ==
    ASSUME TypeInv, [Next]_vars
    PROVE  \/ UNCHANGED <<custody_events, processed>>
           \/ \E e \in Events : Persist(e)
<1> USE DEF consumerVars
<1>1. CASE Producers
    BY <1>1 DEF Producers, BeginTransaction, BuildEnvelope, CommitOutbox, PublishDirect
<1>2. CASE Worker
    BY <1>2 DEF Worker, SelectBatch, Publish, PublishFails, CommitCycle, AbandonCycle
<1>3. CASE Process \/ ProcessFails
    <2>1. Delivered.event \in Events
        BY <1>3, DeliveredType DEF Process, ProcessFails
    <2> QED
        BY <1>3, <2>1 DEF Process, ProcessFails
<1>4. CASE \/ Ack \/ AnswerLost \/ AckRaises \/ Requeue \/ Reject \/ HandlerRaises
           \/ StartCustody \/ StopCustody
    BY <1>4 DEF Ack, AnswerLost, AckRaises, Requeue, Reject, HandlerRaises,
                StartCustody, StopCustody
<1>5. CASE UNCHANGED vars
    BY <1>5 DEF vars
<1> QED
    BY <1>1, <1>2, <1>3, <1>4, <1>5 DEF Next, Consumer

\* Every recorded event is marked as processed.
OnceInv ==
    /\ \A i \in DOMAIN custody_events : custody_events[i].event \in processed
    /\ RecordedOnce

LEMMA NextOnceInv ==
    ASSUME TypeInv, OnceInv, [Next]_vars
    PROVE  OnceInv'
<1>1. CASE UNCHANGED <<custody_events, processed>>
    BY <1>1 DEF OnceInv, RecordedOnce
<1>2. ASSUME NEW e \in Events, Persist(e) PROVE OnceInv'
    <2>1. /\ processed' = processed \cup {e}
          /\ \A i \in DOMAIN custody_events :
                i \in DOMAIN custody_events' /\ custody_events'[i] = custody_events[i]
          /\ \A i \in DOMAIN custody_events' \ DOMAIN custody_events :
                /\ e \notin processed
                /\ i = Len(custody_events) + 1
                /\ custody_events'[i].event = e
        BY <1>2, PersistEffect
    <2>2. \A i \in DOMAIN custody_events' : custody_events'[i].event \in processed'
        BY <2>1 DEF OnceInv
    <2>3. ASSUME NEW i \in DOMAIN custody_events', NEW j \in DOMAIN custody_events',
                 custody_events'[i].event = custody_events'[j].event
          PROVE  i = j
        <3>1. CASE i \in DOMAIN custody_events /\ j \in DOMAIN custody_events
            BY <2>1, <2>3, <3>1 DEF OnceInv, RecordedOnce
        <3>2. CASE i \in DOMAIN custody_events /\ j \notin DOMAIN custody_events
            BY <2>1, <2>3, <3>2 DEF OnceInv
        <3>3. CASE i \notin DOMAIN custody_events /\ j \in DOMAIN custody_events
            BY <2>1, <2>3, <3>3 DEF OnceInv
        <3>4. CASE i \notin DOMAIN custody_events /\ j \notin DOMAIN custody_events
            BY <2>1, <3>4
        <3> QED
            BY <3>1, <3>2, <3>3, <3>4
    <2> QED
        BY <2>2, <2>3 DEF OnceInv, RecordedOnce
<1> QED
    BY <1>1, <1>2, TablesStep

\* Redelivery, retries and repeated cycles of the worker never record an
\* event twice (consumer.py:39-41, 79-80).
THEOREM EventsAreRecordedOnce == Spec => []RecordedOnce
<1>1. Init => OnceInv
    BY DEF Init, OnceInv, RecordedOnce
<1>2. TypeInv /\ OnceInv /\ [Next]_vars => OnceInv'
    BY NextOnceInv
<1>3. OnceInv => RecordedOnce
    BY DEF OnceInv
<1> QED
    BY <1>1, <1>2, <1>3, SpecTypeInv, PTL DEF Spec

-----------------------------------------------------------------------------
(* Dead letters *)

\* Each copy of an event counts no more retries than attempts have failed,
\* and one less while the failure of the present attempt is being handled.
RetryInv ==
    /\ \A i \in DOMAIN queue : queue[i].retry <= failures[queue[i].event]
    /\ consumer = "handling" => Delivered.retry + 1 <= failures[Delivered.event]
    /\ DeadLetterAfterAllAttempts

\* A step that only adds copies with an honest count keeps RetryInv.
LEMMA RetryInvRoute ==
    ASSUME TypeInv, RetryInv, UNCHANGED <<dlq, failures>>,
           consumer' = "handling" => consumer = "handling",
           NEW e \in Events, NEW n \in 0..CONSUMER_RETRIES,
           n <= failures[e], Route(e, n)
    PROVE  RetryInv'
<1>1. ASSUME NEW i \in DOMAIN queue' PROVE queue'[i].retry <= failures'[queue'[i].event]
    <2>1. CASE i \in DOMAIN queue /\ queue'[i] = queue[i]
        BY <2>1 DEF RetryInv
    <2>2. CASE queue'[i] = [event |-> e, retry |-> n]
        BY <2>2
    <2> QED
        BY <2>1, <2>2, RouteKeeps
<1>2. ASSUME consumer' = "handling"
      PROVE  Delivered'.retry + 1 <= failures'[Delivered'.event]
    <2>1. queue # <<>>
        BY <1>2 DEF TypeInv
    <2> QED
        BY <1>2, <2>1, RouteKeeps DEF RetryInv
<1> QED
    BY <1>1, <1>2 DEF RetryInv, DeadLetterAfterAllAttempts

\* So does a step that takes the answered message away.
LEMMA RetryInvTail ==
    ASSUME TypeInv, RetryInv, queue # <<>>, queue' = Tail(queue), UNCHANGED failures,
           consumer' # "handling",
           \A e \in dlq' \ dlq : failures[e] >= CONSUMER_RETRIES + 1
    PROVE  RetryInv'
<1>1. \A i \in DOMAIN queue' : queue'[i].retry <= failures'[queue'[i].event]
    BY TailKeeps DEF RetryInv
<1> QED
    BY <1>1 DEF RetryInv, DeadLetterAfterAllAttempts

\* And one that counts a failure of the delivered event.
LEMMA RetryInvFailure ==
    ASSUME TypeInv, RetryInv, queue # <<>>, UNCHANGED <<queue, dlq>>,
           failures' = [failures EXCEPT ![Delivered.event] = @ + 1]
    PROVE  RetryInv'
<1>1. /\ Delivered.event \in Events /\ Delivered.retry \in Nat
      /\ 1 \in DOMAIN queue /\ queue[1] = Delivered
    BY DeliveredType, ParameterTypes
<1> DEFINE d == Delivered.event
<1>2. failures \in [Events -> Nat] /\ d \in Events
    BY <1>1 DEF TypeInv, TypeOK
<1>3. failures' = [failures EXCEPT ![d] = failures[d] + 1]
    OBVIOUS
<1> HIDE DEF d
<1>4. \A e \in Events : failures[e] \in Nat /\ failures'[e] \in Nat /\ failures[e] <= failures'[e]
    BY <1>2, <1>3
<1>5. failures'[d] = failures[d] + 1
    BY <1>2, <1>3
<1>6. failures'[Delivered.event] = failures[Delivered.event] + 1
    BY <1>5 DEF d
<1>7. ASSUME NEW i \in DOMAIN queue PROVE queue[i].retry <= failures'[queue[i].event]
    <2>1. queue[i] \in Messages
        BY LenProperties, ElementOfSeq DEF TypeInv, TypeOK
    <2>2. queue[i].event \in Events /\ queue[i].retry \in Nat
        BY <2>1, ParameterTypes DEF Messages
    <2>3. queue[i].retry <= failures[queue[i].event]
        BY DEF RetryInv
    <2> QED
        BY <1>4, <2>2, <2>3
<1>8. Delivered'.retry + 1 <= failures'[Delivered'.event]
    <2>1. Delivered.retry <= failures[Delivered.event]
        BY <1>1 DEF RetryInv
    <2> QED
        BY <1>1, <1>4, <1>6, <2>1 DEF Delivered
<1>9. \A e \in dlq' : failures'[e] >= CONSUMER_RETRIES + 1
    BY <1>4, ParameterTypes DEF RetryInv, DeadLetterAfterAllAttempts, TypeInv, TypeOK
<1> QED
    BY <1>7, <1>8, <1>9 DEF RetryInv, DeadLetterAfterAllAttempts

\* A step that leaves queue, dead letters and failures alone, and handles no
\* new failure, keeps it trivially.
LEMMA RetryInvUnchanged ==
    ASSUME RetryInv, UNCHANGED <<queue, dlq, failures>>,
           consumer' = "handling" => consumer = "handling"
    PROVE  RetryInv'
BY DEF RetryInv, DeadLetterAfterAllAttempts, Delivered

LEMMA NextRetryInv ==
    ASSUME TypeInv, RetryInv, [Next]_vars
    PROVE  RetryInv'
<1> USE DEF producerVars, workerVars, brokerVars, consumerVars
<1>0. ASSUME NEW e \in Events, Route(e, 0), UNCHANGED <<dlq, failures, consumer>>
      PROVE  RetryInv'
    <2>1. 0 <= failures[e]
        BY DEF TypeInv, TypeOK
    <2> QED
        BY <1>0, <2>1, FirstAttempt, RetryInvRoute
<1>1. ASSUME NEW e \in Events, BeginTransaction(e) \/ BuildEnvelope(e) \/ CommitOutbox(e)
      PROVE  RetryInv'
    BY <1>1, RetryInvUnchanged DEF BeginTransaction, BuildEnvelope, CommitOutbox
<1>2. ASSUME NEW e \in Events, PublishDirect(e) PROVE RetryInv'
    BY <1>0, <1>2, RetryInvUnchanged DEF PublishDirect
<1>3. CASE SelectBatch \/ CommitCycle \/ AbandonCycle
    BY <1>3, RetryInvUnchanged DEF SelectBatch, CommitCycle, AbandonCycle
<1>4. ASSUME NEW e \in Events, Publish(e) PROVE RetryInv'
    BY <1>0, <1>4 DEF Publish
<1>5. ASSUME NEW e \in Events, PublishFails(e) PROVE RetryInv'
    BY <1>0, <1>5, RetryInvUnchanged DEF PublishFails
<1>6. CASE Process
    BY <1>6, RetryInvUnchanged DEF Process
<1>7. CASE ProcessFails
    BY <1>7, RetryInvFailure DEF ProcessFails
<1>8. CASE Ack
    BY <1>8, RetryInvTail DEF Ack, TypeInv
<1>9. CASE AnswerLost \/ StartCustody \/ StopCustody
    BY <1>9, RetryInvUnchanged DEF AnswerLost, StartCustody, StopCustody
<1>10. CASE AckRaises
    BY <1>10, RetryInvFailure DEF AckRaises, TypeInv
<1>11. ASSUME consumer = "handling", Delivered.retry < CONSUMER_RETRIES,
              Route(Delivered.event, Delivered.retry + 1),
              UNCHANGED <<dlq, failures>>, consumer' # "handling"
       PROVE  RetryInv'
    <2>1. Delivered.retry + 1 <= failures[Delivered.event]
        BY <1>11 DEF RetryInv
    <2> QED
        BY <1>11, <2>1, RetryAllowed, RetryInvRoute
<1>12. CASE Requeue
    BY <1>11, <1>12 DEF Requeue
<1>13. CASE Reject
    <2>1. queue # <<>>
        BY <1>13 DEF Reject, TypeInv
    <2>2. /\ Delivered.event \in Events /\ Delivered.retry \in 0..CONSUMER_RETRIES
          /\ failures[Delivered.event] \in Nat
        BY <2>1, DeliveredType DEF TypeInv, TypeOK
    <2>3. failures[Delivered.event] >= CONSUMER_RETRIES + 1
        BY <1>13, <2>2, ParameterTypes DEF Reject, RetryInv
    <2> QED
        BY <1>13, <2>1, <2>3, RetryInvTail DEF Reject
<1>14. CASE HandlerRaises
    BY <1>11, <1>14, RetryInvUnchanged DEF HandlerRaises
<1>15. CASE UNCHANGED vars
    BY <1>15, RetryInvUnchanged DEF vars
<1> QED
    BY <1>1, <1>2, <1>3, <1>4, <1>5, <1>6, <1>7, <1>8, <1>9, <1>10, <1>12, <1>13, <1>14, <1>15
       DEF Next, Producers, Worker, Consumer

\* An event reaches the dead letter queue only after 1 + _MAX_RETRIES failed
\* attempts, however many copies of it crashes leave (consumer.py:93-99).
THEOREM DeadLettersWereTried == Spec => []DeadLetterAfterAllAttempts
<1>1. Init => RetryInv
    BY DEF Init, RetryInv, DeadLetterAfterAllAttempts
<1>2. TypeInv /\ RetryInv /\ [Next]_vars => RetryInv'
    BY NextRetryInv
<1>3. RetryInv => DeadLetterAfterAllAttempts
    BY DEF RetryInv
<1> QED
    BY <1>1, <1>2, <1>3, SpecTypeInv, PTL DEF Spec

-----------------------------------------------------------------------------
(* Delivery *)

Present(e) == InQueue(e) \/ Settled(e)

\* The delivered event is settled, or waits behind the delivered copy.
Replaced ==
    \/ Settled(Delivered.event)
    \/ \E i \in DOMAIN queue : i # 1 /\ queue[i].event = Delivered.event

\* What the worker has published in its open cycle is present already, an
\* event being acknowledged is recorded or replaced by its copy.
DeliveryInv ==
    /\ bound
    /\ \A e \in done : Present(e)
    /\ NoPublishedEventLost
    /\ consumer \in {"acking", "copied"} => Replaced

\* While the queue only grows, nothing present vanishes.
LEMMA PresentGrows ==
    ASSUME \A i \in DOMAIN queue : i \in DOMAIN queue' /\ queue'[i] = queue[i],
           processed \subseteq processed', dlq \subseteq dlq',
           NEW e, Present(e)
    PROVE  Present(e)'
BY DEF Present, InQueue, Settled

\* Nor does it when the delivered message goes and is replaced.
LEMMA PresentAfterTail ==
    ASSUME TypeInv, queue # <<>>, queue' = Tail(queue),
           UNCHANGED processed, dlq \subseteq dlq',
           Replaced,
           NEW e, Present(e)
    PROVE  Present(e)'
<1>1. CASE Settled(e)
    BY <1>1 DEF Settled, Present
<1>2. ASSUME NEW i \in DOMAIN queue, queue[i].event = e, i # 1 PROVE Present(e)'
    <2>1. i - 1 \in DOMAIN queue' /\ queue'[i - 1] = queue[i]
        BY <1>2, TailKeeps
    <2> QED
        BY <1>2, <2>1 DEF Present, InQueue
<1>3. ASSUME queue[1].event = e PROVE Present(e)'
    <2>1. e = Delivered.event
        BY <1>3, TailKeeps
    <2> QED
        BY <1>1, <1>2, <2>1 DEF Replaced
<1> QED
    BY <1>1, <1>2, <1>3 DEF Present, InQueue

\* Replaced survives as long as the delivered message stays where it is.
LEMMA ReplacedKept ==
    ASSUME Replaced, Delivered' = Delivered,
           \A i \in DOMAIN queue : i \in DOMAIN queue' /\ queue'[i] = queue[i],
           processed \subseteq processed', dlq \subseteq dlq'
    PROVE  Replaced'
BY DEF Replaced, Settled

\* A step that publishes e (or nothing), counts nothing but e as published
\* and acknowledges nothing new.
LEMMA DeliveryInvRoute ==
    ASSUME TypeInv, DeliveryInv, NEW e \in Events, NEW n \in 0..CONSUMER_RETRIES,
           Route(e, n), UNCHANGED <<bound, dlq, processed>>,
           done' \subseteq done \cup {e},
           \A d \in Events : sent'[d] = "published" => sent[d] = "published" \/ d = e,
           consumer' \in {"acking", "copied"} => consumer' = consumer
    PROVE  DeliveryInv' /\ Present(e)'
<1>1. /\ queue # <<>> => Delivered' = Delivered
      /\ \A i \in DOMAIN queue : i \in DOMAIN queue' /\ queue'[i] = queue[i]
      /\ Len(queue) + 1 \in DOMAIN queue'
      /\ queue'[Len(queue) + 1].event = e
    <2>1. bound
        BY DEF DeliveryInv
    <2>2. queue'[Len(queue) + 1] = [event |-> e, retry |-> n]
        BY <2>1, RouteKeeps
    <2> QED
        BY <2>1, <2>2, RouteKeeps
<1>2. Present(e)'
    BY <1>1 DEF Present, InQueue
<1>3. \A d : Present(d) => Present(d)'
    BY <1>1, PresentGrows
<1>4. consumer' \in {"acking", "copied"} => Replaced'
    BY <1>1, ReplacedKept DEF DeliveryInv, TypeInv
<1>5. \A d \in done' : Present(d)'
    BY <1>2, <1>3 DEF DeliveryInv
<1>6. NoPublishedEventLost'
    BY <1>2, <1>3 DEF DeliveryInv, NoPublishedEventLost, Present
<1> QED
    BY <1>2, <1>4, <1>5, <1>6 DEF DeliveryInv

\* A step that leaves the broker alone and forgets nothing.
LEMMA DeliveryInvStay ==
    ASSUME DeliveryInv, UNCHANGED <<queue, dlq>>, bound', processed \subseteq processed',
           done' \subseteq done,
           \A d \in Events : sent'[d] = "published" => sent[d] = "published" \/ d \in done,
           consumer' \in {"acking", "copied"} => consumer' = consumer \/ Replaced'
    PROVE  DeliveryInv'
<1>1. \A d : Present(d) => Present(d)'
    BY PresentGrows
<1>2. Replaced => Replaced'
    BY ReplacedKept DEF Delivered
<1>3. NoPublishedEventLost'
    BY <1>1 DEF DeliveryInv, NoPublishedEventLost, Present
<1> QED
    BY <1>1, <1>2, <1>3 DEF DeliveryInv

LEMMA NextDeliveryInv ==
    ASSUME TypeInv, DeliveryInv, [Next]_vars
    PROVE  DeliveryInv'
<1> USE DEF producerVars, workerVars, brokerVars, consumerVars
<1>1. ASSUME NEW e \in Events, BeginTransaction(e) \/ BuildEnvelope(e) \/ CommitOutbox(e)
      PROVE  DeliveryInv'
    <2>1. \A d \in Events : sent'[d] = "published" => sent[d] = "published"
        BY <1>1 DEF TypeInv, TypeOK, BeginTransaction, BuildEnvelope, CommitOutbox
    <2> QED
        BY <1>1, <2>1, DeliveryInvStay DEF DeliveryInv, BeginTransaction, BuildEnvelope, CommitOutbox
<1>2. ASSUME NEW e \in Events, PublishDirect(e) PROVE DeliveryInv'
    <2>1. CASE Route(e, 0) /\ sent' = [sent EXCEPT ![e] = "published"]
        <3>1. \A d \in Events : sent'[d] = "published" => sent[d] = "published" \/ d = e
            BY <2>1 DEF TypeInv, TypeOK
        <3> QED
            BY <1>2, <2>1, <3>1, FirstAttempt, DeliveryInvRoute DEF PublishDirect
    <2>2. CASE UNCHANGED queue /\ sent' = [sent EXCEPT ![e] = "refused"]
        <3>1. \A d \in Events : sent'[d] = "published" => sent[d] = "published"
            BY <2>2 DEF TypeInv, TypeOK
        <3> QED
            BY <1>2, <2>2, <3>1, DeliveryInvStay DEF DeliveryInv, PublishDirect
    <2> QED
        BY <1>2, <2>1, <2>2 DEF PublishDirect
<1>3. CASE SelectBatch \/ AbandonCycle
    BY <1>3, DeliveryInvStay DEF DeliveryInv, SelectBatch, AbandonCycle
<1>4. CASE CommitCycle
    <2>1. \A d \in Events : sent'[d] = "published" => sent[d] = "published" \/ d \in done
        BY <1>4 DEF CommitCycle
    <2> QED
        BY <1>4, <2>1, DeliveryInvStay DEF DeliveryInv, CommitCycle
<1>5. ASSUME NEW e \in Events, Publish(e) PROVE DeliveryInv'
    BY <1>5, FirstAttempt, DeliveryInvRoute DEF Publish
<1>6. ASSUME NEW e \in Events, PublishFails(e) PROVE DeliveryInv'
    <2>1. CASE Route(e, 0)
        BY <1>6, <2>1, FirstAttempt, DeliveryInvRoute DEF PublishFails
    <2>2. CASE UNCHANGED queue
        BY <1>6, <2>2, DeliveryInvStay DEF DeliveryInv, PublishFails
    <2> QED
        BY <1>6, <2>1, <2>2 DEF PublishFails
<1>7. CASE Process
    <2>1. Delivered.event \in Events
        BY <1>7, DeliveredType DEF Process
    <2>2. processed' = processed \cup {Delivered.event}
        BY <1>7, <2>1, PersistEffect DEF Process
    <2>3. Delivered' = Delivered
        BY <1>7 DEF Process, Delivered
    <2>4. Replaced'
        BY <2>2, <2>3 DEF Replaced, Settled
    <2> QED
        BY <1>7, <2>2, <2>4, DeliveryInvStay DEF DeliveryInv, Process
<1>8. CASE ProcessFails
    <2>1. Delivered.event \in Events
        BY <1>8, DeliveredType DEF ProcessFails
    <2>2. processed \subseteq processed'
        BY <1>8, <2>1, PersistEffect DEF ProcessFails
    <2> QED
        BY <1>8, <2>2, DeliveryInvStay DEF DeliveryInv, ProcessFails
<1>9. CASE Ack
    <2>1. queue # <<>> /\ Replaced
        BY <1>9 DEF Ack, TypeInv, DeliveryInv
    <2>2. \A d : Present(d) => Present(d)'
        BY <1>9, <2>1, PresentAfterTail DEF Ack
    <2>3. NoPublishedEventLost'
        BY <1>9, <2>2 DEF Ack, DeliveryInv, NoPublishedEventLost, Present
    <2> QED
        BY <1>9, <2>2, <2>3 DEF Ack, DeliveryInv
<1>10. CASE AnswerLost \/ AckRaises \/ StopCustody \/ StartCustody
    BY <1>10, DeliveryInvStay DEF DeliveryInv, AnswerLost, AckRaises, StopCustody, StartCustody
<1>11. CASE Requeue
    <2>1. /\ queue # <<>> /\ Delivered' = Delivered
          /\ \A i \in DOMAIN queue : i \in DOMAIN queue' /\ queue'[i] = queue[i]
          /\ Len(queue) + 1 \in DOMAIN queue'
          /\ queue'[Len(queue) + 1].event = Delivered.event
        <3> DEFINE n == Delivered.retry + 1
        <3>1. /\ queue # <<>> /\ Delivered.event \in Events /\ n \in 0..CONSUMER_RETRIES
              /\ Route(Delivered.event, n)
            BY <1>11, RetryAllowed DEF Requeue
        <3>2. bound
            BY DEF DeliveryInv
        <3>3. queue'[Len(queue) + 1] = [event |-> Delivered.event, retry |-> n]
            BY <3>1, <3>2, RouteKeeps
        <3> HIDE DEF n
        <3> QED
            BY <3>1, <3>2, <3>3, RouteKeeps
    <2>2. Len(queue) + 1 # 1
        BY <2>1, EmptySeq DEF TypeInv, TypeOK
    <2>3. Replaced'
        BY <2>1, <2>2 DEF Replaced
    <2>4. \A d : Present(d) => Present(d)'
        BY <1>11, <2>1, PresentGrows DEF Requeue
    <2>5. NoPublishedEventLost'
        BY <1>11, <2>4 DEF Requeue, DeliveryInv, NoPublishedEventLost, Present
    <2> QED
        BY <1>11, <2>3, <2>4, <2>5 DEF Requeue, DeliveryInv
<1>12. CASE Reject
    <2>1. queue # <<>> /\ Delivered.event \in dlq'
        BY <1>12 DEF Reject, TypeInv
    <2>2. \A d : Present(d) => Present(d)'
        <3> SUFFICES ASSUME NEW d, Present(d), ~ Settled(d) PROVE Present(d)'
            BY <1>12 DEF Reject, Settled, Present
        <3>1. PICK i \in DOMAIN queue : queue[i].event = d
            BY DEF Present, InQueue
        <3>2. CASE i = 1
            BY <1>12, <2>1, <3>1, <3>2, TailKeeps DEF Reject, Present, Settled
        <3>3. CASE i # 1
            BY <1>12, <2>1, <3>1, <3>3, TailKeeps DEF Reject, Present, InQueue
        <3> QED
            BY <3>2, <3>3
    <2>3. NoPublishedEventLost'
        BY <1>12, <2>2 DEF Reject, DeliveryInv, NoPublishedEventLost, Present
    <2> QED
        BY <1>12, <2>2, <2>3 DEF Reject, DeliveryInv
<1>13. CASE HandlerRaises
    <2>1. CASE UNCHANGED queue
        BY <1>13, <2>1, DeliveryInvStay DEF DeliveryInv, HandlerRaises
    <2>2. CASE /\ consumer = "handling" /\ Delivered.retry < CONSUMER_RETRIES
               /\ Route(Delivered.event, Delivered.retry + 1)
        BY <1>13, <2>2, RetryAllowed, DeliveryInvRoute DEF HandlerRaises
    <2> QED
        BY <1>13, <2>1, <2>2 DEF HandlerRaises
<1>14. CASE UNCHANGED vars
    BY <1>14, DeliveryInvStay DEF DeliveryInv, vars
<1> QED
    BY <1>1, <1>2, <1>3, <1>4, <1>5, <1>6, <1>7, <1>8, <1>9, <1>10, <1>11, <1>12, <1>13, <1>14
       DEF Next, Producers, Worker, Consumer

\* With the queue declared, what a producer counts as published is never
\* lost, whatever stops, raises or is delivered twice.
THEOREM PublishedEventsSurvive == QueueDeclared => (Spec => []NoPublishedEventLost)
<1>1. QueueDeclared /\ Init => DeliveryInv
    BY DEF Init, DeliveryInv, NoPublishedEventLost
<1>2. TypeInv /\ DeliveryInv /\ [Next]_vars => DeliveryInv'
    BY NextDeliveryInv
<1>3. DeliveryInv => NoPublishedEventLost
    BY DEF DeliveryInv
<1> QED
    BY <1>1, <1>2, <1>3, SpecTypeInv, PTL DEF Spec

-----------------------------------------------------------------------------
(* The timeline *)

\* The rows of row i's artifact that were already there when i was inserted.
PriorRows(i) == {j \in RowsOf(custody_events[i].event.artifact) : j < i}

\* Row i carries its own hash and the hash of the row that was last when it
\* was inserted.
Linked(i) ==
    /\ custody_events[i].event_hash
          = compute_event_hash(custody_events[i].event, custody_events[i].previous_event_hash)
    /\ IF PriorRows(i) = {}
       THEN custody_events[i].previous_event_hash = NoHash
       ELSE \E m \in PriorRows(i) :
               /\ IsLast(m, PriorRows(i))
               /\ custody_events[i].previous_event_hash = custody_events[m].event_hash

LinkInv == \A i \in DOMAIN custody_events : Linked(i)

\* Rows are numbered as they come, and every column has its type.
LEMMA RowTypes ==
    ASSUME TypeInv, NEW i \in DOMAIN custody_events
    PROVE  /\ i \in Nat
           /\ custody_events[i].event \in Events
           /\ custody_events[i].timestamp \in Nat
           /\ custody_events[i].previous_event_hash \in Seq(Events)
           /\ custody_events[i].event_hash \in Seq(Events)
<1>1. custody_events \in Seq(CustodyRows)
    BY DEF TypeInv, TypeOK
<1>2. custody_events[i] \in CustodyRows /\ i \in Nat
    BY <1>1, LenProperties, ElementOfSeq
<1> QED
    BY <1>2 DEF CustodyRows

\* The link of a row is decided when it is inserted.
LEMMA LinkKept ==
    ASSUME TypeInv, NEW e \in Events, Persist(e), NEW i \in DOMAIN custody_events, Linked(i)
    PROVE  Linked(i)'
<1>1. /\ \A j \in DOMAIN custody_events :
            j \in DOMAIN custody_events' /\ custody_events'[j] = custody_events[j]
      /\ \A j \in DOMAIN custody_events' \ DOMAIN custody_events : j = Len(custody_events) + 1
    BY PersistEffect
<1>2. DOMAIN custody_events = 1..Len(custody_events) /\ Len(custody_events) \in Nat
    BY LenProperties DEF TypeInv, TypeOK
<1>3. \A j \in DOMAIN custody_events' : j < i => j \in DOMAIN custody_events
    BY <1>1, <1>2
<1>4. PriorRows(i)' = PriorRows(i) /\ PriorRows(i) \subseteq DOMAIN custody_events
    BY <1>1, <1>3 DEF PriorRows, RowsOf
<1>5. \A m \in PriorRows(i) : IsLast(m, PriorRows(i)) => IsLast(m, PriorRows(i))'
    BY <1>1, <1>4 DEF IsLast, Before
<1> QED
    BY <1>1, <1>4, <1>5 DEF Linked, compute_event_hash, NoHash

\* A new row is linked to the row that is last in the timeline
\* (repository.py:13-21, consumer.py:43-80).
LEMMA NewRowLinked ==
    ASSUME TypeInv, NEW e \in Events, Persist(e),
           NEW i \in DOMAIN custody_events' \ DOMAIN custody_events
    PROVE  Linked(i)'
<1> DEFINE R == RowsOf(e.artifact)
           p == get_last_event_hash(e.artifact)
           x == [event |-> e, timestamp |-> timestamp[e],
                 previous_event_hash |-> p, event_hash |-> compute_event_hash(e, p)]
<1>1. /\ \A j \in DOMAIN custody_events :
            j \in DOMAIN custody_events' /\ custody_events'[j] = custody_events[j]
      /\ \A j \in DOMAIN custody_events' \ DOMAIN custody_events : j = Len(custody_events) + 1
      /\ e \notin processed /\ i = Len(custody_events) + 1
    BY PersistEffect
<1>2. DOMAIN custody_events = 1..Len(custody_events) /\ Len(custody_events) \in Nat
    BY LenProperties DEF TypeInv, TypeOK
<1>3. custody_events'[i] = x
    <2>1. p \in Seq(Events)
        BY LastHashType
    <2>2. compute_event_hash(e, p) \in Seq(Events)
        BY <2>1, AppendProperties DEF compute_event_hash
    <2>3. x \in CustodyRows
        BY <2>1, <2>2 DEF CustodyRows, TypeInv, TypeOK
    <2>4. custody_events' = Append(custody_events, x)
        BY <1>1 DEF Persist
    <2> QED
        BY <1>1, <2>3, <2>4, AppendProperties DEF TypeInv, TypeOK
<1>4. x.event = e /\ x.previous_event_hash = p /\ x.event_hash = compute_event_hash(e, p)
    OBVIOUS
<1> HIDE DEF x
<1>5. PriorRows(i)' = R
    <2>1. \A j \in DOMAIN custody_events : j < i
        BY <1>1, <1>2
    <2>2. \A j \in DOMAIN custody_events' : j < i => j \in DOMAIN custody_events
        BY <1>1, <1>2
    <2> QED
        BY <1>1, <1>3, <1>4, <2>1, <2>2 DEF PriorRows, RowsOf
<1>6. ASSUME R # {}
      PROVE  \E m \in R : /\ IsLast(m, PriorRows(i))'
                         /\ p = custody_events[m].event_hash
                         /\ m \in DOMAIN custody_events
    <2> DEFINE last == CHOOSE k \in R : IsLast(k, R)
    <2>1. last \in R /\ IsLast(last, R) /\ p = custody_events[last].event_hash
        BY <1>6, LastRowExists DEF get_last_event_hash
    <2>2. PICK m \in R : IsLast(m, R) /\ p = custody_events[m].event_hash
        BY <2>1
    <2>3. m \in DOMAIN custody_events /\ \A j \in R : j \in DOMAIN custody_events
        BY DEF RowsOf
    <2>4. IsLast(m, PriorRows(i))'
        BY <1>1, <1>5, <2>2, <2>3 DEF IsLast, Before
    <2> QED
        BY <2>2, <2>3, <2>4
<1>7. R = {} => p = NoHash
    BY DEF get_last_event_hash
<1> HIDE DEF R, p
<1>8. CASE R = {}
    BY <1>3, <1>4, <1>5, <1>7, <1>8 DEF Linked, compute_event_hash, NoHash
<1>9. CASE R # {}
    <2>1. PICK m \in R : /\ IsLast(m, PriorRows(i))'
                         /\ p = custody_events[m].event_hash
                         /\ m \in DOMAIN custody_events
        BY <1>6, <1>9
    <2>2. custody_events'[m] = custody_events[m]
        BY <1>1, <2>1
    <2> QED
        BY <1>3, <1>4, <1>5, <1>9, <2>1, <2>2 DEF Linked, compute_event_hash
<1> QED
    BY <1>8, <1>9

LEMMA NextLinkInv ==
    ASSUME TypeInv, LinkInv, [Next]_vars
    PROVE  LinkInv'
<1>1. CASE UNCHANGED <<custody_events, processed>>
    BY <1>1 DEF LinkInv, Linked, PriorRows, RowsOf, IsLast, Before, compute_event_hash, NoHash
<1>2. ASSUME NEW e \in Events, Persist(e) PROVE LinkInv'
    <2>1. \A i \in DOMAIN custody_events : Linked(i)'
        BY <1>2, LinkKept DEF LinkInv
    <2>2. \A i \in DOMAIN custody_events' \ DOMAIN custody_events : Linked(i)'
        BY <1>2, NewRowLinked
    <2> QED
        BY <2>1, <2>2 DEF LinkInv
<1> QED
    BY <1>1, <1>2, TablesStep

\* The hash of a row ends with its event, and never is the hash of nothing.
LEMMA HashNamesItsRow ==
    ASSUME TypeInv, OnceInv, LinkInv,
           NEW i \in DOMAIN custody_events, NEW j \in DOMAIN custody_events
    PROVE  /\ custody_events[i].event_hash # NoHash
           /\ custody_events[i].event_hash = custody_events[j].event_hash => i = j
<1>1. \A k \in DOMAIN custody_events :
         /\ custody_events[k].event \in Events
         /\ custody_events[k].previous_event_hash \in Seq(Events)
         /\ custody_events[k].event_hash
               = Append(custody_events[k].previous_event_hash, custody_events[k].event)
    BY RowTypes DEF LinkInv, Linked, compute_event_hash
<1>2. ASSUME NEW k \in DOMAIN custody_events
      PROVE  /\ custody_events[k].event_hash # NoHash
             /\ custody_events[k].event
                  = custody_events[k].event_hash[Len(custody_events[k].event_hash)]
    <2> DEFINE s == custody_events[k].previous_event_hash
               x == custody_events[k].event
    <2>1. s \in Seq(Events) /\ x \in Events /\ custody_events[k].event_hash = Append(s, x)
        BY <1>1
    <2> HIDE DEF s
    <2>2. Append(s, x) # <<>> /\ Len(Append(s, x)) = Len(s) + 1 /\ Append(s, x)[Len(s) + 1] = x
        BY <2>1, AppendProperties
    <2> QED
        BY <2>1, <2>2 DEF NoHash
<1>3. custody_events[i].event = custody_events[j].event => i = j
    BY DEF OnceInv, RecordedOnce
<1> QED
    BY <1>2, <1>3

\* Rows that were inserted in the order of their timestamps are read in the
\* order in which they were linked.
LEMMA InOrderIsValid ==
    ASSUME TypeInv, LinkInv, NEW a, InTimestampOrder(a)
    PROVE  TimelineValid(a)
<1> SUFFICES ASSUME NEW i \in RowsOf(a)
             PROVE  IF Earlier(i) = {}
                    THEN custody_events[i].previous_event_hash = NoHash
                    ELSE \E j \in Earlier(i) :
                            /\ IsLast(j, Earlier(i))
                            /\ custody_events[i].previous_event_hash
                                  = custody_events[j].event_hash
    BY DEF TimelineValid
<1>1. i \in DOMAIN custody_events /\ custody_events[i].event.artifact = a
    BY DEF RowsOf
<1>2. \A j \in RowsOf(a) : /\ j \in DOMAIN custody_events /\ j \in Nat
                            /\ custody_events[j].timestamp \in Nat
    BY RowTypes DEF RowsOf
<1>3. ASSUME NEW j \in RowsOf(a) PROVE Before(j, i) <=> j < i
    <2>1. j < i => custody_events[j].timestamp <= custody_events[i].timestamp
        BY DEF InTimestampOrder
    <2>2. i < j => custody_events[i].timestamp <= custody_events[j].timestamp
        BY DEF InTimestampOrder
    <2> QED
        BY <1>2, <2>1, <2>2 DEF Before
<1>4. Earlier(i) = PriorRows(i)
    BY <1>1, <1>3 DEF Earlier, PriorRows
<1>5. Linked(i)
    BY <1>1 DEF LinkInv
<1> QED
    BY <1>4, <1>5 DEF Linked

\* A row that is younger in the table but older by its timestamp is read
\* before the row it was linked to.
LEMMA ValidIsInOrder ==
    ASSUME TypeInv, OnceInv, LinkInv, NEW a, TimelineValid(a)
    PROVE  InTimestampOrder(a)
<1> SUFFICES ASSUME NEW i \in RowsOf(a), NEW j \in RowsOf(a), i < j,
                    ~ (custody_events[i].timestamp <= custody_events[j].timestamp)
             PROVE  FALSE
    BY DEF InTimestampOrder
<1>1. \A k \in RowsOf(a) : /\ k \in DOMAIN custody_events /\ k \in Nat
                            /\ custody_events[k].timestamp \in Nat
                            /\ custody_events[k].event.artifact = a
    BY RowTypes DEF RowsOf
<1>2. i \in PriorRows(j)
    BY <1>1 DEF PriorRows
<1>3. PICK m \in PriorRows(j) :
         /\ IsLast(m, PriorRows(j))
         /\ custody_events[j].previous_event_hash = custody_events[m].event_hash
    BY <1>1, <1>2 DEF LinkInv, Linked
<1>4. m \in RowsOf(a)
    BY <1>1 DEF PriorRows
<1>5. custody_events[i].timestamp <= custody_events[m].timestamp
    <2>1. i = m \/ Before(i, m)
        BY <1>2, <1>3 DEF IsLast
    <2> QED
        BY <1>1, <1>4, <2>1 DEF Before
<1>6. custody_events[j].previous_event_hash # NoHash
    BY <1>1, <1>3, <1>4, HashNamesItsRow
<1>7. PICK l \in Earlier(j) :
         custody_events[j].previous_event_hash = custody_events[l].event_hash
    BY <1>6 DEF TimelineValid
<1>8. l \in RowsOf(a) /\ Before(l, j)
    BY <1>1 DEF Earlier
<1>9. l = m
    BY <1>1, <1>3, <1>4, <1>7, <1>8, HashNamesItsRow
<1> QED
    BY <1>1, <1>4, <1>5, <1>8, <1>9 DEF Before

\* What chain_valid tells of rows nobody has touched, whatever order the
\* events arrive in: it is true exactly when the events of the artifact were
\* recorded in the order of their timestamps (repository.py:13-21, 64-70,
\* custody.py:40-45).
THEOREM TimelineTellsTheOrder == Spec => []TimelineValidIffInOrder
<1>1. Init => OnceInv /\ LinkInv
    BY DEF Init, OnceInv, RecordedOnce, LinkInv
<1>2. TypeInv /\ OnceInv /\ LinkInv /\ [Next]_vars => OnceInv' /\ LinkInv'
    BY NextOnceInv, NextLinkInv
<1>3. TypeInv /\ OnceInv /\ LinkInv => TimelineValidIffInOrder
    BY InOrderIsValid, ValidIsInOrder DEF TimelineValidIffInOrder
<1> QED
    BY <1>1, <1>2, <1>3, SpecTypeInv, PTL DEF Spec
================================================================================
