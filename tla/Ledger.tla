--------------------------------- MODULE Ledger ---------------------------------
(***************************************************************************)
(* The immutable-ledger service: LedgerServicer._append_record and the two *)
(* reads, GetProofByArtifactId and ValidateLedgerChain, over the tables    *)
(* ledger_records and ledger_state.                                        *)
(*                                                                         *)
(* Every append request is one handler invocation with one database        *)
(* transaction.  Handlers run concurrently (synchronous handlers of a      *)
(* grpc.aio server run in a thread pool), and what serialises two appends  *)
(* of one case is the row lock on ledger_state, here the variable lock.    *)
(*                                                                         *)
(* Hashes are symbolic and free of collisions: a payload digest is the     *)
(* payload in a wrapper, a record hash is the sequence of the digests it   *)
(* commits to.  A null previous_record_hash, which the code replaces by    *)
(* the text GENESIS, is the empty sequence.                                *)
(***************************************************************************)
EXTENDS Integers, Sequences

CONSTANTS
    Requests,       \* append requests: [case_id, artifact_id, record_type, ...]
    Cases,          \* case numbers
    RecordIds,      \* the identifiers uuid4 can return, ordered as PostgreSQL orders them
    NoRequest,      \* "nobody holds the lock"
    MaxStepBacks    \* how often the wall clock may be set back

ASSUME RequestsAssumption ==
    /\ \A r \in Requests : r.case_id \in Cases
    /\ NoRequest \notin Requests
ASSUME RecordIdsAssumption == RecordIds \subseteq Nat
ASSUME StepBacksAssumption == MaxStepBacks \in Nat
\* evidence-collector draws a fresh artifact_id for every upload, so one
\* artifact is the subject of one proof request at most.
ASSUME OneProofPerArtifact ==
    \A r, s \in Requests :
        /\ r.record_type = "EVIDENCE_PROOF_CREATED"
        /\ s.record_type = "EVIDENCE_PROOF_CREATED"
        /\ r.artifact_id = s.artifact_id
        => r = s

VARIABLES
    ledger_records,     \* the committed rows of table ledger_records
    last_record_hash,   \* ledger_state: the chain head of each case
    lock,               \* who holds the ledger_state row of each case
    pc,                 \* where the handler of each request is
    previous,           \* previous_record_hash as the handler read it
    new_record,         \* the row the open transaction has inserted
    clock,              \* the wall clock of the ledger host
    stepBacks           \* how often it has been set back

vars == <<ledger_records, last_record_hash, lock, pc, previous, new_record,
          clock, stepBacks>>

-----------------------------------------------------------------------------
(* Hash chain *)

NoHash == <<>>
compute_payload_hash(raw_payload) == [sha256 |-> raw_payload]
compute_record_hash(payload_hash, prev) == Append(prev, payload_hash)

\* Mutation: created_at is left to a column that has no default.
LedgerRecord_NoTimestamp(r, prev, id, now) ==
    [record_id |-> id,
     case_id |-> r.case_id,
     raw_payload |-> r,
     payload_hash |-> compute_payload_hash(r),
     previous_record_hash |-> prev,
     record_hash |-> compute_record_hash(compute_payload_hash(r), prev),
     created_at |-> -1]

\* The row of request r, inserted under previous hash prev at time now.
LedgerRecord(r, prev, id, now) ==
    [record_id |-> id,
     case_id |-> r.case_id,
     raw_payload |-> r,
     payload_hash |-> compute_payload_hash(r),
     previous_record_hash |-> prev,
     record_hash |-> compute_record_hash(compute_payload_hash(r), prev),
     created_at |-> now]

NoRecord == [created_at |-> -1]

-----------------------------------------------------------------------------
(* _append_record *)

InTransaction == {"locked", "staged"}
Answered == {"ok", "failed"}

Init ==
    /\ ledger_records = {}
    /\ last_record_hash = [c \in Cases |-> NoHash]
    /\ lock = [c \in Cases |-> NoRequest]
    /\ pc = [r \in Requests |-> "new"]
    /\ previous = [r \in Requests |-> NoHash]
    /\ new_record = [r \in Requests |-> NoRecord]
    /\ clock = 0
    /\ stepBacks = 0

\* Mutation: SELECT without FOR UPDATE.
LockHead_NoForUpdate(r) ==
    /\ pc[r] = "new"
    /\ lock' = [lock EXCEPT ![r.case_id] = r]
    /\ previous' = [previous EXCEPT ![r] = last_record_hash[r.case_id]]
    /\ pc' = [pc EXCEPT ![r] = "locked"]
    /\ UNCHANGED <<ledger_records, last_record_hash, new_record, clock, stepBacks>>

\* INSERT .. ON CONFLICT DO NOTHING makes the row of the case exist, SELECT ..
\* FOR UPDATE waits until no other transaction holds it and then reads the
\* committed head.  (A first INSERT makes the others wait in the same way,
\* and a row that is missing reads as a row that is NULL.)
LockHead(r) ==
    /\ pc[r] = "new"
    /\ lock[r.case_id] = NoRequest
    /\ lock' = [lock EXCEPT ![r.case_id] = r]
    /\ previous' = [previous EXCEPT ![r] = last_record_hash[r.case_id]]
    /\ pc' = [pc EXCEPT ![r] = "locked"]
    /\ UNCHANGED <<ledger_records, last_record_hash, new_record, clock, stepBacks>>

\* Both hashes, a record id and the time are computed, and the row and the
\* new head are written inside the transaction.  The statements of one
\* append take longer than the clock's resolution: the clock moves on.
StageRecord(r) ==
    /\ pc[r] = "locked"
    /\ \E id \in RecordIds :
          /\ \A x \in ledger_records : x.record_id # id
          /\ \A s \in Requests : pc[s] = "staged" => new_record[s].record_id # id
          /\ new_record' = [new_record EXCEPT
                                ![r] = LedgerRecord(r, previous[r], id, clock)]
    /\ clock' = clock + 1
    /\ pc' = [pc EXCEPT ![r] = "staged"]
    /\ UNCHANGED <<ledger_records, last_record_hash, lock, previous, stepBacks>>

\* Mutation: the head of the case is not advanced.
Commit_HeadNotAdvanced(r) ==
    /\ pc[r] = "staged"
    /\ ledger_records' = ledger_records \cup {new_record[r]}
    /\ lock' = [lock EXCEPT ![r.case_id] = NoRequest]
    /\ \E answer \in Answered : pc' = [pc EXCEPT ![r] = answer]
    /\ previous' = [previous EXCEPT ![r] = NoHash]
    /\ new_record' = [new_record EXCEPT ![r] = NoRecord]
    /\ UNCHANGED <<last_record_hash, clock, stepBacks>>

\* db.commit(): row and head become visible together and the lock is freed.
\* If the connection is lost before the confirmation arrives, the handler
\* sees an exception and answers success=False for a record that is there.
Commit(r) ==
    /\ pc[r] = "staged"
    /\ ledger_records' = ledger_records \cup {new_record[r]}
    /\ last_record_hash' = [last_record_hash EXCEPT
                                ![r.case_id] = new_record[r].record_hash]
    /\ lock' = [lock EXCEPT ![r.case_id] = NoRequest]
    /\ \E answer \in Answered : pc' = [pc EXCEPT ![r] = answer]
    /\ previous' = [previous EXCEPT ![r] = NoHash]
    /\ new_record' = [new_record EXCEPT ![r] = NoRecord]
    /\ UNCHANGED <<clock, stepBacks>>

\* Mutation: the head was updated in a transaction of its own.
Rollback_HeadAlreadyAdvanced(r) ==
    /\ pc[r] \in {"new"} \cup InTransaction
    /\ last_record_hash' =
          IF pc[r] = "staged"
          THEN [last_record_hash EXCEPT ![r.case_id] = new_record[r].record_hash]
          ELSE last_record_hash
    /\ lock' = [lock EXCEPT ![r.case_id] = IF @ = r THEN NoRequest ELSE @]
    /\ pc' = [pc EXCEPT ![r] = "failed"]
    /\ previous' = [previous EXCEPT ![r] = NoHash]
    /\ new_record' = [new_record EXCEPT ![r] = NoRecord]
    /\ UNCHANGED <<ledger_records, clock, stepBacks>>

\* Mutation: no db.rollback(), the failed handler keeps its transaction open.
Rollback_TransactionLeftOpen(r) ==
    /\ pc[r] \in {"new"} \cup InTransaction
    /\ pc' = [pc EXCEPT ![r] = "failed"]
    /\ previous' = [previous EXCEPT ![r] = NoHash]
    /\ new_record' = [new_record EXCEPT ![r] = NoRecord]
    /\ UNCHANGED <<ledger_records, last_record_hash, lock, clock, stepBacks>>

\* Any statement, or the commit itself, can raise: the transaction is rolled
\* back, its lock released, and the caller told success=False.
Rollback(r) ==
    /\ pc[r] \in {"new"} \cup InTransaction
    /\ lock' = [lock EXCEPT ![r.case_id] = IF @ = r THEN NoRequest ELSE @]
    /\ pc' = [pc EXCEPT ![r] = "failed"]
    /\ previous' = [previous EXCEPT ![r] = NoHash]
    /\ new_record' = [new_record EXCEPT ![r] = NoRecord]
    /\ UNCHANGED <<ledger_records, last_record_hash, clock, stepBacks>>

\* The service stops: the database aborts every open transaction and the
\* callers see their connections break.
Crash ==
    /\ \E r \in Requests : pc[r] \in InTransaction
    /\ lock' = [c \in Cases |-> NoRequest]
    /\ pc' = [r \in Requests |-> IF pc[r] \in InTransaction THEN "failed" ELSE pc[r]]
    /\ previous' = [r \in Requests |-> NoHash]
    /\ new_record' = [r \in Requests |-> NoRecord]
    /\ UNCHANGED <<ledger_records, last_record_hash, clock, stepBacks>>

\* The host's wall clock is set back (NTP, operator).
StepBack ==
    /\ stepBacks < MaxStepBacks
    /\ clock > 0
    /\ \E t \in 0..(clock - 1) : clock' = t
    /\ stepBacks' = stepBacks + 1
    /\ UNCHANGED <<ledger_records, last_record_hash, lock, pc, previous, new_record>>

Next ==
    \/ \E r \in Requests :
          \/ LockHead(r)
          \/ StageRecord(r)
          \/ Commit(r)
          \/ Rollback(r)
    \/ Crash
    \/ StepBack

Spec == Init /\ [][Next]_vars

-----------------------------------------------------------------------------
(* The reads: ValidateLedgerChain and GetProofByArtifactId *)

RecordsOf(c) == {x \in ledger_records : x.case_id = c}

\* Mutation: ORDER BY record_id.
Before_ById(x, y) == x.record_id < y.record_id

\* ORDER BY created_at, record_id
Before(x, y) ==
    \/ x.created_at < y.created_at
    \/ x.created_at = y.created_at /\ x.record_id < y.record_id

Predecessors(x) == {y \in RecordsOf(x.case_id) : Before(y, x)}

\* Mutation: only the payload is checked.
Intact_PayloadOnly(x) == x.payload_hash = compute_payload_hash(x.raw_payload)

\* Checks 2 and 3 of the loop: payload_hash and record_hash recompute.
Intact(x) ==
    /\ x.payload_hash = compute_payload_hash(x.raw_payload)
    /\ x.record_hash = compute_record_hash(x.payload_hash, x.previous_record_hash)

\* Mutation: the first row of the order is taken as it is.
Linked_FirstRowTrusted(x) ==
    Predecessors(x) = {} \/
    \E y \in Predecessors(x) :
        /\ \A z \in Predecessors(x) : z = y \/ Before(z, y)
        /\ x.previous_record_hash = y.record_hash

\* Check 1: the row carries the hash of the row before it in the order.
Linked(x) ==
    IF Predecessors(x) = {}
    THEN x.previous_record_hash = NoHash
    ELSE \E y \in Predecessors(x) :
            /\ \A z \in Predecessors(x) : z = y \/ Before(z, y)
            /\ x.previous_record_hash = y.record_hash

\* ValidateLedgerChain(c).chain_valid: no iteration of the loop returns early.
ChainValid(c) == \A x \in RecordsOf(c) : Linked(x) /\ Intact(x)

\* Mutation: no filter on the record type.
ProofRecords_AnyType(a) == {x \in ledger_records : x.raw_payload.artifact_id = a}

\* GetProofByArtifactId(a): the newest proof record of the artifact.
ProofRecords(a) ==
    {x \in ledger_records : /\ x.raw_payload.artifact_id = a
                            /\ x.raw_payload.record_type = "EVIDENCE_PROOF_CREATED"}
IsProofServed(a, x) ==
    /\ x \in ProofRecords(a)
    /\ \A y \in ProofRecords(a) : y.created_at <= x.created_at

-----------------------------------------------------------------------------
(* Properties *)

Digests == {compute_payload_hash(r) : r \in Requests}
Hashes == Seq(Digests)
Rows == [record_id : RecordIds,
         case_id : Cases,
         raw_payload : Requests,
         payload_hash : Digests,
         previous_record_hash : Hashes,
         record_hash : Hashes,
         created_at : Nat]

\* The variables hold what the columns and the handlers' locals can hold.
TypeOK ==
    /\ ledger_records \subseteq Rows
    /\ last_record_hash \in [Cases -> Hashes]
    /\ lock \in [Cases -> Requests \cup {NoRequest}]
    /\ pc \in [Requests -> {"new"} \cup InTransaction \cup Answered]
    /\ previous \in [Requests -> Hashes]
    /\ new_record \in [Requests -> Rows \cup {NoRecord}]
    /\ clock \in Nat
    /\ stepBacks \in 0..MaxStepBacks

\* Two records of one case never follow the same record: concurrent appends
\* (servicer.py:21-62) cannot fork the chain of a case.
NoFork ==
    \A x, y \in ledger_records :
        x.case_id = y.case_id /\ x.previous_record_hash = y.previous_record_hash
        => x = y

\* The head kept in ledger_state commits to exactly the committed records:
\* each record's hash is a prefix of the head's history, and each prefix is
\* the hash of one record (servicer.py:54-62, hash_chain.py:13-32).
HeadCommitsToHistory ==
    \A c \in Cases :
        LET head == last_record_hash[c]
        IN  /\ \A x \in RecordsOf(c) :
                  /\ Len(x.record_hash) \in 1..Len(head)
                  /\ x.record_hash = SubSeq(head, 1, Len(x.record_hash))
            /\ \A n \in 1..Len(head) :
                  \E x \in RecordsOf(c) : Len(x.record_hash) = n

\* A ledger that only this service has written always validates
\* (servicer.py:162-216).
ChainAlwaysValid == \A c \in Cases : ChainValid(c)

\* That holds in the middle of concurrent appends, rollbacks and crashes, up
\* to the first time the clock of the host is set back (servicer.py:35, 175).
ValidUntilClockSetBack == stepBacks = 0 => ChainAlwaysValid

\* Once the append of an artifact's proof has been acknowledged,
\* GetProofByArtifactId serves that proof and no other record, whatever is
\* appended about the artifact later (servicer.py:129-155).
ProofServed ==
    \A r \in Requests :
        pc[r] = "ok" /\ r.record_type = "EVIDENCE_PROOF_CREATED" =>
            /\ \E x \in ledger_records : IsProofServed(r.artifact_id, x)
            /\ \A x \in ledger_records :
                  IsProofServed(r.artifact_id, x) => x.raw_payload = r

\* A row is never updated or deleted, and the head of a case moves only in
\* the step that adds the row it names.
AppendStep ==
    /\ ledger_records \subseteq ledger_records'
    /\ \A c \in Cases :
          last_record_hash'[c] # last_record_hash[c] =>
              \E x \in ledger_records' \ ledger_records :
                  /\ x.case_id = c
                  /\ x.previous_record_hash = last_record_hash[c]
                  /\ x.record_hash = last_record_hash'[c]

\* Every step, failing ones included, keeps the two tables together: row and
\* head change in one transaction or not at all (servicer.py:54-62).
AppendOnly == [][AppendStep]_vars

\* The append path implements the abstract log: the head of a case is its
\* log, and the outcome is what the caller was told.
outcomeBar ==
    [r \in Requests |-> IF pc[r] \in Answered THEN pc[r] ELSE "pending"]
Log == INSTANCE LedgerLog WITH log <- last_record_hash, outcome <- outcomeBar
ImplementsLog == Log!LogSpec

\* Handlers are scheduled by the thread pool, and a database that answers
\* lets each of them go on; nothing obliges the service to crash or fail.
Fairness ==
    \A r \in Requests :
        WF_vars(LockHead(r)) /\ WF_vars(StageRecord(r)) /\ WF_vars(Commit(r))

\* Every append is answered: no path through the handler, a failing one or a
\* crash included, leaves the lock of a case behind (servicer.py:18, 75-83).
EveryAppendAnswered == \A r \in Requests : <>(pc[r] \in Answered)
================================================================================
