------------------------------ MODULE LedgerProofs ------------------------------
(***************************************************************************)
(* Theorems about the ledger, for every set of requests, cases and record  *)
(* identifiers: type correctness, the absence of forks, what the chain     *)
(* head commits to, the success of validation until the clock is set back, *)
(* and the implementation of LedgerLog.                                    *)
(***************************************************************************)
EXTENDS Ledger, SequenceTheorems, TLAPS

-----------------------------------------------------------------------------
(* Facts about hash chains *)

\* Appending to a chain leaves its prefixes alone (hash_chain.py:13-24).
LEMMA PrefixOfAppend ==
    ASSUME NEW S, NEW h \in Seq(S), NEW e \in S, NEW n \in 1..Len(h)
    PROVE  SubSeq(Append(h, e), 1, n) = SubSeq(h, 1, n)
<1>1. Append(h, e) = h \o <<e>>
    BY AppendIsConcat
<1>2. <<e>> \in Seq(S)
    OBVIOUS
<1>3. 1 \in 1..Len(h)
    BY LenProperties
<1> QED
    BY <1>1, <1>2, <1>3, SubSeqOfConcat1

\* The whole of an extended chain is its longest prefix.
LEMMA FullPrefix ==
    ASSUME NEW S, NEW h \in Seq(S), NEW e \in S
    PROVE  /\ Append(h, e) \in Seq(S)
           /\ Len(Append(h, e)) = Len(h) + 1
           /\ SubSeq(Append(h, e), 1, Len(h) + 1) = Append(h, e)
<1>1. Append(h, e) \in Seq(S) /\ Len(Append(h, e)) = Len(h) + 1
    BY AppendProperties
<1> QED
    BY <1>1, SubSeqFull

\* A record hash determines the previous hash it was computed from.
LEMMA PreviousOfPrefix ==
    ASSUME NEW S, NEW h \in Seq(S), NEW p \in Seq(S), NEW e \in S,
           Len(p) < Len(h),
           Append(p, e) = SubSeq(h, 1, Len(p) + 1)
    PROVE  p = SubSeq(h, 1, Len(p))
<1> DEFINE n == Len(p)
<1>1. n \in Nat /\ Len(h) \in Nat
    BY LenProperties
<1>2. /\ SubSeq(h, 1, n) \in Seq(S)
      /\ Len(SubSeq(h, 1, n)) = n
      /\ \A i \in 1..n : SubSeq(h, 1, n)[i] = h[i]
    <2>1. \A i \in 1..n : h[i] \in S
        BY <1>1, ElementOfSeq
    <2>2. /\ SubSeq(h, 1, n) \in Seq(S)
          /\ Len(SubSeq(h, 1, n)) = IF 1 <= n THEN n - 1 + 1 ELSE 0
          /\ \A i \in 1..(n - 1 + 1) : SubSeq(h, 1, n)[i] = h[1 + i - 1]
        BY <1>1, <2>1, SubSeqProperties
    <2> QED
        BY <1>1, <2>2
<1>3. \A i \in 1..n : Append(p, e)[i] = p[i]
    BY AppendProperties
<1>4. \A i \in 1..n : SubSeq(h, 1, n + 1)[i] = h[i]
    <2>1. \A i \in 1..(n + 1) : h[i] \in S
        BY <1>1, ElementOfSeq
    <2>2. \A i \in 1..(n + 1 - 1 + 1) : SubSeq(h, 1, n + 1)[i] = h[1 + i - 1]
        BY <1>1, <2>1, SubSeqProperties
    <2> QED
        BY <1>1, <2>2
<1>5. \A i \in 1..n : p[i] = SubSeq(h, 1, n)[i]
    BY <1>2, <1>3, <1>4
<1> QED
    BY <1>1, <1>2, <1>5, SeqEqual

-----------------------------------------------------------------------------
(* Types *)

\* The row a handler stages is a row of the table.
LEMMA LedgerRecordType ==
    ASSUME NEW r \in Requests, NEW h \in Hashes, NEW id \in RecordIds, NEW t \in Nat
    PROVE  LedgerRecord(r, h, id, t) \in Rows
<1>1. compute_payload_hash(r) \in Digests
    BY DEF Digests
<1>2. compute_record_hash(compute_payload_hash(r), h) \in Hashes
    BY <1>1, AppendProperties DEF compute_record_hash, Hashes
<1> QED
    BY <1>1, <1>2, RequestsAssumption DEF LedgerRecord, Rows

\* While a request is staged its transaction holds the row built from the
\* previous hash it read.
StagedInv ==
    \A r \in Requests : pc[r] = "staged" =>
        \E id \in RecordIds, t \in Nat :
            new_record[r] = LedgerRecord(r, previous[r], id, t)

\* Type correctness, and what a staged row is, are preserved together.
TypeInv == TypeOK /\ StagedInv

LEMMA InitTypeInv == Init => TypeInv
<1> SUFFICES ASSUME Init PROVE TypeInv
    OBVIOUS
<1>1. NoHash \in Hashes
    BY EmptySeq DEF NoHash, Hashes
<1>2. TypeOK
    BY <1>1, StepBacksAssumption
    DEF Init, TypeOK, InTransaction, Answered
<1> QED
    BY <1>2 DEF TypeInv, StagedInv, Init

LEMMA NextTypeInv == TypeInv /\ [Next]_vars => TypeInv'
<1> SUFFICES ASSUME TypeInv, [Next]_vars PROVE TypeInv'
    OBVIOUS
<1> USE DEF TypeInv
<1>0. NoHash \in Hashes
    BY EmptySeq DEF NoHash, Hashes
<1>1. ASSUME NEW r \in Requests, LockHead(r) PROVE TypeInv'
    <2>1. TypeOK'
        BY <1>1, RequestsAssumption DEF TypeOK, LockHead, InTransaction, Answered
    <2>2. StagedInv'
        BY <1>1 DEF TypeOK, StagedInv, LockHead, InTransaction, Answered
    <2> QED
        BY <2>1, <2>2
<1>2. ASSUME NEW r \in Requests, StageRecord(r) PROVE TypeInv'
    <2>1. PICK id \in RecordIds :
              new_record' = [new_record EXCEPT ![r] = LedgerRecord(r, previous[r], id, clock)]
        BY <1>2 DEF StageRecord
    <2>2. LedgerRecord(r, previous[r], id, clock) \in Rows
        BY LedgerRecordType DEF TypeOK
    <2>3. TypeOK'
        BY <1>2, <2>1, <2>2 DEF TypeOK, StageRecord, InTransaction, Answered
    <2>4. StagedInv'
        <3> SUFFICES ASSUME NEW s \in Requests, pc'[s] = "staged"
                     PROVE  \E i \in RecordIds, t \in Nat :
                                new_record'[s] = LedgerRecord(s, previous'[s], i, t)
            BY DEF StagedInv
        <3>1. CASE s = r
            <4>1. new_record'[s] = LedgerRecord(s, previous'[s], id, clock)
                BY <1>2, <2>1, <3>1 DEF TypeOK, StageRecord
            <4> QED
                BY <4>1 DEF TypeOK
        <3>2. CASE s # r
            <4>1. /\ pc[s] = "staged"
                  /\ new_record'[s] = new_record[s]
                  /\ previous'[s] = previous[s]
                BY <1>2, <2>1, <3>2 DEF TypeOK, StageRecord
            <4> QED
                BY <4>1 DEF StagedInv
        <3> QED
            BY <3>1, <3>2
    <2> QED
        BY <2>3, <2>4
<1>3. ASSUME NEW r \in Requests, Commit(r) PROVE TypeInv'
    <2>1. PICK id \in RecordIds, t \in Nat :
              new_record[r] = LedgerRecord(r, previous[r], id, t)
        BY <1>3 DEF Commit, StagedInv
    <2>2. new_record[r] \in Rows
        BY <2>1, LedgerRecordType DEF TypeOK
    <2>3. new_record[r].record_hash \in Hashes
        BY <2>2 DEF Rows
    <2>4. TypeOK'
        BY <1>0, <1>3, <2>2, <2>3, RequestsAssumption
        DEF TypeOK, Commit, InTransaction, Answered
    <2>5. StagedInv'
        BY <1>3 DEF TypeOK, StagedInv, Commit, InTransaction, Answered
    <2> QED
        BY <2>4, <2>5
<1>4. ASSUME NEW r \in Requests, Rollback(r) PROVE TypeInv'
    <2>1. TypeOK'
        BY <1>0, <1>4 DEF TypeOK, Rollback, InTransaction, Answered
    <2>2. StagedInv'
        BY <1>4 DEF TypeOK, StagedInv, Rollback, InTransaction, Answered
    <2> QED
        BY <2>1, <2>2
<1>5. CASE Crash
    <2>1. TypeOK'
        BY <1>0, <1>5 DEF TypeOK, Crash, InTransaction, Answered
    <2>2. StagedInv'
        BY <1>5 DEF TypeOK, StagedInv, Crash, InTransaction, Answered
    <2> QED
        BY <2>1, <2>2
<1>6. CASE StepBack
    <2>1. TypeOK'
        BY <1>6, StepBacksAssumption DEF TypeOK, StepBack
    <2>2. StagedInv'
        BY <1>6 DEF StagedInv, StepBack
    <2> QED
        BY <2>1, <2>2
<1>7. CASE UNCHANGED vars
    BY <1>7 DEF vars, TypeOK, StagedInv
<1> QED
    BY <1>1, <1>2, <1>3, <1>4, <1>5, <1>6, <1>7 DEF Next

\* The columns of both tables, and the locals of every handler, keep their
\* types through every interleaving of appends, rollbacks and crashes.
THEOREM TypeCorrect == Spec => []TypeOK
<1>1. Spec => []TypeInv
    BY InitTypeInv, NextTypeInv, PTL DEF Spec
<1>2. TypeInv => TypeOK
    BY DEF TypeInv
<1> QED
    BY <1>1, <1>2, PTL

-----------------------------------------------------------------------------
(* The chain of one case: what makes NoFork and HeadCommitsToHistory        *)
(* inductive is that the lock holder's copy of the head is the head.        *)

\* A handler in its transaction holds the lock of its case, alone, and the
\* head has not moved since it read it.
LockInv ==
    \A r \in Requests : pc[r] \in InTransaction =>
        /\ lock[r.case_id] = r
        /\ previous[r] = last_record_hash[r.case_id]

\* Every record is a link of the chain that ends in the head of its case:
\* its hash is the prefix of the head it has the length of.
IsLink(x) ==
    LET head == last_record_hash[x.case_id]
    IN  /\ x.record_hash = Append(x.previous_record_hash, x.payload_hash)
        /\ x.payload_hash = compute_payload_hash(x.raw_payload)
        /\ Len(x.record_hash) \in 1..Len(head)
        /\ x.record_hash = SubSeq(head, 1, Len(x.record_hash))

LinksInv == \A x \in ledger_records : IsLink(x)

\* No two records of a case are at the same distance from its first record.
UniqueInv ==
    \A x, y \in ledger_records :
        x.case_id = y.case_id /\ Len(x.record_hash) = Len(y.record_hash) => x = y

\* No place in the chain is empty.
FullInv ==
    \A c \in Cases : \A n \in 1..Len(last_record_hash[c]) :
        \E x \in RecordsOf(c) : Len(x.record_hash) = n

ChainInv == LockInv /\ LinksInv /\ UniqueInv /\ FullInv

\* Facts about the row a commit adds: it extends the head it was staged on.
LEMMA CommitExtendsHead ==
    ASSUME TypeInv, LockInv, NEW r \in Requests, Commit(r)
    PROVE  /\ new_record[r] \in Rows
           /\ new_record[r].case_id = r.case_id
           /\ new_record[r].raw_payload = r
           /\ new_record[r].previous_record_hash = last_record_hash[r.case_id]
           /\ new_record[r].payload_hash = compute_payload_hash(r)
           /\ new_record[r].record_hash
                 = Append(last_record_hash[r.case_id], compute_payload_hash(r))
<1>1. PICK id \in RecordIds, t \in Nat :
          new_record[r] = LedgerRecord(r, previous[r], id, t)
    BY DEF Commit, TypeInv, StagedInv
<1>2. previous[r] = last_record_hash[r.case_id]
    BY DEF Commit, LockInv, InTransaction
<1>3. LedgerRecord(r, previous[r], id, t) \in Rows
    BY LedgerRecordType DEF TypeInv, TypeOK
<1> QED
    BY <1>1, <1>2, <1>3 DEF LedgerRecord, compute_record_hash

LEMMA InitChainInv == Init => ChainInv
<1> SUFFICES ASSUME Init PROVE ChainInv
    OBVIOUS
<1>1. \A c \in Cases : Len(last_record_hash[c]) = 0
    BY EmptySeq DEF Init, NoHash
<1> QED
    BY <1>1 DEF Init, ChainInv, LockInv, LinksInv, UniqueInv, FullInv, InTransaction

\* Whatever leaves the tables alone leaves the chain alone.
LEMMA ChainUnchanged ==
    ASSUME LinksInv, UniqueInv, FullInv,
           UNCHANGED <<ledger_records, last_record_hash>>
    PROVE  LinksInv' /\ UniqueInv' /\ FullInv'
BY DEF LinksInv, IsLink, UniqueInv, FullInv, RecordsOf

\* What a commit does to the head of its case and to the others.
LEMMA CommitMovesHead ==
    ASSUME TypeInv, LockInv, NEW r \in Requests, Commit(r),
           NEW c, c = r.case_id, NEW h, h = last_record_hash[c],
           NEW d, d = compute_payload_hash(r)
    PROVE  /\ c \in Cases /\ h \in Seq(Digests) /\ d \in Digests
           /\ ledger_records' = ledger_records \cup {new_record[r]}
           /\ last_record_hash'[c] = Append(h, d)
           /\ \A b \in Cases : b # c => last_record_hash'[b] = last_record_hash[b]
           /\ Append(h, d) \in Seq(Digests)
           /\ Len(h) \in Nat
           /\ Len(Append(h, d)) = Len(h) + 1
           /\ SubSeq(Append(h, d), 1, Len(h) + 1) = Append(h, d)
<1>0. c \in Cases
    BY RequestsAssumption
<1>1. h \in Seq(Digests) /\ d \in Digests
    BY <1>0 DEF TypeInv, TypeOK, Hashes, Digests
<1>2. /\ ledger_records' = ledger_records \cup {new_record[r]}
      /\ last_record_hash' = [last_record_hash EXCEPT ![c] = Append(h, d)]
    BY CommitExtendsHead DEF Commit
<1>3. /\ last_record_hash'[c] = Append(h, d)
      /\ \A b \in Cases : b # c => last_record_hash'[b] = last_record_hash[b]
    BY <1>0, <1>2 DEF TypeInv, TypeOK
<1>4. /\ Append(h, d) \in Seq(Digests)
      /\ Len(h) \in Nat
      /\ Len(Append(h, d)) = Len(h) + 1
      /\ SubSeq(Append(h, d), 1, Len(h) + 1) = Append(h, d)
    BY <1>1, FullPrefix, LenProperties
<1> QED
    BY <1>0, <1>1, <1>2, <1>3, <1>4

\* The new record is a link of the chain, and the old ones remain links.
LEMMA CommitLinks ==
    ASSUME TypeInv, LockInv, LinksInv, NEW r \in Requests, Commit(r)
    PROVE  LinksInv'
<1> DEFINE c == r.case_id
           h == last_record_hash[c]
           d == compute_payload_hash(r)
           n == new_record[r]
<1>1. /\ h \in Seq(Digests) /\ d \in Digests
      /\ ledger_records' = ledger_records \cup {n}
    BY CommitMovesHead
<1>2. /\ last_record_hash'[c] = Append(h, d)
      /\ \A b \in Cases : b # c => last_record_hash'[b] = last_record_hash[b]
    BY CommitMovesHead
<1>3. /\ Append(h, d) \in Seq(Digests)
      /\ Len(h) \in Nat
      /\ Len(Append(h, d)) = Len(h) + 1
      /\ SubSeq(Append(h, d), 1, Len(h) + 1) = Append(h, d)
    BY CommitMovesHead
<1>4. /\ n.case_id = c
      /\ n.raw_payload = r
      /\ n.previous_record_hash = h
      /\ n.payload_hash = d
      /\ n.record_hash = Append(h, d)
    BY CommitExtendsHead
<1>5. \A x \in ledger_records : x \in Rows /\ x.case_id \in Cases
    BY DEF TypeInv, TypeOK, Rows
<1> SUFFICES ASSUME NEW x \in ledger_records' PROVE IsLink(x)'
    BY DEF LinksInv
<1>6. CASE x = n
    BY <1>6, <1>2, <1>3, <1>4 DEF IsLink
<1>7. CASE x \in ledger_records /\ x.case_id = c
    <2>1. IsLink(x)
        BY <1>7 DEF LinksInv
    <2>2. Len(x.record_hash) \in 1..Len(h)
        BY <1>7, <2>1 DEF IsLink
    <2>3. SubSeq(Append(h, d), 1, Len(x.record_hash)) = SubSeq(h, 1, Len(x.record_hash))
        BY <1>1, <2>2, PrefixOfAppend
    <2> QED
        BY <1>7, <2>1, <2>2, <2>3, <1>2, <1>3 DEF IsLink
<1>8. CASE x \in ledger_records /\ x.case_id # c
    BY <1>8, <1>2, <1>5 DEF LinksInv, IsLink
<1> QED
    BY <1>1, <1>6, <1>7, <1>8

\* A commit adds the next link of its case, at a place that was free.
LEMMA ChainCommit ==
    ASSUME TypeInv, ChainInv, NEW r \in Requests, Commit(r)
    PROVE  LinksInv' /\ UniqueInv' /\ FullInv'
<1> DEFINE c == r.case_id
           h == last_record_hash[c]
           n == new_record[r]
<1>1. /\ n.case_id = c
      /\ n.record_hash = Append(h, compute_payload_hash(r))
    BY CommitExtendsHead DEF ChainInv
<1>2. /\ ledger_records' = ledger_records \cup {n}
      /\ \A b \in Cases : b # c => last_record_hash'[b] = last_record_hash[b]
      /\ last_record_hash'[c] = n.record_hash
      /\ Len(h) \in Nat /\ Len(n.record_hash) = Len(h) + 1
    BY <1>1, CommitMovesHead DEF ChainInv
<1>3. LinksInv'
    BY CommitLinks DEF ChainInv
<1>4. UniqueInv'
    <2>1. \A x \in ledger_records : x.case_id = c => Len(x.record_hash) # Len(n.record_hash)
        BY <1>2 DEF ChainInv, LinksInv, IsLink
    <2> QED
        BY <2>1, <1>1, <1>2 DEF ChainInv, UniqueInv
<1>5. FullInv'
    <2> SUFFICES ASSUME NEW b \in Cases, NEW k \in 1..Len(last_record_hash'[b])
                 PROVE  \E x \in RecordsOf(b)' : Len(x.record_hash) = k
        BY DEF FullInv
    <2>1. \A x \in RecordsOf(b) : x \in RecordsOf(b)'
        BY <1>2 DEF RecordsOf
    <2>2. CASE b # c
        BY <2>1, <2>2, <1>2 DEF ChainInv, FullInv
    <2>3. CASE b = c /\ k \in 1..Len(h)
        BY <2>1, <2>3 DEF ChainInv, FullInv
    <2>4. CASE b = c /\ k = Len(h) + 1
        BY <2>4, <1>1, <1>2 DEF RecordsOf
    <2> QED
        BY <2>2, <2>3, <2>4, <1>2
<1> QED
    BY <1>3, <1>4, <1>5

\* The lock of a case keeps its head where its holder has read it, whatever
\* the table of records holds.
LEMMA NextLockInv ==
    ASSUME TypeInv, LockInv, [Next]_vars
    PROVE  LockInv'
<1>1. ASSUME NEW r \in Requests, LockHead(r) PROVE LockInv'
    BY <1>1, RequestsAssumption DEF TypeInv, TypeOK, LockInv, LockHead, InTransaction
<1>2. ASSUME NEW r \in Requests, StageRecord(r) PROVE LockInv'
    BY <1>2 DEF TypeInv, TypeOK, LockInv, StageRecord, InTransaction
<1>3. ASSUME NEW r \in Requests, Commit(r) PROVE LockInv'
    <2> SUFFICES ASSUME NEW s \in Requests, pc'[s] \in InTransaction
                 PROVE  /\ lock'[s.case_id] = s
                        /\ previous'[s] = last_record_hash'[s.case_id]
        BY DEF LockInv
    <2>1. s # r
        BY <1>3 DEF TypeInv, TypeOK, Commit, InTransaction, Answered
    <2>2. pc[s] \in InTransaction /\ previous'[s] = previous[s]
        BY <1>3, <2>1 DEF TypeInv, TypeOK, Commit
    <2>3. s.case_id # r.case_id
        BY <1>3, <2>1, <2>2 DEF LockInv, Commit, InTransaction
    <2> QED
        BY <1>3, <2>2, <2>3, RequestsAssumption DEF TypeInv, TypeOK, LockInv, Commit
<1>4. ASSUME NEW r \in Requests, Rollback(r) PROVE LockInv'
    BY <1>4, RequestsAssumption DEF TypeInv, TypeOK, LockInv, Rollback, InTransaction
<1>5. CASE Crash
    BY <1>5 DEF TypeInv, TypeOK, LockInv, Crash, InTransaction
<1>6. CASE StepBack \/ UNCHANGED vars
    BY <1>6 DEF StepBack, vars, LockInv
<1> QED
    BY <1>1, <1>2, <1>3, <1>4, <1>5, <1>6 DEF Next

\* Only a commit writes the tables.
LEMMA OnlyCommitWrites ==
    ASSUME [Next]_vars
    PROVE  \/ \E r \in Requests : Commit(r)
           \/ UNCHANGED <<ledger_records, last_record_hash>>
  BY DEF Next, LockHead, StageRecord, Rollback, Crash, StepBack, vars

LEMMA NextChainInv == TypeInv /\ ChainInv /\ [Next]_vars => ChainInv'
<1> SUFFICES ASSUME TypeInv, ChainInv, [Next]_vars PROVE ChainInv'
    OBVIOUS
<1>1. LockInv'
    BY NextLockInv DEF ChainInv
<1>2. ASSUME NEW r \in Requests, Commit(r) PROVE ChainInv'
    BY <1>1, <1>2, ChainCommit DEF ChainInv
<1>3. CASE UNCHANGED <<ledger_records, last_record_hash>>
    BY <1>1, <1>3, ChainUnchanged DEF ChainInv
<1> QED
    BY <1>2, <1>3, OnlyCommitWrites

LEMMA SpecChainInv == Spec => [](TypeInv /\ ChainInv)
<1>1. TypeInv /\ ChainInv /\ [Next]_vars => (TypeInv /\ ChainInv)'
    BY NextTypeInv, NextChainInv
<1> QED
    BY InitTypeInv, InitChainInv, <1>1, PTL DEF Spec

\* Concurrent appends never fork the chain of a case, whatever rolls back,
\* crashes or is told to the callers.
THEOREM ForkFreedom == Spec => []NoFork
<1>1. TypeInv /\ ChainInv => NoFork
    <2> SUFFICES ASSUME TypeInv, ChainInv,
                        NEW x \in ledger_records, NEW y \in ledger_records,
                        x.case_id = y.case_id,
                        x.previous_record_hash = y.previous_record_hash
                 PROVE  x = y
        BY DEF NoFork
    <2>1. x \in Rows /\ y \in Rows
        BY DEF TypeInv, TypeOK
    <2>2. /\ Len(x.record_hash) = Len(x.previous_record_hash) + 1
          /\ Len(y.record_hash) = Len(y.previous_record_hash) + 1
        BY <2>1, AppendProperties DEF ChainInv, LinksInv, IsLink, Rows, Hashes
    <2> QED
        BY <2>2 DEF ChainInv, UniqueInv
<1> QED
    BY <1>1, SpecChainInv, PTL

\* The head of a case commits to exactly the committed records of the case.
THEOREM HeadCommits == Spec => []HeadCommitsToHistory
<1>1. TypeInv /\ ChainInv => HeadCommitsToHistory
    BY DEF ChainInv, LinksInv, IsLink, FullInv, HeadCommitsToHistory, RecordsOf
<1> QED
    BY <1>1, SpecChainInv, PTL

-----------------------------------------------------------------------------
(* Validation.  ValidateLedgerChain walks the records by creation time; it  *)
(* meets them in chain order because the time is read under the lock.       *)

\* Creation times grow along the chain, the staged row is the newest of its
\* case, and the clock is ahead of all of them.
TimeInv ==
    /\ \A x \in ledger_records : x.created_at < clock
    /\ \A x, y \in ledger_records :
          x.case_id = y.case_id /\ Len(x.record_hash) < Len(y.record_hash)
          => x.created_at < y.created_at
    /\ \A r \in Requests : pc[r] = "staged" =>
          /\ new_record[r].created_at < clock
          /\ \A x \in RecordsOf(r.case_id) : x.created_at < new_record[r].created_at

LEMMA NextTimeInv ==
    ASSUME TypeInv, ChainInv, TimeInv, [Next]_vars, stepBacks' = 0
    PROVE  TimeInv'
<1>0. \A x \in ledger_records : x \in Rows /\ x.created_at \in Nat
    BY DEF TypeInv, TypeOK, Rows
<1>1. ASSUME NEW r \in Requests, LockHead(r) PROVE TimeInv'
    BY <1>1 DEF TypeInv, TypeOK, TimeInv, LockHead, RecordsOf
<1>2. ASSUME NEW r \in Requests, StageRecord(r) PROVE TimeInv'
    <2>1. PICK id \in RecordIds :
              new_record' = [new_record EXCEPT ![r] = LedgerRecord(r, previous[r], id, clock)]
        BY <1>2 DEF StageRecord
    <2>2. new_record'[r].created_at = clock /\ clock \in Nat
        BY <2>1 DEF TypeInv, TypeOK, LedgerRecord
    <2>3. /\ \A x \in ledger_records' : x.created_at < clock'
          /\ \A x, y \in ledger_records' :
                x.case_id = y.case_id /\ Len(x.record_hash) < Len(y.record_hash)
                => x.created_at < y.created_at
        BY <1>0, <1>2, <2>2 DEF TimeInv, StageRecord
    <2>4. ASSUME NEW s \in Requests, pc'[s] = "staged"
          PROVE  /\ new_record'[s].created_at < clock'
                 /\ \A x \in RecordsOf(s.case_id)' : x.created_at < new_record'[s].created_at
        <3>1. CASE s = r
            BY <1>2, <2>2, <3>1 DEF TimeInv, StageRecord, RecordsOf
        <3>2. CASE s # r
            <4>1. pc[s] = "staged" /\ new_record'[s] = new_record[s]
                BY <1>2, <2>1, <2>4, <3>2 DEF TypeInv, TypeOK, StageRecord
            <4>2. new_record[s].created_at \in Nat
                BY <4>1 DEF TypeInv, TypeOK, StagedInv, LedgerRecord
            <4> QED
                BY <1>2, <2>2, <4>1, <4>2 DEF TimeInv, StageRecord, RecordsOf
        <3> QED
            BY <3>1, <3>2
    <2> QED
        BY <2>3, <2>4 DEF TimeInv
<1>3. ASSUME NEW r \in Requests, Commit(r) PROVE TimeInv'
    <2> DEFINE n == new_record[r]
    <2>1. /\ n \in Rows
          /\ n.case_id = r.case_id
          /\ n.record_hash = Append(last_record_hash[r.case_id], compute_payload_hash(r))
          /\ ledger_records' = ledger_records \cup {n}
          /\ clock' = clock
        BY <1>3, CommitExtendsHead DEF ChainInv, Commit
    <2>2. Len(n.record_hash) = Len(last_record_hash[r.case_id]) + 1
        <3>1. compute_payload_hash(r) \in Digests
            BY DEF Digests
        <3> QED
            BY <2>1, <3>1, RequestsAssumption, FullPrefix DEF TypeInv, TypeOK, Hashes
    <2>3. \A x \in ledger_records :
              x.case_id = r.case_id => /\ Len(x.record_hash) < Len(n.record_hash)
                                       /\ x.created_at < n.created_at
        <3>1. \A x \in ledger_records : x.case_id = r.case_id => x.created_at < n.created_at
            BY <1>3 DEF TimeInv, Commit, RecordsOf
        <3>2. \A x \in ledger_records :
                  x.case_id = r.case_id => Len(x.record_hash) < Len(n.record_hash)
            BY <2>2, RequestsAssumption, LenProperties
            DEF ChainInv, LinksInv, IsLink, TypeInv, TypeOK, Hashes
        <3> QED
            BY <3>1, <3>2
    <2>4. n.created_at < clock
        BY <1>3 DEF TimeInv, Commit
    <2>5. \A x \in ledger_records' : x.created_at < clock'
        BY <2>1, <2>4 DEF TimeInv
    <2>6. ASSUME NEW x \in ledger_records', NEW y \in ledger_records',
                 x.case_id = y.case_id, Len(x.record_hash) < Len(y.record_hash)
          PROVE  x.created_at < y.created_at
        <3>0. Len(x.record_hash) \in Nat /\ Len(y.record_hash) \in Nat
            BY <1>0, <2>1, LenProperties DEF Rows, Hashes
        <3>1. CASE x \in ledger_records /\ y \in ledger_records
            BY <2>6, <3>1 DEF TimeInv
        <3>2. CASE x \in ledger_records /\ y = n
            BY <2>1, <2>3, <2>6, <3>2
        <3>3. CASE x = n
            <4>1. CASE y = n
                BY <2>6, <3>0, <3>3, <4>1
            <4>2. CASE y \in ledger_records
                BY <2>1, <2>3, <2>6, <3>0, <3>3, <4>2
            <4> QED
                BY <2>1, <4>1, <4>2
        <3> QED
            BY <2>1, <3>1, <3>2, <3>3
    <2>7. ASSUME NEW s \in Requests, pc'[s] = "staged"
          PROVE  /\ new_record'[s].created_at < clock'
                 /\ \A x \in RecordsOf(s.case_id)' : x.created_at < new_record'[s].created_at
        <3>1. s # r /\ pc[s] = "staged" /\ new_record'[s] = new_record[s]
            BY <1>3, <2>7 DEF TypeInv, TypeOK, Commit, Answered
        <3>2. s.case_id # r.case_id
            BY <1>3, <3>1 DEF ChainInv, LockInv, Commit, InTransaction
        <3> QED
            BY <2>1, <3>1, <3>2 DEF TimeInv, RecordsOf
    <2> QED
        BY <2>5, <2>6, <2>7 DEF TimeInv
<1>4. ASSUME NEW r \in Requests, Rollback(r) PROVE TimeInv'
    BY <1>4 DEF TypeInv, TypeOK, TimeInv, Rollback, RecordsOf
<1>5. CASE Crash
    BY <1>5 DEF TypeInv, TypeOK, TimeInv, Crash, RecordsOf, InTransaction
<1>6. CASE StepBack
    BY <1>6 DEF TypeInv, TypeOK, StepBack
<1>7. CASE UNCHANGED vars
    BY <1>7 DEF vars, TimeInv, RecordsOf
<1> QED
    BY <1>1, <1>2, <1>3, <1>4, <1>5, <1>6, <1>7 DEF Next

\* In chain order the validator's three checks all pass.
LEMMA ChainOrderValidates ==
    ASSUME TypeInv, ChainInv, TimeInv
    PROVE  ChainAlwaysValid
<1> SUFFICES ASSUME NEW c \in Cases, NEW x \in RecordsOf(c)
             PROVE  Linked(x) /\ Intact(x)
    BY DEF ChainAlwaysValid, ChainValid
<1> DEFINE h == last_record_hash[c]
           p == x.previous_record_hash
           k == Len(x.record_hash)
<1>1. x \in ledger_records /\ x.case_id = c /\ x \in Rows
    BY DEF RecordsOf, TypeInv, TypeOK
<1>2. /\ p \in Seq(Digests)
      /\ x.payload_hash \in Digests
      /\ h \in Seq(Digests)
      /\ Len(h) \in Nat /\ Len(p) \in Nat
    BY <1>1, LenProperties DEF Rows, Hashes, TypeInv, TypeOK
<1>3. /\ x.record_hash = Append(p, x.payload_hash)
      /\ x.payload_hash = compute_payload_hash(x.raw_payload)
      /\ k \in 1..Len(h)
      /\ x.record_hash = SubSeq(h, 1, k)
    BY <1>1 DEF ChainInv, LinksInv, IsLink
<1>4. k = Len(p) + 1
    BY <1>2, <1>3, AppendProperties
<1>5. Intact(x)
    BY <1>3 DEF Intact, compute_record_hash
<1>6. \A y \in RecordsOf(c) : /\ y \in ledger_records /\ y \in Rows
                             /\ y.case_id = c
                             /\ Len(y.record_hash) \in 1..Len(h)
                             /\ y.created_at \in Nat
    BY <1>1 DEF RecordsOf, ChainInv, LinksInv, IsLink, TypeInv, TypeOK, Rows
<1>7. \A y, z \in RecordsOf(c) :
          /\ Len(y.record_hash) < Len(z.record_hash) => y.created_at < z.created_at
          /\ Len(y.record_hash) = Len(z.record_hash) => y = z
    BY <1>6 DEF TimeInv, ChainInv, UniqueInv
\* The order by time is the order along the chain.
<1>8. \A y, z \in RecordsOf(c) :
          Before(y, z) <=> Len(y.record_hash) < Len(z.record_hash)
    <2> SUFFICES ASSUME NEW y \in RecordsOf(c), NEW z \in RecordsOf(c)
                 PROVE  Before(y, z) <=> Len(y.record_hash) < Len(z.record_hash)
        OBVIOUS
    <2>0. /\ Len(y.record_hash) \in Int /\ Len(z.record_hash) \in Int
          /\ y.created_at \in Nat /\ z.created_at \in Nat
          /\ y.record_id \in Nat /\ z.record_id \in Nat
        BY <1>2, <1>6, RecordIdsAssumption DEF Rows
    <2>1. CASE Len(y.record_hash) < Len(z.record_hash)
        BY <1>7, <2>0, <2>1 DEF Before
    <2>2. CASE Len(y.record_hash) = Len(z.record_hash)
        BY <1>7, <2>0, <2>2 DEF Before
    <2>3. CASE Len(z.record_hash) < Len(y.record_hash)
        BY <1>7, <2>0, <2>3 DEF Before
    <2> QED
        BY <2>0, <2>1, <2>2, <2>3
<1>9. Predecessors(x) = {y \in RecordsOf(c) : Len(y.record_hash) < k}
    BY <1>1, <1>8 DEF Predecessors
<1>10. Linked(x)
    <2>1. CASE k = 1
        <3>1. Predecessors(x) = {}
            BY <1>6, <1>9, <2>1
        <3>2. p = << >>
            <4>1. Len(p) = 0
                <5> SUFFICES ASSUME NEW m \in Nat, m + 1 = 1 PROVE m = 0
                    BY <1>2, <1>4, <2>1
                <5> QED
                    OBVIOUS
            <4>2. p # << >> => Len(p) \in Nat \ {0}
                BY <1>2, EmptySeq, Zenon
            <4> QED
                BY <4>1, <4>2
        <3> QED
            BY <3>1, <3>2 DEF Linked, NoHash
    <2>2. CASE k # 1
        <3>1. PICK y \in RecordsOf(c) : Len(y.record_hash) = k - 1
            BY <1>2, <1>3, <2>2 DEF ChainInv, FullInv
        <3>2. y \in Predecessors(x)
            BY <1>2, <1>3, <1>9, <3>1
        <3>3. \A z \in Predecessors(x) : z = y \/ Before(z, y)
            <4> SUFFICES ASSUME NEW z \in Predecessors(x) PROVE z = y \/ Before(z, y)
                OBVIOUS
            <4>1. z \in RecordsOf(c) /\ Len(z.record_hash) < k
                BY <1>9
            <4>2. Len(z.record_hash) \in Int
                BY <1>6, <4>1
            <4>3. CASE Len(z.record_hash) = k - 1
                BY <1>7, <3>1, <4>1, <4>3
            <4>4. CASE Len(z.record_hash) < k - 1
                BY <1>8, <3>1, <4>1, <4>4
            <4> QED
                BY <1>2, <1>4, <4>1, <4>2, <4>3, <4>4
        <3>4. y.record_hash = SubSeq(h, 1, k - 1)
            <4>1. IsLink(y) /\ y.case_id = c
                BY <1>6 DEF ChainInv, LinksInv
            <4> QED
                BY <3>1, <4>1 DEF IsLink
        <3>5. p = SubSeq(h, 1, k - 1)
            <4>1. k - 1 = Len(p) /\ Len(p) < Len(h)
                BY <1>2, <1>3, <1>4
            <4>2. Append(p, x.payload_hash) = SubSeq(h, 1, Len(p) + 1)
                BY <1>3, <1>4
            <4> QED
                BY <1>2, <4>1, <4>2, PreviousOfPrefix
        <3> QED
            BY <3>2, <3>3, <3>4, <3>5 DEF Linked
    <2> QED
        BY <2>1, <2>2
<1> QED
    BY <1>5, <1>10

\* Until the clock of the ledger host is set back, a ledger written only by
\* this service validates in every state.
THEOREM UntouchedLedgerValidates == Spec => []ValidUntilClockSetBack
<1> DEFINE Timely == stepBacks = 0 => TimeInv
<1>1. Init => Timely
    BY DEF Init, TimeInv
<1>2. (TypeInv /\ ChainInv) /\ Timely /\ [Next]_vars => Timely'
    <2> SUFFICES ASSUME TypeInv, ChainInv, Timely, [Next]_vars, stepBacks' = 0
                 PROVE  TimeInv'
        OBVIOUS
    <2>1. stepBacks \in Nat
        BY StepBacksAssumption DEF TypeInv, TypeOK
    <2>2. stepBacks' = stepBacks \/ stepBacks' = stepBacks + 1
        BY DEF Next, LockHead, StageRecord, Commit, Rollback, Crash, StepBack, vars
    <2>3. TimeInv
        BY <2>1, <2>2
    <2> QED
        BY <2>3, NextTimeInv
<1>3. (TypeInv /\ ChainInv) /\ Timely => ValidUntilClockSetBack
    BY ChainOrderValidates DEF ValidUntilClockSetBack
<1> QED
    BY SpecChainInv, <1>1, <1>2, <1>3, PTL DEF Spec

-----------------------------------------------------------------------------
(* The ledger implements the abstract log. *)

\* Rows stay, and a head moves only with the row that extends it.
THEOREM LedgerIsAppendOnly == Spec => AppendOnly
<1>1. TypeInv /\ ChainInv /\ [Next]_vars => [AppendStep]_vars
    <2> SUFFICES ASSUME TypeInv, ChainInv, Next PROVE AppendStep
        OBVIOUS
    <2>1. ASSUME NEW r \in Requests, Commit(r) PROVE AppendStep
        <3> DEFINE n == new_record[r]
        <3>1. /\ n.case_id = r.case_id
              /\ n.previous_record_hash = last_record_hash[r.case_id]
              /\ n.record_hash = Append(last_record_hash[r.case_id], compute_payload_hash(r))
              /\ ledger_records' = ledger_records \cup {n}
              /\ last_record_hash' = [last_record_hash EXCEPT ![r.case_id] = n.record_hash]
            BY <2>1, CommitExtendsHead DEF ChainInv, Commit
        <3>2. n \notin ledger_records
            <4>1. Len(n.record_hash) = Len(last_record_hash[r.case_id]) + 1
                <5>1. compute_payload_hash(r) \in Digests
                    BY DEF Digests
                <5> QED
                    BY <3>1, <5>1, RequestsAssumption, FullPrefix DEF TypeInv, TypeOK, Hashes
            <4>2. Len(last_record_hash[r.case_id]) \in Nat
                BY RequestsAssumption, LenProperties DEF TypeInv, TypeOK, Hashes
            <4> QED
                BY <3>1, <4>1, <4>2 DEF ChainInv, LinksInv, IsLink
        <3>3. \A c \in Cases : c # r.case_id => last_record_hash'[c] = last_record_hash[c]
            BY <3>1 DEF TypeInv, TypeOK
        <3>4. last_record_hash'[r.case_id] = n.record_hash
            BY <3>1, RequestsAssumption DEF TypeInv, TypeOK
        <3> QED
            BY <3>1, <3>2, <3>3, <3>4 DEF AppendStep
    <2>2. ASSUME UNCHANGED <<ledger_records, last_record_hash>> PROVE AppendStep
        BY <2>2 DEF AppendStep
    <2> QED
        BY <2>1, <2>2 DEF Next, LockHead, StageRecord, Rollback, Crash, StepBack
<1> QED
    BY <1>1, SpecChainInv, PTL DEF Spec, AppendOnly

\* Every step of the handlers is a step of the abstract log or leaves it as
\* it is.
THEOREM LedgerImplementsLog == Spec => ImplementsLog
<1>1. Init => Log!LogInit
    BY DEF Init, Log!LogInit, outcomeBar, NoHash, Answered
<1>2. TypeInv /\ ChainInv /\ [Next]_vars => [Log!LogNext]_(Log!logVars)
    <2> SUFFICES ASSUME TypeInv, ChainInv, [Next]_vars
                 PROVE  Log!LogNext \/ UNCHANGED <<last_record_hash, outcomeBar>>
        BY DEF Log!logVars
    <2>1. ASSUME NEW r \in Requests, LockHead(r) PROVE UNCHANGED <<last_record_hash, outcomeBar>>
        BY <2>1 DEF LockHead, outcomeBar, Answered, TypeInv, TypeOK
    <2>2. ASSUME NEW r \in Requests, StageRecord(r) PROVE UNCHANGED <<last_record_hash, outcomeBar>>
        BY <2>2 DEF StageRecord, outcomeBar, Answered, TypeInv, TypeOK
    <2>3. ASSUME NEW r \in Requests, Commit(r) PROVE Log!Accept(r)
        <3>1. last_record_hash' = [last_record_hash EXCEPT
                 ![r.case_id] = Append(last_record_hash[r.case_id], compute_payload_hash(r))]
            BY <2>3, CommitExtendsHead DEF ChainInv, Commit
        <3>2. PICK answer \in Answered : pc' = [pc EXCEPT ![r] = answer]
            BY <2>3 DEF Commit
        <3>3. outcomeBar[r] = "pending"
            BY <2>3 DEF Commit, outcomeBar, Answered
        <3>4. outcomeBar' = [outcomeBar EXCEPT ![r] = answer]
            BY <3>2 DEF outcomeBar, Answered, TypeInv, TypeOK
        <3> QED
            BY <3>1, <3>2, <3>3, <3>4
            DEF Log!Accept, Log!PayloadDigest, compute_payload_hash, Answered
    <2>4. ASSUME NEW r \in Requests, Rollback(r) PROVE Log!GiveUp({r})
        <3>1. outcomeBar[r] = "pending"
            BY <2>4 DEF Rollback, outcomeBar, Answered, InTransaction
        <3>2. outcomeBar' = [s \in Requests |-> IF s \in {r} THEN "failed" ELSE outcomeBar[s]]
            BY <2>4 DEF Rollback, outcomeBar, Answered, TypeInv, TypeOK
        <3> QED
            BY <2>4, <3>1, <3>2 DEF Log!GiveUp, Rollback
    <2>5. ASSUME Crash PROVE Log!GiveUp({r \in Requests : pc[r] \in InTransaction})
        <3> DEFINE R == {r \in Requests : pc[r] \in InTransaction}
        <3>1. \A r \in R : outcomeBar[r] = "pending"
            BY DEF outcomeBar, Answered, InTransaction
        <3>2. outcomeBar' = [s \in Requests |-> IF s \in R THEN "failed" ELSE outcomeBar[s]]
            BY <2>5 DEF Crash, outcomeBar, Answered, InTransaction, TypeInv, TypeOK
        <3> QED
            BY <2>5, <3>1, <3>2 DEF Log!GiveUp, Crash
    <2>6. ASSUME StepBack \/ UNCHANGED vars PROVE UNCHANGED <<last_record_hash, outcomeBar>>
        BY <2>6 DEF StepBack, vars, outcomeBar
    <2>7. \A r \in Requests : {r} \in SUBSET Requests
        OBVIOUS
    <2>8. {r \in Requests : pc[r] \in InTransaction} \in SUBSET Requests
        OBVIOUS
    <2> QED
        BY <2>1, <2>2, <2>3, <2>4, <2>5, <2>6, <2>7, <2>8 DEF Next, Log!LogNext
<1> QED
    BY <1>1, <1>2, SpecChainInv, PTL DEF Spec, ImplementsLog, Log!LogSpec

-----------------------------------------------------------------------------
(* Reading a proof back. *)

\* A request has one row at most, none before it is answered, and one when
\* it was answered with success.
OnceInv ==
    /\ \A x \in ledger_records : pc[x.raw_payload] \in Answered
    /\ \A x, y \in ledger_records : x.raw_payload = y.raw_payload => x = y
    /\ \A r \in Requests : pc[r] = "ok" => \E x \in ledger_records : x.raw_payload = r

LEMMA NextOnceInv == (TypeInv /\ ChainInv) /\ OnceInv /\ [Next]_vars => OnceInv'
<1> SUFFICES ASSUME TypeInv, ChainInv, OnceInv, [Next]_vars PROVE OnceInv'
    OBVIOUS
<1>0. \A x \in ledger_records : x.raw_payload \in Requests
    BY DEF TypeInv, TypeOK, Rows
<1>1. ASSUME NEW r \in Requests, LockHead(r) PROVE OnceInv'
    BY <1>0, <1>1 DEF TypeInv, TypeOK, OnceInv, LockHead, Answered
<1>2. ASSUME NEW r \in Requests, StageRecord(r) PROVE OnceInv'
    BY <1>0, <1>2 DEF TypeInv, TypeOK, OnceInv, StageRecord, Answered
<1>3. ASSUME NEW r \in Requests, Commit(r) PROVE OnceInv'
    <2>1. /\ new_record[r].raw_payload = r
          /\ ledger_records' = ledger_records \cup {new_record[r]}
        BY <1>3, CommitExtendsHead DEF ChainInv, Commit
    <2>2. PICK answer \in Answered : pc' = [pc EXCEPT ![r] = answer]
        BY <1>3 DEF Commit
    <2>3. \A x \in ledger_records : x.raw_payload # r
        BY <1>3 DEF OnceInv, Commit, Answered
    <2>4. \A x \in ledger_records' : pc'[x.raw_payload] \in Answered
        BY <1>0, <2>1, <2>2, <2>3 DEF TypeInv, TypeOK, OnceInv
    <2>5. \A x, y \in ledger_records' : x.raw_payload = y.raw_payload => x = y
        BY <2>1, <2>3 DEF OnceInv
    <2>6. \A s \in Requests : pc'[s] = "ok" => \E x \in ledger_records' : x.raw_payload = s
        BY <2>1, <2>2 DEF TypeInv, TypeOK, OnceInv
    <2> QED
        BY <2>4, <2>5, <2>6 DEF OnceInv
<1>4. ASSUME NEW r \in Requests, Rollback(r) PROVE OnceInv'
    BY <1>0, <1>4 DEF TypeInv, TypeOK, OnceInv, Rollback, Answered, InTransaction
<1>5. CASE Crash
    BY <1>0, <1>5 DEF TypeInv, TypeOK, OnceInv, Crash, Answered, InTransaction
<1>6. CASE StepBack
    BY <1>6 DEF OnceInv, StepBack
<1>7. CASE UNCHANGED vars
    BY <1>7 DEF OnceInv, vars
<1> QED
    BY <1>1, <1>2, <1>3, <1>4, <1>5, <1>6, <1>7 DEF Next

\* The proof of an acknowledged ingestion is what GetProofByArtifactId
\* returns from then on.
THEOREM AcknowledgedProofIsServed == Spec => []ProofServed
<1>1. Init => OnceInv
    BY DEF Init, OnceInv
<1>2. (TypeInv /\ ChainInv) /\ OnceInv => ProofServed
    <2> SUFFICES ASSUME TypeInv, OnceInv, NEW r \in Requests,
                        pc[r] = "ok", r.record_type = "EVIDENCE_PROOF_CREATED"
                 PROVE  /\ \E x \in ledger_records : IsProofServed(r.artifact_id, x)
                        /\ \A x \in ledger_records :
                              IsProofServed(r.artifact_id, x) => x.raw_payload = r
        BY DEF ProofServed
    <2>1. \A x \in ProofRecords(r.artifact_id) : x.raw_payload = r
        BY OneProofPerArtifact DEF ProofRecords, TypeInv, TypeOK, Rows
    <2>2. PICK x \in ledger_records : x.raw_payload = r
        BY DEF OnceInv
    <2>3. ProofRecords(r.artifact_id) = {x}
        BY <2>1, <2>2 DEF ProofRecords, OnceInv
    <2>4. x.created_at <= x.created_at
        BY DEF TypeInv, TypeOK, Rows
    <2> QED
        BY <2>1, <2>2, <2>3, <2>4 DEF IsProofServed
<1> QED
    BY <1>1, <1>2, NextOnceInv, SpecChainInv, PTL DEF Spec
================================================================================
