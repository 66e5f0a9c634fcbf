--------------------------- MODULE LedgerAuditProofs ---------------------------
(***************************************************************************)
(* What a validation detects, for any requests, cases and record ids, any  *)
(* number of appends before and after the damage, and however often the    *)
(* clock of the host was set back: an altered record, and a lost one that  *)
(* has a successor.                                                        *)
(*                                                                         *)
(* The clock does not enter into it, though the validator reads the rows   *)
(* in the order of their timestamps.  An altered row fails by itself.  The *)
(* successor of a lost row asks for a hash that no row of the case has, so *)
(* whichever row the order puts before it, the two do not fit.             *)
(***************************************************************************)
EXTENDS LedgerAudit, LedgerProofs

-----------------------------------------------------------------------------
(* Alterations *)

\* A record hash determines what it was computed from.
LEMMA HashNamesItsPast ==
    ASSUME NEW S, NEW g \in Seq(S), NEW h \in Seq(S), NEW d \in S,
           Append(g, d) = Append(h, d)
    PROVE  g = h
<1>1. Len(g) \in Nat /\ Len(h) \in Nat /\ Len(g) + 1 = Len(h) + 1
    <2>1. Len(Append(g, d)) = Len(g) + 1 /\ Len(Append(h, d)) = Len(h) + 1
        BY AppendProperties
    <2> QED
        BY <2>1, LenProperties
<1>2. \A i \in 1..Len(g) : g[i] = Append(g, d)[i] /\ h[i] = Append(h, d)[i]
    BY <1>1, AppendProperties
<1> QED
    BY <1>1, <1>2, SeqEqual

\* No alteration of a single column leaves a record intact.
LEMMA AlteredIsNotIntact ==
    ASSUME NEW x \in Rows, Intact(x), NEW y \in Altered(x)
    PROVE  y \in Rows /\ y.case_id = x.case_id /\ ~Intact(y)
<1>1. NoHash \in Hashes
    BY EmptySeq DEF NoHash, Hashes
<1>2. CASE \E p \in Requests \ {x.raw_payload} : y = [x EXCEPT !.raw_payload = p]
    BY <1>2 DEF Rows, Intact, compute_payload_hash
<1>3. CASE \E p \in Requests \ {x.raw_payload} :
               y = [x EXCEPT !.payload_hash = compute_payload_hash(p)]
    BY <1>3 DEF Rows, Digests, Intact, compute_payload_hash
<1>4. CASE \E h \in {NoHash, x.record_hash} \ {x.previous_record_hash} :
               y = [x EXCEPT !.previous_record_hash = h]
    <2>1. PICK h \in Hashes : /\ h # x.previous_record_hash
                              /\ y = [x EXCEPT !.previous_record_hash = h]
        BY <1>1, <1>4 DEF Rows
    <2>2. y \in Rows /\ y.case_id = x.case_id
        BY <2>1 DEF Rows
    <2>3. /\ y.record_hash = x.record_hash /\ y.payload_hash = x.payload_hash
          /\ y.previous_record_hash = h
        BY <2>1 DEF Rows
    <2>4. Append(x.previous_record_hash, x.payload_hash) # Append(h, x.payload_hash)
        BY <2>1, HashNamesItsPast DEF Rows, Hashes
    <2> QED
        BY <2>2, <2>3, <2>4 DEF Intact, compute_record_hash
<1>5. CASE \E h \in {NoHash, x.previous_record_hash} \ {x.record_hash} :
               y = [x EXCEPT !.record_hash = h]
    BY <1>1, <1>5 DEF Rows, Intact, compute_record_hash
<1> QED
    BY <1>2, <1>3, <1>4, <1>5 DEF Altered

-----------------------------------------------------------------------------
(* The ledger with its damage *)

\* One place of the chain is empty and stays so: every further record follows
\* the head, which moves on as if the lost row were there.
GapInv(c, k) ==
    /\ c \in Cases /\ k \in 1..Len(last_record_hash[c])
    /\ LinksInv
    /\ \A x \in RecordsOf(c) : Len(x.record_hash) # k
    /\ \A n \in 1..Len(last_record_hash[c]) \ {k} :
          \E x \in RecordsOf(c) : Len(x.record_hash) = n

\* The chain is whole until the damage is done; then the altered row or the
\* gap is there for good.
AuditInv ==
    /\ TypeInv /\ LockInv
    /\ damage = NoDamage => ChainInv
    /\ damage.kind = "altered" => \E y \in RecordsOf(damage.case_id) : ~Intact(y)
    /\ damage.kind = "lost" => GapInv(damage.case_id, Len(damage.row.record_hash))

LEMMA GapStays ==
    ASSUME TypeInv, LockInv, NEW c, NEW k, GapInv(c, k), [Next]_vars
    PROVE  GapInv(c, k)'
<1>1. ASSUME NEW r \in Requests, Commit(r) PROVE GapInv(c, k)'
    <2> DEFINE h == last_record_hash[r.case_id]
               n == new_record[r]
    <2>1. n.case_id = r.case_id /\ n.record_hash = Append(h, compute_payload_hash(r))
        BY <1>1, CommitExtendsHead
    <2>2. /\ ledger_records' = ledger_records \cup {n}
          /\ \A b \in Cases : b # r.case_id => last_record_hash'[b] = last_record_hash[b]
          /\ last_record_hash'[r.case_id] = n.record_hash
          /\ Len(h) \in Nat /\ Len(n.record_hash) = Len(h) + 1
        BY <1>1, <2>1, CommitMovesHead
    <2>3. LinksInv'
        BY <1>1, CommitLinks DEF GapInv
    <2>4. CASE r.case_id # c
        <3>1. RecordsOf(c)' = RecordsOf(c)
            BY <2>1, <2>2, <2>4 DEF RecordsOf
        <3> QED
            BY <2>2, <2>3, <2>4, <3>1 DEF GapInv
    <2>5. CASE r.case_id = c
        <3>1. RecordsOf(c)' = RecordsOf(c) \cup {n}
            BY <2>1, <2>2, <2>5 DEF RecordsOf
        <3> HIDE DEF n
        <3> QED
            BY <2>2, <2>3, <2>5, <3>1 DEF GapInv
    <2> QED
        BY <2>4, <2>5
<1>2. CASE UNCHANGED <<ledger_records, last_record_hash>>
    BY <1>2 DEF GapInv, LinksInv, IsLink, RecordsOf
<1> QED
    BY <1>1, <1>2, OnlyCommitWrites

LEMMA AlterStep ==
    ASSUME AuditInv, Alter
    PROVE  AuditInv'
<1>1. PICK x \in ledger_records : \E y \in Altered(x) :
          /\ ledger_records' = (ledger_records \ {x}) \cup {y}
          /\ damage' = [kind |-> "altered", case_id |-> x.case_id]
    BY DEF Alter
<1>2. PICK y \in Altered(x) :
          /\ ledger_records' = (ledger_records \ {x}) \cup {y}
          /\ damage' = [kind |-> "altered", case_id |-> x.case_id]
    BY <1>1
<1>3. UNCHANGED <<last_record_hash, lock, pc, previous, new_record, clock, stepBacks>>
    BY DEF Alter
<1>4. x \in Rows /\ IsLink(x)
    BY DEF Alter, AuditInv, ChainInv, LinksInv, TypeInv, TypeOK
<1>5. Intact(x)
    BY <1>4 DEF IsLink, Intact, compute_record_hash
<1>6. y \in Rows /\ y.case_id = x.case_id /\ ~Intact(y)
    BY <1>4, <1>5, AlteredIsNotIntact
<1>7. ledger_records' \subseteq Rows
    BY <1>2, <1>6 DEF AuditInv, TypeInv, TypeOK
<1>8. TypeInv' /\ LockInv'
    BY <1>3, <1>7 DEF AuditInv, TypeInv, TypeOK, StagedInv, LockInv
<1>9. (\E z \in RecordsOf(damage.case_id) : ~Intact(z))'
    BY <1>2, <1>6 DEF RecordsOf, Intact
<1>10. damage'.kind = "altered"
    BY <1>2
<1> QED
    BY <1>8, <1>9, <1>10 DEF AuditInv, NoDamage

LEMMA LoseStep ==
    ASSUME AuditInv, Lose
    PROVE  AuditInv'
<1>1. PICK x \in ledger_records :
          /\ ledger_records' = ledger_records \ {x}
          /\ damage' = [kind |-> "lost", case_id |-> x.case_id, row |-> x]
    BY DEF Lose
<1>2. UNCHANGED <<last_record_hash, lock, pc, previous, new_record, clock, stepBacks>>
    BY DEF Lose
<1>3. ChainInv /\ x \in Rows /\ IsLink(x)
    BY DEF Lose, AuditInv, ChainInv, LinksInv, TypeInv, TypeOK
<1>4. TypeInv' /\ LockInv'
    BY <1>1, <1>2 DEF AuditInv, TypeInv, TypeOK, StagedInv, LockInv
<1>5. GapInv(x.case_id, Len(x.record_hash))'
    <2> DEFINE c == x.case_id
               k == Len(x.record_hash)
    <2>1. c \in Cases /\ k \in 1..Len(last_record_hash[c])
        BY <1>3 DEF IsLink, Rows
    <2>2. LinksInv'
        BY <1>1, <1>2, <1>3 DEF ChainInv, LinksInv, IsLink
    <2>3. RecordsOf(c)' = RecordsOf(c) \ {x}
        BY <1>1 DEF RecordsOf
    <2>4. \A y \in RecordsOf(c)' : Len(y.record_hash) # k
        BY <1>3, <2>3 DEF ChainInv, UniqueInv, RecordsOf
    <2>5. \A n \in 1..Len(last_record_hash[c]) \ {k} :
             \E y \in RecordsOf(c)' : Len(y.record_hash) = n
        BY <1>3, <2>1, <2>3 DEF ChainInv, FullInv
    <2> QED
        BY <1>2, <2>1, <2>2, <2>4, <2>5 DEF GapInv
<1>6. damage'.kind = "lost" /\ damage'.case_id = x.case_id /\ damage'.row = x
    BY <1>1
<1> QED
    BY <1>4, <1>5, <1>6 DEF AuditInv, NoDamage

LEMMA AuditInvariant == AuditSpec => []AuditInv
<1>1. AuditInit => AuditInv
    BY InitTypeInv, InitChainInv DEF AuditInit, AuditInv, ChainInv, NoDamage
<1>2. AuditInv /\ [AuditNext]_auditVars => AuditInv'
    <2> SUFFICES ASSUME AuditInv, [AuditNext]_auditVars PROVE AuditInv'
        OBVIOUS
    <2>1. ASSUME [Next]_vars, UNCHANGED damage PROVE AuditInv'
        <3>1. TypeInv' /\ LockInv'
            BY <2>1, NextTypeInv, NextLockInv DEF AuditInv
        <3>2. (damage = NoDamage => ChainInv)'
            BY <2>1, NextChainInv DEF AuditInv
        <3>3. ledger_records \subseteq ledger_records'
            BY <2>1, OnlyCommitWrites DEF Commit
        <3>4. (damage.kind = "altered" => \E y \in RecordsOf(damage.case_id) : ~Intact(y))'
            BY <2>1, <3>3 DEF AuditInv, RecordsOf, Intact
        <3>5. (damage.kind = "lost" => GapInv(damage.case_id, Len(damage.row.record_hash)))'
            <4> DEFINE c == damage.case_id
                       k == Len(damage.row.record_hash)
            <4>1. c' = c /\ k' = k
                BY <2>1
            <4>2. damage.kind = "lost" => GapInv(c, k)
                BY DEF AuditInv
            <4> HIDE DEF c, k
            <4> QED
                BY <2>1, <4>1, <4>2, GapStays DEF AuditInv, c, k
        <3> QED
            BY <3>1, <3>2, <3>4, <3>5 DEF AuditInv
    <2>2. CASE Alter
        BY <2>2, AlterStep
    <2>3. CASE Lose
        BY <2>3, LoseStep
    <2> QED
        BY <2>1, <2>2, <2>3 DEF AuditNext, auditVars
<1> QED
    BY <1>1, <1>2, PTL DEF AuditSpec

-----------------------------------------------------------------------------
(* What ValidateLedgerChain says of it *)

\* An altered record keeps its case from validating for ever, whatever is
\* appended to it and whatever the clock does (servicer.py:182-210).
THEOREM AlterationsAreDetected == AuditSpec => []AlterationDetected
<1>1. AuditInv => AlterationDetected
    BY DEF AuditInv, AlterationDetected, ChainValid
<1> QED
    BY <1>1, AuditInvariant, PTL

\* The record behind a gap finds no record whose hash it names.
LEMMA GapIsNotValid ==
    ASSUME TypeInv, NEW c, NEW k, GapInv(c, k),
           NEW y \in RecordsOf(c), Len(y.record_hash) > k
    PROVE  ~ChainValid(c)
<1>1. k \in Nat \ {0} /\ k + 1 \in 1..Len(last_record_hash[c])
    <2>1. Len(y.record_hash) \in 1..Len(last_record_hash[c])
        BY DEF GapInv, LinksInv, IsLink, RecordsOf
    <2>2. last_record_hash[c] \in Hashes
        BY DEF GapInv, TypeInv, TypeOK
    <2>3. Len(last_record_hash[c]) \in Nat
        BY <2>2, LenProperties DEF Hashes
    <2> QED
        BY <2>1, <2>3 DEF GapInv
<1>2. PICK z \in RecordsOf(c) : Len(z.record_hash) = k + 1
    BY <1>1 DEF GapInv
<1>3. z \in Rows /\ IsLink(z) /\ z.case_id = c
    BY <1>2 DEF RecordsOf, GapInv, LinksInv, TypeInv, TypeOK
<1>4. Len(z.previous_record_hash) = k
    <2>1. Len(z.record_hash) = Len(z.previous_record_hash) + 1
        BY <1>3, AppendProperties DEF IsLink, Rows, Hashes
    <2>2. Len(z.previous_record_hash) \in Nat
        BY <1>3, LenProperties DEF Rows, Hashes
    <2> QED
        BY <1>1, <1>2, <2>1, <2>2
<1>5. z.previous_record_hash # NoHash
    BY <1>1, <1>4, EmptySeq DEF NoHash
<1>6. \A w \in RecordsOf(c) : w.record_hash # z.previous_record_hash
    BY <1>4 DEF GapInv
<1>7. ~Linked(z)
    BY <1>3, <1>5, <1>6 DEF Linked, Predecessors
<1> QED
    BY <1>2, <1>7 DEF ChainValid

\* A lost record is noticed by whatever follows it, before or after the loss
\* (servicer.py:25-30, 184-189).
THEOREM LossesAreDetected == AuditSpec => []LossDetected
<1>1. AuditInv => LossDetected
    BY GapIsNotValid DEF AuditInv, LossDetected
<1> QED
    BY <1>1, AuditInvariant, PTL
================================================================================
