------------------------------- MODULE LedgerAudit -------------------------------
(***************************************************************************)
(* What a validation of the ledger is for: the service of Ledger.tla runs  *)
(* on, and once something other than the service changes the table         *)
(* ledger_records (a restored page, a manual repair, a lost row).          *)
(* ValidateLedgerChain must not call such a case valid.                    *)
(***************************************************************************)
EXTENDS Ledger

VARIABLE damage     \* what has been done to the table: "none" or a record

auditVars == <<vars, damage>>

NoDamage == [kind |-> "none"]

\* One stored column that the chain covers changes to another value that
\* the column holds elsewhere.
Altered(x) ==
    {[x EXCEPT !.raw_payload = p] : p \in Requests \ {x.raw_payload}}
    \cup {[x EXCEPT !.payload_hash = compute_payload_hash(p)] :
              p \in Requests \ {x.raw_payload}}
    \cup {[x EXCEPT !.previous_record_hash = h] :
              h \in {NoHash, x.record_hash} \ {x.previous_record_hash}}
    \cup {[x EXCEPT !.record_hash = h] :
              h \in {NoHash, x.previous_record_hash} \ {x.record_hash}}

Alter ==
    /\ damage = NoDamage
    /\ \E x \in ledger_records : \E y \in Altered(x) :
          /\ ledger_records' = (ledger_records \ {x}) \cup {y}
          /\ damage' = [kind |-> "altered", case_id |-> x.case_id]
    /\ UNCHANGED <<last_record_hash, lock, pc, previous, new_record, clock, stepBacks>>

\* A row disappears.
Lose ==
    /\ damage = NoDamage
    /\ \E x \in ledger_records :
          /\ ledger_records' = ledger_records \ {x}
          /\ damage' = [kind |-> "lost", case_id |-> x.case_id, row |-> x]
    /\ UNCHANGED <<last_record_hash, lock, pc, previous, new_record, clock, stepBacks>>

AuditInit == Init /\ damage = NoDamage

AuditNext ==
    \/ Next /\ UNCHANGED damage
    \/ Alter
    \/ Lose

AuditSpec == AuditInit /\ [][AuditNext]_auditVars

\* What happens to the tables keeps no handler from being scheduled.
FairAuditSpec == AuditSpec /\ Fairness

\* A record whose payload, payload hash, previous hash or record hash is not
\* what the service wrote keeps its case from validating, whatever is
\* appended to the case afterwards (servicer.py:182-210).
AlterationDetected ==
    damage.kind = "altered" => ~ChainValid(damage.case_id)

\* A lost record is noticed as soon as the case holds a record younger than
\* it: one that was there already, or the next append, which still follows
\* the head in ledger_state (servicer.py:25-30, 184-189).  A lost newest
\* record alone is not: the validator does not look at ledger_state.
LossDetected ==
    damage.kind = "lost" =>
        ( (\E y \in RecordsOf(damage.case_id) :
              Len(y.record_hash) > Len(damage.row.record_hash))
          => ~ChainValid(damage.case_id) )
================================================================================
