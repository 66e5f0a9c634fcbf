------------------------------ MODULE MCLedgerAudit ------------------------------
(* LedgerAudit on three appends to one case, the last of them possibly after *)
(* the damage. *)
EXTENDS LedgerAudit

CONSTANTS c1, a1, a2

Proof(c, a) ==
    [case_id |-> c, artifact_id |-> a, record_type |-> "EVIDENCE_PROOF_CREATED", nr |-> 0]
Verification(c, a, n) ==
    [case_id |-> c, artifact_id |-> a, record_type |-> "VERIFICATION_RESULT_RECORDED", nr |-> n]

ThreeAppends == {Proof(c1, a1), Verification(c1, a1, 1), Proof(c1, a2)}
================================================================================
