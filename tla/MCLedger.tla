-------------------------------- MODULE MCLedger --------------------------------
(***************************************************************************)
(* Instances of the ledger for TLC: one case that receives the proof of an *)
(* artifact and two verifications of it at the same time, and a second     *)
(* case whose appends interleave with them.                                *)
(***************************************************************************)
EXTENDS Ledger

CONSTANTS c1, c2, a1, a2, a3

Proof(c, a) ==
    [case_id |-> c, artifact_id |-> a, record_type |-> "EVIDENCE_PROOF_CREATED", nr |-> 0]
Verification(c, a, n) ==
    [case_id |-> c, artifact_id |-> a, record_type |-> "VERIFICATION_RESULT_RECORDED", nr |-> n]

OneCase == {Proof(c1, a1), Verification(c1, a1, 1), Proof(c1, a2)}
TwoCases == OneCase \cup {Proof(c2, a3)}
================================================================================
