------------------------------ MODULE MCIngestion ------------------------------
(***************************************************************************)
(* Instances of the collector for TLC: one upload that two verifications,  *)
(* a view and a download meet at any of its stages; two uploads at once;   *)
(* and a verification of each kind.                                        *)
(***************************************************************************)
EXTENDS Ingestion

CONSTANTS a1, a2

Original(n) == [nr |-> n, artifact |-> a1, same |-> TRUE]
Altered(n) == [nr |-> n, artifact |-> a1, same |-> FALSE]

OneUpload == {a1}
TwoUploads == {a1, a2}

NoVerification == {}
TwoVerifications == {Original(1), Altered(2)}
OneVerification == {Original(1)}

Accessed == {[kind |-> k, artifact |-> a1] : k \in {"EvidenceViewed", "EvidenceDownloaded"}}
NoAccess == {}
================================================================================
