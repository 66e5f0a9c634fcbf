--------------------------- MODULE MCCustodyPipeline ---------------------------
(***************************************************************************)
(* Instances of the pipeline for TLC.  Two events of one artifact reach    *)
(* the outbox while a third, about the same or another artifact, comes     *)
(* straight from the audit reporter.                                       *)
(***************************************************************************)
EXTENDS CustodyPipeline

CONSTANTS a1, a2

Outbox(n, a) == [name |-> n, artifact |-> a, direct |-> FALSE]
Direct(n, a) == [name |-> n, artifact |-> a, direct |-> TRUE]

TwoOutboxEvents == {Outbox("viewed", a1), Outbox("downloaded", a1)}
WithReport == TwoOutboxEvents \cup {Direct("report", a1)}
TwoArtifacts == TwoOutboxEvents \cup {Outbox("ingested", a2)}
================================================================================
