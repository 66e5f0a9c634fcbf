------------------------------- MODULE LedgerLog -------------------------------
(***************************************************************************)
(* What the immutable ledger promises its callers, with no lock, no        *)
(* transaction and no table in sight: one append-only log per case, and    *)
(* for every append request exactly one outcome.  A request that was       *)
(* answered with success is in the log; one that was answered with an      *)
(* error may or may not be (the reply to a commit can be lost), but no     *)
(* request is ever appended twice, and nothing is ever removed.            *)
(*                                                                         *)
(* Ledger.tla implements this specification; the refinement is checked     *)
(* by TLC and proved in LedgerProofs.tla.                                  *)
(***************************************************************************)
EXTENDS Sequences

CONSTANTS Requests,   \* append requests: records with a field case_id
          Cases       \* case numbers

VARIABLES log,        \* log[c]: the digests of the payloads of case c, oldest first
          outcome     \* outcome[r]: what the caller of request r has been told

logVars == <<log, outcome>>

PayloadDigest(payload) == [sha256 |-> payload]

LogInit ==
    /\ log = [c \in Cases |-> <<>>]
    /\ outcome = [r \in Requests |-> "pending"]

\* The request becomes the newest entry of its case; the caller learns of
\* it, or is told of an error although the entry is there.
Accept(r) ==
    /\ outcome[r] = "pending"
    /\ log' = [log EXCEPT ![r.case_id] = Append(@, PayloadDigest(r))]
    /\ \E told \in {"ok", "failed"} : outcome' = [outcome EXCEPT ![r] = told]

\* Some pending requests are given up together (one of them rolled back, or
\* the service stopped) and leave no trace in any log.
GiveUp(R) ==
    /\ \A r \in R : outcome[r] = "pending"
    /\ outcome' = [r \in Requests |-> IF r \in R THEN "failed" ELSE outcome[r]]
    /\ UNCHANGED log

LogNext ==
    \/ \E r \in Requests : Accept(r)
    \/ \E R \in SUBSET Requests : GiveUp(R)

LogSpec == LogInit /\ [][LogNext]_logVars
================================================================================
