------------------------------- MODULE Ingestion -------------------------------
(***************************************************************************)
(* The evidence collector: uploads, verifications and accesses as its      *)
(* request handlers carry them out over the shared volume, its own tables  *)
(* (artifacts, outbox_events), the Hash & Sign service and the ledger.     *)
(*                                                                         *)
(* The handlers are coroutines of one process.  An action is what happens  *)
(* between two points where a handler waits (a part of the request body,   *)
(* an answer of another service); it is split further where a crash in     *)
(* between leaves something behind.                                        *)
(*                                                                         *)
(* The ledger appears as in LedgerLog.tla: a request sent to it may be     *)
(* committed at any later time, or never, whatever its caller was told.    *)
(* All artifacts belong to one case, so there is one chain; what may have  *)
(* become of its rows is kept apart from what was committed, as far as     *)
(* ValidateLedgerChain and GetProofByArtifactId can tell (see Ledger.tla   *)
(* and LedgerAudit.tla for the chain itself).                              *)
(* Failures of a database and crashes count against MaxFaults, and so do   *)
(* changes of the ledger's rows, its clock and the keys; an answer of      *)
(* another service may fail or time out once per call, without a bound.    *)
(***************************************************************************)
EXTENDS Naturals, FiniteSets

CONSTANTS
    Artifacts,      \* uploads; each draws a fresh artifact_id
    Verifications,  \* verify requests: [nr, artifact, same]; same: the file that
                    \* comes with it has the content of the upload
    Accesses,       \* get and download requests: [kind, artifact]
    MaxFaults,      \* bound: database failures, crashes and changes in one behaviour
    MaxChanges      \* bound: changes of the ledger's rows, its clock or the keys

ASSUME IngestionParameters ==
    /\ \A v \in Verifications : v.artifact \in Artifacts /\ v.same \in BOOLEAN
    /\ \A x \in Accesses :
          x.artifact \in Artifacts /\ x.kind \in {"EvidenceViewed", "EvidenceDownloaded"}
    /\ MaxFaults \in Nat /\ MaxChanges \in Nat

VARIABLES
    upload,         \* where the handler of each upload is
    response,       \* what the uploader was answered
    row,            \* artifacts.status, "none" without a row
    integrity,      \* artifacts whose hash, signature and ledger id columns are set
    storage,        \* artifacts whose file is on the shared volume
    outbox,         \* outbox_events
    ledger,         \* records the ledger has committed (rows may be lost later: cut)
    inflight,       \* requests the ledger has received and not settled
    verification,   \* the handler of each verification
    temp,           \* verifications whose temporary file is on the volume
    access,         \* what each access was answered
    broken,         \* a row of the chain does not fit its hashes or its predecessor
    cut,            \* the newest rows have been lost at some time
    times,          \* do created_at and the links order the rows alike:
                    \* "ordered", "unsteady" (still, but the clock was set back), "mixed"
    columns,        \* the hash and signature columns of each proof's row: "own",
                    \* "unsigned" (the two do not fit) or "other" (another artifact's)
    outdated,       \* artifacts signed with keys that have been replaced since
    changes,        \* such changes so far
    faults          \* failures so far

uploadVars == <<upload, response, row, integrity, storage>>
ledgerVars == <<ledger, inflight>>
verifyVars == <<verification, temp>>
worldVars == <<broken, cut, times, columns, outdated, changes>>
vars == <<uploadVars, outbox, ledgerVars, verifyVars, access, worldVars, faults>>

Proof(a) == [record_type |-> "EVIDENCE_PROOF_CREATED", of |-> a]
Result(v, verdict) ==
    [record_type |-> "VERIFICATION_RESULT_RECORDED", of |-> v, result |-> verdict]

IngestedEvent(a) == [event_type |-> "EvidenceIngested", of |-> a]
AccessEvent(x) == [event_type |-> x.kind, of |-> x]
RequestedEvent(v) == [event_type |-> "VerificationRequested", of |-> v]
OutcomeEvent(v, verdict, recorded) ==
    [event_type |-> IF verdict = "VALID" THEN "VerificationPassed" ELSE "VerificationFailed",
     of |-> v, result |-> verdict, ledger_record_id |-> recorded]

\* proof: the columns GetProofByArtifactId served.  History, for the properties:
\* whole_before, signed_before (the chain fitted together, and the keys of the
\* upload were in use, when the verification began).
NotStarted == [at |-> "new", whole_before |-> FALSE, signed_before |-> FALSE,
               proof |-> "none", signature_valid |-> FALSE,
               result |-> "none", answer |-> "none"]

Init ==
    /\ upload = [a \in Artifacts |-> "new"]
    /\ response = [a \in Artifacts |-> "none"]
    /\ row = [a \in Artifacts |-> "none"]
    /\ integrity = {} /\ storage = {}
    /\ outbox = {}
    /\ ledger = {} /\ inflight = {}
    /\ verification = [v \in Verifications |-> NotStarted]
    /\ temp = {}
    /\ access = [x \in Accesses |-> "none"]
    /\ broken = FALSE /\ cut = FALSE /\ times = "ordered"
    /\ columns = [a \in Artifacts |-> "own"] /\ outdated = {}
    /\ changes = 0 /\ faults = 0

Fault == changes + faults < MaxFaults /\ faults' = faults + 1

\* A commit on the collector's database: it takes effect and the handler is
\* told; or it raises, and has taken effect nevertheless or not.
Committed(effect) == effect /\ UNCHANGED faults
CommitRaises(effect, nothing) == Fault /\ (effect \/ nothing)

Goto(a, place) == upload' = [upload EXCEPT ![a] = place] /\ UNCHANGED response
Answer(a, code) ==
    /\ upload' = [upload EXCEPT ![a] = "done"]
    /\ response' = [response EXCEPT ![a] = code]
SetStatus(a, status) == row' = [row EXCEPT ![a] = status]

-----------------------------------------------------------------------------
(* upload_evidence *)

\* The file arrives in parts and is written to the volume.  (Callers who are
\* not assigned to the case were turned away before anything was stored.)
StartUpload(a) ==
    /\ upload[a] = "new"
    /\ storage' = storage \cup {a}
    /\ Goto(a, "writing")
    /\ UNCHANGED <<row, integrity, outbox, ledgerVars, verifyVars, access, worldVars, faults>>

\* Reading the body or writing the file raises: the directory is removed.
WriteFails(a) ==
    /\ upload[a] = "writing"
    /\ storage' = storage \ {a}
    /\ Answer(a, "500")
    /\ UNCHANGED <<row, integrity, outbox, ledgerVars, verifyVars, access, worldVars, faults>>

\* The row is inserted as PENDING and read back.
SavePending(a) ==
    /\ upload[a] = "writing"
    /\ \/ Committed(SetStatus(a, "PENDING")) /\ Goto(a, "signing") /\ UNCHANGED storage
       \/ /\ CommitRaises(SetStatus(a, "PENDING"), UNCHANGED row)
          /\ storage' = storage \ {a}
          /\ Answer(a, "500")
    /\ UNCHANGED <<integrity, outbox, ledgerVars, verifyVars, access, worldVars>>

\* ComputeAndSignHash reads the file and succeeds; the proof goes to the
\* ledger at once.
Signed(a) ==
    /\ upload[a] = "signing" /\ a \in storage
    /\ inflight' = inflight \cup {Proof(a)}
    /\ Goto(a, "appending")
    /\ UNCHANGED <<row, integrity, storage, outbox, ledger, verifyVars, access, worldVars,
                   faults>>

\* Mutation: the file of a rejected upload is kept.
RejectUnsigned_FileKept(a) ==
    /\ upload[a] = "signing"
    /\ Committed(SetStatus(a, "INGESTION_FAILED"))
    /\ Answer(a, "503 unsigned")
    /\ UNCHANGED <<integrity, storage, outbox, ledgerVars, verifyVars, access, worldVars>>

\* Hash & Sign fails or does not answer in time.  The commit of the new
\* status stands outside any try: if it raises, the file stays.
RejectUnsigned(a) ==
    /\ upload[a] = "signing"
    /\ \/ /\ Committed(SetStatus(a, "INGESTION_FAILED"))
          /\ storage' = storage \ {a}
          /\ Answer(a, "503 unsigned")
       \/ /\ CommitRaises(SetStatus(a, "INGESTION_FAILED"), UNCHANGED row)
          /\ Answer(a, "500")
          /\ UNCHANGED storage
    /\ UNCHANGED <<integrity, outbox, ledgerVars, verifyVars, access, worldVars>>

\* Mutation: an append that timed out counts as done.
Appended_Unchecked(a) ==
    /\ upload[a] = "appending"
    /\ Goto(a, "finalizing")
    /\ UNCHANGED <<row, integrity, storage, outbox, ledgerVars, verifyVars, access,
                   worldVars, faults>>

\* AppendProofRecord answers success.
Appended(a) ==
    /\ upload[a] = "appending" /\ Proof(a) \in ledger
    /\ Goto(a, "finalizing")
    /\ UNCHANGED <<row, integrity, storage, outbox, ledgerVars, verifyVars, access,
                   worldVars, faults>>

\* Mutation: no timeout, only an answer of the ledger ends the wait.
RejectUnproved_NoTimeout(a) ==
    /\ upload[a] = "appending" /\ Proof(a) \notin inflight \cup ledger
    /\ Committed(SetStatus(a, "INGESTION_FAILED"))
    /\ Answer(a, "503 unproved")
    /\ UNCHANGED <<integrity, storage, outbox, ledgerVars, verifyVars, access, worldVars>>

\* The append fails, or its answer does not come in time; the ledger may have
\* committed it, or may yet do so.  The file stays.
RejectUnproved(a) ==
    /\ upload[a] = "appending"
    /\ \/ Committed(SetStatus(a, "INGESTION_FAILED")) /\ Answer(a, "503 unproved")
       \/ /\ CommitRaises(SetStatus(a, "INGESTION_FAILED"), UNCHANGED row)
          /\ Answer(a, "500")
    /\ UNCHANGED <<integrity, storage, outbox, ledgerVars, verifyVars, access, worldVars>>

\* Mutation: the event is written after the commit of the row.
MarkIngested_EventLater(a) ==
    /\ SetStatus(a, "INGESTED")
    /\ integrity' = integrity \cup {a}
    /\ UNCHANGED outbox

\* Row and outbox event in one transaction.
MarkIngested(a) ==
    /\ SetStatus(a, "INGESTED")
    /\ integrity' = integrity \cup {a}
    /\ outbox' = outbox \cup {IngestedEvent(a)}

\* The commit, or reading the row back behind it, may raise.
Finalize(a) ==
    /\ upload[a] = "finalizing"
    /\ \/ Committed(MarkIngested(a)) /\ Answer(a, "201")
       \/ /\ CommitRaises(MarkIngested(a), UNCHANGED <<row, integrity, outbox>>)
          /\ Goto(a, "unfinished")
    /\ UNCHANGED <<storage, ledgerVars, verifyVars, access, worldVars>>

\* Mutation: a status the other services do not know.
RejectUnfinished_OtherStatus(a) ==
    /\ upload[a] = "unfinished"
    /\ Committed(SetStatus(a, "FAILED"))
    /\ Answer(a, "500")
    /\ UNCHANGED <<integrity, storage, outbox, ledgerVars, verifyVars, access, worldVars>>

\* The except clause of the finalization overwrites the status; the outbox
\* event, if the commit took effect, stays.
RejectUnfinished(a) ==
    /\ upload[a] = "unfinished"
    /\ \/ Committed(SetStatus(a, "INGESTION_FAILED"))
       \/ CommitRaises(SetStatus(a, "INGESTION_FAILED"), UNCHANGED row)
    /\ Answer(a, "500")
    /\ UNCHANGED <<integrity, storage, outbox, ledgerVars, verifyVars, access, worldVars>>

-----------------------------------------------------------------------------
(* The ledger settles a request, in its own time. *)

\* A row is appended.  It follows the head in ledger_state: if the row of that
\* head is lost, the link now leads nowhere.  It carries the time of the clock:
\* if that has been set back, the row may come to stand before its predecessor.
ChainGrows ==
    /\ broken' = (broken \/ cut)
    /\ times' \in IF times = "ordered" THEN {times} ELSE {times, "mixed"}
    /\ UNCHANGED <<cut, columns, outdated, changes>>

LedgerCommits(q) ==
    /\ q \in inflight
    /\ ledger' = ledger \cup {q}
    /\ inflight' = inflight \ {q}
    /\ ChainGrows
    /\ UNCHANGED <<uploadVars, outbox, verifyVars, access, faults>>

LedgerDrops(q) ==
    /\ q \in inflight
    /\ inflight' = inflight \ {q}
    /\ UNCHANGED <<uploadVars, outbox, ledger, verifyVars, access, worldVars, faults>>

-----------------------------------------------------------------------------
(* verify_evidence *)

\* Outbox events other than EvidenceIngested are written as well as can be:
\* if their commit raises, the handler goes on.
WriteOutbox(event) ==
    \/ Committed(outbox' = outbox \cup {event})
    \/ CommitRaises(outbox' = outbox \cup {event}, UNCHANGED outbox)

\* The artifact has a row, in whatever status, and the caller may see it.
StartVerification(v) ==
    /\ verification[v].at = "new"
    /\ row[v.artifact] # "none"
    /\ WriteOutbox(RequestedEvent(v))
    /\ temp' = temp \cup {v}
    /\ verification' = [verification EXCEPT
           ![v].at = "hashing",
           ![v].whole_before = ~broken,
           ![v].signed_before = (v.artifact \notin outdated)]
    /\ UNCHANGED <<uploadVars, ledgerVars, access, worldVars>>

\* Mutation: the whole directory of the artifact goes.
CleanUp_Tree(v) == temp' = {w \in temp : w.artifact # v.artifact}

\* The finally clause: the own file goes, and the directory if it is empty.
CleanUp(v) == temp' = temp \ {v}

Recomputed(v) ==
    /\ verification[v].at = "hashing" /\ v \in temp
    /\ verification' = [verification EXCEPT ![v].at = "fetching"]
    /\ UNCHANGED <<uploadVars, outbox, ledgerVars, temp, access, worldVars, faults>>

\* GetProofByArtifactId answers with the two columns of the proof's row, of
\* which the record hash knows nothing.
FetchProof(v) ==
    /\ verification[v].at = "fetching" /\ Proof(v.artifact) \in ledger
    /\ verification' = [verification EXCEPT ![v].at = "checking",
                                            ![v].proof = columns[v.artifact]]
    /\ UNCHANGED <<uploadVars, outbox, ledgerVars, temp, access, worldVars, faults>>

\* The public key in use decides whether the signature fits the hash.
\* Another artifact's pair may have been signed with these keys or with older
\* ones; VerifySignature does not know whose hash it is.
CheckSignature(v) ==
    /\ verification[v].at = "checking"
    /\ \E valid \in CASE verification[v].proof = "own" -> {v.artifact \notin outdated}
                       [] verification[v].proof = "unsigned" -> {FALSE}
                       [] OTHER -> BOOLEAN :
          verification' = [verification EXCEPT ![v].at = "validating",
                                               ![v].signature_valid = valid]
    /\ UNCHANGED <<uploadVars, outbox, ledgerVars, temp, access, worldVars, faults>>

\* Mutation: the state of the chain does not enter into the verdict.
verdict_NoChain(chain_valid, signature_valid, matches) ==
    IF ~signature_valid THEN "INVALID_SIGNATURE"
    ELSE IF ~matches THEN "TAMPERED" ELSE "VALID"

\* The most severe condition wins.
verdict(chain_valid, signature_valid, matches) ==
    IF ~chain_valid THEN "LEDGER_CORRUPTED"
    ELSE IF ~signature_valid THEN "INVALID_SIGNATURE"
    ELSE IF ~matches THEN "TAMPERED" ELSE "VALID"

\* ValidateLedgerChain walks through the rows in the order of created_at.  It
\* compares each with its predecessor and its hashes, and neither the last row
\* with the head nor the columns of a proof with its payload.  If its database
\* fails it answers, too, and says chain_valid = false.
chainValid == ~broken /\ times # "mixed"

\* The verdict on the file: the hash that was served is that of the upload, or
\* of something else, whose content only an altered file can have.  It is sent
\* to the ledger.
ValidateChain(v) ==
    /\ verification[v].at = "validating"
    /\ \E chain_valid, matches \in BOOLEAN :
          /\ \/ chain_valid = chainValid /\ UNCHANGED faults
             \/ chain_valid = FALSE /\ Fault
          /\ IF verification[v].proof = "own" THEN matches = v.same
             ELSE v.same => ~matches
          /\ LET result == verdict(chain_valid, verification[v].signature_valid, matches)
             IN  /\ verification' = [verification EXCEPT ![v].at = "recording",
                                                         ![v].result = result]
                 /\ inflight' = inflight \cup {Result(v, result)}
    /\ UNCHANGED <<uploadVars, outbox, ledger, temp, access, worldVars>>

\* Writing the temporary file fails, one of the calls fails or times out, or
\* the ledger has no proof, or has lost it.  Before the chain is validated the
\* row is read again for its case, and the database may fail.
VerificationFails(v) ==
    /\ \E code \in CASE verification[v].at = "hashing" -> {"500", "503"}
                    [] verification[v].at = "fetching" -> {"404"}
                    [] verification[v].at = "checking" -> {"503"}
                    [] verification[v].at = "validating" -> {"500", "503"}
                    [] OTHER -> {} :
          /\ verification' = [verification EXCEPT ![v].at = "done", ![v].answer = code]
          /\ IF verification[v].at = "validating" /\ code = "500"
             THEN Fault ELSE UNCHANGED faults
    /\ CleanUp(v)
    /\ UNCHANGED <<uploadVars, outbox, ledgerVars, access, worldVars>>

\* Mutation: the event names a ledger record whatever the append answered.
Conclude_RecordAssumed(v) ==
    /\ verification[v].at = "recording"
    /\ WriteOutbox(OutcomeEvent(v, verification[v].result, TRUE))
    /\ verification' = [verification EXCEPT ![v].at = "done", ![v].answer = "200"]
    /\ CleanUp(v)
    /\ UNCHANGED <<uploadVars, ledgerVars, access, worldVars>>

\* AppendVerificationRecord answers, fails or times out; either way the
\* outcome goes to the outbox and the caller gets the verdict.
Conclude(v) ==
    /\ verification[v].at = "recording"
    /\ \E recorded \in BOOLEAN :
          /\ recorded => Result(v, verification[v].result) \in ledger
          /\ WriteOutbox(OutcomeEvent(v, verification[v].result, recorded))
    /\ verification' = [verification EXCEPT ![v].at = "done", ![v].answer = "200"]
    /\ CleanUp(v)
    /\ UNCHANGED <<uploadVars, ledgerVars, access, worldVars>>

-----------------------------------------------------------------------------
(* get_evidence and download_evidence *)

\* A download needs the file.  A get reads the row again after the commit of
\* its event, and is answered 500 if that fails.
Access(x) ==
    /\ access[x] = "none" /\ row[x.artifact] # "none"
    /\ IF x.kind = "EvidenceDownloaded" /\ x.artifact \notin storage
       THEN access' = [access EXCEPT ![x] = "404"] /\ UNCHANGED <<outbox, faults>>
       ELSE \/ WriteOutbox(AccessEvent(x)) /\ access' = [access EXCEPT ![x] = "200"]
            \/ /\ x.kind = "EvidenceViewed" /\ Fault
               /\ outbox' = outbox \cup {AccessEvent(x)} \/ UNCHANGED outbox
               /\ access' = [access EXCEPT ![x] = "500"]
    /\ UNCHANGED <<uploadVars, ledgerVars, verifyVars, worldVars>>

-----------------------------------------------------------------------------
(* The rest of the world *)

Running(v) == verification[v].at \notin {"new", "done"}

\* The collector stops.  What is committed or on the volume stays, and so
\* does what the ledger has received; the callers are not answered.
Crash ==
    /\ Fault
    /\ upload' = [a \in Artifacts |-> IF upload[a] = "new" THEN "new" ELSE "done"]
    /\ response' = [a \in Artifacts |->
           IF upload[a] \in {"new", "done"} THEN response[a] ELSE "lost"]
    /\ verification' = [v \in Verifications |->
           IF Running(v) THEN [verification[v] EXCEPT !.at = "done", !.answer = "lost"]
           ELSE verification[v]]
    /\ UNCHANGED <<row, integrity, storage, outbox, ledgerVars, temp, access, worldVars>>

\* Another service, or another upload, appends a row to the case.
OthersAppend ==
    /\ ChainGrows
    /\ UNCHANGED <<uploadVars, outbox, ledgerVars, verifyVars, access, faults>>

Change ==
    /\ changes < MaxChanges /\ changes + faults < MaxFaults
    /\ changes' = changes + 1

\* A column the chain covers is altered, or a row is lost that another follows.
DamageLedger ==
    /\ Change
    /\ broken' = TRUE
    /\ UNCHANGED <<uploadVars, outbox, ledgerVars, verifyVars, access, cut, times, columns,
                   outdated, faults>>

\* The newest rows are lost; the ones that did not fit may be among them.
LoseNewest ==
    /\ Change
    /\ cut' = TRUE
    /\ broken' \in {broken, FALSE}
    /\ times' \in IF times = "mixed" THEN {"mixed", "unsteady"} ELSE {times}
    /\ UNCHANGED <<uploadVars, outbox, ledgerVars, verifyVars, access, columns, outdated,
                   faults>>

\* The host's clock is set back, or created_at of a row is changed.
DisturbTimes ==
    /\ Change
    /\ times' \in {"unsteady", "mixed"}
    /\ UNCHANGED <<uploadVars, outbox, ledgerVars, verifyVars, access, broken, cut, columns,
                   outdated, faults>>

\* The hash and signature columns of a proof, which no hash covers, change.
ChangeColumns(a) ==
    /\ Change
    /\ Proof(a) \in ledger
    /\ \E content \in {"unsigned", "other"} : columns' = [columns EXCEPT ![a] = content]
    /\ UNCHANGED <<uploadVars, outbox, ledgerVars, verifyVars, access, broken, cut, times,
                   outdated, faults>>

\* Hash & Sign, which reads its keys when it starts, starts with other ones.
ReplaceKeys ==
    /\ Change
    /\ outdated' = outdated \cup {a \in Artifacts : Proof(a) \in ledger \cup inflight}
    /\ UNCHANGED <<uploadVars, outbox, ledgerVars, verifyVars, access, broken, cut, times,
                   columns, faults>>

World ==
    \/ OthersAppend
    \/ DamageLedger \/ LoseNewest \/ DisturbTimes
    \/ \E a \in Artifacts : ChangeColumns(a)
    \/ ReplaceKeys

Upload(a) ==
    \/ StartUpload(a) \/ WriteFails(a) \/ SavePending(a)
    \/ Signed(a) \/ RejectUnsigned(a)
    \/ Appended(a) \/ RejectUnproved(a)
    \/ Finalize(a) \/ RejectUnfinished(a)
Verify(v) ==
    \/ StartVerification(v)
    \/ Recomputed(v) \/ FetchProof(v) \/ CheckSignature(v) \/ ValidateChain(v)
    \/ VerificationFails(v) \/ Conclude(v)
Settle == \E q \in inflight : LedgerCommits(q) \/ LedgerDrops(q)

Next ==
    \/ \E a \in Artifacts : Upload(a)
    \/ \E v \in Verifications : Verify(v)
    \/ \E x \in Accesses : Access(x)
    \/ Settle
    \/ Crash
    \/ World

Spec == Init /\ [][Next]_vars

-----------------------------------------------------------------------------
(* Properties *)

Verdicts == {"VALID", "TAMPERED", "INVALID_SIGNATURE", "LEDGER_CORRUPTED"}
LedgerRecords ==
    {Proof(a) : a \in Artifacts}
    \cup {Result(v, r) : v \in Verifications, r \in Verdicts}
OutboxEvents ==
    {IngestedEvent(a) : a \in Artifacts}
    \cup {AccessEvent(x) : x \in Accesses}
    \cup {RequestedEvent(v) : v \in Verifications}
    \cup {OutcomeEvent(v, r, b) : v \in Verifications, r \in Verdicts, b \in BOOLEAN}

WorldTypeOK ==
    /\ broken \in BOOLEAN /\ cut \in BOOLEAN
    /\ times \in {"ordered", "unsteady", "mixed"}
    /\ columns \in [Artifacts -> {"own", "unsigned", "other"}]
    /\ outdated \subseteq Artifacts
    /\ changes \in 0..MaxChanges

\* The variables hold what the columns, the volume and the handlers can hold.
TypeOK ==
    /\ upload \in [Artifacts -> {"new", "writing", "signing", "appending", "finalizing",
                                 "unfinished", "done"}]
    /\ response \in [Artifacts -> {"none", "201", "500", "503 unsigned", "503 unproved",
                                   "lost"}]
    /\ row \in [Artifacts -> {"none", "PENDING", "INGESTED", "INGESTION_FAILED"}]
    /\ integrity \subseteq Artifacts /\ storage \subseteq Artifacts
    /\ outbox \subseteq OutboxEvents
    /\ ledger \subseteq LedgerRecords /\ inflight \subseteq LedgerRecords
    /\ verification \in [Verifications ->
           [at : {"new", "hashing", "fetching", "checking", "validating", "recording", "done"},
            whole_before : BOOLEAN, signed_before : BOOLEAN,
            proof : {"none", "own", "unsigned", "other"}, signature_valid : BOOLEAN,
            result : Verdicts \cup {"none"},
            answer : {"none", "200", "404", "500", "503", "lost"}]]
    /\ temp \subseteq Verifications
    /\ access \in [Accesses -> {"none", "200", "404", "500"}]
    /\ WorldTypeOK
    /\ faults \in 0..MaxFaults

\* An artifact that counts as INGESTED has everything that makes it evidence:
\* the file, the integrity columns, a committed proof in the ledger, and its
\* event in the outbox; late answers, timeouts and crashes notwithstanding
\* (evidence.py:100-169).
IngestedIsComplete ==
    \A a \in Artifacts : row[a] = "INGESTED" =>
        /\ a \in storage /\ a \in integrity
        /\ Proof(a) \in ledger
        /\ IngestedEvent(a) \in outbox

\* No custody event announces evidence that the ledger and the volume do not
\* hold, even when the finalization went wrong (evidence.py:122-174).
IngestedEventIsBacked ==
    \A a \in Artifacts :
        IngestedEvent(a) \in outbox => a \in storage /\ Proof(a) \in ledger

\* What the uploader is told is so, then and later: 201 is a complete
\* ingestion, 503 a rejection that no event ever contradicts; and if Hash &
\* Sign had failed, neither file nor proof is left or on its way
\* (evidence.py:108-125, docs/implementation-decisions.md:65-71).
AnswerIsTruthful ==
    \A a \in Artifacts :
        /\ response[a] = "201" => row[a] = "INGESTED"
        /\ response[a] \in {"503 unsigned", "503 unproved"} =>
              row[a] = "INGESTION_FAILED" /\ IngestedEvent(a) \notin outbox
        /\ response[a] = "503 unsigned" =>
              a \notin storage /\ Proof(a) \notin ledger \cup inflight

\* What a verdict is worth, although its four answers are of four moments
\* (evidence.py:324-350, ledger_client.py:116-117, servicer.py:135-222).
\* VALID: the chain fitted together when the verification began, unless the
\* newest rows were lost, which the validator cannot see; the file has the
\* content of the upload, signed with the keys then in use, unless the row of
\* the proof carries another artifact's hash and signature, which no record
\* hash covers.  TAMPERED is said of the original only in that last case.
\* INVALID_SIGNATURE needs other keys or other columns, and LEDGER_CORRUPTED a
\* change of the ledger's rows, a disturbed clock, or a failure that the
\* ledger's client takes for an answer.
VerdictIsSound ==
    \A v \in Verifications :
        LET run == verification[v] IN
        /\ run.result = "VALID" =>
              /\ run.whole_before \/ cut
              /\ (v.same /\ run.signed_before) \/ run.proof = "other"
        /\ run.result = "TAMPERED" => ~v.same \/ run.proof = "other"
        /\ run.result = "INVALID_SIGNATURE" => v.artifact \in outdated \/ run.proof # "own"
        /\ run.result = "LEDGER_CORRUPTED" =>
              broken \/ cut \/ times # "ordered" \/ faults > 0

\* The custody event of a verification and its ledger record tell the same
\* verdict, there is one event at most, and one that names a record is right
\* that the ledger has it (evidence.py:352-377, 529-606).
OutcomesAgree ==
    \A v \in Verifications : \A r, s \in Verdicts : \A b, c \in BOOLEAN :
        OutcomeEvent(v, r, b) \in outbox =>
            /\ b => Result(v, r) \in ledger
            /\ Result(v, s) \in ledger \cup inflight => r = s
            /\ OutcomeEvent(v, s, c) \in outbox => r = s /\ b = c

\* A verification has its temporary file for as long as it runs, whatever
\* other verifications of the artifact finish meanwhile; afterwards the file
\* is gone, unless the collector stopped (evidence.py:298-300, 389-395).
TempFileLifetime ==
    \A v \in Verifications :
        /\ Running(v) => v \in temp
        /\ v \in temp => Running(v) \/ verification[v].answer = "lost"

\* The event loop runs every handler on, and each call has its timeout.  The
\* ledger owes nothing.
FairSpec == Spec /\ \A a \in Artifacts : WF_vars(Upload(a))

\* Until something fails in the collector or its database, no upload stays
\* PENDING, however slow, unreachable or silent Hash & Sign and the ledger are
\* and whatever the other handlers do (evidence.py:92-177).
PendingIsDecided ==
    \A a \in Artifacts :
        row[a] = "PENDING" ~> row[a] \in {"INGESTED", "INGESTION_FAILED"} \/ faults > 0
================================================================================
