---------------------------- MODULE IngestionProofs ----------------------------
(***************************************************************************)
(* Theorems about the evidence collector, for any number of uploads,       *)
(* verifications, accesses, failures and crashes: types, what an ingested  *)
(* artifact, its event and the uploader's answer stand for, and what a     *)
(* verdict, its two records and its temporary file are worth.              *)
(***************************************************************************)
EXTENDS Ingestion, TLAPS

-----------------------------------------------------------------------------
(* Facts about the records the handlers write *)

\* The events and ledger records of one kind differ if what they are about
\* differs, and those of two kinds differ anyway.
LEMMA RecordsDiffer ==
    /\ \A a, b : Proof(a) = Proof(b) => a = b
    /\ \A v, w, r, s : Result(v, r) = Result(w, s) => v = w /\ r = s
    /\ \A a, v, r : Proof(a) # Result(v, r)
  BY DEF Proof, Result

LEMMA EventsDiffer ==
    /\ \A a, b : IngestedEvent(a) = IngestedEvent(b) => a = b
    /\ \A v, w, r, s, b, c :
          OutcomeEvent(v, r, b) = OutcomeEvent(w, s, c) => v = w /\ r = s /\ b = c
    /\ \A a, v : IngestedEvent(a) # RequestedEvent(v)
    /\ \A a, v, r, b : IngestedEvent(a) # OutcomeEvent(v, r, b)
    /\ \A v, w, r, b : RequestedEvent(v) # OutcomeEvent(w, r, b)
  BY DEF IngestedEvent, OutcomeEvent, RequestedEvent

LEMMA AccessEventsDiffer ==
    ASSUME NEW x \in Accesses
    PROVE  /\ \A a : IngestedEvent(a) # AccessEvent(x)
           /\ \A v, r, b : OutcomeEvent(v, r, b) # AccessEvent(x)
  BY IngestionParameters DEF IngestedEvent, OutcomeEvent, AccessEvent

-----------------------------------------------------------------------------
(* Types *)

\* Only a verification that has its verdict records one.
TypeInv ==
    /\ TypeOK
    /\ \A v \in Verifications :
          verification[v].at = "recording" => verification[v].result \in Verdicts

Failing == Fault \/ UNCHANGED faults

LEMMA FaultTyped ==
    ASSUME TypeInv, Failing
    PROVE  faults' \in 0..MaxFaults
<1>1. faults \in 0..MaxFaults /\ changes \in 0..MaxChanges
    BY DEF TypeInv, TypeOK, WorldTypeOK
<1>2. MaxFaults \in Nat /\ MaxChanges \in Nat
    BY IngestionParameters
<1> QED
    BY <1>1, <1>2 DEF Failing, Fault

LEMMA WorldStays ==
    ASSUME WorldTypeOK, UNCHANGED worldVars
    PROVE  WorldTypeOK'
  BY DEF WorldTypeOK, worldVars

\* The steps of an upload touch only what the upload writes.
LEMMA UploadTyped ==
    ASSUME TypeInv, NEW a \in Artifacts, Upload(a)
    PROVE  TypeInv'
<1>0. IngestedEvent(a) \in OutboxEvents /\ Proof(a) \in LedgerRecords
    BY DEF OutboxEvents, LedgerRecords
<1>a. UNCHANGED worldVars
    BY DEF Upload, StartUpload, WriteFails, SavePending, Signed, RejectUnsigned, Appended,
           RejectUnproved, Finalize, RejectUnfinished
<1>b. WorldTypeOK'
    BY <1>a, WorldStays DEF TypeInv, TypeOK
<1> USE <1>b DEF TypeInv, TypeOK, uploadVars, ledgerVars, verifyVars, Committed,
                 CommitRaises, Goto, Answer, SetStatus
<1>1. CASE StartUpload(a)
    BY <1>1 DEF StartUpload
<1>2. CASE WriteFails(a)
    BY <1>2 DEF WriteFails
<1>3. CASE SavePending(a)
    <2>1. Failing
        BY <1>3 DEF SavePending, Failing
    <2> QED
        BY <2>1, <1>3, FaultTyped DEF SavePending
<1>4. CASE Signed(a)
    BY <1>0, <1>4 DEF Signed
<1>5. CASE RejectUnsigned(a)
    <2>1. Failing
        BY <1>5 DEF RejectUnsigned, Failing
    <2> QED
        BY <2>1, <1>5, FaultTyped DEF RejectUnsigned
<1>6. CASE Appended(a)
    BY <1>6 DEF Appended
<1>7. CASE RejectUnproved(a)
    <2>1. Failing
        BY <1>7 DEF RejectUnproved, Failing
    <2> QED
        BY <2>1, <1>7, FaultTyped DEF RejectUnproved
<1>8. CASE Finalize(a)
    <2>1. Failing
        BY <1>8 DEF Finalize, Failing
    <2> QED
        BY <2>1, <1>0, <1>8, FaultTyped DEF Finalize, MarkIngested
<1>9. CASE RejectUnfinished(a)
    <2>1. Failing
        BY <1>9 DEF RejectUnfinished, Failing
    <2> QED
        BY <2>1, <1>9, FaultTyped DEF RejectUnfinished
<1> QED
    BY <1>1, <1>2, <1>3, <1>4, <1>5, <1>6, <1>7, <1>8, <1>9 DEF Upload

\* The state of the handler of a verification.
Handlers ==
    [at : {"new", "hashing", "fetching", "checking", "validating", "recording", "done"},
     whole_before : BOOLEAN, signed_before : BOOLEAN,
     proof : {"none", "own", "unsigned", "other"}, signature_valid : BOOLEAN,
     result : Verdicts \cup {"none"},
     answer : {"none", "200", "404", "500", "503", "lost"}]

LEMMA OutboxTyped ==
    ASSUME TypeInv, NEW e \in OutboxEvents, WriteOutbox(e)
    PROVE  outbox' \subseteq OutboxEvents /\ Failing
  BY DEF TypeInv, TypeOK, WriteOutbox, Committed, CommitRaises, Failing

LEMMA VerdictRecorded ==
    ASSUME NEW v \in Verifications, NEW r \in Verdicts
    PROVE  Result(v, r) \in LedgerRecords
  BY DEF LedgerRecords

LEMMA VerdictPublished ==
    ASSUME NEW v \in Verifications, NEW r \in Verdicts, NEW b \in BOOLEAN
    PROVE  OutcomeEvent(v, r, b) \in OutboxEvents
  BY DEF OutboxEvents

LEMMA VerifyTyped ==
    ASSUME TypeInv, NEW v \in Verifications, Verify(v)
    PROVE  TypeInv'
<1> DEFINE old == verification[v]
           To(new) == verification' = [verification EXCEPT ![v] = new]
<1>0. verification \in [Verifications -> Handlers] /\ old \in Handlers
    BY DEF TypeInv, TypeOK, Handlers
<1> SUFFICES /\ \E new \in Handlers :
                   To(new) /\ (new.at = "recording" => new.result \in Verdicts)
             /\ temp' \subseteq Verifications
             /\ outbox' \subseteq OutboxEvents
             /\ inflight' \subseteq LedgerRecords
             /\ Failing
             /\ UNCHANGED <<uploadVars, ledger, access, worldVars>>
    <2>1. PICK new \in Handlers :
             To(new) /\ (new.at = "recording" => new.result \in Verdicts)
        OBVIOUS
    <2>2. /\ verification' \in [Verifications -> Handlers]
          /\ \A w \in Verifications : verification'[w] = IF w = v THEN new ELSE verification[w]
        BY <1>0, <2>1
    <2>3. faults' \in 0..MaxFaults
        BY FaultTyped
    <2>4. \A w \in Verifications :
             verification'[w].at = "recording" => verification'[w].result \in Verdicts
        BY <2>1, <2>2 DEF TypeInv
    <2> HIDE DEF To, old
    <2>5. TypeOK'
        BY <2>2, <2>3, WorldStays DEF TypeInv, TypeOK, Handlers, uploadVars
    <2> QED
        BY <2>4, <2>5 DEF TypeInv
<1>a. /\ temp \subseteq Verifications /\ outbox \subseteq OutboxEvents
      /\ inflight \subseteq LedgerRecords /\ broken \in BOOLEAN
      /\ columns \in [Artifacts -> {"own", "unsigned", "other"}]
      /\ old.at = "recording" => old.result \in Verdicts
    BY DEF TypeInv, TypeOK, WorldTypeOK
<1> USE <1>a DEF ledgerVars, Failing
<1>1. CASE StartVerification(v)
    <2>1. RequestedEvent(v) \in OutboxEvents
        BY DEF OutboxEvents
    <2>2. outbox' \subseteq OutboxEvents /\ Failing
        BY <1>1, <2>1, OutboxTyped DEF StartVerification
    <2> DEFINE new == [old EXCEPT !.at = "hashing", !.whole_before = ~broken,
                                  !.signed_before = (v.artifact \notin outdated)]
    <2>3. To(new)
        BY <1>0, <1>1 DEF StartVerification
    <2>4. new \in Handlers
        BY <1>0 DEF Handlers
    <2>5. new.at = "hashing"
        BY <1>0 DEF Handlers
    <2> HIDE DEF To, old, new
    <2> QED
        BY <1>1, <2>2, <2>3, <2>4, <2>5 DEF StartVerification
<1>2. CASE Recomputed(v)
    <2> DEFINE new == [old EXCEPT !.at = "fetching"]
    <2>1. To(new) /\ new \in Handlers /\ new.at # "recording"
        BY <1>0, <1>2 DEF Recomputed, Handlers
    <2> HIDE DEF To, new
    <2> QED
        BY <1>2, <2>1 DEF Recomputed
<1>3. CASE FetchProof(v)
    <2> DEFINE new == [old EXCEPT !.at = "checking", !.proof = columns[v.artifact]]
    <2>0. columns[v.artifact] \in {"own", "unsigned", "other"}
        BY IngestionParameters
    <2>1. To(new) /\ new \in Handlers /\ new.at # "recording"
        BY <1>0, <1>3, <2>0 DEF FetchProof, Handlers
    <2> HIDE DEF To, new
    <2> QED
        BY <1>3, <2>1 DEF FetchProof
<1>4. CASE CheckSignature(v)
    <2>0. PICK valid \in BOOLEAN :
             verification' = [verification EXCEPT ![v].at = "validating",
                                                  ![v].signature_valid = valid]
        BY <1>4 DEF CheckSignature
    <2> DEFINE new == [old EXCEPT !.at = "validating", !.signature_valid = valid]
    <2>1. To(new) /\ new \in Handlers /\ new.at # "recording"
        BY <1>0, <2>0 DEF Handlers
    <2> HIDE DEF To, new
    <2> QED
        BY <1>4, <2>1 DEF CheckSignature
<1>5. CASE ValidateChain(v)
    <2>1. PICK valid, matches \in BOOLEAN :
             /\ Failing
             /\ LET result == verdict(valid, old.signature_valid, matches)
                IN  /\ verification' = [verification EXCEPT ![v].at = "recording",
                                                            ![v].result = result]
                    /\ inflight' = inflight \cup {Result(v, result)}
        BY <1>5 DEF ValidateChain, Failing
    <2> DEFINE result == verdict(valid, old.signature_valid, matches)
               new == [old EXCEPT !.at = "recording", !.result = result]
    <2>2. result \in Verdicts
        BY DEF verdict, Verdicts
    <2>3. inflight' \subseteq LedgerRecords
        <3>1. Result(v, result) \in LedgerRecords
            BY <2>2, VerdictRecorded
        <3> QED
            BY <2>1, <3>1
    <2>4. new \in Handlers /\ new.result \in Verdicts
        BY <1>0, <2>2 DEF Handlers
    <2>5. To(new)
        BY <1>0, <2>1
    <2> HIDE DEF To, new
    <2> QED
        BY <1>5, <2>1, <2>3, <2>4, <2>5 DEF ValidateChain
<1>6. CASE VerificationFails(v)
    <2>1. PICK code \in {"500", "503", "404"} :
             /\ verification' = [verification EXCEPT ![v].at = "done", ![v].answer = code]
             /\ Failing
        BY <1>6 DEF VerificationFails
    <2> DEFINE new == [old EXCEPT !.at = "done", !.answer = code]
    <2>2. To(new) /\ new \in Handlers /\ new.at # "recording"
        BY <1>0, <2>1 DEF Handlers
    <2> HIDE DEF To, new
    <2> QED
        BY <1>6, <2>1, <2>2 DEF VerificationFails, CleanUp
<1>7. CASE Conclude(v)
    <2> DEFINE new == [old EXCEPT !.at = "done", !.answer = "200"]
    <2>1. old.result \in Verdicts
        BY <1>7 DEF Conclude
    <2>2. PICK recorded \in BOOLEAN : WriteOutbox(OutcomeEvent(v, old.result, recorded))
        BY <1>7 DEF Conclude
    <2>3. OutcomeEvent(v, old.result, recorded) \in OutboxEvents
        BY <2>1, VerdictPublished
    <2>4. outbox' \subseteq OutboxEvents /\ Failing
        BY <2>2, <2>3, OutboxTyped
    <2>5. To(new) /\ new \in Handlers /\ new.at = "done"
        BY <1>0, <1>7 DEF Conclude, Handlers
    <2> HIDE DEF To, new, old
    <2> QED
        BY <1>7, <2>4, <2>5 DEF Conclude, CleanUp
<1> QED
    BY <1>1, <1>2, <1>3, <1>4, <1>5, <1>6, <1>7 DEF Verify

LEMMA AccessTyped ==
    ASSUME TypeInv, NEW x \in Accesses, Access(x)
    PROVE  TypeInv'
<1>1. AccessEvent(x) \in OutboxEvents
    BY DEF OutboxEvents
<1>a. outbox \subseteq OutboxEvents /\ access \in [Accesses -> {"none", "200", "404", "500"}]
    BY DEF TypeInv, TypeOK
<1>b. WriteOutbox(AccessEvent(x)) => outbox' \subseteq OutboxEvents /\ Failing
    BY <1>1, OutboxTyped
<1>2. outbox' \subseteq OutboxEvents /\ Failing
    BY <1>1, <1>a, <1>b DEF Access, Failing
<1>3. access' \in [Accesses -> {"none", "200", "404", "500"}]
    BY <1>a DEF Access
<1> QED
    BY <1>2, <1>3, FaultTyped
       DEF Access, TypeInv, TypeOK, WorldTypeOK, uploadVars, ledgerVars, verifyVars, worldVars

LEMMA CrashTyped ==
    ASSUME TypeInv, Crash
    PROVE  TypeInv'
<1>1. Failing
    BY DEF Crash, Failing
<1>2. verification \in [Verifications -> Handlers]
    BY DEF TypeInv, TypeOK, Handlers
<1>3. verification' \in [Verifications -> Handlers]
    <2>1. ASSUME NEW v \in Verifications
          PROVE  [verification[v] EXCEPT !.at = "done", !.answer = "lost"] \in Handlers
        BY <1>2 DEF Handlers
    <2> QED
        BY <1>2, <2>1 DEF Crash
<1>4. \A v \in Verifications :
         verification'[v].at = "recording" => verification'[v].result \in Verdicts
    BY <1>2 DEF Crash, Handlers, TypeInv, Running
<1> QED
    BY <1>1, <1>3, <1>4, FaultTyped
       DEF Crash, TypeInv, TypeOK, WorldTypeOK, Handlers, ledgerVars, worldVars

\* What happens to the ledger's rows, its clock and the keys.
LEMMA GrowthTyped ==
    ASSUME WorldTypeOK, ChainGrows
    PROVE  WorldTypeOK'
  BY DEF ChainGrows, WorldTypeOK

LEMMA WorldTyped ==
    ASSUME TypeInv, World
    PROVE  TypeInv'
<1>1. WorldTypeOK /\ MaxChanges \in Nat
    BY IngestionParameters DEF TypeInv, TypeOK
<1>2. WorldTypeOK'
    <2>1. CASE OthersAppend
        BY <1>1, <2>1, GrowthTyped DEF OthersAppend
    <2>2. ASSUME Change PROVE changes' \in 0..MaxChanges
        BY <1>1, <2>2 DEF Change, WorldTypeOK
    <2>3. CASE DamageLedger
        BY <1>1, <2>2, <2>3 DEF DamageLedger, WorldTypeOK
    <2>4. CASE LoseNewest
        BY <1>1, <2>2, <2>4 DEF LoseNewest, WorldTypeOK
    <2>5. CASE DisturbTimes
        BY <1>1, <2>2, <2>5 DEF DisturbTimes, WorldTypeOK
    <2>6. ASSUME NEW a \in Artifacts, ChangeColumns(a) PROVE WorldTypeOK'
        BY <1>1, <2>2, <2>6 DEF ChangeColumns, WorldTypeOK
    <2>7. CASE ReplaceKeys
        BY <1>1, <2>2, <2>7 DEF ReplaceKeys, WorldTypeOK
    <2> QED
        BY <2>1, <2>3, <2>4, <2>5, <2>6, <2>7 DEF World
<1>3. UNCHANGED <<uploadVars, outbox, ledgerVars, verifyVars, access, faults>>
    BY DEF World, OthersAppend, DamageLedger, LoseNewest, DisturbTimes, ChangeColumns, ReplaceKeys
<1> QED
    BY <1>2, <1>3 DEF TypeInv, TypeOK, uploadVars, ledgerVars, verifyVars

LEMMA TypeInvariant == Spec => []TypeInv
<1>1. Init => TypeInv
    <2>0. 0 \in 0..MaxChanges /\ 0 \in 0..MaxFaults
        BY IngestionParameters
    <2>1. Init => WorldTypeOK
        BY <2>0 DEF Init, WorldTypeOK
    <2> QED
        BY <2>0, <2>1 DEF Init, TypeInv, TypeOK, NotStarted, Verdicts
<1>2. TypeInv /\ [Next]_vars => TypeInv'
    <2> SUFFICES ASSUME TypeInv, [Next]_vars PROVE TypeInv'
        OBVIOUS
    <2> USE DEF uploadVars, ledgerVars, verifyVars, worldVars
    <2>1. ASSUME NEW a \in Artifacts, Upload(a) PROVE TypeInv'
        BY <2>1, UploadTyped
    <2>2. ASSUME NEW v \in Verifications, Verify(v) PROVE TypeInv'
        BY <2>2, VerifyTyped
    <2>3. ASSUME NEW x \in Accesses, Access(x) PROVE TypeInv'
        BY <2>3, AccessTyped
    <2>4. ASSUME NEW q \in inflight, LedgerCommits(q) \/ LedgerDrops(q) PROVE TypeInv'
        BY <2>4, GrowthTyped, WorldStays DEF LedgerCommits, LedgerDrops, TypeInv, TypeOK
    <2>5. CASE Crash
        BY <2>5, CrashTyped
    <2>6. CASE World
        BY <2>6, WorldTyped
    <2>7. CASE UNCHANGED vars
        BY <2>7, WorldStays DEF vars, TypeInv, TypeOK
    <2> QED
        BY <2>1, <2>2, <2>3, <2>4, <2>5, <2>6, <2>7 DEF Next, Settle
<1> QED
    BY <1>1, <1>2, PTL DEF Spec

\* The tables, the volume and the handlers hold what they can hold, for any
\* uploads, verifications, accesses and number of failures
\* (evidence.py:64-611, db/models.py:8-50).
THEOREM CollectorTypeCorrect == Spec => []TypeOK
<1>1. TypeInv => TypeOK
    BY DEF TypeInv
<1> QED
    BY <1>1, TypeInvariant, PTL

-----------------------------------------------------------------------------
(* Uploads *)

\* What the collector, the volume and the ledger hold of an artifact, by the
\* place its upload has reached; the last four conjuncts hold also when the
\* handler is done, whatever ended it.
UploadInv(a) ==
    /\ upload[a] \in {"writing", "signing", "appending", "finalizing", "unfinished"} =>
          a \in storage
    /\ upload[a] \in {"new", "writing"} => row[a] = "none"
    /\ upload[a] \in {"signing", "appending", "finalizing"} => row[a] = "PENDING"
    /\ upload[a] \in {"new", "writing", "signing"} => Proof(a) \notin ledger \cup inflight
    /\ upload[a] \in {"finalizing", "unfinished"} => Proof(a) \in ledger
    /\ upload[a] \notin {"unfinished", "done"} => IngestedEvent(a) \notin outbox
    /\ upload[a] # "done" => response[a] = "none"
    /\ row[a] = "INGESTED" => a \in integrity /\ IngestedEvent(a) \in outbox
    /\ IngestedEvent(a) \in outbox => a \in storage /\ Proof(a) \in ledger
    /\ response[a] = "201" => row[a] = "INGESTED"
    /\ response[a] \in {"503 unsigned", "503 unproved"} =>
          row[a] = "INGESTION_FAILED" /\ IngestedEvent(a) \notin outbox
    /\ response[a] = "503 unsigned" =>
          a \notin storage /\ Proof(a) \notin ledger \cup inflight

\* A step that is none of an upload's own: the ledger may settle its proof.
Untouched(a) ==
    /\ upload'[a] = upload[a] /\ response'[a] = response[a] /\ row'[a] = row[a]
    /\ a \in integrity' <=> a \in integrity
    /\ a \in storage' <=> a \in storage
    /\ IngestedEvent(a) \in outbox' <=> IngestedEvent(a) \in outbox
    /\ Proof(a) \in ledger => Proof(a) \in ledger'
    /\ Proof(a) \in ledger' \cup inflight' => Proof(a) \in ledger \cup inflight

LEMMA UntouchedKeeps ==
    ASSUME NEW a, UploadInv(a), Untouched(a)
    PROVE  UploadInv(a)'
  BY DEF UploadInv, Untouched

\* A step of one upload.
LEMMA UploadSteps ==
    ASSUME TypeInv, NEW a \in Artifacts, Upload(a), UploadInv(a)
    PROVE  /\ UploadInv(a)'
           /\ \A b \in Artifacts \ {a} : Untouched(b)
<1>0. /\ upload = [b \in Artifacts |-> upload[b]]
      /\ response = [b \in Artifacts |-> response[b]]
      /\ row = [b \in Artifacts |-> row[b]]
    BY DEF TypeInv, TypeOK
<1>1. \A b : IngestedEvent(a) = IngestedEvent(b) \/ Proof(a) = Proof(b) => a = b
    BY RecordsDiffer, EventsDiffer
<1> USE <1>0, <1>1 DEF UploadInv, Untouched, uploadVars, ledgerVars, Committed, CommitRaises,
            Goto, Answer, SetStatus
<1>2. CASE StartUpload(a)
    BY <1>2 DEF StartUpload
<1>3. CASE WriteFails(a)
    BY <1>3 DEF WriteFails
<1>4. CASE SavePending(a)
    BY <1>4 DEF SavePending
<1>5. CASE Signed(a)
    BY <1>5 DEF Signed
<1>6. CASE RejectUnsigned(a)
    BY <1>6 DEF RejectUnsigned
<1>7. CASE Appended(a)
    BY <1>7 DEF Appended
<1>8. CASE RejectUnproved(a)
    BY <1>8 DEF RejectUnproved
<1>9. CASE Finalize(a)
    BY <1>9 DEF Finalize, MarkIngested
<1>10. CASE RejectUnfinished(a)
    BY <1>10 DEF RejectUnfinished
<1> QED
    BY <1>2, <1>3, <1>4, <1>5, <1>6, <1>7, <1>8, <1>9, <1>10 DEF Upload

\* The other handlers write events and ledger records of other kinds.
LEMMA OthersDoNotTouch ==
    ASSUME NEW a \in Artifacts,
           \/ \E v \in Verifications : Verify(v)
           \/ \E x \in Accesses : Access(x)
           \/ Settle \/ World \/ UNCHANGED vars
    PROVE  Untouched(a)
<1> USE DEF uploadVars, ledgerVars, verifyVars
<1>1. ASSUME NEW v \in Verifications, Verify(v) PROVE Untouched(a)
    <2>1. UNCHANGED <<uploadVars, ledger>>
        BY <1>1 DEF Verify, StartVerification, Recomputed, FetchProof, CheckSignature,
                    ValidateChain, VerificationFails, Conclude
    <2>2. inflight' = inflight \/ \E r : inflight' = inflight \cup {Result(v, r)}
        BY <1>1 DEF Verify, StartVerification, Recomputed, FetchProof, CheckSignature,
                    ValidateChain, VerificationFails, Conclude
    <2>3. \/ outbox' = outbox \/ outbox' = outbox \cup {RequestedEvent(v)}
          \/ \E r, b : outbox' = outbox \cup {OutcomeEvent(v, r, b)}
        BY <1>1 DEF Verify, StartVerification, Recomputed, FetchProof, CheckSignature,
                    ValidateChain, VerificationFails, Conclude,
                    WriteOutbox, Committed, CommitRaises
    <2> QED
        BY <2>1, <2>2, <2>3, RecordsDiffer, EventsDiffer DEF Untouched
<1>2. ASSUME NEW x \in Accesses, Access(x) PROVE Untouched(a)
    <2>1. outbox' = outbox \/ outbox' = outbox \cup {AccessEvent(x)}
        BY <1>2 DEF Access, WriteOutbox, Committed, CommitRaises
    <2> QED
        BY <1>2, <2>1, AccessEventsDiffer DEF Access, Untouched
<1>3. CASE Settle
    BY <1>3 DEF Settle, LedgerCommits, LedgerDrops, Untouched
<1>4. CASE World \/ UNCHANGED vars
    <2>1. UNCHANGED <<uploadVars, outbox, ledgerVars>>
        BY <1>4 DEF World, OthersAppend, DamageLedger, LoseNewest, DisturbTimes,
                    ChangeColumns, ReplaceKeys, vars
    <2> QED
        BY <2>1 DEF Untouched
<1> QED
    BY <1>1, <1>2, <1>3, <1>4

LEMMA UploadInvariant == Spec => [](\A a \in Artifacts : UploadInv(a))
<1> DEFINE Inv == \A a \in Artifacts : UploadInv(a)
<1>1. Init => Inv
    BY DEF Init, UploadInv
<1>2. TypeInv /\ Inv /\ [Next]_vars => Inv'
    <2> SUFFICES ASSUME TypeInv, Inv, [Next]_vars, NEW b \in Artifacts
                 PROVE  UploadInv(b)'
        OBVIOUS
    <2>1. ASSUME NEW a \in Artifacts, Upload(a) PROVE UploadInv(b)'
        BY <2>1, UploadSteps, UntouchedKeeps
    <2>2. CASE Crash
        BY <2>2 DEF Crash, UploadInv, ledgerVars, TypeInv, TypeOK
    <2>3. CASE \/ \E v \in Verifications : Verify(v)
               \/ \E x \in Accesses : Access(x)
               \/ Settle \/ World \/ UNCHANGED vars
        BY <2>3, OthersDoNotTouch, UntouchedKeeps
    <2> QED
        BY <2>1, <2>2, <2>3 DEF Next
<1> QED
    BY <1>1, <1>2, TypeInvariant, PTL DEF Spec

\* Evidence that counts as INGESTED is complete, for any number of concurrent
\* uploads, late answers, failures and crashes (evidence.py:100-169).
THEOREM IngestedEvidenceIsComplete == Spec => []IngestedIsComplete
<1>1. (\A a \in Artifacts : UploadInv(a)) => IngestedIsComplete
    BY DEF UploadInv, IngestedIsComplete
<1> QED
    BY <1>1, UploadInvariant, PTL

\* An EvidenceIngested event always has its file and its proof behind it, also
\* when the status of the artifact says otherwise (evidence.py:122-174).
THEOREM AnnouncedEvidenceExists == Spec => []IngestedEventIsBacked
<1>1. (\A a \in Artifacts : UploadInv(a)) => IngestedEventIsBacked
    BY DEF UploadInv, IngestedEventIsBacked
<1> QED
    BY <1>1, UploadInvariant, PTL

\* No later step of this or another handler makes a liar of what an uploader
\* was told (evidence.py:108-125).
THEOREM AnswersStayTrue == Spec => []AnswerIsTruthful
<1>1. (\A a \in Artifacts : UploadInv(a)) => AnswerIsTruthful
    BY DEF UploadInv, AnswerIsTruthful
<1> QED
    BY <1>1, UploadInvariant, PTL

-----------------------------------------------------------------------------
(* Verifications *)

\* The temporary file is there while the verification runs.
TempInv(v) ==
    /\ Running(v) => v \in temp
    /\ v \in temp => Running(v) \/ verification[v].answer = "lost"

\* A chain that does not fit together is not mended but by the loss of its
\* newest rows, and nobody brings old keys back: what holds when the chain is
\* validated held when the verification began.
VerdictInv(v) ==
    LET run == verification[v] IN
    /\ run.at \in {"new", "hashing", "fetching", "checking", "validating"} =>
          run.result = "none"
    /\ run.at # "new" => broken \/ cut \/ run.whole_before
    /\ run.at \in {"checking", "validating"} => run.proof # "none"
    /\ run.at # "new" => run.signed_before \/ v.artifact \in outdated
    /\ run.at = "validating" /\ run.signature_valid =>
          run.proof = "other" \/ (run.proof = "own" /\ run.signed_before)
    /\ run.at = "validating" /\ ~run.signature_valid =>
          run.proof # "own" \/ v.artifact \in outdated
    /\ run.result = "VALID" =>
          /\ run.whole_before \/ cut
          /\ (v.same /\ run.signed_before) \/ run.proof = "other"
    /\ run.result = "TAMPERED" => ~v.same \/ run.proof = "other"
    /\ run.result = "INVALID_SIGNATURE" => v.artifact \in outdated \/ run.proof # "own"
    /\ run.result = "LEDGER_CORRUPTED" =>
          broken \/ cut \/ times # "ordered" \/ faults > 0

\* There is one verdict, whatever record or event of it is found.
OutcomeInv(v) ==
    LET run == verification[v] IN
    /\ \A r : Result(v, r) \in ledger \cup inflight =>
                run.at \in {"recording", "done"} /\ r = run.result
    /\ \A r, b : OutcomeEvent(v, r, b) \in outbox =>
                run.at = "done" /\ r = run.result /\ (b => Result(v, r) \in ledger)
    /\ \A r, b, c : OutcomeEvent(v, r, b) \in outbox /\ OutcomeEvent(v, r, c) \in outbox => b = c

VerifyInv(v) == TempInv(v) /\ VerdictInv(v) /\ OutcomeInv(v)

\* What has happened to rows, clock and keys does not unhappen.
WorldGoesOn ==
    /\ cut => cut'
    /\ broken => broken' \/ cut'
    /\ times # "ordered" => times' # "ordered"
    /\ outdated \subseteq outdated'

\* A step that is none of a verification's own.
Unconcerned(v) ==
    /\ verification'[v] = verification[v]
    /\ v \in temp' <=> v \in temp
    /\ WorldGoesOn
    /\ faults > 0 => faults' > 0
    /\ \A r, b : OutcomeEvent(v, r, b) \in outbox' <=> OutcomeEvent(v, r, b) \in outbox
    /\ \A r : /\ Result(v, r) \in ledger => Result(v, r) \in ledger'
              /\ Result(v, r) \in ledger' \cup inflight' => Result(v, r) \in ledger \cup inflight

LEMMA UnconcernedKeeps ==
    ASSUME NEW v, VerifyInv(v), Unconcerned(v)
    PROVE  VerifyInv(v)'
<1>1. TempInv(v)'
    BY DEF VerifyInv, Unconcerned, TempInv, Running
<1>2. VerdictInv(v)'
    BY DEF VerifyInv, Unconcerned, WorldGoesOn, VerdictInv
<1>3. OutcomeInv(v)'
    BY DEF VerifyInv, Unconcerned, OutcomeInv
<1> QED
    BY <1>1, <1>2, <1>3 DEF VerifyInv

\* What a failure counts for: the number of failures never falls back to zero.
LEMMA FaultsStay ==
    ASSUME TypeInv, Failing
    PROVE  faults > 0 => faults' > 0
<1>1. faults \in 0..MaxFaults
    BY DEF TypeInv, TypeOK
<1> QED
    BY <1>1 DEF Failing, Fault

LEMMA OthersUnconcerned ==
    ASSUME TypeInv, NEW v \in Verifications,
           \/ \E a \in Artifacts : Upload(a)
           \/ \E w \in Verifications \ {v} : Verify(w)
           \/ \E x \in Accesses : Access(x)
           \/ Settle \/ World \/ UNCHANGED vars
    PROVE  Unconcerned(v)
<1> USE DEF verifyVars, ledgerVars, worldVars
<1>1. ASSUME NEW a \in Artifacts, Upload(a) PROVE Unconcerned(v)
    <2>1. UNCHANGED <<verification, temp, ledger, worldVars>>
        BY <1>1 DEF Upload, StartUpload, WriteFails, SavePending, Signed, RejectUnsigned,
                    Appended, RejectUnproved, Finalize, RejectUnfinished
    <2>2. inflight' = inflight \/ inflight' = inflight \cup {Proof(a)}
        BY <1>1 DEF Upload, StartUpload, WriteFails, SavePending, Signed, RejectUnsigned,
                    Appended, RejectUnproved, Finalize, RejectUnfinished
    <2>3. outbox' = outbox \/ outbox' = outbox \cup {IngestedEvent(a)}
        BY <1>1 DEF Upload, StartUpload, WriteFails, SavePending, Signed, RejectUnsigned,
                    Appended, RejectUnproved, Finalize, RejectUnfinished,
                    Committed, CommitRaises, MarkIngested
    <2>4. Failing
        BY <1>1 DEF Upload, StartUpload, WriteFails, SavePending, Signed, RejectUnsigned,
                    Appended, RejectUnproved, Finalize, RejectUnfinished,
                    Committed, CommitRaises, Failing
    <2> QED
        BY <2>1, <2>2, <2>3, <2>4, FaultsStay, RecordsDiffer, EventsDiffer DEF Unconcerned, WorldGoesOn
<1>2. ASSUME NEW w \in Verifications \ {v}, Verify(w) PROVE Unconcerned(v)
    <2>1. verification'[v] = verification[v]
        BY <1>2 DEF Verify, StartVerification, Recomputed, FetchProof, CheckSignature,
                    ValidateChain, VerificationFails, Conclude, TypeInv, TypeOK
    <2>2. v \in temp' <=> v \in temp
        BY <1>2 DEF Verify, StartVerification, Recomputed, FetchProof, CheckSignature,
                    ValidateChain, VerificationFails, Conclude, CleanUp
    <2>3. inflight' = inflight \/ \E r : inflight' = inflight \cup {Result(w, r)}
        BY <1>2 DEF Verify, StartVerification, Recomputed, FetchProof, CheckSignature,
                    ValidateChain, VerificationFails, Conclude
    <2>4. \/ outbox' = outbox \/ outbox' = outbox \cup {RequestedEvent(w)}
          \/ \E r, b : outbox' = outbox \cup {OutcomeEvent(w, r, b)}
        BY <1>2 DEF Verify, StartVerification, Recomputed, FetchProof, CheckSignature,
                    ValidateChain, VerificationFails, Conclude,
                    WriteOutbox, Committed, CommitRaises
    <2>5. UNCHANGED <<ledger, worldVars>> /\ Failing
        BY <1>2 DEF Verify, StartVerification, Recomputed, FetchProof, CheckSignature,
                    ValidateChain, VerificationFails, Conclude,
                    WriteOutbox, Committed, CommitRaises, Failing
    <2> QED
        BY <2>1, <2>2, <2>3, <2>4, <2>5, FaultsStay, RecordsDiffer, EventsDiffer DEF Unconcerned, WorldGoesOn
<1>3. ASSUME NEW x \in Accesses, Access(x) PROVE Unconcerned(v)
    <2>1. (outbox' = outbox \/ outbox' = outbox \cup {AccessEvent(x)}) /\ Failing
        BY <1>3 DEF Access, WriteOutbox, Committed, CommitRaises, Failing
    <2> QED
        BY <1>3, <2>1, FaultsStay, AccessEventsDiffer DEF Access, Unconcerned, WorldGoesOn
<1>4. CASE Settle
    <2>1. ChainGrows \/ UNCHANGED worldVars
        BY <1>4 DEF Settle, LedgerCommits, LedgerDrops
    <2>2. WorldGoesOn
        <3>1. CASE ChainGrows
            BY <3>1 DEF ChainGrows, WorldGoesOn
        <3>2. CASE UNCHANGED worldVars
            BY <3>2 DEF WorldGoesOn
        <3> QED
            BY <2>1, <3>1, <3>2
    <2> QED
        BY <1>4, <2>2 DEF Settle, LedgerCommits, LedgerDrops, Unconcerned
<1>5. CASE World \/ UNCHANGED vars
    <2>1. UNCHANGED <<outbox, ledgerVars, verifyVars, faults>>
        BY <1>5 DEF World, OthersAppend, DamageLedger, LoseNewest, DisturbTimes,
                    ChangeColumns, ReplaceKeys, vars
    <2>2. WorldGoesOn
        <3>1. CASE OthersAppend
            BY <3>1 DEF OthersAppend, ChainGrows, WorldGoesOn
        <3>2. CASE DamageLedger
            BY <3>2 DEF DamageLedger, WorldGoesOn
        <3>3. CASE LoseNewest
            BY <3>3 DEF LoseNewest, WorldGoesOn
        <3>4. CASE DisturbTimes
            BY <3>4 DEF DisturbTimes, WorldGoesOn
        <3>5. CASE (\E a \in Artifacts : ChangeColumns(a)) \/ ReplaceKeys \/ UNCHANGED vars
            BY <3>5 DEF ChangeColumns, ReplaceKeys, vars, WorldGoesOn
        <3> QED
            BY <1>5, <3>1, <3>2, <3>3, <3>4, <3>5 DEF World
    <2> QED
        BY <2>1, <2>2 DEF Unconcerned
<1> QED
    BY <1>1, <1>2, <1>3, <1>4, <1>5

\* A step of the verification itself; old and new are its handler's state.
LEMMA VerifySteps ==
    ASSUME TypeInv, NEW v \in Verifications, Verify(v), VerifyInv(v)
    PROVE  VerifyInv(v)'
<1> DEFINE old == verification[v]
           new == verification'[v]
<1>0. verification = [w \in Verifications |-> verification[w]] /\ old \in Handlers
    BY DEF TypeInv, TypeOK, Handlers
<1>1. TempInv(v)'
    <2> USE <1>0 DEF Handlers, VerifyInv, TempInv, Running
    <2>1. CASE StartVerification(v)
        BY <2>1 DEF StartVerification
    <2>2. CASE Recomputed(v) \/ FetchProof(v)
        BY <2>2 DEF Recomputed, FetchProof
    <2>3. CASE CheckSignature(v)
        <3>1. PICK valid \in BOOLEAN :
                 new = [old EXCEPT !.at = "validating", !.signature_valid = valid]
            BY <2>3 DEF CheckSignature
        <3>2. new.at = "validating" /\ old.at = "checking" /\ temp' = temp
            BY <2>3, <3>1 DEF CheckSignature
        <3> HIDE DEF old, new
        <3> QED
            BY <3>2 DEF old, new
    <2>4. CASE ValidateChain(v)
        BY <2>4 DEF ValidateChain
    <2>5. CASE VerificationFails(v)
        BY <2>5 DEF VerificationFails, CleanUp
    <2>6. CASE Conclude(v)
        BY <2>6 DEF Conclude, CleanUp
    <2> QED
        BY <2>1, <2>2, <2>3, <2>4, <2>5, <2>6 DEF Verify
<1>2. VerdictInv(v)'
    <2> USE <1>0 DEF Handlers, VerifyInv, VerdictInv, worldVars
    <2>1. CASE StartVerification(v)
        <3>1. Failing
            BY <2>1 DEF StartVerification, WriteOutbox, Committed, CommitRaises, Failing
        <3> QED
            BY <2>1, <3>1, FaultsStay DEF StartVerification
    <2>2. CASE Recomputed(v)
        BY <2>2 DEF Recomputed
    <2>3. CASE FetchProof(v)
        <3>1. columns[v.artifact] \in {"own", "unsigned", "other"}
            BY IngestionParameters DEF TypeInv, TypeOK, WorldTypeOK
        <3> QED
            BY <2>3, <3>1 DEF FetchProof
    <2>4. CASE CheckSignature(v)
        <3>1. PICK valid \in BOOLEAN :
                 /\ old.proof = "own" => (valid <=> v.artifact \notin outdated)
                 /\ old.proof = "unsigned" => ~valid
                 /\ new = [old EXCEPT !.at = "validating", !.signature_valid = valid]
            BY <2>4 DEF CheckSignature
        <3>2. /\ new.at = "validating" /\ old.at = "checking"
              /\ new.signature_valid = valid /\ old.proof \in {"own", "unsigned", "other"}
              /\ new.proof = old.proof /\ new.result = old.result
              /\ new.whole_before = old.whole_before /\ new.signed_before = old.signed_before
            BY <2>4, <3>1 DEF CheckSignature
        <3>3. UNCHANGED <<worldVars, faults>>
            BY <2>4 DEF CheckSignature
        <3> HIDE DEF old, new
        <3> QED
            BY <3>1, <3>2, <3>3 DEF old, new
    <2>5. CASE ValidateChain(v)
        <3>1. PICK valid, matches \in BOOLEAN :
                 /\ valid = chainValid \/ (valid = FALSE /\ Fault)
                 /\ IF old.proof = "own" THEN matches = v.same ELSE v.same => ~matches
                 /\ new = [old EXCEPT !.at = "recording",
                                       !.result = verdict(valid, old.signature_valid, matches)]
            BY <2>5 DEF ValidateChain
        <3>2. UNCHANGED worldVars /\ Failing
            BY <2>5 DEF ValidateChain, Failing
        <3>3. Fault => faults' > 0
            <4>1. faults \in 0..MaxFaults
                BY DEF TypeInv, TypeOK
            <4> QED
                BY <4>1 DEF Fault
        <3>4. /\ new.at = "recording" /\ old.at = "validating"
              /\ new.proof = old.proof /\ old.proof \in {"own", "unsigned", "other"}
              /\ new.whole_before = old.whole_before /\ new.signed_before = old.signed_before
              /\ new.result = verdict(valid, old.signature_valid, matches)
            BY <2>5, <3>1 DEF ValidateChain
        <3>5. v.same \in BOOLEAN
            BY IngestionParameters
        <3> HIDE DEF old, new
        <3> QED
            BY <3>1, <3>2, <3>3, <3>4, <3>5, FaultsStay DEF verdict, chainValid, old, new
    <2>6. CASE VerificationFails(v)
        <3>1. Failing
            BY <2>6 DEF VerificationFails, Failing
        <3> QED
            BY <2>6, <3>1, FaultsStay DEF VerificationFails
    <2>7. CASE Conclude(v)
        <3>1. Failing
            BY <2>7 DEF Conclude, WriteOutbox, Committed, CommitRaises, Failing
        <3> QED
            BY <2>7, <3>1, FaultsStay DEF Conclude
    <2> QED
        BY <2>1, <2>2, <2>3, <2>4, <2>5, <2>6, <2>7 DEF Verify
<1>3. OutcomeInv(v)'
    <2> USE <1>0 DEF Handlers, VerifyInv, OutcomeInv, ledgerVars
    <2>1. CASE StartVerification(v)
        <3>1. outbox' = outbox \/ outbox' = outbox \cup {RequestedEvent(v)}
            BY <2>1 DEF StartVerification, WriteOutbox, Committed, CommitRaises
        <3> QED
            BY <2>1, <3>1, EventsDiffer DEF StartVerification
    <2>2. CASE Recomputed(v) \/ FetchProof(v) \/ CheckSignature(v)
        BY <2>2 DEF Recomputed, FetchProof, CheckSignature
    <2>3. CASE ValidateChain(v)
        <3>1. PICK result : /\ new = [old EXCEPT !.at = "recording", !.result = result]
                            /\ inflight' = inflight \cup {Result(v, result)}
            BY <2>3 DEF ValidateChain
        <3>2. /\ new.at = "recording" /\ new.result = result
              /\ old.at = "validating" /\ UNCHANGED <<ledger, outbox>>
            BY <2>3, <3>1 DEF ValidateChain
        <3> HIDE DEF old, new
        <3> QED
            BY <3>1, <3>2, RecordsDiffer DEF old, new
    <2>4. CASE VerificationFails(v)
        BY <2>4 DEF VerificationFails
    <2>5. CASE Conclude(v)
        <3>1. PICK recorded \in BOOLEAN :
                 /\ recorded => Result(v, old.result) \in ledger
                 /\ outbox' \in {outbox, outbox \cup {OutcomeEvent(v, old.result, recorded)}}
            BY <2>5 DEF Conclude, WriteOutbox, Committed, CommitRaises
        <3> QED
            BY <2>5, <3>1, EventsDiffer DEF Conclude
    <2> QED
        BY <2>1, <2>2, <2>3, <2>4, <2>5 DEF Verify
<1> QED
    BY <1>1, <1>2, <1>3 DEF VerifyInv

\* The handlers are gone, their temporary files are left behind.
LEMMA CrashedVerification ==
    ASSUME TypeInv, NEW v \in Verifications, Crash, VerifyInv(v)
    PROVE  VerifyInv(v)'
<1>0. verification[v] \in Handlers
    BY DEF TypeInv, TypeOK, Handlers
<1>1. TempInv(v)'
    BY <1>0 DEF Crash, VerifyInv, TempInv, Running, Handlers
<1>2. VerdictInv(v)'
    <2>1. Failing
        BY DEF Crash, Failing
    <2> DEFINE old == verification[v]
               new == verification'[v]
    <2>2. \/ new = old
          \/ new = [old EXCEPT !.at = "done", !.answer = "lost"] /\ old.at # "new"
        BY <1>0 DEF Crash, Running
    <2>3. /\ new.at = old.at \/ (new.at = "done" /\ old.at # "new")
          /\ new.result = old.result /\ new.proof = old.proof
          /\ new.whole_before = old.whole_before /\ new.signed_before = old.signed_before
          /\ new.signature_valid = old.signature_valid
        BY <1>0, <2>2 DEF Handlers
    <2>4. VerdictInv(v) /\ UNCHANGED worldVars
        BY DEF VerifyInv, Crash
    <2> HIDE DEF old, new
    <2> QED
        BY <2>1, <2>3, <2>4, FaultsStay DEF VerdictInv, worldVars, old, new
<1>3. OutcomeInv(v)'
    BY <1>0 DEF Crash, VerifyInv, OutcomeInv, Running, Handlers, ledgerVars
<1> QED
    BY <1>1, <1>2, <1>3 DEF VerifyInv

LEMMA VerifyInvariant == Spec => [](\A v \in Verifications : VerifyInv(v))
<1> DEFINE Inv == \A v \in Verifications : VerifyInv(v)
<1>1. Init => Inv
    BY DEF Init, VerifyInv, TempInv, VerdictInv, OutcomeInv, NotStarted, Running
<1>2. TypeInv /\ Inv /\ [Next]_vars => Inv'
    <2> SUFFICES ASSUME TypeInv, Inv, [Next]_vars, NEW v \in Verifications
                 PROVE  VerifyInv(v)'
        OBVIOUS
    <2>1. CASE Verify(v)
        BY <2>1, VerifySteps
    <2>2. CASE Crash
        BY <2>2, CrashedVerification
    <2>3. CASE \/ \E a \in Artifacts : Upload(a)
               \/ \E w \in Verifications \ {v} : Verify(w)
               \/ \E x \in Accesses : Access(x)
               \/ Settle \/ World \/ UNCHANGED vars
        BY <2>3, OthersUnconcerned, UnconcernedKeeps
    <2> QED
        BY <2>1, <2>2, <2>3 DEF Next
<1> QED
    BY <1>1, <1>2, TypeInvariant, PTL DEF Spec

\* VerdictIsSound in every behaviour: what a verdict is worth, however the
\* verification is interleaved with others, with appends, and with changes of
\* rows, clock, columns and keys (evidence.py:324-350, servicer.py:131-222).
THEOREM VerdictsAreSound == Spec => []VerdictIsSound
<1>1. (\A v \in Verifications : VerifyInv(v)) => VerdictIsSound
    BY DEF VerifyInv, VerdictInv, VerdictIsSound
<1> QED
    BY <1>1, VerifyInvariant, PTL

\* Ledger and custody timeline never tell two outcomes of one verification
\* (evidence.py:352-377, 529-606).
THEOREM OneOutcome == Spec => []OutcomesAgree
<1>1. (\A v \in Verifications : VerifyInv(v)) => OutcomesAgree
    BY DEF VerifyInv, OutcomeInv, OutcomesAgree
<1> QED
    BY <1>1, VerifyInvariant, PTL

\* No verification loses its temporary file to another one, and none leaves it
\* behind but by a crash (evidence.py:298-300, 389-395).
THEOREM TempFilesLiveAsNeeded == Spec => []TempFileLifetime
<1>1. (\A v \in Verifications : VerifyInv(v)) => TempFileLifetime
    BY DEF VerifyInv, TempInv, TempFileLifetime
<1> QED
    BY <1>1, VerifyInvariant, PTL
================================================================================
