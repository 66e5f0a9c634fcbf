----------------------------- MODULE UploadDesk -----------------------------
(***************************************************************************)
(* The upload page and the upload handler of the evidence collector, as    *)
(* far as the page can tell its steps apart (Ingestion has the handler in  *)
(* detail).  An upload goes on at the server whether or not the page that  *)
(* started it still waits.                                                 *)
(***************************************************************************)
EXTENDS ReadingPages

CONSTANTS MaxUploads   \* bound: uploads submitted

VARIABLES
  uploads,     \* this user's uploads under way at the server
  submissions, \* how many were submitted
  assigned     \* the open cases this user is assigned to

uploadVars == <<uploads, submissions, assigned>>

Stages == {"received", "admitted", "stored", "signed", "anchored"}

(***************************************************************************)
(* ArtifactUploadPage.                                                     *)
(***************************************************************************)
MountedUpload ==
  [name |-> "upload", cases |-> {}, casesLoading |-> TRUE, caseId |-> NoAnswer,
   form |-> NoAnswer, loading |-> FALSE, error |-> FALSE, result |-> NoAnswer,
   submitted |-> NoAnswer, status |-> "none", rowId |-> NoAnswer,
   asks |-> {}, last |-> 0, answered |-> {}, late |-> FALSE]

AtForm == page.name = "upload" /\ page.result = NoAnswer

UploadCases ==
  /\ page.name = "upload" /\ page.casesLoading
  /\ \E data \in {assigned, page.cases} :   \* an answer, or a silent failure
       page' = [page EXCEPT !.cases = data, !.casesLoading = FALSE]
  /\ UNCHANGED <<evidence, chain, uploadVars>>

\* The fields stay open while an upload is on its way.
FillForm ==
  /\ AtForm
  /\ \/ \E c \in page.cases : page' = [page EXCEPT !.caseId = c]
     \/ \E f \in Forms : page' = [page EXCEPT !.form = f]
  /\ UNCHANGED <<evidence, chain, uploadVars>>

resetForm ==
  /\ page.name = "upload" /\ page.result # NoAnswer
  /\ page' = [page EXCEPT !.caseId = NoAnswer, !.form = NoAnswer, !.error = FALSE,
                          !.result = NoAnswer, !.submitted = NoAnswer, !.status = "none",
                          !.rowId = NoAnswer]
  /\ UNCHANGED <<evidence, chain, uploadVars>>

\* The fields are read into the request when the button is pressed; the browser
\* sees to it that a case is chosen.
handleSubmit ==
  /\ AtForm /\ ~page.loading /\ page.caseId # NoAnswer
  /\ IF page.form = NoAnswer
     THEN page' = [page EXCEPT !.error = TRUE, !.status = "none"] /\ UNCHANGED uploadVars
     ELSE LET no == submissions + 1 IN
          /\ submissions < MaxUploads
          /\ submissions' = no
          /\ uploads' = uploads \cup
               {[no |-> no, case |-> page.caseId, form |-> page.form, id |-> NoAnswer,
                 stage |-> "received", allowed |-> page.caseId \in assigned]}
          /\ page' = [page EXCEPT !.loading = TRUE, !.error = FALSE, !.status = "none",
                        !.rowId = NoAnswer,
                        !.submitted = [no |-> no, case |-> page.caseId, form |-> page.form]]
          /\ UNCHANGED assigned
  /\ UNCHANGED <<evidence, chain>>

Awaits(u) ==
  /\ page.name = "upload" /\ page.loading
  /\ page.submitted.no = u.no

\* An answer of 201 puts the row in place of the form, any other an error.
Succeeded(u, row) ==
  IF Awaits(u) THEN [page EXCEPT !.result = row, !.loading = FALSE] ELSE page

\* The message depends on the HTTP status; rowId remembers which row the failed
\* upload had made, if any.
Errored(u, status) ==
  IF Awaits(u)
  THEN [page EXCEPT !.error = TRUE, !.loading = FALSE, !.status = status, !.rowId = u.id]
  ELSE page

\* The handler's answer does not come back (network, timeout of a proxy) though
\* the upload goes on.
AnswerLost ==
  /\ \E u \in uploads : Awaits(u) /\ page' = Errored(u, "lost")
  /\ UNCHANGED <<evidence, chain, uploadVars>>

SuccessCard(pg) == [id |-> pg.result.id, case |-> pg.result.case, form |-> pg.result.form,
                    badge |-> pg.result.status]

UploadForm(pg) == [button |-> ~pg.loading, banner |-> pg.error, cases |-> pg.cases]

(***************************************************************************)
(* The upload handler.                                                     *)
(***************************************************************************)
MoveOn(u, stage) == uploads' = (uploads \ {u}) \cup {[u EXCEPT !.stage = stage]}
Drop(u) == uploads' = uploads \ {u}

RowOf(u) == CHOOSE r \in evidence : r.id = u.id
WithStatus(u, s) == (evidence \ {RowOf(u)}) \cup {[RowOf(u) EXCEPT !.status = s]}

\* The handler ends with an error.
Refuse(u, status) == Drop(u) /\ page' = Errored(u, status)

\* Mutant: the row of a failed upload stays PENDING.
GiveUp_StatusKept(u) == Refuse(u, "503") /\ evidence' = evidence

\* Another service fails: the row is marked and the answer is 503.  If the commit
\* of the mark raises, nobody catches it: 500, and the row is marked or not.
GiveUp(u) ==
  \/ Refuse(u, "503") /\ evidence' = WithStatus(u, "INGESTION_FAILED")
  \/ Refuse(u, "500") /\ evidence' \in {evidence, WithStatus(u, "INGESTION_FAILED")}

\* Mutant: the handler relies on the page to offer assigned cases only.
CheckAssignment_PageTrusted(u) ==
  /\ u.stage = "received"
  /\ MoveOn(u, "admitted")
  /\ UNCHANGED <<page, evidence, chain>>

\* The assignments are read once, before anything else; if they cannot be read
\* there are none.
CheckAssignment(u) ==
  /\ u.stage = "received"
  /\ \/ u.case \in assigned /\ MoveOn(u, "admitted") /\ UNCHANGED page
     \/ Refuse(u, "403")
  /\ UNCHANGED <<evidence, chain>>

\* The file cannot be written, or the commit of the row raises: 500, and the row
\* may be there nevertheless.
Store(u) ==
  /\ u.stage = "admitted"
  /\ \/ Refuse(u, "500") /\ UNCHANGED evidence
     \/ \E id \in FreshIds :
          LET stored == [u EXCEPT !.stage = "stored", !.id = id] IN
          /\ evidence' = evidence \cup
               {[id |-> id, case |-> u.case, status |-> "PENDING", form |-> u.form]}
          /\ \/ uploads' = (uploads \ {u}) \cup {stored} /\ UNCHANGED page
             \/ Drop(u) /\ page' = Errored(stored, "500")
  /\ UNCHANGED chain

HashAndSign(u) ==
  /\ u.stage = "stored"
  /\ \/ GiveUp(u)
     \/ MoveOn(u, "signed") /\ UNCHANGED <<page, evidence>>
  /\ UNCHANGED chain

\* An append that is not answered in time may have been made.
AppendProof(u) ==
  LET appended == [chain EXCEPT ![u.case] = @ \cup {u.id}] IN
  /\ u.stage = "signed"
  /\ \/ GiveUp(u) /\ chain' \in {chain, appended}
     \/ MoveOn(u, "anchored") /\ chain' = appended /\ UNCHANGED <<page, evidence>>

\* If the commit of the finished row raises, the handler marks the row as failed,
\* which may raise as well.
Finish(u) ==
  /\ u.stage = "anchored"
  /\ \/ /\ Refuse(u, "500")
        /\ evidence' \in {evidence, WithStatus(u, "INGESTED"), WithStatus(u, "INGESTION_FAILED")}
     \/ /\ Drop(u)
        /\ evidence' = WithStatus(u, "INGESTED")
        /\ page' = Succeeded(u, [RowOf(u) EXCEPT !.status = "INGESTED"])
  /\ UNCHANGED chain

Upload(u) ==
  /\ CheckAssignment(u) \/ Store(u) \/ HashAndSign(u) \/ AppendProof(u) \/ Finish(u)
  /\ UNCHANGED <<submissions, assigned>>

\* An administrator assigns, removes, closes or reopens.  Nothing but the upload
\* page and a new upload reads the assignments here, so they change only then.
Reassigned ==
  /\ page.name = "upload" \/ \E u \in uploads : u.stage = "received"
  /\ \E c \in Cases :
       /\ assigned' = IF c \in assigned THEN assigned \ {c} ELSE assigned \cup {c}
       /\ uploads' = {[u EXCEPT !.allowed = @ \/ u.case \in assigned'] : u \in uploads}
  /\ UNCHANGED <<page, evidence, chain, submissions>>

(***************************************************************************)
(* Properties.                                                             *)
(***************************************************************************)
\* "Evidence ingested successfully" is displayed only for a row that is INGESTED
\* and in the ledger, with the case and the contents the fields had when the
\* button was pressed; "temporarily unavailable", as the handler's own answer,
\* only if the row of that submission is INGESTION_FAILED, and "no permission"
\* only if it has no row.  The message for a 500, and the one for a lost answer,
\* leave open what became of the row (evidence.py:91-98, 110, 124, 170-174,
\* ArtifactUploadPage.tsx:277-296); but if it is INGESTED all the same, its proof
\* is in the ledger.
UploadOutcomeTrue ==
  page.name = "upload" =>
    /\ page.result # NoAnswer =>
         LET card == SuccessCard(page) IN
         /\ [id |-> card.id, case |-> card.case, status |-> "INGESTED", form |-> card.form] \in evidence
         /\ card.badge = "INGESTED"
         /\ card.id \in chain[card.case]
         /\ card.case = page.submitted.case /\ card.form = page.submitted.form
    /\ page.status = "503" =>
         \E r \in evidence : r.id = page.rowId /\ r.status = "INGESTION_FAILED"
    /\ page.status = "403" => page.rowId = NoAnswer
    /\ page.status \in {"500", "lost"} =>
         \A r \in evidence : r.id = page.rowId /\ r.status = "INGESTED" => r.id \in chain[r.case]
    /\ page.loading => page.status = "none" /\ \E u \in uploads : u.no = page.submitted.no

\* A row of this user is written only into a case that was assigned and open at
\* some moment after the button was pressed, however stale the page's list of
\* cases; and a row under way is this upload's own.
UploadWasAllowed ==
  \A u \in uploads :
    u.stage # "received" =>
      /\ u.allowed
      /\ u.id # NoAnswer => \E r \in evidence : /\ r.id = u.id /\ r.case = u.case
                                                /\ r.form = u.form /\ r.status = "PENDING"
=============================================================================
