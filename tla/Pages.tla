------------------------------- MODULE Pages -------------------------------
(***************************************************************************)
(* One browser tab going from page to page, with the servers behind it.    *)
(* Leaving a page forgets what it holds and what it waits for; what it has *)
(* set going at a server goes on there.                                    *)
(***************************************************************************)
EXTENDS UploadDesk, ReportDesk

CONSTANTS MaxVisits   \* bound: pages mounted

VARIABLES visits

servers == <<evidence, chain, uploadVars, reports, archive, anchored, published>>

vars == <<page, servers, generations, visits>>

Mountable ==
  {MountedCases(c) : c \in Cases} \cup {MountedDashboard(b) : b \in BOOLEAN}
    \cup {MountedDetail(a) : a \in Ids(evidence)} \cup {MountedReports(a) : a \in Ids(evidence)}
    \cup {MountedArtifactList, MountedLedger, MountedUpload}

\* One artifact is there to begin with, in a case the user is assigned to; under
\* the report page, with no report or with as many as there are ids.
Init ==
  /\ \E id \in Artifacts, c \in Cases, f \in Forms :
       /\ evidence = {[id |-> id, case |-> c, status |-> "INGESTED", form |-> f]}
       /\ chain = [d \in Cases |-> IF d = c THEN {id} ELSE {}]
       /\ assigned = {c}
       /\ page \in Mountable
       /\ \E ids \in {{}, IF page.name = "reports" THEN ReportIds ELSE {}} :
            /\ reports \in SetToSeqs({[id |-> r, of |-> id] : r \in ids})
            /\ archive = [r \in ReportIds |-> IF r \in ids THEN "intact" ELSE "none"]
            /\ anchored = ids /\ published = ids
  /\ uploads = {} /\ submissions = 0
  /\ generations = {}
  /\ visits = 1

\* The user goes to another page; a report under way has no page any more.  The
\* bound MaxAsks counts the asks of all pages together.
Navigate ==
  /\ visits < MaxVisits
  /\ visits' = visits + 1
  /\ page' \in {[pg EXCEPT !.last = @ + page.last] : pg \in Mountable}
  /\ generations' = {[g EXCEPT !.live = FALSE] : g \in generations}
  /\ UNCHANGED servers

ReadingStep ==
  /\ \/ ListAnswered \/ ListFailed \/ Type \/ DashboardAnswered \/ DashboardFailed
     \/ DetailLoaded \/ DetailNotLoaded \/ handleVerify \/ VerifyAnswered
     \/ handleDownload \/ DownloadAnswered
     \/ LedgerCases \/ LedgerAnswered \/ LedgerFailed \/ IngestedElsewhere
     \/ \E c \in Cases : JumpToCase(c) \/ SelectCase(c)
     \/ \E a \in Ids(evidence) : JumpToArtifact(a)
  /\ UNCHANGED <<uploadVars, reportVars>>

UploadStep ==
  /\ \/ UploadCases \/ FillForm \/ resetForm \/ handleSubmit \/ AnswerLost \/ Reassigned
     \/ \E u \in uploads : Upload(u)
  /\ UNCHANGED reportVars

ReportStep ==
  /\ \/ ReportsListed \/ handleGenerate \/ ReportVerified \/ ReportDownloaded \/ Tamper
     \/ \E a \in Ids(evidence) : JumpToReports(a)
     \/ \E id \in ReportIds : handleVerifyReport(id) \/ handleDownloadReport(id)
     \/ \E g \in generations : generate_report(g) \/ GenerationFails(g)
  /\ UNCHANGED uploadVars

Next == Navigate \/ (UNCHANGED visits /\ (ReadingStep \/ UploadStep \/ ReportStep))

Spec == Init /\ [][Next]_vars

(***************************************************************************)
(* Properties.                                                             *)
(***************************************************************************)
\* Nothing turns for ever: while a page shows a spinner or keeps a button
\* disabled, a request is under way whose answer, good or bad, ends it,
\* whichever requests failed before and whatever else the user asked for.
SpinnerHasItsRequest ==
  CASE page.name \in {"cases", "artifacts"} -> page.loading => Waiting("list") # {}
    [] page.name = "dashboard" -> page.loading => NoAnswer \in {page.gotCases, page.gotArtifacts}
    [] page.name = "ledger" -> page.loading => Waiting("load") # {}
    [] page.name = "detail" -> /\ page.verifying => Waiting("verify") # {}
                               /\ page.downloading => Waiting("download") # {}
    [] page.name = "upload" -> page.loading => \E u \in uploads : Awaits(u)
    [] page.name = "reports" ->
         /\ page.loading => Waiting("list") # {}
         /\ page.generating => \E g \in generations : g.live
         /\ page.verifyingId # NoAnswer => \E a \in Waiting("verify") : a.of = page.verifyingId
         /\ page.downloadingId # NoAnswer => \E a \in Waiting("download") : a.of = page.downloadingId
=============================================================================
