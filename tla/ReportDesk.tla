----------------------------- MODULE ReportDesk -----------------------------
(***************************************************************************)
(* The report page and the report handlers of the audit reporter.          *)
(***************************************************************************)
EXTENDS ReadingPages, Sequences, SequencesExt

CONSTANTS ReportIds   \* report ids the audit reporter draws

ASSUME ReportAssumption == IsFiniteSet(ReportIds)

VARIABLES
  reports,      \* the report table, oldest row first
  archive,      \* the PDF of each report id: "none", "intact" or "altered"
  anchored,     \* report hashes in the ledger
  published,    \* ReportGenerated events
  generations   \* requests for a report under way at the server

reportVars == <<reports, archive, anchored, published, generations>>

UsedIds == {id \in ReportIds : archive[id] # "none"}
OnRecord == {reports[i].id : i \in DOMAIN reports}

(***************************************************************************)
(* ReportPage.  made: the reports this mounted page has generated, newest  *)
(* first; raced: one was asked for while the list was still awaited.       *)
(***************************************************************************)
MountedReports(a) ==
  [name |-> "reports", of |-> a, reports |-> <<>>, loading |-> TRUE, generating |-> FALSE,
   downloadingId |-> NoAnswer, verifyingId |-> NoAnswer,
   verifications |-> [id \in ReportIds |-> NoAnswer], error |-> FALSE,
   made |-> <<>>, raced |-> FALSE,
   asks |-> {NewAsk(1, "list", a)}, last |-> 1, answered |-> {}, late |-> FALSE]

ReportsEffect(pg, a) == [Ask(pg, "list", a) EXCEPT !.of = a, !.raced = TRUE]

JumpToReports(a) ==
  /\ page.name = "reports" /\ page.of # a /\ MayAsk
  /\ page' = ReportsEffect(page, a)
  /\ UNCHANGED <<evidence, chain, reportVars>>

\* list_reports_by_artifact: the artifact's rows, newest first; there is one such
\* list.
ByArtifact(a) ==
  LET mine == {i \in DOMAIN reports : reports[i].of = a}
      Newest(at) == \A k, l \in DOMAIN at : k < l => at[k] > at[l]
  IN  {[k \in DOMAIN at |-> reports[at[k]].id] : at \in {at \in SetToSeqs(mine) : Newest(at)}}

ReportsListed ==
  /\ page.name = "reports"
  /\ \E a \in Waiting("list") :
       \/ \E rows \in ByArtifact(a.of) :
            page' = [Take(page, a) EXCEPT !.reports = rows, !.loading = FALSE]
       \/ page' = [Take(page, a) EXCEPT !.error = TRUE, !.loading = FALSE]
  /\ UNCHANGED <<evidence, chain, reportVars>>

\* The button is not disabled while the list is loading.
handleGenerate ==
  /\ page.name = "reports" /\ ~page.generating /\ MayAsk
  /\ page' = [page EXCEPT !.generating = TRUE, !.error = FALSE, !.last = @ + 1,
                          !.raced = @ \/ Waiting("list") # {}]
  /\ generations' = generations \cup
       {[of |-> page.of, id |-> NoAnswer, stage |-> "received", live |-> TRUE]}
  /\ UNCHANGED <<evidence, chain, reports, archive, anchored, published>>

\* Mutant: the new report goes to the end of the list.
Prepended_AtEnd(g) ==
  IF g.live
  THEN [page EXCEPT !.reports = Append(@, g.id), !.made = <<g.id>> \o @, !.generating = FALSE]
  ELSE page

\* The answer to a generation reaches the page that is still mounted.
Prepended(g) ==
  IF g.live
  THEN [page EXCEPT !.reports = <<g.id>> \o @, !.made = <<g.id>> \o @, !.generating = FALSE]
  ELSE page

\* Mutant: only a good answer ends the generation.
NotGenerated_NoFinally(g) == IF g.live THEN [page EXCEPT !.error = TRUE] ELSE page

NotGenerated(g) ==
  IF g.live THEN [page EXCEPT !.error = TRUE, !.generating = FALSE] ELSE page

handleVerifyReport(id) ==
  /\ page.name = "reports" /\ id \in ToSet(page.reports) \ {page.verifyingId} /\ MayAsk
  /\ page' = [Ask(page, "verify", id) EXCEPT !.verifyingId = id]
  /\ UNCHANGED <<evidence, chain, reportVars>>

handleDownloadReport(id) ==
  /\ page.name = "reports" /\ id \in ToSet(page.reports) \ {page.downloadingId} /\ MayAsk
  /\ page' = [Ask(page, "download", id) EXCEPT !.downloadingId = id]
  /\ UNCHANGED <<evidence, chain, reportVars>>

\* Mutant: the verdict goes to the report whose button was pressed last.
ReportVerified_UnderCurrent ==
  /\ page.name = "reports"
  /\ \E a \in Waiting("verify") :
       LET pg == [Take(page, a) EXCEPT !.verifyingId = NoAnswer]
           at == IF page.verifyingId = NoAnswer THEN a.of ELSE page.verifyingId IN
       \/ page' = [pg EXCEPT !.verifications[at] =
                     [of |-> a.of, report_valid |-> archive[a.of] = "intact"]]
       \/ page' = [pg EXCEPT !.error = TRUE]
  /\ UNCHANGED <<evidence, chain, reportVars>>

\* verify_report compares the archived file with the hash in the row.
ReportVerified ==
  /\ page.name = "reports"
  /\ \E a \in Waiting("verify") :
       LET pg == [Take(page, a) EXCEPT !.verifyingId = NoAnswer] IN
       \/ page' = [pg EXCEPT !.verifications[a.of] =
                     [of |-> a.of, report_valid |-> archive[a.of] = "intact"]]
       \/ page' = [pg EXCEPT !.error = TRUE]
  /\ UNCHANGED <<evidence, chain, reportVars>>

ReportDownloaded ==
  /\ page.name = "reports"
  /\ \E a \in Waiting("download"), failed \in BOOLEAN :
       page' = [Take(page, a) EXCEPT !.downloadingId = NoAnswer, !.error = @ \/ failed]
  /\ UNCHANGED <<evidence, chain, reportVars>>

ReportList(pg) ==
  IF pg.loading THEN "skeleton"
  ELSE IF pg.reports = <<>> THEN "No reports generated yet" ELSE "rows"

\* The badge "Latest" is at the first row.
LatestBadge(pg) == IF pg.loading \/ pg.reports = <<>> THEN NoAnswer ELSE pg.reports[1]

VerifyButton(pg, id) == id # pg.verifyingId

DownloadButton(pg, id) == id # pg.downloadingId

VerdictBox(pg, id) == pg.verifications[id]

(***************************************************************************)
(* generate_report.                                                        *)
(***************************************************************************)
GenerationAt(g, stage) ==
  generations' = (generations \ {g}) \cup {[g EXCEPT !.stage = stage]}

\* A refusal, an upstream failure, a failed write, commit or publication, or the
\* death of the service: what was done before stays done.
GenerationFails(g) ==
  /\ generations' = generations \ {g}
  /\ page' = NotGenerated(g)
  /\ UNCHANGED <<evidence, chain, reports, archive, anchored, published>>

WriteFile(g) ==
  /\ g.stage = "received"
  /\ \E id \in ReportIds \ UsedIds :
       /\ archive' = [archive EXCEPT ![id] = "intact"]
       /\ generations' = (generations \ {g}) \cup {[g EXCEPT !.stage = "filed", !.id = id]}
  /\ UNCHANGED <<page, evidence, chain, reports, anchored, published>>

\* Mutant: the event is published before the row is committed.
AnchorReport_PublishedFirst(g) ==
  /\ g.stage = "filed"
  /\ anchored' \in {anchored, anchored \cup {g.id}}
  /\ published' = published \cup {g.id}
  /\ GenerationAt(g, "anchored")
  /\ UNCHANGED <<page, evidence, chain, reports, archive>>

\* Anchoring is best effort.
AnchorReport(g) ==
  /\ g.stage = "filed"
  /\ anchored' \in {anchored, anchored \cup {g.id}}
  /\ GenerationAt(g, "anchored")
  /\ UNCHANGED <<page, evidence, chain, reports, archive, published>>

CommitReport(g) ==
  /\ g.stage = "anchored"
  /\ reports' = Append(reports, [id |-> g.id, of |-> g.of])
  /\ GenerationAt(g, "committed")
  /\ UNCHANGED <<page, evidence, chain, archive, anchored, published>>

PublishAndAnswer(g) ==
  /\ g.stage = "committed"
  /\ published' = published \cup {g.id}
  /\ generations' = generations \ {g}
  /\ page' = Prepended(g)
  /\ UNCHANGED <<evidence, chain, reports, archive, anchored>>

generate_report(g) ==
  \/ WriteFile(g) \/ AnchorReport(g) \/ CommitReport(g) \/ PublishAndAnswer(g)

\* The archived file of a report is changed behind the service's back; nothing
\* but the report page looks at it.
Tamper ==
  /\ page.name = "reports"
  /\ \E id \in OnRecord : archive[id] = "intact" /\ archive' = [archive EXCEPT ![id] = "altered"]
  /\ UNCHANGED <<page, evidence, chain, reports, anchored, published, generations>>

(***************************************************************************)
(* Properties.                                                             *)
(***************************************************************************)
\* Wherever report generation stops, every row and every report hash in the
\* ledger has its file, every ReportGenerated event and every report a page
\* lists has its row, and no report id has two rows.
ReportOnRecordIsBacked ==
  /\ \A id \in OnRecord \cup anchored : archive[id] # "none"
  /\ published \subseteq OnRecord
  /\ page.name = "reports" => ToSet(page.reports) \subseteq OnRecord
  /\ IsInjective([i \in DOMAIN reports |-> reports[i].id])

\* A verdict is displayed under the report it is about, whichever answer came
\* first, and "TAMPERED" only if that report's file was altered.
VerdictUnderItsReport ==
  page.name = "reports" =>
    \A id \in ReportIds :
      VerdictBox(page, id) # NoAnswer =>
        /\ VerdictBox(page, id).of = id
        /\ ~VerdictBox(page, id).report_valid => archive[id] = "altered"

\* The reports a page generated stand at the top of its list, newest first, each
\* once, and the newest has the badge, unless one was asked for while the list
\* was still awaited.
GeneratedIsListed ==
  page.name = "reports" /\ ~page.loading /\ ~page.raced =>
    /\ IsInjective(page.reports)
    /\ IsPrefix(page.made, page.reports)
    /\ page.made # <<>> => LatestBadge(page) = page.made[1]
=============================================================================
