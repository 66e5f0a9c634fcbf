---------------------------- MODULE ReadingPages ----------------------------
(***************************************************************************)
(* The pages of the web client that read: dashboard, case, artifact list,  *)
(* artifact and ledger.  A tab mounts one page at a time; `page' is what   *)
(* its useState hooks hold, with the requests it still waits for.          *)
(*                                                                         *)
(* An ask is a request in flight.  A page that is told to show something   *)
(* else (a jump in the browser's history, another choice in a list) asks   *)
(* again and still waits for what it asked before; the code drops no       *)
(* answer, whatever the order in which they come.  `late' remembers that   *)
(* an answer came after the answer to a later ask.                         *)
(***************************************************************************)
EXTENDS Naturals, FiniteSets

CONSTANTS
  Artifacts,   \* artifact ids
  Cases,       \* case numbers
  Matching,    \* the artifacts the text typed into a filter matches
  NoAnswer,    \* null, before an answer
  Forms,       \* what can be uploaded: file, title, type and description
  MaxAsks      \* bound: what the user asks for

ASSUME ReadingAssumption == Matching \subseteq Artifacts /\ MaxAsks \in Nat

\* null is no id, no case number and no answer.
ASSUME NullAssumption ==
  /\ NoAnswer \notin Artifacts \cup Cases
  /\ \A c \in Cases, ids \in SUBSET Artifacts : [of |-> c, checked |-> ids] # NoAnswer

VARIABLES
  page,        \* the mounted page
  evidence,    \* the artifact table: a set of Rows, one per id
  chain        \* per case, the artifacts with a record in the ledger

Statuses == {"PENDING", "INGESTED", "INGESTION_FAILED"}
Rows == [id : Artifacts, case : Cases, status : Statuses, form : Forms]

RowsOf(c) == {r \in evidence : r.case = c}
Ids(rows) == {r.id : r \in rows}
FreshIds == Artifacts \ Ids(evidence)

(***************************************************************************)
(* Asking and taking answers.                                              *)
(***************************************************************************)
NewAsk(n, kind, of) == [no |-> n, kind |-> kind, of |-> of]

Ask(pg, kind, of) ==
  [pg EXCEPT !.asks = @ \cup {NewAsk(pg.last + 1, kind, of)}, !.last = @ + 1]

MayAsk == page.last < MaxAsks

\* An answer is late if a later ask of its kind has been answered already.
Take(pg, ask) ==
  [pg EXCEPT !.asks = @ \ {ask},
             !.late = @ \/ \E b \in pg.answered : b.kind = ask.kind /\ b.no > ask.no,
             !.answered = @ \cup {[kind |-> ask.kind, no |-> ask.no]}]

Waiting(kind) == {a \in page.asks : a.kind = kind}
Settled == page.asks = {} /\ ~page.late

(***************************************************************************)
(* CasesPage and ArtifactListPage: of is the case number, or all of them.  *)
(***************************************************************************)
Everything == "every case"
Listed(of) == IF of = Everything THEN evidence ELSE RowsOf(of)

MountedList(name, of) ==
  [name |-> name, of |-> of, artifacts |-> {}, loading |-> TRUE, error |-> FALSE,
   query |-> FALSE, known |-> Ids(Listed(of)),
   asks |-> {NewAsk(1, "list", of)}, last |-> 1, answered |-> {}, late |-> FALSE]

MountedCases(c) == MountedList("cases", c)
MountedArtifactList == MountedList("artifacts", Everything)

\* Mutant: the effect does not depend on caseId.
CasesEffect_Once(pg, c) == [pg EXCEPT !.of = c, !.known = Ids(RowsOf(c))]

\* The effect on [caseId]: it neither clears the list nor shows the spinner.
CasesEffect(pg, c) ==
  [Ask(pg, "list", c) EXCEPT !.of = c, !.known = Ids(RowsOf(c))]

\* A jump in the history from one case to another keeps the page mounted.
JumpToCase(c) ==
  /\ page.name = "cases" /\ page.of # c /\ MayAsk
  /\ page' = CasesEffect(page, c)
  /\ UNCHANGED <<evidence, chain>>

\* listArtifacts(case) answers with what the table holds at that moment.
ListAnswered ==
  /\ page.name \in {"cases", "artifacts"}
  /\ \E a \in page.asks :
       page' = [Take(page, a) EXCEPT !.artifacts = Listed(a.of), !.loading = FALSE]
  /\ UNCHANGED <<evidence, chain>>

ListFailed ==
  /\ page.name \in {"cases", "artifacts"}
  /\ \E a \in page.asks :
       page' = [Take(page, a) EXCEPT !.error = TRUE, !.loading = FALSE]
  /\ UNCHANGED <<evidence, chain>>

Type ==
  /\ page.name \in {"cases", "artifacts"}
  /\ page' = [page EXCEPT !.query = ~@]
  /\ UNCHANGED <<evidence, chain>>

filtered(pg) == IF pg.query THEN {r \in pg.artifacts : r.id \in Matching} ELSE pg.artifacts

Table(pg) ==
  IF pg.loading THEN "skeleton"
  ELSE IF filtered(pg) # {} THEN "rows"
  ELSE IF pg.query THEN "nothing matches" ELSE "nothing there"

\* What the case page displays: the header's case, the count, the banner, the table.
CasesView(pg) ==
  [title |-> pg.of, banner |-> pg.error, table |-> Table(pg),
   badge |-> IF pg.loading \/ pg.error THEN 0 ELSE Cardinality(pg.artifacts),
   rows |-> IF pg.loading THEN {} ELSE filtered(pg)]

ArtifactListView(pg) ==
  [title |-> Everything, banner |-> pg.error, table |-> Table(pg),
   badge |-> IF pg.loading \/ pg.error THEN 0 ELSE Cardinality(pg.artifacts),
   rows |-> IF pg.loading THEN {} ELSE filtered(pg)]

(***************************************************************************)
(* DashboardPage: one Promise.all over both requests.                      *)
(***************************************************************************)
MountedDashboard(isAdmin) ==
  [name |-> "dashboard", isAdmin |-> isAdmin, cases |-> {}, artifacts |-> {},
   loading |-> TRUE, gotCases |-> NoAnswer, gotArtifacts |-> IF isAdmin THEN {} ELSE NoAnswer,
   asks |-> {}, last |-> 0, answered |-> {}, late |-> FALSE]

\* Both answers are shown once both are there.
DashboardTogether(pg) ==
  IF pg.gotCases # NoAnswer /\ pg.gotArtifacts # NoAnswer
  THEN [pg EXCEPT !.cases = pg.gotCases, !.artifacts = pg.gotArtifacts, !.loading = FALSE]
  ELSE pg

DashboardAnswered ==
  /\ page.name = "dashboard" /\ page.loading
  /\ \/ /\ page.gotCases = NoAnswer
        /\ page' = DashboardTogether([page EXCEPT !.gotCases = Cases])
     \/ /\ page.gotArtifacts = NoAnswer
        /\ page' = DashboardTogether([page EXCEPT !.gotArtifacts = evidence])
  /\ UNCHANGED <<evidence, chain>>

\* The first request to fail ends the loading, whatever the other has answered.
DashboardFailed ==
  /\ page.name = "dashboard" /\ page.loading
  /\ page' = [page EXCEPT !.loading = FALSE]
  /\ UNCHANGED <<evidence, chain>>

DashboardCases(pg) == IF ~pg.loading /\ pg.cases = {} THEN "No cases found." ELSE pg.cases

(***************************************************************************)
(* ArtifactDetailPage.  jumped: shown another artifact since it was        *)
(* mounted; submitted: the last file sent to be verified.                  *)
(***************************************************************************)
MountedDetail(id) ==
  [name |-> "detail", of |-> id, artifact |-> NoAnswer, timeline |-> NoAnswer,
   fetchError |-> FALSE, verifyResult |-> NoAnswer, verifyError |-> NoAnswer,
   verifying |-> FALSE, downloading |-> FALSE, downloadError |-> FALSE,
   submitted |-> 0, jumped |-> FALSE, hidden |-> FALSE,
   asks |-> {NewAsk(1, "artifact", id), NewAsk(1, "timeline", id)}, last |-> 1,
   answered |-> {}, late |-> FALSE]

\* Mutant: the timeline is asked for at mounting only.
DetailEffect_TimelineOnce(pg, id) ==
  Ask([pg EXCEPT !.of = id, !.jumped = TRUE, !.hidden = FALSE], "artifact", id)

\* The effect on [id] asks for both and clears nothing.
DetailEffect(pg, id) ==
  [Ask(pg, "artifact", id) EXCEPT
     !.of = id, !.jumped = TRUE, !.hidden = FALSE,
     !.asks = @ \cup {NewAsk(pg.last + 1, "timeline", id)}]

JumpToArtifact(id) ==
  /\ page.name = "detail" /\ page.of # id /\ MayAsk
  /\ page' = DetailEffect(page, id)
  /\ UNCHANGED <<evidence, chain>>

DetailLoaded ==
  /\ page.name = "detail"
  /\ \/ \E a \in Waiting("artifact") : page' = [Take(page, a) EXCEPT !.artifact = a.of]
     \/ \E a \in Waiting("timeline") : page' = [Take(page, a) EXCEPT !.timeline = a.of]
  /\ UNCHANGED <<evidence, chain>>

\* A timeline that is refused leaves the section as it was, without a word.
DetailNotLoaded ==
  /\ page.name = "detail"
  /\ \/ \E a \in Waiting("artifact") : page' = [Take(page, a) EXCEPT !.fetchError = TRUE]
     \/ \E a \in Waiting("timeline") : page' = [Take(page, a) EXCEPT !.hidden = TRUE]
  /\ UNCHANGED <<evidence, chain>>

\* Mutant: the previous result stays while another file is verified.
handleVerify_ResultKept ==
  /\ page.name = "detail" /\ ~page.verifying /\ MayAsk
  /\ page' = [Ask(page, "verify", page.of) EXCEPT
                !.verifying = TRUE, !.verifyError = NoAnswer, !.submitted = page.last + 1]
  /\ UNCHANGED <<evidence, chain>>

handleVerify ==
  /\ page.name = "detail" /\ ~page.verifying /\ MayAsk
  /\ page' = [Ask(page, "verify", page.of) EXCEPT
                !.verifying = TRUE, !.verifyError = NoAnswer, !.verifyResult = NoAnswer,
                !.submitted = page.last + 1]
  /\ UNCHANGED <<evidence, chain>>

VerifyAnswered ==
  /\ page.name = "detail"
  /\ \E a \in Waiting("verify") :
       \/ page' = [Take(page, a) EXCEPT !.verifyResult = a, !.verifying = FALSE]
       \/ page' = [Take(page, a) EXCEPT !.verifyError = a, !.verifying = FALSE]
  /\ UNCHANGED <<evidence, chain>>

handleDownload ==
  /\ page.name = "detail" /\ page.artifact # NoAnswer /\ ~page.downloading /\ MayAsk
  /\ page' = [Ask(page, "download", page.artifact) EXCEPT
                !.downloading = TRUE, !.downloadError = FALSE]
  /\ UNCHANGED <<evidence, chain>>

DownloadAnswered ==
  /\ page.name = "detail"
  /\ \E a \in Waiting("download"), failed \in BOOLEAN :
       page' = [Take(page, a) EXCEPT !.downloading = FALSE, !.downloadError = failed]
  /\ UNCHANGED <<evidence, chain>>

MetadataSection(pg) == pg.artifact
TimelineSection(pg) == pg.timeline

\* The verdict box, under whichever artifact the page stands at.
VerifySection(pg) ==
  [button |-> ~pg.verifying, result |-> pg.verifyResult, error |-> pg.verifyError]

(***************************************************************************)
(* LedgerPage.  A load is a Promise.all of records and validation.         *)
(***************************************************************************)
MountedLedger ==
  [name |-> "ledger", cases |-> {}, casesAsked |-> TRUE, selectedCase |-> NoAnswer,
   records |-> {}, recordsOf |-> NoAnswer, validation |-> NoAnswer,
   loading |-> FALSE, error |-> FALSE, since |-> {},
   asks |-> {}, last |-> 0, answered |-> {}, late |-> FALSE]

\* The effect on [selectedCase]: everything is cleared, then both are asked for.
LedgerEffect(pg, c) ==
  [pg EXCEPT !.selectedCase = c, !.loading = TRUE, !.error = FALSE,
             !.records = {}, !.recordsOf = NoAnswer, !.validation = NoAnswer,
             !.since = chain[c],
             !.asks = @ \cup {[no |-> pg.last + 1, kind |-> "load", of |-> c,
                               recs |-> NoAnswer, val |-> NoAnswer]},
             !.last = @ + 1]

\* listCases answers, and the first case of the answer is selected.
LedgerCases ==
  /\ page.name = "ledger" /\ page.casesAsked
  /\ LET pg == [page EXCEPT !.casesAsked = FALSE] IN
       \/ page' = [pg EXCEPT !.error = TRUE]
       \/ \E data \in SUBSET Cases :
            IF data = {} THEN page' = pg
            ELSE \E first \in data : page' = LedgerEffect([pg EXCEPT !.cases = data], first)
  /\ UNCHANGED <<evidence, chain>>

SelectCase(c) ==
  /\ page.name = "ledger" /\ c \in page.cases \ {page.selectedCase} /\ MayAsk
  /\ page' = LedgerEffect(page, c)
  /\ UNCHANGED <<evidence, chain>>

\* Mutant: the records are shown before the verdict is there.
LedgerTogether_RecordsFirst(pg, a, b) ==
  LET shown == IF b.recs # NoAnswer THEN [pg EXCEPT !.records = b.recs, !.recordsOf = b.of] ELSE pg
  IN  IF b.recs # NoAnswer /\ b.val # NoAnswer
      THEN [Take(shown, a) EXCEPT !.loading = FALSE, !.validation = [of |-> b.of, checked |-> b.val]]
      ELSE [shown EXCEPT !.asks = (@ \ {a}) \cup {b}]

\* One of the two requests of a load is answered; the second one shows both.
LedgerTogether(pg, a, b) ==
  IF b.recs # NoAnswer /\ b.val # NoAnswer
  THEN [Take(pg, a) EXCEPT !.records = b.recs, !.recordsOf = b.of, !.loading = FALSE,
                           !.validation = [of |-> b.of, checked |-> b.val]]
  ELSE [pg EXCEPT !.asks = (@ \ {a}) \cup {b}]

LedgerAnswered ==
  /\ page.name = "ledger"
  /\ \E a \in page.asks :
       \/ /\ a.recs = NoAnswer
          /\ page' = LedgerTogether(page, a, [a EXCEPT !.recs = chain[a.of]])
       \/ /\ a.val = NoAnswer
          /\ page' = LedgerTogether(page, a, [a EXCEPT !.val = chain[a.of]])
  /\ UNCHANGED <<evidence, chain>>

LedgerFailed ==
  /\ page.name = "ledger"
  /\ \E a \in page.asks : page' = [Take(page, a) EXCEPT !.error = TRUE, !.loading = FALSE]
  /\ UNCHANGED <<evidence, chain>>

\* The banner speaks of the selected case, whichever case was validated.
LedgerBanner(pg) == [under |-> pg.selectedCase, verdict |-> pg.validation]

LedgerTable(pg) ==
  IF pg.loading \/ pg.error THEN "none"
  ELSE IF pg.records # {} THEN "rows"
  ELSE IF pg.selectedCase # NoAnswer THEN "No ledger records found" ELSE "none"

\* Somebody else's upload goes through while this tab is looking on.
IngestedElsewhere ==
  /\ \E id \in FreshIds, c \in Cases, f \in Forms :
       /\ evidence' = evidence \cup {[id |-> id, case |-> c, status |-> "INGESTED", form |-> f]}
       /\ chain' = [chain EXCEPT ![c] = @ \cup {id}]
  /\ UNCHANGED page

(***************************************************************************)
(* Properties.                                                             *)
(***************************************************************************)
\* Once nothing is awaited, nothing failed and no answer overtook another, the
\* case page and the artifact list show the rows of what their header names,
\* every row there was when they asked, and "nothing there" only if there was
\* nothing; a filter only hides.
ListShowsItsCase ==
  page.name \in {"cases", "artifacts"} /\ Settled /\ ~page.error =>
    LET view == IF page.name = "cases" THEN CasesView(page) ELSE ArtifactListView(page) IN
    /\ \A r \in view.rows : view.title \in {Everything, r.case}
    /\ page.known \cap (IF page.query THEN Matching ELSE Artifacts) \subseteq Ids(view.rows)
    /\ view.table = "nothing there" => page.known = {}
    /\ Cardinality(view.rows) <= view.badge

\* The artifact page shows metadata and timeline of the artifact in its URL once
\* nothing is awaited, unless an answer came late or a section could not be
\* loaded.
DetailShowsItsArtifact ==
  page.name = "detail" /\ Settled =>
    /\ page.fetchError \/ MetadataSection(page) = page.of
    /\ page.hidden \/ TimelineSection(page) = page.of

\* The verdict box holds the outcome of the file submitted last, never while one
\* is being verified and never a result beside an error; and a file was
\* submitted for the artifact in the URL, unless the URL changed under the page.
VerdictOfLastSubmission ==
  page.name = "detail" =>
    LET box == VerifySection(page) IN
    /\ box.result = NoAnswer \/ box.error = NoAnswer
    /\ \A v \in {box.result, box.error} \ {NoAnswer} :
         box.button /\ v.no = page.submitted /\ (page.jumped \/ v.of = page.of)

\* The ledger page's table and verdict always come from one and the same load;
\* once nothing is awaited, nothing failed and no load overtook another, they
\* are those of the selected case and miss nothing that was in the chain when
\* the case was selected.
LedgerShowsItsCase ==
  page.name = "ledger" =>
    LET banner == LedgerBanner(page) IN
    /\ (banner.verdict = NoAnswer) = (page.recordsOf = NoAnswer)
    /\ banner.verdict # NoAnswer => banner.verdict.of = page.recordsOf
    /\ Settled /\ ~page.error /\ page.selectedCase # NoAnswer =>
         /\ banner.verdict # NoAnswer /\ banner.verdict.of = banner.under
         /\ page.since \subseteq banner.verdict.checked
         /\ page.since \subseteq page.records
         /\ LedgerTable(page) = "No ledger records found" => page.since = {}
=============================================================================
