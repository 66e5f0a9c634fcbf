------------------------- MODULE ReadingPagesProofs -------------------------
(***************************************************************************)
(* What the reading pages keep, page by page: each operation of a page     *)
(* leads from a page that satisfies its invariant to one that does, and a  *)
(* page that satisfies it shows what it should.  PagesProofs puts these    *)
(* lemmas together for the tab.                                            *)
(*                                                                         *)
(* Asks are numbered, so that of each kind there is a latest one: either   *)
(* it is still under way, and then it is for what the page stands at, or   *)
(* it has been answered, and then an answer to any other of its kind is a  *)
(* late one.                                                               *)
(***************************************************************************)
EXTENDS ReadingPages, FiniteSetTheorems, TLAPS

Asks(kinds, things) == [no : Nat, kind : kinds, of : things]
Answers(kinds) == [kind : kinds, no : Nat]

\* The latest ask of a kind is under way, and is for thing.
Pending(pg, kind, thing) ==
    \E a \in pg.asks :
        /\ a.kind = kind /\ a.of = thing
        /\ \A c \in pg.asks \ {a} : c.kind = kind => c.no < a.no
        /\ \A b \in pg.answered : b.kind = kind => b.no <= a.no

\* The latest ask of a kind has been answered.
Over(pg, kind) ==
    \E b \in pg.answered :
        /\ b.kind = kind
        /\ \A c \in pg.asks : c.kind = kind => c.no < b.no
        /\ \A c \in pg.answered : c.kind = kind => c.no <= b.no

\* What Take leaves of the asks and the answers.
Taken(pg, a, after) ==
    /\ after.asks = pg.asks \ {a}
    /\ after.answered = pg.answered \cup {[kind |-> a.kind, no |-> a.no]}
    /\ after.late = (pg.late \/ \E b \in pg.answered : b.kind = a.kind /\ b.no > a.no)
    /\ after.last = pg.last

\* Numbers are numbers, and none is above the last one given.
Numbers(pg) ==
    /\ pg.last \in Nat
    /\ \A c \in pg.asks \cup pg.answered : c.no \in Nat /\ c.no <= pg.last

LEMMA TakenNumbers ==
    ASSUME NEW pg, Numbers(pg), NEW a \in pg.asks, NEW after, Taken(pg, a, after)
    PROVE  Numbers(after)
<1> DEFINE x == [kind |-> a.kind, no |-> a.no]
<1>1. x.no = a.no /\ after.asks = pg.asks \ {a} /\ after.answered = pg.answered \cup {x}
    BY DEF Taken
<1> HIDE DEF x
<1> QED
    BY <1>1 DEF Taken, Numbers

\* Taking the latest answer ends the waiting; another one changes nothing ...
LEMMA TakenPending ==
    ASSUME NEW pg, NEW a \in pg.asks, NEW after, Taken(pg, a, after), Numbers(pg),
           NEW kind, NEW thing, Pending(pg, kind, thing)
    PROVE  \/ Pending(after, kind, thing)
           \/ Over(after, kind) /\ a.kind = kind /\ a.of = thing
<1> DEFINE x == [kind |-> a.kind, no |-> a.no]
<1>1. /\ x.kind = a.kind /\ x.no = a.no
      /\ after.asks = pg.asks \ {a} /\ after.answered = pg.answered \cup {x}
    BY DEF Taken
<1> HIDE DEF x
<1>2. PICK c \in pg.asks :
         /\ c.kind = kind /\ c.of = thing
         /\ \A d \in pg.asks \ {c} : d.kind = kind => d.no < c.no
         /\ \A b \in pg.answered : b.kind = kind => b.no <= c.no
    BY DEF Pending
<1>3. \A d \in pg.asks : d.no \in Nat
    BY DEF Numbers
<1>4. \A b \in after.answered : b.kind = kind => b.no <= c.no
    BY <1>1, <1>2, <1>3
<1>5. CASE a = c
    BY <1>1, <1>2, <1>4, <1>5 DEF Over
<1>6. CASE a # c
    BY <1>1, <1>2, <1>4, <1>6 DEF Pending
<1> QED
    BY <1>5, <1>6

\* ... but makes the page late, if it is of that kind and the latest has come.
LEMMA TakenOver ==
    ASSUME NEW pg, NEW a \in pg.asks, NEW after, Taken(pg, a, after), Numbers(pg),
           NEW kind, Over(pg, kind)
    PROVE  Over(after, kind) /\ (a.kind = kind => after.late)
<1> DEFINE x == [kind |-> a.kind, no |-> a.no]
<1>1. /\ x.kind = a.kind /\ x.no = a.no
      /\ after.asks = pg.asks \ {a} /\ after.answered = pg.answered \cup {x}
    BY DEF Taken
<1> HIDE DEF x
<1>2. PICK b \in pg.answered :
         /\ b.kind = kind
         /\ \A c \in pg.asks : c.kind = kind => c.no < b.no
         /\ \A c \in pg.answered : c.kind = kind => c.no <= b.no
    BY DEF Over
<1>3. b.no \in Nat /\ a.no \in Nat
    BY DEF Numbers
<1>4. a.kind = kind => a.no < b.no
    BY <1>2
<1>5. a.kind = kind => after.late
    BY <1>2, <1>3, <1>4 DEF Taken
<1>6. \A c \in after.answered : c.kind = kind => c.no <= b.no
    BY <1>1, <1>2, <1>3, <1>4
<1> QED
    BY <1>1, <1>2, <1>5, <1>6 DEF Over

\* Asking numbers on; a new ask is the latest of its kind, the other kinds keep
\* theirs.
Asked(pg, new, after) ==
    /\ after.asks = pg.asks \cup new
    /\ after.answered = pg.answered
    /\ after.late = pg.late
    /\ after.last = pg.last + 1
    /\ \A a \in new : a.no = pg.last + 1

LEMMA AskedNumbers ==
    ASSUME NEW pg, Numbers(pg), NEW new, NEW after, Asked(pg, new, after)
    PROVE  Numbers(after)
BY DEF Numbers, Asked

LEMMA AskedPending ==
    ASSUME NEW pg, Numbers(pg), NEW new, NEW after, Asked(pg, new, after),
           NEW a \in new, \A c \in new : c.kind = a.kind => c = a
    PROVE  Pending(after, a.kind, a.of)
<1>1. a.no = pg.last + 1 /\ a \in after.asks
    BY DEF Asked
<1>2. \A c \in after.asks \ {a} : c.kind = a.kind => c.no < a.no
    BY <1>1 DEF Asked, Numbers
<1>3. \A b \in after.answered : b.kind = a.kind => b.no <= a.no
    BY <1>1 DEF Asked, Numbers
<1> QED
    BY <1>1, <1>2, <1>3 DEF Pending

LEMMA AskedOthers ==
    ASSUME NEW pg, NEW new, NEW after, Asked(pg, new, after),
           NEW kind, \A a \in new : a.kind # kind
    PROVE  /\ \A thing : Pending(pg, kind, thing) => Pending(after, kind, thing)
           /\ Over(pg, kind) => Over(after, kind)
BY DEF Asked, Pending, Over

\* Only the rest of the page changes.
Stands(pg, after) ==
    after.asks = pg.asks /\ after.answered = pg.answered /\ after.late = pg.late

LEMMA StandsStill ==
    ASSUME NEW pg, NEW after, Stands(pg, after), NEW kind
    PROVE  /\ \A thing : Pending(pg, kind, thing) => Pending(after, kind, thing)
           /\ Over(pg, kind) => Over(after, kind)
BY DEF Stands, Pending, Over

-----------------------------------------------------------------------------
(* The tables *)

\* The tables of the services: rows of evidence one per id, finitely many.
DataInv ==
    /\ evidence \subseteq Rows /\ IsFiniteSet(evidence)
    /\ \A r, s \in evidence : r.id = s.id => r = s
    /\ chain \in [Cases -> SUBSET Artifacts]

\* Rows of evidence and records of the ledger stay; a row changes once at most.
DataGrows ==
    /\ \A r \in evidence : \E s \in evidence' : s.id = r.id /\ s.case = r.case
    /\ \A r \in evidence : r.status # "PENDING" => r \in evidence'
    /\ \A c \in Cases : chain[c] \subseteq chain'[c]

LEMMA ListedTyped ==
    ASSUME DataInv, NEW of \in Cases \cup {Everything}
    PROVE  /\ Listed(of) \subseteq Rows /\ IsFiniteSet(Listed(of))
           /\ Ids(Listed(of)) \subseteq Artifacts
           /\ \A r \in Listed(of) : of \in {Everything, r.case}
<1>1. Listed(of) \subseteq evidence
    BY DEF Listed, RowsOf
<1>2. IsFiniteSet(Listed(of))
    BY <1>1, FS_Subset DEF DataInv
<1>3. Ids(Listed(of)) \subseteq Artifacts
    BY <1>1 DEF DataInv, Ids, Rows
<1>4. \A r \in Listed(of) : of \in {Everything, r.case}
    BY DEF Listed, RowsOf
<1> QED
    BY <1>1, <1>2, <1>3, <1>4 DEF DataInv

LEMMA ListedGrows ==
    ASSUME DataGrows, NEW of
    PROVE  Ids(Listed(of)) \subseteq Ids(Listed(of))'
BY DEF DataGrows, Ids, Listed, RowsOf

-----------------------------------------------------------------------------
(* Case page and artifact list *)

ListPages ==
    [name : {"cases", "artifacts"}, of : Cases \cup {Everything}, artifacts : SUBSET Rows,
     loading : BOOLEAN, error : BOOLEAN, query : BOOLEAN, known : SUBSET Artifacts,
     asks : SUBSET Asks({"list"}, Cases \cup {Everything}), last : Nat,
     answered : SUBSET Answers({"list"}), late : BOOLEAN]

ListShown(pg) ==
    \/ pg.error
    \/ /\ ~pg.loading
       /\ pg.known \subseteq Ids(pg.artifacts)
       /\ \A r \in pg.artifacts : pg.of \in {Everything, r.case}

ListInv(pg) ==
    /\ Numbers(pg)
    /\ Pending(pg, "list", pg.of) \/ (Over(pg, "list") /\ (pg.late \/ ListShown(pg)))
    /\ pg.loading => pg.asks # {}
    /\ pg.artifacts \subseteq Rows /\ IsFiniteSet(pg.artifacts)

LEMMA ListMounted ==
    ASSUME DataInv, NEW name \in {"cases", "artifacts"}, NEW of \in Cases \cup {Everything}
    PROVE  /\ MountedList(name, of) \in ListPages
           /\ ListInv(MountedList(name, of))
           /\ MountedList(name, of).known = Ids(Listed(of))
           /\ MountedList(name, of).of = of
<1> DEFINE pg == MountedList(name, of)
           ask == NewAsk(1, "list", of)
<1>1. ask \in Asks({"list"}, Cases \cup {Everything}) /\ ask.no = 1 /\ ask.kind = "list" /\ ask.of = of
    BY DEF NewAsk, Asks
<1>2. Ids(Listed(of)) \subseteq Artifacts
    BY ListedTyped
<1>3. /\ pg \in ListPages
      /\ pg.asks = {ask} /\ pg.answered = {} /\ pg.last = 1 /\ pg.of = of
      /\ pg.artifacts = {} /\ pg.known = Ids(Listed(of))
    BY <1>1, <1>2 DEF MountedList, ListPages
<1> HIDE DEF pg, ask
<1>4. Numbers(pg)
    BY <1>1, <1>3 DEF Numbers
<1>5. Pending(pg, "list", pg.of)
    BY <1>1, <1>3 DEF Pending
<1>6. IsFiniteSet({})
    BY FS_EmptySet
<1> QED
    BY <1>1, <1>3, <1>4, <1>5, <1>6 DEF ListInv, pg

LEMMA ListRaised ==
    ASSUME NEW pg \in ListPages, ListInv(pg), NEW n \in Nat,
           NEW after, after = [pg EXCEPT !.last = @ + n]
    PROVE  after \in ListPages /\ ListInv(after) /\ after.known = pg.known /\ after.of = pg.of
<1>1. pg.last \in Nat /\ pg.last + n \in Nat
    BY DEF ListPages
<1>2. after \in ListPages
    BY <1>1 DEF ListPages
<1>3. /\ after.asks = pg.asks /\ after.answered = pg.answered /\ after.late = pg.late
      /\ after.last = pg.last + n /\ after.of = pg.of /\ after.artifacts = pg.artifacts
      /\ after.known = pg.known /\ after.error = pg.error /\ after.loading = pg.loading
    BY DEF ListPages
<1>4. Numbers(after)
    BY <1>1, <1>3 DEF ListInv, Numbers
<1>5. ListShown(pg) => ListShown(after)
    BY <1>3 DEF ListShown
<1> QED
    BY <1>2, <1>3, <1>4, <1>5, StandsStill DEF ListInv, Stands

LEMMA ListAsks ==
    ASSUME DataInv, NEW pg \in ListPages, ListInv(pg), NEW c \in Cases
    PROVE  /\ CasesEffect(pg, c) \in ListPages /\ ListInv(CasesEffect(pg, c))
           /\ CasesEffect(pg, c).of = c /\ CasesEffect(pg, c).known \subseteq Ids(Listed(c))
<1> DEFINE new == NewAsk(pg.last + 1, "list", c)
           after == CasesEffect(pg, c)
<1>1. pg.last \in Nat /\ pg.last + 1 \in Nat
    BY DEF ListPages
<1>2. new \in Asks({"list"}, Cases \cup {Everything})
      /\ new.no = pg.last + 1 /\ new.kind = "list" /\ new.of = c
    BY <1>1 DEF NewAsk, Asks
<1>3. Ids(RowsOf(c)) \in SUBSET Artifacts
    BY DEF RowsOf, Ids, DataInv, Rows
<1>4. Ids(RowsOf(c)) \subseteq Ids(Listed(c))
    BY DEF Listed, RowsOf, Ids
<1>5. after = [pg EXCEPT !.asks = @ \cup {new}, !.last = @ + 1, !.of = c, !.known = Ids(RowsOf(c))]
    BY DEF CasesEffect, Ask, ListPages
<1>6. after \in ListPages
    <2>1. pg.asks \cup {new} \in SUBSET Asks({"list"}, Cases \cup {Everything})
        BY <1>2 DEF ListPages
    <2> HIDE DEF new, after
    <2> QED
        BY <1>1, <1>3, <1>5, <2>1 DEF ListPages
<1>7. /\ after.asks = pg.asks \cup {new} /\ after.answered = pg.answered /\ after.late = pg.late
      /\ after.last = pg.last + 1 /\ after.of = c /\ after.artifacts = pg.artifacts
      /\ after.known = Ids(RowsOf(c))
    <2> HIDE DEF new, after
    <2> QED
        BY <1>5 DEF ListPages
<1> HIDE DEF new, after
<1>8. Asked(pg, {new}, after)
    BY <1>2, <1>7 DEF Asked
<1>9. Numbers(after) /\ Pending(after, "list", c)
    BY <1>2, <1>8, AskedNumbers, AskedPending DEF ListInv
<1>10. after.asks # {}
    BY <1>7
<1> QED
    BY <1>4, <1>6, <1>7, <1>9, <1>10 DEF ListInv, after

LEMMA ListTakes ==
    ASSUME DataInv, NEW pg \in ListPages, ListInv(pg), pg.known \subseteq Ids(Listed(pg.of)),
           NEW a \in pg.asks, NEW after,
           \/ after = [Take(pg, a) EXCEPT !.artifacts = Listed(a.of), !.loading = FALSE]
           \/ after = [Take(pg, a) EXCEPT !.error = TRUE, !.loading = FALSE]
    PROVE  after \in ListPages /\ ListInv(after) /\ after.known = pg.known /\ after.of = pg.of
<1> DEFINE x == [kind |-> a.kind, no |-> a.no]
           late == pg.late \/ \E b \in pg.answered : b.kind = a.kind /\ b.no > a.no
<1>1. a.kind = "list" /\ a.no \in Nat /\ a.of \in Cases \cup {Everything}
    BY DEF ListPages, Asks
<1>2. x \in Answers({"list"}) /\ late \in BOOLEAN
    BY <1>1 DEF Answers, ListPages
<1>3. /\ Listed(a.of) \in SUBSET Rows /\ IsFiniteSet(Listed(a.of))
      /\ \A r \in Listed(a.of) : a.of \in {Everything, r.case}
    BY <1>1, ListedTyped
<1>4. \/ after = [pg EXCEPT !.asks = @ \ {a}, !.late = late, !.answered = @ \cup {x},
                             !.artifacts = Listed(a.of), !.loading = FALSE]
      \/ after = [pg EXCEPT !.asks = @ \ {a}, !.late = late, !.answered = @ \cup {x},
                             !.error = TRUE, !.loading = FALSE]
    BY DEF Take, ListPages
<1>5. pg.asks \ {a} \in SUBSET Asks({"list"}, Cases \cup {Everything})
      /\ pg.answered \cup {x} \in SUBSET Answers({"list"})
    BY <1>2 DEF ListPages
<1> HIDE DEF late
<1>6. /\ after \in ListPages
      /\ after.asks = pg.asks \ {a} /\ after.answered = pg.answered \cup {x}
      /\ after.late = late /\ after.last = pg.last
      /\ after.of = pg.of /\ after.known = pg.known /\ after.loading = FALSE
      /\ \/ after.artifacts = Listed(a.of)
         \/ after.artifacts = pg.artifacts /\ after.error
    <2> HIDE DEF x
    <2>1. CASE after = [pg EXCEPT !.asks = @ \ {a}, !.late = late, !.answered = @ \cup {x},
                             !.artifacts = Listed(a.of), !.loading = FALSE]
        BY <1>2, <1>3, <1>5, <2>1 DEF ListPages
    <2>2. CASE after = [pg EXCEPT !.asks = @ \ {a}, !.late = late, !.answered = @ \cup {x},
                             !.error = TRUE, !.loading = FALSE]
        BY <1>2, <1>3, <1>5, <2>2 DEF ListPages
    <2> QED
        BY <1>4, <2>1, <2>2
<1>7. Taken(pg, a, after)
    BY <1>6 DEF Taken, late
<1>8. Numbers(pg) /\ Numbers(after)
    BY <1>7, TakenNumbers DEF ListInv
<1>9. a.of = pg.of => ListShown(after)
    BY <1>3, <1>6 DEF ListShown
<1>10. Pending(after, "list", pg.of) \/ (Over(after, "list") /\ (after.late \/ ListShown(after)))
    BY <1>1, <1>7, <1>8, <1>9, TakenPending, TakenOver DEF ListInv
<1> QED
    BY <1>3, <1>6, <1>8, <1>10 DEF ListInv

\* Typing into the filter.
LEMMA ListTyped ==
    ASSUME NEW pg \in ListPages, ListInv(pg), NEW after, after = [pg EXCEPT !.query = ~@]
    PROVE  after \in ListPages /\ ListInv(after) /\ after.known = pg.known /\ after.of = pg.of
<1>1. /\ after \in ListPages
      /\ after.asks = pg.asks /\ after.answered = pg.answered /\ after.late = pg.late
      /\ after.last = pg.last /\ after.of = pg.of /\ after.artifacts = pg.artifacts
      /\ after.known = pg.known /\ after.error = pg.error /\ after.loading = pg.loading
    BY DEF ListPages
<1>2. Numbers(after)
    BY <1>1 DEF ListInv, Numbers
<1>3. ListShown(pg) => ListShown(after)
    BY <1>1 DEF ListShown
<1> QED
    BY <1>1, <1>2, <1>3, StandsStill DEF ListInv, Stands

\* A settled list shows its case.
LEMMA ListShows ==
    ASSUME page \in ListPages, ListInv(page)
    PROVE  ListShowsItsCase
<1> SUFFICES ASSUME Settled, ~page.error
             PROVE  LET view == IF page.name = "cases" THEN CasesView(page)
                                ELSE ArtifactListView(page) IN
                    /\ \A r \in view.rows : view.title \in {Everything, r.case}
                    /\ page.known \cap (IF page.query THEN Matching ELSE Artifacts)
                         \subseteq Ids(view.rows)
                    /\ view.table = "nothing there" => page.known = {}
                    /\ Cardinality(view.rows) <= view.badge
    BY DEF ListShowsItsCase
<1>1. page.asks = {} /\ ~page.late
    BY DEF Settled
<1>2. /\ ~page.loading /\ page.known \subseteq Ids(page.artifacts)
      /\ \A r \in page.artifacts : page.of \in {Everything, r.case}
    BY <1>1 DEF ListInv, Pending, ListShown
<1>3. /\ filtered(page) \subseteq page.artifacts
      /\ page.known \cap (IF page.query THEN Matching ELSE Artifacts) \subseteq Ids(filtered(page))
    BY <1>2 DEF filtered, Ids
<1>4. Table(page) = "nothing there" => page.known = {}
    <2> SUFFICES ASSUME Table(page) = "nothing there" PROVE page.known = {}
        OBVIOUS
    <2>1. ~page.query /\ filtered(page) = {}
        BY <1>2 DEF Table
    <2> QED
        BY <1>2, <2>1 DEF filtered, Ids
<1>5. Cardinality(filtered(page)) <= Cardinality(page.artifacts)
    BY <1>3, FS_Subset DEF ListInv
<1> DEFINE view == IF page.name = "cases" THEN CasesView(page) ELSE ArtifactListView(page)
<1>6. /\ view.rows = filtered(page) /\ view.table = Table(page)
      /\ view.badge = Cardinality(page.artifacts)
      /\ view.title = page.of \/ view.title = Everything
    BY <1>2 DEF CasesView, ArtifactListView
<1> HIDE DEF view
<1>7. \A r \in view.rows : view.title \in {Everything, r.case}
    BY <1>2, <1>3, <1>6
<1> QED
    BY <1>3, <1>4, <1>5, <1>6, <1>7 DEF view

-----------------------------------------------------------------------------
(* Artifact page *)

DetailKinds == {"artifact", "timeline", "verify", "download"}
Verdicts == Asks({"verify"}, Artifacts) \cup {NoAnswer}
Shown == Artifacts \cup {NoAnswer}

DetailPages ==
    [name : {"detail"}, of : Artifacts, artifact : Shown, timeline : Shown,
     fetchError : BOOLEAN, verifyResult : Verdicts, verifyError : Verdicts,
     verifying : BOOLEAN, downloading : BOOLEAN, downloadError : BOOLEAN,
     submitted : Nat, jumped : BOOLEAN, hidden : BOOLEAN,
     asks : SUBSET Asks(DetailKinds, Artifacts), last : Nat,
     answered : SUBSET Answers(DetailKinds), late : BOOLEAN]

\* The box: a file is being verified, or the outcome of the last one is there.
VerdictHeld(pg) ==
    /\ \A a \in pg.asks : a.kind = "verify" =>
         pg.verifying /\ a.no = pg.submitted /\ (pg.jumped \/ a.of = pg.of)
    /\ \A a, b \in pg.asks : a.kind = "verify" /\ b.kind = "verify" => a = b
    /\ pg.verifying =>
         /\ pg.verifyResult = NoAnswer /\ pg.verifyError = NoAnswer
         /\ \E a \in pg.asks : a.kind = "verify"
    /\ pg.verifyResult = NoAnswer \/ pg.verifyError = NoAnswer
    /\ \A v \in {pg.verifyResult, pg.verifyError} \ {NoAnswer} :
         v.no = pg.submitted /\ (pg.jumped \/ v.of = pg.of)

DetailInv(pg) ==
    /\ Numbers(pg)
    /\ \/ Pending(pg, "artifact", pg.of)
       \/ Over(pg, "artifact") /\ (pg.late \/ pg.fetchError \/ pg.artifact = pg.of)
    /\ \/ Pending(pg, "timeline", pg.of)
       \/ Over(pg, "timeline") /\ (pg.late \/ pg.hidden \/ pg.timeline = pg.of)
    /\ VerdictHeld(pg)
    /\ pg.downloading => \E a \in pg.asks : a.kind = "download"

LEMMA DetailMounted ==
    ASSUME NEW id \in Artifacts
    PROVE  MountedDetail(id) \in DetailPages /\ DetailInv(MountedDetail(id))
<1> DEFINE pg == MountedDetail(id)
           row == NewAsk(1, "artifact", id)
           line == NewAsk(1, "timeline", id)
<1>1. /\ row \in Asks(DetailKinds, Artifacts) /\ line \in Asks(DetailKinds, Artifacts)
      /\ row.no = 1 /\ row.kind = "artifact" /\ row.of = id
      /\ line.no = 1 /\ line.kind = "timeline" /\ line.of = id
    BY DEF NewAsk, Asks, DetailKinds
<1>2. /\ pg \in DetailPages
      /\ pg.asks = {row, line} /\ pg.answered = {} /\ pg.last = 1 /\ pg.of = id
      /\ pg.verifyResult = NoAnswer /\ pg.verifyError = NoAnswer
      /\ pg.verifying = FALSE /\ pg.downloading = FALSE
    BY <1>1 DEF MountedDetail, DetailPages, Verdicts, Shown
<1> HIDE DEF pg, row, line
<1>3. Numbers(pg)
    BY <1>1, <1>2 DEF Numbers
<1>4. Pending(pg, "artifact", pg.of) /\ Pending(pg, "timeline", pg.of)
    BY <1>1, <1>2 DEF Pending
<1>5. VerdictHeld(pg)
    BY <1>1, <1>2 DEF VerdictHeld
<1> QED
    BY <1>2, <1>3, <1>4, <1>5 DEF DetailInv, pg

LEMMA DetailRaised ==
    ASSUME NEW pg \in DetailPages, DetailInv(pg), NEW n \in Nat,
           NEW after, after = [pg EXCEPT !.last = @ + n]
    PROVE  after \in DetailPages /\ DetailInv(after)
<1>1. pg.last \in Nat /\ pg.last + n \in Nat
    BY DEF DetailPages
<1>2. after \in DetailPages
    BY <1>1 DEF DetailPages
<1>3. /\ after.asks = pg.asks /\ after.answered = pg.answered /\ after.late = pg.late
      /\ after.last = pg.last + n /\ after.of = pg.of /\ after.artifact = pg.artifact
      /\ after.timeline = pg.timeline /\ after.fetchError = pg.fetchError
      /\ after.hidden = pg.hidden
    BY DEF DetailPages
<1>4. /\ after.verifying = pg.verifying /\ after.submitted = pg.submitted
      /\ after.verifyResult = pg.verifyResult /\ after.verifyError = pg.verifyError
      /\ after.jumped = pg.jumped /\ after.downloading = pg.downloading
    BY DEF DetailPages
<1>5. Numbers(after)
    BY <1>1, <1>3 DEF DetailInv, Numbers
<1>6. VerdictHeld(after)
    BY <1>3, <1>4 DEF DetailInv, VerdictHeld
<1> QED
    BY <1>2, <1>3, <1>4, <1>5, <1>6, StandsStill DEF DetailInv, Stands

\* The part of the page that one operation is not about.
SameBox(pg, after) ==
    /\ after.verifying = pg.verifying /\ after.submitted = pg.submitted
    /\ after.verifyResult = pg.verifyResult /\ after.verifyError = pg.verifyError

SameSections(pg, after) ==
    /\ after.artifact = pg.artifact /\ after.timeline = pg.timeline
    /\ after.fetchError = pg.fetchError /\ after.hidden = pg.hidden

LEMMA DetailJumps ==
    ASSUME NEW pg \in DetailPages, DetailInv(pg), NEW id \in Artifacts
    PROVE  DetailEffect(pg, id) \in DetailPages /\ DetailInv(DetailEffect(pg, id))
<1> DEFINE after == DetailEffect(pg, id)
           row == NewAsk(pg.last + 1, "artifact", id)
           line == NewAsk(pg.last + 1, "timeline", id)
<1>1. pg.last \in Nat /\ pg.last + 1 \in Nat
    BY DEF DetailPages
<1>2. /\ {row, line} \subseteq Asks(DetailKinds, Artifacts)
      /\ row.no = pg.last + 1 /\ row.kind = "artifact" /\ row.of = id
      /\ line.no = pg.last + 1 /\ line.kind = "timeline" /\ line.of = id
    BY <1>1 DEF NewAsk, Asks, DetailKinds
<1>3. after = [pg EXCEPT !.asks = (@ \cup {row}) \cup {line}, !.last = @ + 1, !.of = id,
                         !.jumped = TRUE, !.hidden = FALSE]
    BY DEF DetailEffect, Ask, DetailPages
<1>4. (pg.asks \cup {row}) \cup {line} \in SUBSET Asks(DetailKinds, Artifacts)
    BY <1>2 DEF DetailPages
<1> HIDE DEF after, row, line
<1>5. after \in DetailPages
    BY <1>1, <1>3, <1>4 DEF DetailPages
<1>6. /\ after.asks = (pg.asks \cup {row}) \cup {line}
      /\ after.answered = pg.answered /\ after.late = pg.late
      /\ after.last = pg.last + 1 /\ after.of = id /\ after.jumped = TRUE
      /\ after.downloading = pg.downloading
    BY <1>3 DEF DetailPages
<1>7. SameBox(pg, after)
    BY <1>3 DEF DetailPages, SameBox
<1>8. Asked(pg, {row, line}, after)
    BY <1>2, <1>6 DEF Asked
<1>9. row # line
    BY <1>2
<1>10. Numbers(after) /\ Pending(after, "artifact", id) /\ Pending(after, "timeline", id)
    <2>1. Pending(after, row.kind, row.of)
        BY <1>2, <1>8, <1>9, AskedPending DEF DetailInv
    <2>2. Pending(after, line.kind, line.of)
        BY <1>2, <1>8, <1>9, AskedPending DEF DetailInv
    <2> QED
        BY <1>2, <1>8, <2>1, <2>2, AskedNumbers DEF DetailInv
<1>11. VerdictHeld(after)
    BY <1>2, <1>6, <1>7 DEF DetailInv, VerdictHeld, SameBox
<1> QED
    BY <1>5, <1>6, <1>10, <1>11 DEF DetailInv, after

\* What taking an answer leaves of the page's fields, whatever else it changes.
LEMMA TakeFields ==
    ASSUME NEW pg \in DetailPages, NEW a \in pg.asks
    PROVE  /\ Take(pg, a) \in DetailPages
           /\ Taken(pg, a, Take(pg, a))
           /\ Take(pg, a).of = pg.of /\ Take(pg, a).jumped = pg.jumped
           /\ Take(pg, a).downloading = pg.downloading
           /\ SameBox(pg, Take(pg, a)) /\ SameSections(pg, Take(pg, a))
<1> DEFINE x == [kind |-> a.kind, no |-> a.no]
           late == pg.late \/ \E b \in pg.answered : b.kind = a.kind /\ b.no > a.no
           after == Take(pg, a)
<1>1. a.kind \in DetailKinds /\ a.no \in Nat
    BY DEF DetailPages, Asks
<1>2. /\ pg.asks \ {a} \in SUBSET Asks(DetailKinds, Artifacts)
      /\ pg.answered \cup {x} \in SUBSET Answers(DetailKinds)
      /\ late \in BOOLEAN
    BY <1>1 DEF DetailPages, Answers
<1>3. after = [pg EXCEPT !.asks = @ \ {a}, !.late = late, !.answered = @ \cup {x}]
    BY DEF Take
<1> HIDE DEF x, late, after
<1>4. after \in DetailPages
    BY <1>2, <1>3 DEF DetailPages
<1>5. /\ after.asks = pg.asks \ {a} /\ after.late = late /\ after.answered = pg.answered \cup {x}
      /\ after.last = pg.last /\ after.of = pg.of /\ after.jumped = pg.jumped
      /\ after.downloading = pg.downloading
    BY <1>3 DEF DetailPages
<1>6. SameBox(pg, after) /\ SameSections(pg, after)
    BY <1>3 DEF DetailPages, SameBox, SameSections
<1> QED
    BY <1>4, <1>5, <1>6 DEF Taken, x, late, after

\* Taking an answer of another kind leaves the box as it is.
LEMMA BoxKept ==
    ASSUME NEW pg, VerdictHeld(pg), NEW a \in pg.asks, a.kind # "verify", NEW after,
           after.asks = pg.asks \ {a}, SameBox(pg, after),
           after.of = pg.of, after.jumped = pg.jumped
    PROVE  VerdictHeld(after)
BY DEF VerdictHeld, SameBox

LEMMA DetailLoads ==
    ASSUME NEW pg \in DetailPages, DetailInv(pg), NEW a \in pg.asks, NEW after,
           \/ a.kind = "artifact" /\ after = [Take(pg, a) EXCEPT !.artifact = a.of]
           \/ a.kind = "timeline" /\ after = [Take(pg, a) EXCEPT !.timeline = a.of]
           \/ a.kind = "artifact" /\ after = [Take(pg, a) EXCEPT !.fetchError = TRUE]
           \/ a.kind = "timeline" /\ after = [Take(pg, a) EXCEPT !.hidden = TRUE]
    PROVE  after \in DetailPages /\ DetailInv(after)
<1> DEFINE mid == Take(pg, a)
<1>1. /\ mid \in DetailPages /\ Taken(pg, a, mid)
      /\ mid.of = pg.of /\ mid.jumped = pg.jumped /\ mid.downloading = pg.downloading
      /\ SameBox(pg, mid) /\ SameSections(pg, mid)
    BY TakeFields
<1>2. a.of \in Shown
    BY DEF DetailPages, Asks, Shown
<1> HIDE DEF mid
<1>3. /\ after \in DetailPages
      /\ after.asks = mid.asks /\ after.late = mid.late /\ after.answered = mid.answered
      /\ after.last = mid.last /\ after.of = mid.of /\ after.jumped = mid.jumped
      /\ after.downloading = mid.downloading
      /\ SameBox(mid, after)
    BY <1>1, <1>2 DEF DetailPages, SameBox, mid
<1>4. /\ a.kind # "timeline" => after.timeline = mid.timeline /\ after.hidden = mid.hidden
      /\ a.kind # "artifact" => after.artifact = mid.artifact /\ after.fetchError = mid.fetchError
      /\ a.kind = "artifact" => after.artifact = a.of \/ after.fetchError
      /\ a.kind = "timeline" => after.timeline = a.of \/ after.hidden
    BY <1>1 DEF DetailPages, mid
<1>5. Taken(pg, a, after) /\ Numbers(pg) /\ Numbers(after)
    BY <1>1, <1>3, TakenNumbers DEF Taken, DetailInv
<1>6. a.kind # "verify"
    OBVIOUS
<1>7. VerdictHeld(after)
    BY <1>1, <1>3, <1>6, BoxKept DEF DetailInv, SameBox, Taken
<1>8. /\ \A kind, thing : Pending(pg, kind, thing) =>
              Pending(after, kind, thing) \/ (Over(after, kind) /\ a.kind = kind /\ a.of = thing)
      /\ \A kind : Over(pg, kind) => Over(after, kind) /\ (a.kind = kind => after.late)
      /\ pg.late => after.late
    BY <1>5, TakenPending, TakenOver DEF Taken
<1>9. /\ a.kind # "timeline" => after.timeline = pg.timeline /\ after.hidden = pg.hidden
      /\ a.kind # "artifact" => after.artifact = pg.artifact /\ after.fetchError = pg.fetchError
    BY <1>1, <1>4 DEF SameSections
<1>10. \/ Pending(after, "artifact", pg.of)
       \/ Over(after, "artifact") /\ (after.late \/ after.fetchError \/ after.artifact = pg.of)
    BY <1>4, <1>8, <1>9 DEF DetailInv
<1>11. \/ Pending(after, "timeline", pg.of)
       \/ Over(after, "timeline") /\ (after.late \/ after.hidden \/ after.timeline = pg.of)
    BY <1>4, <1>8, <1>9 DEF DetailInv
<1>12. after.downloading => \E b \in after.asks : b.kind = "download"
    BY <1>1, <1>3 DEF DetailInv, Taken
<1> QED
    BY <1>1, <1>3, <1>5, <1>7, <1>10, <1>11, <1>12 DEF DetailInv

\* Taking leaves both latest asks and what is shown of them, unless the answer
\* is one of theirs.
LEMMA SectionsKept ==
    ASSUME NEW pg \in DetailPages, DetailInv(pg), NEW a \in pg.asks,
           a.kind \notin {"artifact", "timeline"},
           NEW after \in DetailPages, Taken(pg, a, after), SameSections(pg, after),
           after.of = pg.of
    PROVE  /\ \/ Pending(after, "artifact", after.of)
              \/ Over(after, "artifact")
                 /\ (after.late \/ after.fetchError \/ after.artifact = after.of)
           /\ \/ Pending(after, "timeline", after.of)
              \/ Over(after, "timeline")
                 /\ (after.late \/ after.hidden \/ after.timeline = after.of)
<1>1. Numbers(pg)
    BY DEF DetailInv
<1>2. /\ \A kind, thing : Pending(pg, kind, thing) =>
              Pending(after, kind, thing) \/ (Over(after, kind) /\ a.kind = kind /\ a.of = thing)
      /\ \A kind : Over(pg, kind) => Over(after, kind) /\ (a.kind = kind => after.late)
      /\ pg.late => after.late
    BY <1>1, TakenPending, TakenOver DEF Taken
<1> QED
    BY <1>2 DEF DetailInv, SameSections

LEMMA AskFields ==
    ASSUME NEW pg \in DetailPages, NEW kind \in DetailKinds, NEW of \in Artifacts
    PROVE  /\ Ask(pg, kind, of) \in DetailPages
           /\ Asked(pg, {NewAsk(pg.last + 1, kind, of)}, Ask(pg, kind, of))
           /\ Ask(pg, kind, of).of = pg.of /\ Ask(pg, kind, of).jumped = pg.jumped
           /\ Ask(pg, kind, of).downloading = pg.downloading
           /\ SameBox(pg, Ask(pg, kind, of)) /\ SameSections(pg, Ask(pg, kind, of))
<1> DEFINE new == NewAsk(pg.last + 1, kind, of)
           after == Ask(pg, kind, of)
<1>1. pg.last \in Nat /\ pg.last + 1 \in Nat
    BY DEF DetailPages
<1>2. new \in Asks(DetailKinds, Artifacts) /\ new.no = pg.last + 1
    BY <1>1 DEF NewAsk, Asks
<1>3. pg.asks \cup {new} \in SUBSET Asks(DetailKinds, Artifacts)
    BY <1>2 DEF DetailPages
<1>4. after = [pg EXCEPT !.asks = @ \cup {new}, !.last = @ + 1]
    BY DEF Ask
<1> HIDE DEF new, after
<1>5. after \in DetailPages
    BY <1>1, <1>3, <1>4 DEF DetailPages
<1>6. /\ after.asks = pg.asks \cup {new} /\ after.last = pg.last + 1
      /\ after.answered = pg.answered /\ after.late = pg.late
      /\ after.of = pg.of /\ after.jumped = pg.jumped /\ after.downloading = pg.downloading
    BY <1>4 DEF DetailPages
<1>7. SameBox(pg, after) /\ SameSections(pg, after)
    BY <1>4 DEF DetailPages, SameBox, SameSections
<1> QED
    BY <1>2, <1>5, <1>6, <1>7 DEF Asked, new, after

\* Asking for something else leaves the sections as they are.
LEMMA SectionsStand ==
    ASSUME NEW pg \in DetailPages, DetailInv(pg), NEW a, a.kind \notin {"artifact", "timeline"},
           NEW after \in DetailPages, Asked(pg, {a}, after), SameSections(pg, after),
           after.of = pg.of
    PROVE  /\ \/ Pending(after, "artifact", after.of)
              \/ Over(after, "artifact")
                 /\ (after.late \/ after.fetchError \/ after.artifact = after.of)
           /\ \/ Pending(after, "timeline", after.of)
              \/ Over(after, "timeline")
                 /\ (after.late \/ after.hidden \/ after.timeline = after.of)
<1>1. \A kind \in {"artifact", "timeline"} :
         /\ \A thing : Pending(pg, kind, thing) => Pending(after, kind, thing)
         /\ Over(pg, kind) => Over(after, kind)
    BY AskedOthers
<1> QED
    BY <1>1 DEF DetailInv, SameSections, Asked

LEMMA DetailVerifies ==
    ASSUME NEW pg \in DetailPages, DetailInv(pg), ~pg.verifying, NEW after,
           after = [Ask(pg, "verify", pg.of) EXCEPT
                      !.verifying = TRUE, !.verifyError = NoAnswer, !.verifyResult = NoAnswer,
                      !.submitted = pg.last + 1]
    PROVE  after \in DetailPages /\ DetailInv(after)
<1> DEFINE mid == Ask(pg, "verify", pg.of)
           new == NewAsk(pg.last + 1, "verify", pg.of)
<1>1. pg.of \in Artifacts /\ "verify" \in DetailKinds /\ pg.last + 1 \in Nat
    BY DEF DetailPages, DetailKinds
<1>2. /\ mid \in DetailPages /\ Asked(pg, {new}, mid)
      /\ mid.of = pg.of /\ mid.jumped = pg.jumped /\ mid.downloading = pg.downloading
      /\ SameSections(pg, mid)
    BY <1>1, AskFields
<1>3. new.kind = "verify" /\ new.no = pg.last + 1 /\ new.of = pg.of
    BY DEF NewAsk
<1> HIDE DEF mid, new
<1>4. /\ after \in DetailPages
      /\ after.asks = mid.asks /\ after.late = mid.late /\ after.answered = mid.answered
      /\ after.last = mid.last /\ after.of = mid.of /\ after.jumped = mid.jumped
      /\ after.downloading = mid.downloading
    BY <1>1, <1>2 DEF DetailPages, Verdicts, mid
<1>5. SameSections(pg, after)
    BY <1>2 DEF DetailPages, SameSections, mid
<1>6. /\ after.verifying = TRUE /\ after.submitted = pg.last + 1
      /\ after.verifyResult = NoAnswer /\ after.verifyError = NoAnswer
    BY <1>2 DEF DetailPages, mid
<1>7. Asked(pg, {new}, after)
    BY <1>2, <1>4 DEF Asked
<1>8. Numbers(after)
    BY <1>7, AskedNumbers DEF DetailInv
<1>9. VerdictHeld(after)
    BY <1>2, <1>3, <1>4, <1>6, <1>7 DEF DetailInv, VerdictHeld, Asked
<1>10. after.downloading => \E b \in after.asks : b.kind = "download"
    BY <1>2, <1>4, <1>7 DEF DetailInv, Asked
<1> QED
    BY <1>2, <1>3, <1>4, <1>5, <1>7, <1>8, <1>9, <1>10, SectionsStand DEF DetailInv

LEMMA DetailVerified ==
    ASSUME NEW pg \in DetailPages, DetailInv(pg), NEW a \in pg.asks, a.kind = "verify", NEW after,
           \/ after = [Take(pg, a) EXCEPT !.verifyResult = a, !.verifying = FALSE]
           \/ after = [Take(pg, a) EXCEPT !.verifyError = a, !.verifying = FALSE]
    PROVE  after \in DetailPages /\ DetailInv(after)
<1> DEFINE mid == Take(pg, a)
<1>1. /\ mid \in DetailPages /\ Taken(pg, a, mid)
      /\ mid.of = pg.of /\ mid.jumped = pg.jumped /\ mid.downloading = pg.downloading
      /\ SameBox(pg, mid) /\ SameSections(pg, mid)
    BY TakeFields
<1>2. a \in Verdicts
    BY DEF DetailPages, Asks, Verdicts
<1> HIDE DEF mid
<1>3. /\ after \in DetailPages
      /\ after.asks = mid.asks /\ after.late = mid.late /\ after.answered = mid.answered
      /\ after.last = mid.last /\ after.of = mid.of /\ after.jumped = mid.jumped
      /\ after.downloading = mid.downloading
    BY <1>1, <1>2 DEF DetailPages, mid
<1>4. SameSections(pg, after)
    BY <1>1 DEF DetailPages, SameSections, mid
<1>5. /\ after.verifying = FALSE /\ after.submitted = pg.submitted
      /\ \/ after.verifyResult = a /\ after.verifyError = pg.verifyError
         \/ after.verifyError = a /\ after.verifyResult = pg.verifyResult
    BY <1>1 DEF DetailPages, SameBox, mid
<1>6. Taken(pg, a, after) /\ Numbers(after)
    BY <1>1, <1>3, TakenNumbers DEF Taken, DetailInv
<1>7. /\ pg.verifying /\ a.no = pg.submitted /\ (pg.jumped \/ a.of = pg.of)
      /\ \A b \in pg.asks \ {a} : b.kind # "verify"
      /\ pg.verifyResult = NoAnswer /\ pg.verifyError = NoAnswer
    BY DEF DetailInv, VerdictHeld
<1>8. VerdictHeld(after)
    BY <1>1, <1>3, <1>5, <1>6, <1>7 DEF VerdictHeld, Taken
<1>9. after.downloading => \E b \in after.asks : b.kind = "download"
    BY <1>1, <1>3 DEF DetailInv, Taken
<1> QED
    BY <1>1, <1>3, <1>4, <1>6, <1>8, <1>9, SectionsKept DEF DetailInv

LEMMA DetailDownloads ==
    ASSUME NEW pg \in DetailPages, DetailInv(pg), pg.artifact # NoAnswer, NEW after,
           after = [Ask(pg, "download", pg.artifact) EXCEPT
                      !.downloading = TRUE, !.downloadError = FALSE]
    PROVE  after \in DetailPages /\ DetailInv(after)
<1> DEFINE mid == Ask(pg, "download", pg.artifact)
           new == NewAsk(pg.last + 1, "download", pg.artifact)
<1>1. pg.artifact \in Artifacts /\ "download" \in DetailKinds
    BY DEF DetailPages, DetailKinds, Shown
<1>2. /\ mid \in DetailPages /\ Asked(pg, {new}, mid)
      /\ mid.of = pg.of /\ mid.jumped = pg.jumped
      /\ SameBox(pg, mid) /\ SameSections(pg, mid)
    BY <1>1, AskFields
<1>3. new.kind = "download"
    BY DEF NewAsk
<1> HIDE DEF mid, new
<1>4. /\ after \in DetailPages
      /\ after.asks = mid.asks /\ after.late = mid.late /\ after.answered = mid.answered
      /\ after.last = mid.last /\ after.of = mid.of /\ after.jumped = mid.jumped
    BY <1>2 DEF DetailPages, mid
<1>5. SameSections(pg, after) /\ SameBox(pg, after)
    BY <1>2 DEF DetailPages, SameSections, SameBox, mid
<1>6. Asked(pg, {new}, after)
    BY <1>2, <1>4 DEF Asked
<1>7. Numbers(after)
    BY <1>6, AskedNumbers DEF DetailInv
<1>8. VerdictHeld(after)
    BY <1>2, <1>3, <1>4, <1>5, <1>6 DEF DetailInv, VerdictHeld, Asked, SameBox
<1>9. \E b \in after.asks : b.kind = "download"
    BY <1>3, <1>6 DEF Asked
<1> QED
    BY <1>2, <1>3, <1>4, <1>5, <1>6, <1>7, <1>8, <1>9, SectionsStand DEF DetailInv

LEMMA DetailDownloaded ==
    ASSUME NEW pg \in DetailPages, DetailInv(pg), NEW a \in pg.asks, a.kind = "download",
           NEW failed \in BOOLEAN, NEW after,
           after = [Take(pg, a) EXCEPT !.downloading = FALSE, !.downloadError = failed]
    PROVE  after \in DetailPages /\ DetailInv(after)
<1> DEFINE mid == Take(pg, a)
<1>1. /\ mid \in DetailPages /\ Taken(pg, a, mid)
      /\ mid.of = pg.of /\ mid.jumped = pg.jumped
      /\ SameBox(pg, mid) /\ SameSections(pg, mid)
    BY TakeFields
<1> HIDE DEF mid
<1>2. /\ after \in DetailPages
      /\ after.asks = mid.asks /\ after.late = mid.late /\ after.answered = mid.answered
      /\ after.last = mid.last /\ after.of = mid.of /\ after.jumped = mid.jumped
      /\ after.downloading = FALSE
    BY <1>1 DEF DetailPages, mid
<1>3. SameSections(pg, after) /\ SameBox(pg, after)
    BY <1>1 DEF DetailPages, SameSections, SameBox, mid
<1>4. Taken(pg, a, after)
    BY <1>1, <1>2 DEF Taken
<1>5. Numbers(pg) /\ Numbers(after)
    BY <1>4, TakenNumbers DEF DetailInv
<1>6. VerdictHeld(after)
    BY <1>1, <1>2, <1>3, BoxKept DEF DetailInv, Taken
<1> QED
    BY <1>1, <1>2, <1>3, <1>4, <1>5, <1>6, SectionsKept DEF DetailInv

\* A settled artifact page shows its artifact, and its box the last submission.
LEMMA DetailShows ==
    ASSUME page \in DetailPages, DetailInv(page)
    PROVE  DetailShowsItsArtifact /\ VerdictOfLastSubmission
<1>1. DetailShowsItsArtifact
    BY DEF DetailShowsItsArtifact, DetailInv, Pending, Settled, MetadataSection, TimelineSection
<1>2. VerdictHeld(page)
    BY DEF DetailInv
<1>3. page.verifying \in BOOLEAN
    BY DEF DetailPages
<1>4. \A v \in {page.verifyResult, page.verifyError} \ {NoAnswer} : ~page.verifying
    BY <1>2 DEF VerdictHeld
<1>5. VerdictOfLastSubmission
    BY <1>2, <1>3, <1>4 DEF VerdictOfLastSubmission, VerifySection, VerdictHeld
<1> QED
    BY <1>1, <1>5

-----------------------------------------------------------------------------
(* Dashboard *)

DashboardPages ==
    [name : {"dashboard"}, isAdmin : BOOLEAN, cases : SUBSET Cases, artifacts : SUBSET Rows,
     loading : BOOLEAN, gotCases : (SUBSET Cases) \cup {NoAnswer},
     gotArtifacts : (SUBSET Rows) \cup {NoAnswer},
     asks : {{}}, last : Nat, answered : {{}}, late : BOOLEAN]

DashboardInv(pg) == pg.loading => NoAnswer \in {pg.gotCases, pg.gotArtifacts}

LEMMA DashboardMounted ==
    ASSUME NEW b \in BOOLEAN
    PROVE  MountedDashboard(b) \in DashboardPages /\ DashboardInv(MountedDashboard(b))
BY DEF MountedDashboard, DashboardPages, DashboardInv

LEMMA DashboardRaised ==
    ASSUME NEW pg \in DashboardPages, DashboardInv(pg), NEW n \in Nat,
           NEW after, after = [pg EXCEPT !.last = @ + n]
    PROVE  after \in DashboardPages /\ DashboardInv(after)
<1>1. pg.last \in Nat /\ pg.last + n \in Nat
    BY DEF DashboardPages
<1> QED
    BY <1>1 DEF DashboardPages, DashboardInv

LEMMA DashboardGets ==
    ASSUME NEW pg \in DashboardPages
    PROVE  DashboardTogether(pg) \in DashboardPages /\ DashboardInv(DashboardTogether(pg))
<1>1. CASE pg.gotCases # NoAnswer /\ pg.gotArtifacts # NoAnswer
    <2> DEFINE after == [pg EXCEPT !.cases = pg.gotCases, !.artifacts = pg.gotArtifacts,
                                   !.loading = FALSE]
    <2>1. pg.gotCases \in SUBSET Cases /\ pg.gotArtifacts \in SUBSET Rows
        BY <1>1 DEF DashboardPages
    <2>2. after \in DashboardPages /\ after.loading = FALSE
        BY <2>1 DEF DashboardPages
    <2>3. DashboardTogether(pg) = after
        BY <1>1 DEF DashboardTogether
    <2> HIDE DEF after
    <2> QED
        BY <2>2, <2>3 DEF DashboardInv
<1>2. CASE ~(pg.gotCases # NoAnswer /\ pg.gotArtifacts # NoAnswer)
    <2>1. DashboardTogether(pg) = pg
        BY <1>2 DEF DashboardTogether
    <2> QED
        BY <1>2, <2>1 DEF DashboardInv
<1> QED
    BY <1>1, <1>2

LEMMA DashboardSteps ==
    ASSUME DataInv, page \in DashboardPages, DashboardInv(page),
           DashboardAnswered \/ DashboardFailed
    PROVE  page' \in DashboardPages /\ DashboardInv(page')
<1>1. CASE DashboardFailed
    <2>1. page' = [page EXCEPT !.loading = FALSE]
        BY <1>1 DEF DashboardFailed
    <2> QED
        BY <2>1 DEF DashboardPages, DashboardInv
<1>2. CASE page' = DashboardTogether([page EXCEPT !.gotCases = Cases])
    <2>1. [page EXCEPT !.gotCases = Cases] \in DashboardPages
        BY DEF DashboardPages
    <2> QED
        BY <1>2, <2>1, DashboardGets
<1>3. CASE page' = DashboardTogether([page EXCEPT !.gotArtifacts = evidence])
    <2>1. [page EXCEPT !.gotArtifacts = evidence] \in DashboardPages
        BY DEF DashboardPages, DataInv
    <2> QED
        BY <1>3, <2>1, DashboardGets
<1> QED
    BY <1>1, <1>2, <1>3 DEF DashboardAnswered

-----------------------------------------------------------------------------
(* Ledger page *)

Part == (SUBSET Artifacts) \cup {NoAnswer}
Loads == [no : Nat, kind : {"load"}, of : Cases, recs : Part, val : Part]
Validations == [of : Cases, checked : SUBSET Artifacts]

LedgerPages ==
    [name : {"ledger"}, cases : SUBSET Cases, casesAsked : BOOLEAN,
     selectedCase : Cases \cup {NoAnswer}, records : SUBSET Artifacts,
     recordsOf : Cases \cup {NoAnswer}, validation : Validations \cup {NoAnswer},
     loading : BOOLEAN, error : BOOLEAN, since : SUBSET Artifacts,
     asks : SUBSET Loads, last : Nat, answered : SUBSET Answers({"load"}), late : BOOLEAN]

\* The latest load is that of the selected case, and misses nothing so far.
LoadUnderWay(pg) ==
    \E a \in pg.asks :
        /\ a.of = pg.selectedCase
        /\ a.recs = NoAnswer \/ pg.since \subseteq a.recs
        /\ a.val = NoAnswer \/ pg.since \subseteq a.val
        /\ \A c \in pg.asks \ {a} : c.no < a.no
        /\ \A b \in pg.answered : b.no <= a.no

LedgerShown(pg) ==
    /\ pg.validation # NoAnswer /\ pg.validation.of = pg.selectedCase
    /\ pg.since \subseteq pg.validation.checked
    /\ pg.since \subseteq pg.records

LedgerInv(pg) ==
    /\ Numbers(pg)
    /\ pg.loading => pg.asks # {}
    /\ (pg.validation = NoAnswer) = (pg.recordsOf = NoAnswer)
    /\ pg.validation # NoAnswer => pg.validation.of = pg.recordsOf
    /\ pg.selectedCase # NoAnswer =>
         \/ LoadUnderWay(pg)
         \/ Over(pg, "load") /\ (pg.late \/ pg.error \/ LedgerShown(pg))

\* Nothing that was in the chain when the case was selected has left it.
SinceInChain(pg) == pg.selectedCase # NoAnswer => pg.since \subseteq chain[pg.selectedCase]

LEMMA LedgerMounted ==
    /\ MountedLedger \in LedgerPages /\ LedgerInv(MountedLedger)
    /\ SinceInChain(MountedLedger)
<1>1. /\ MountedLedger \in LedgerPages
      /\ MountedLedger.asks = {} /\ MountedLedger.answered = {} /\ MountedLedger.last = 0
      /\ MountedLedger.selectedCase = NoAnswer /\ MountedLedger.validation = NoAnswer
      /\ MountedLedger.recordsOf = NoAnswer /\ MountedLedger.loading = FALSE
    BY DEF MountedLedger, LedgerPages
<1> QED
    BY <1>1 DEF LedgerInv, Numbers, SinceInChain

\* What of the page its asks and what it shows depend on.
SameLedger(pg, after) ==
    /\ after.selectedCase = pg.selectedCase /\ after.since = pg.since
    /\ after.validation = pg.validation /\ after.recordsOf = pg.recordsOf
    /\ after.records = pg.records

LEMMA LedgerRaised ==
    ASSUME NEW pg \in LedgerPages, LedgerInv(pg), SinceInChain(pg), NEW n \in Nat,
           NEW after, after = [pg EXCEPT !.last = @ + n]
    PROVE  after \in LedgerPages /\ LedgerInv(after) /\ SinceInChain(after)
<1>1. pg.last \in Nat /\ pg.last + n \in Nat
    BY DEF LedgerPages
<1>2. after \in LedgerPages
    BY <1>1 DEF LedgerPages
<1>3. /\ after.asks = pg.asks /\ after.answered = pg.answered /\ after.late = pg.late
      /\ after.last = pg.last + n /\ after.loading = pg.loading /\ after.error = pg.error
      /\ SameLedger(pg, after)
    BY DEF LedgerPages, SameLedger
<1>4. Numbers(after)
    BY <1>1, <1>3 DEF LedgerInv, Numbers
<1>5. (LoadUnderWay(pg) => LoadUnderWay(after)) /\ (LedgerShown(pg) => LedgerShown(after))
    BY <1>3 DEF LoadUnderWay, LedgerShown, SameLedger
<1>6. Over(pg, "load") => Over(after, "load")
    BY <1>3 DEF Over
<1>7. SinceInChain(after)
    BY <1>3 DEF SinceInChain, SameLedger
<1> QED
    BY <1>2, <1>3, <1>4, <1>5, <1>6, <1>7 DEF LedgerInv, SameLedger

\* Selecting a case starts from nothing.
LEMMA LedgerSelects ==
    ASSUME DataInv, NEW pg \in LedgerPages, LedgerInv(pg), NEW c \in Cases
    PROVE  /\ LedgerEffect(pg, c) \in LedgerPages /\ LedgerInv(LedgerEffect(pg, c))
           /\ SinceInChain(LedgerEffect(pg, c))
<1> DEFINE new == [no |-> pg.last + 1, kind |-> "load", of |-> c,
                   recs |-> NoAnswer, val |-> NoAnswer]
           after == LedgerEffect(pg, c)
<1>1. pg.last \in Nat /\ pg.last + 1 \in Nat
    BY DEF LedgerPages
<1>2. /\ new \in Loads
      /\ new.no = pg.last + 1 /\ new.of = c /\ new.recs = NoAnswer /\ new.val = NoAnswer
    BY <1>1 DEF Loads, Part
<1>3. chain[c] \in SUBSET Artifacts
    BY DEF DataInv
<1>4. after = [pg EXCEPT !.selectedCase = c, !.loading = TRUE, !.error = FALSE,
                         !.records = {}, !.recordsOf = NoAnswer, !.validation = NoAnswer,
                         !.since = chain[c], !.asks = @ \cup {new}, !.last = @ + 1]
    BY DEF LedgerEffect
<1>5. pg.asks \cup {new} \in SUBSET Loads
    BY <1>2 DEF LedgerPages
<1> HIDE DEF new, after
<1>6. after \in LedgerPages
    BY <1>1, <1>3, <1>4, <1>5 DEF LedgerPages
<1>7. /\ after.asks = pg.asks \cup {new} /\ after.answered = pg.answered
      /\ after.late = pg.late /\ after.last = pg.last + 1
      /\ after.selectedCase = c /\ after.since = chain[c]
      /\ after.validation = NoAnswer /\ after.recordsOf = NoAnswer
    BY <1>4 DEF LedgerPages
<1>8. Asked(pg, {new}, after)
    BY <1>2, <1>7 DEF Asked
<1>9. Numbers(pg) /\ Numbers(after)
    BY <1>8, AskedNumbers DEF LedgerInv
<1>10. LoadUnderWay(after)
    <2>1. new \in after.asks
        BY <1>7
    <2>2. \A d \in after.asks \ {new} : d.no < new.no
        BY <1>1, <1>2, <1>7, <1>9 DEF Numbers
    <2>3. \A b \in after.answered : b.no <= new.no
        BY <1>1, <1>2, <1>7, <1>9 DEF Numbers
    <2> QED
        BY <1>2, <1>7, <2>1, <2>2, <2>3 DEF LoadUnderWay
<1>11. SinceInChain(after)
    BY <1>7 DEF SinceInChain
<1> QED
    BY <1>6, <1>7, <1>9, <1>10, <1>11 DEF LedgerInv, after

\* An answered half of a load.
Half(a, b) ==
    /\ b \in Loads /\ b.no = a.no /\ b.of = a.of
    /\ \/ b.recs = chain[a.of] /\ b.val = a.val
       \/ b.val = chain[a.of] /\ b.recs = a.recs

\* A load that is not complete yet takes the place of itself.
LEMMA LoadHalved ==
    ASSUME NEW pg \in LedgerPages, LedgerInv(pg), SinceInChain(pg), NEW a \in pg.asks,
           NEW b, Half(a, b), NEW after, after = [pg EXCEPT !.asks = (@ \ {a}) \cup {b}]
    PROVE  after \in LedgerPages /\ LedgerInv(after) /\ SinceInChain(after)
<1>1. (pg.asks \ {a}) \cup {b} \in SUBSET Loads
    BY DEF LedgerPages, Half
<1>2. after \in LedgerPages
    BY <1>1 DEF LedgerPages
<1>3. /\ after.asks = (pg.asks \ {a}) \cup {b}
      /\ after.answered = pg.answered /\ after.late = pg.late /\ after.last = pg.last
      /\ after.loading = pg.loading /\ after.error = pg.error /\ SameLedger(pg, after)
    BY DEF LedgerPages, SameLedger
<1>4. b.no = a.no /\ b.of = a.of
    BY DEF Half
<1>5. \A c \in pg.asks : c.no \in Nat
    BY DEF LedgerInv, Numbers
<1>6. Numbers(after)
    BY <1>3, <1>4 DEF LedgerInv, Numbers
<1>7. Over(pg, "load") => Over(after, "load")
    <2> SUFFICES ASSUME Over(pg, "load") PROVE Over(after, "load")
        OBVIOUS
    <2>1. PICK x \in pg.answered :
             /\ x.kind = "load"
             /\ \A c \in pg.asks : c.kind = "load" => c.no < x.no
             /\ \A c \in pg.answered : c.kind = "load" => c.no <= x.no
        BY DEF Over
    <2>2. a.kind = "load"
        BY DEF LedgerPages, Loads
    <2> QED
        BY <1>3, <1>4, <2>1, <2>2 DEF Over
<1>8. pg.selectedCase # NoAnswer /\ LoadUnderWay(pg) => LoadUnderWay(after)
    <2> SUFFICES ASSUME pg.selectedCase # NoAnswer, LoadUnderWay(pg) PROVE LoadUnderWay(after)
        OBVIOUS
    <2>1. PICK d \in pg.asks :
             /\ d.of = pg.selectedCase
             /\ d.recs = NoAnswer \/ pg.since \subseteq d.recs
             /\ d.val = NoAnswer \/ pg.since \subseteq d.val
             /\ \A c \in pg.asks \ {d} : c.no < d.no
             /\ \A x \in pg.answered : x.no <= d.no
        BY DEF LoadUnderWay
    <2>2. CASE d = a
        <3>1. /\ b.recs = NoAnswer \/ pg.since \subseteq b.recs
              /\ b.val = NoAnswer \/ pg.since \subseteq b.val
            BY <2>1, <2>2 DEF Half, SinceInChain
        <3>2. \A c \in after.asks \ {b} : c.no < b.no
            BY <1>3, <1>4, <2>1, <2>2
        <3> QED
            BY <1>3, <1>4, <2>1, <2>2, <3>1, <3>2 DEF LoadUnderWay, SameLedger
    <2>3. CASE d # a
        <3>1. d \in after.asks /\ a.no < d.no
            BY <1>3, <2>1, <2>3
        <3>2. \A c \in after.asks \ {d} : c.no < d.no
            BY <1>3, <1>4, <2>1, <3>1
        <3> QED
            BY <1>3, <2>1, <3>1, <3>2 DEF LoadUnderWay, SameLedger
    <2> QED
        BY <2>2, <2>3
<1>9. LedgerShown(pg) => LedgerShown(after)
    BY <1>3 DEF LedgerShown, SameLedger
<1>10. SinceInChain(after)
    BY <1>3 DEF SinceInChain, SameLedger
<1>11. after.asks # {}
    BY <1>3
<1> QED
    BY <1>2, <1>3, <1>6, <1>7, <1>8, <1>9, <1>10, <1>11 DEF LedgerInv, SameLedger

\* Taking the latest load ends the waiting; another one changes nothing.
LEMMA TakenLoad ==
    ASSUME NEW pg, Numbers(pg), NEW a \in pg.asks, a.kind = "load", NEW after,
           Taken(pg, a, after), NEW d \in pg.asks,
           \A c \in pg.asks \ {d} : c.no < d.no,
           \A y \in pg.answered : y.no <= d.no
    PROVE  /\ d = a => Over(after, "load")
           /\ d # a => /\ d \in after.asks
                       /\ \A c \in after.asks \ {d} : c.no < d.no
                       /\ \A y \in after.answered : y.no <= d.no
<1> DEFINE x == [kind |-> a.kind, no |-> a.no]
<1>1. /\ x.kind = "load" /\ x.no = a.no
      /\ after.asks = pg.asks \ {a} /\ after.answered = pg.answered \cup {x}
    BY DEF Taken
<1> HIDE DEF x
<1>2. a.no \in Nat /\ d.no \in Nat
    BY DEF Numbers
<1>3. CASE d = a
    <2>1. \A c \in after.asks : c.no < x.no
        BY <1>1, <1>3
    <2>2. \A c \in after.answered : c.no <= x.no
        BY <1>1, <1>2, <1>3
    <2>3. x \in after.answered
        BY <1>1
    <2> QED
        BY <1>1, <1>3, <2>1, <2>2, <2>3 DEF Over
<1>4. CASE d # a
    <2>1. x.no <= d.no
        BY <1>1, <1>2, <1>4
    <2> QED
        BY <1>1, <1>4, <2>1
<1> QED
    BY <1>3, <1>4

\* A load that is over, complete or failed.
LEMMA LoadOver ==
    ASSUME DataInv, NEW pg \in LedgerPages, LedgerInv(pg), SinceInChain(pg), NEW a \in pg.asks,
           NEW after,
           \/ after = [Take(pg, a) EXCEPT !.error = TRUE, !.loading = FALSE]
           \/ \E b : /\ Half(a, b) /\ b.recs # NoAnswer /\ b.val # NoAnswer
                     /\ after = [Take(pg, a) EXCEPT
                                   !.records = b.recs, !.recordsOf = b.of, !.loading = FALSE,
                                   !.validation = [of |-> b.of, checked |-> b.val]]
    PROVE  after \in LedgerPages /\ LedgerInv(after) /\ SinceInChain(after)
<1> DEFINE x == [kind |-> a.kind, no |-> a.no]
           late == pg.late \/ \E b \in pg.answered : b.kind = a.kind /\ b.no > a.no
           Made(b) == [of |-> b.of, checked |-> b.val]
<1>1. a \in Loads /\ a.kind = "load" /\ a.no \in Nat /\ a.of \in Cases
    BY DEF LedgerPages, Loads
<1>2. x \in Answers({"load"}) /\ late \in BOOLEAN
    BY <1>1 DEF Answers, LedgerPages
<1>3. pg.asks \ {a} \in SUBSET Loads /\ pg.answered \cup {x} \in SUBSET Answers({"load"})
    BY <1>2 DEF LedgerPages
<1>4. \A b : Half(a, b) /\ b.recs # NoAnswer /\ b.val # NoAnswer =>
         /\ b.recs \in SUBSET Artifacts /\ b.of = a.of /\ b.of \in Cases
         /\ Made(b) \in Validations /\ Made(b) # NoAnswer
         /\ Made(b).of = a.of /\ Made(b).checked = b.val
    BY <1>1, NullAssumption DEF Half, Loads, Part, Validations
<1>5. \/ after = [pg EXCEPT !.asks = @ \ {a}, !.late = late, !.answered = @ \cup {x},
                            !.error = TRUE, !.loading = FALSE]
      \/ \E b : /\ Half(a, b) /\ b.recs # NoAnswer /\ b.val # NoAnswer
                /\ after = [pg EXCEPT !.asks = @ \ {a}, !.late = late, !.answered = @ \cup {x},
                              !.records = b.recs, !.recordsOf = b.of, !.loading = FALSE,
                              !.validation = Made(b)]
    BY DEF Take, LedgerPages
<1> HIDE DEF x, late, Made
<1>6. /\ after \in LedgerPages
      /\ after.asks = pg.asks \ {a} /\ after.answered = pg.answered \cup {x}
      /\ after.late = late /\ after.last = pg.last /\ after.loading = FALSE
      /\ after.selectedCase = pg.selectedCase /\ after.since = pg.since
      /\ \/ after.error = TRUE /\ after.validation = pg.validation /\ after.recordsOf = pg.recordsOf
         \/ \E b : /\ Half(a, b) /\ b.recs # NoAnswer /\ b.val # NoAnswer
                   /\ after.validation = Made(b) /\ after.recordsOf = b.of
                   /\ after.records = b.recs
    <2>1. CASE after = [pg EXCEPT !.asks = @ \ {a}, !.late = late, !.answered = @ \cup {x},
                            !.error = TRUE, !.loading = FALSE]
        BY <1>2, <1>3, <2>1 DEF LedgerPages
    <2>2. ASSUME NEW b, Half(a, b), b.recs # NoAnswer, b.val # NoAnswer,
                 after = [pg EXCEPT !.asks = @ \ {a}, !.late = late, !.answered = @ \cup {x},
                              !.records = b.recs, !.recordsOf = b.of, !.loading = FALSE,
                              !.validation = Made(b)]
          PROVE  /\ after \in LedgerPages
                 /\ after.asks = pg.asks \ {a} /\ after.answered = pg.answered \cup {x}
                 /\ after.late = late /\ after.last = pg.last /\ after.loading = FALSE
                 /\ after.selectedCase = pg.selectedCase /\ after.since = pg.since
                 /\ after.validation = Made(b) /\ after.recordsOf = b.of
                 /\ after.records = b.recs
        BY <1>2, <1>3, <1>4, <2>2 DEF LedgerPages
    <2> QED
        BY <1>5, <2>1, <2>2
<1>7. Taken(pg, a, after)
    BY <1>6 DEF Taken, late, x
<1>8. Numbers(pg) /\ Numbers(after)
    BY <1>7, TakenNumbers DEF LedgerInv
<1>9. /\ (after.validation = NoAnswer) = (after.recordsOf = NoAnswer)
      /\ after.validation # NoAnswer => after.validation.of = after.recordsOf
    <2>1. CASE after.validation = pg.validation /\ after.recordsOf = pg.recordsOf
        BY <2>1 DEF LedgerInv
    <2>2. CASE \E b : /\ Half(a, b) /\ b.recs # NoAnswer /\ b.val # NoAnswer
                      /\ after.validation = Made(b) /\ after.recordsOf = b.of
        <3>1. after.validation # NoAnswer /\ after.recordsOf \in Cases
              /\ after.validation.of = after.recordsOf
            BY <1>4, <2>2
        <3> QED
            BY <3>1, NullAssumption
    <2> QED
        BY <1>6, <2>1, <2>2
<1>10. Over(pg, "load") => Over(after, "load") /\ after.late
    BY <1>1, <1>7, <1>8, TakenOver
<1>11. pg.selectedCase # NoAnswer /\ LoadUnderWay(pg) =>
          \/ LoadUnderWay(after)
          \/ Over(after, "load") /\ (after.error \/ LedgerShown(after))
    <2> SUFFICES ASSUME pg.selectedCase # NoAnswer, LoadUnderWay(pg)
                 PROVE  \/ LoadUnderWay(after)
                        \/ Over(after, "load") /\ (after.error \/ LedgerShown(after))
        OBVIOUS
    <2>1. PICK d \in pg.asks :
             /\ d.of = pg.selectedCase
             /\ d.recs = NoAnswer \/ pg.since \subseteq d.recs
             /\ d.val = NoAnswer \/ pg.since \subseteq d.val
             /\ \A c \in pg.asks \ {d} : c.no < d.no
             /\ \A y \in pg.answered : y.no <= d.no
        BY DEF LoadUnderWay
    <2>2. /\ d = a => Over(after, "load")
          /\ d # a => /\ d \in after.asks
                      /\ \A c \in after.asks \ {d} : c.no < d.no
                      /\ \A y \in after.answered : y.no <= d.no
        BY <1>1, <1>7, <1>8, <2>1, TakenLoad
    <2>3. CASE d = a
        <3>1. \A b : /\ Half(a, b) /\ b.recs # NoAnswer /\ b.val # NoAnswer
                     => pg.since \subseteq b.recs /\ pg.since \subseteq b.val
            BY <2>1, <2>3 DEF Half, SinceInChain
        <3>2. after.error \/ LedgerShown(after)
            BY <1>4, <1>6, <2>1, <2>3, <3>1 DEF LedgerShown
        <3> QED
            BY <2>2, <2>3, <3>2
    <2>4. CASE d # a
        BY <1>6, <2>1, <2>2, <2>4 DEF LoadUnderWay
    <2> QED
        BY <2>3, <2>4
<1>12. SinceInChain(after)
    BY <1>6 DEF SinceInChain
<1> QED
    BY <1>6, <1>8, <1>9, <1>10, <1>11, <1>12 DEF LedgerInv

LEMMA LedgerSteps ==
    ASSUME DataInv, page \in LedgerPages, LedgerInv(page), SinceInChain(page),
           LedgerCases \/ (\E c \in Cases : SelectCase(c)) \/ LedgerAnswered \/ LedgerFailed
    PROVE  /\ page' \in LedgerPages /\ LedgerInv(page') /\ SinceInChain(page')
           /\ UNCHANGED <<evidence, chain>>
<1>1. ASSUME NEW pg \in LedgerPages, SameLedger(page, pg), pg.asks = page.asks,
             pg.answered = page.answered, pg.last = page.last, pg.late = page.late,
             pg.loading = page.loading, pg.error \/ pg.error = page.error
      PROVE  LedgerInv(pg) /\ SinceInChain(pg)
    <2>1. Numbers(pg)
        BY <1>1 DEF LedgerInv, Numbers
    <2>2. (LoadUnderWay(page) => LoadUnderWay(pg)) /\ (LedgerShown(page) => LedgerShown(pg))
        BY <1>1 DEF LoadUnderWay, LedgerShown, SameLedger
    <2>3. Over(page, "load") => Over(pg, "load")
        BY <1>1 DEF Over
    <2>4. SinceInChain(pg)
        BY <1>1 DEF SinceInChain, SameLedger
    <2> QED
        BY <1>1, <2>1, <2>2, <2>3, <2>4 DEF LedgerInv, SameLedger
<1>2. CASE LedgerCases
    <2> DEFINE pg == [page EXCEPT !.casesAsked = FALSE]
    <2>1. /\ pg \in LedgerPages /\ SameLedger(page, pg) /\ pg.asks = page.asks
          /\ pg.answered = page.answered /\ pg.last = page.last /\ pg.late = page.late
          /\ pg.loading = page.loading /\ pg.error = page.error
        BY DEF LedgerPages, SameLedger
    <2> HIDE DEF pg
    <2>2. LedgerInv(pg) /\ SinceInChain(pg)
        BY <1>1, <2>1
    <2>3. CASE page' = [pg EXCEPT !.error = TRUE]
        <3>1. /\ page' \in LedgerPages /\ SameLedger(page, page') /\ page'.asks = page.asks
              /\ page'.answered = page.answered /\ page'.last = page.last
              /\ page'.late = page.late /\ page'.loading = page.loading /\ page'.error
            BY <2>1, <2>3 DEF LedgerPages, SameLedger
        <3> QED
            BY <1>1, <1>2, <3>1 DEF LedgerCases
    <2>4. CASE page' = pg
        BY <1>2, <2>1, <2>2, <2>4 DEF LedgerCases
    <2>5. ASSUME NEW data \in SUBSET Cases, NEW first \in data,
                 page' = LedgerEffect([pg EXCEPT !.cases = data], first)
          PROVE  page' \in LedgerPages /\ LedgerInv(page') /\ SinceInChain(page')
        <3> DEFINE mid == [pg EXCEPT !.cases = data]
        <3>1. /\ mid \in LedgerPages /\ SameLedger(page, mid) /\ mid.asks = page.asks
              /\ mid.answered = page.answered /\ mid.last = page.last /\ mid.late = page.late
              /\ mid.loading = page.loading /\ mid.error = page.error
            BY <2>1 DEF LedgerPages, SameLedger
        <3> HIDE DEF mid
        <3>2. LedgerInv(mid) /\ SinceInChain(mid)
            BY <1>1, <3>1
        <3>3. page' = LedgerEffect(mid, first) /\ first \in Cases
            BY <2>5 DEF mid
        <3>4. /\ LedgerEffect(mid, first) \in LedgerPages /\ LedgerInv(LedgerEffect(mid, first))
              /\ SinceInChain(LedgerEffect(mid, first))
            BY <3>1, <3>2, <3>3, LedgerSelects
        <3> QED
            BY <3>3, <3>4, <1>2 DEF LedgerCases, SinceInChain
    <2>6. \/ page' = [pg EXCEPT !.error = TRUE]
          \/ page' = pg
          \/ \E data \in SUBSET Cases : \E first \in data :
                page' = LedgerEffect([pg EXCEPT !.cases = data], first)
        BY <1>2 DEF LedgerCases, pg
    <2> QED
        BY <1>2, <2>3, <2>4, <2>5, <2>6 DEF LedgerCases
<1>3. ASSUME NEW c \in Cases, SelectCase(c)
      PROVE  page' \in LedgerPages /\ LedgerInv(page') /\ SinceInChain(page')
    <2>1. page' = LedgerEffect(page, c) /\ chain' = chain
        BY <1>3 DEF SelectCase
    <2>2. /\ LedgerEffect(page, c) \in LedgerPages /\ LedgerInv(LedgerEffect(page, c))
          /\ SinceInChain(LedgerEffect(page, c))
        BY LedgerSelects
    <2> QED
        BY <2>1, <2>2 DEF SinceInChain
<1>4. ASSUME NEW a \in page.asks, NEW b, Half(a, b), page' = LedgerTogether(page, a, b)
      PROVE  page' \in LedgerPages /\ LedgerInv(page') /\ SinceInChain(page')
    <2> DEFINE after == LedgerTogether(page, a, b)
    <2>1. CASE b.recs # NoAnswer /\ b.val # NoAnswer
        <3>1. after = [Take(page, a) EXCEPT !.records = b.recs, !.recordsOf = b.of, !.loading = FALSE,
                           !.validation = [of |-> b.of, checked |-> b.val]]
            BY <2>1 DEF LedgerTogether
        <3> HIDE DEF after
        <3> QED
            BY <1>4, <2>1, <3>1, LoadOver DEF after
    <2>2. CASE ~(b.recs # NoAnswer /\ b.val # NoAnswer)
        <3>1. after = [page EXCEPT !.asks = (@ \ {a}) \cup {b}]
            BY <2>2 DEF LedgerTogether
        <3> HIDE DEF after
        <3> QED
            BY <1>4, <3>1, LoadHalved DEF after
    <2> QED
        BY <2>1, <2>2
<1>5. CASE LedgerAnswered
    <2>1. PICK a \in page.asks :
             \/ /\ a.recs = NoAnswer
                /\ page' = LedgerTogether(page, a, [a EXCEPT !.recs = chain[a.of]])
             \/ /\ a.val = NoAnswer
                /\ page' = LedgerTogether(page, a, [a EXCEPT !.val = chain[a.of]])
        BY <1>5 DEF LedgerAnswered
    <2>2. a \in Loads /\ chain[a.of] \in SUBSET Artifacts
        BY DEF LedgerPages, Loads, DataInv
    <2>3. Half(a, [a EXCEPT !.recs = chain[a.of]]) /\ Half(a, [a EXCEPT !.val = chain[a.of]])
        BY <2>2 DEF Half, Loads, Part
    <2> QED
        BY <1>4, <1>5, <2>1, <2>3 DEF LedgerAnswered
<1>6. CASE LedgerFailed
    <2>1. PICK a \in page.asks : page' = [Take(page, a) EXCEPT !.error = TRUE, !.loading = FALSE]
        BY <1>6 DEF LedgerFailed
    <2>2. page' \in LedgerPages /\ LedgerInv(page') /\ SinceInChain(page')
        BY <2>1, LoadOver
    <2> QED
        BY <1>6, <2>2 DEF LedgerFailed
<1> QED
    BY <1>2, <1>3, <1>5, <1>6 DEF LedgerCases, SelectCase, LedgerAnswered, LedgerFailed

\* A settled ledger page shows the selected case, whole.
LEMMA LedgerShows ==
    ASSUME page \in LedgerPages, LedgerInv(page)
    PROVE  LedgerShowsItsCase
<1>1. /\ (page.validation = NoAnswer) = (page.recordsOf = NoAnswer)
      /\ page.validation # NoAnswer => page.validation.of = page.recordsOf
    BY DEF LedgerInv
<1>2. ASSUME Settled, ~page.error, page.selectedCase # NoAnswer
      PROVE  ~page.loading /\ LedgerShown(page)
    BY <1>2 DEF LedgerInv, LoadUnderWay, Settled
<1>3. ASSUME Settled, ~page.error, page.selectedCase # NoAnswer,
             LedgerTable(page) = "No ledger records found"
      PROVE  page.since = {}
    BY <1>2, <1>3 DEF LedgerTable, LedgerShown
<1> QED
    BY <1>1, <1>2, <1>3 DEF LedgerShowsItsCase, LedgerBanner, LedgerShown
=============================================================================
