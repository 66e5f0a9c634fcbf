---------------------------- MODULE PagesProofs ----------------------------
(***************************************************************************)
(* The theorems about the tab: upload page and report page with their      *)
(* servers, and the invariant of the whole, which has one disjunct for     *)
(* each kind of page that may be mounted.                                  *)
(***************************************************************************)
EXTENDS Pages, ReadingPagesProofs, SequenceTheorems

-----------------------------------------------------------------------------
(* Uploads at the server *)

Uploads ==
    [no : Nat, case : Cases, form : Forms, id : Artifacts \cup {NoAnswer},
     stage : Stages, allowed : BOOLEAN]

\* The row an upload has made is its own, and is PENDING as long as it goes on.
HasItsRow(u) ==
    u.id # NoAnswer =>
      \E r \in evidence : /\ r.id = u.id /\ r.case = u.case
                          /\ r.form = u.form /\ r.status = "PENDING"

WasAllowed(u) == u.allowed \/ (u.stage = "received" /\ u.case \notin assigned)

\* A finished row has its proof in the ledger.
Vouched == \A r \in evidence : r.status = "INGESTED" => r.id \in chain[r.case]

DeskInv ==
    /\ uploads \subseteq Uploads /\ submissions \in Nat
    /\ assigned \subseteq Cases
    /\ \A u \in uploads :
         /\ u.no <= submissions
         /\ u.stage \in {"received", "admitted"} <=> u.id = NoAnswer
         /\ HasItsRow(u) /\ WasAllowed(u)
         /\ u.stage = "anchored" => u.id \in chain[u.case]
    /\ \A u, v \in uploads : u.no = v.no => u = v
    /\ \A u, v \in uploads : u.id # NoAnswer /\ u.id = v.id => u = v
    /\ Vouched

LEMMA RowsChange ==
    ASSUME DataInv, DeskInv, NEW u \in uploads, u.id # NoAnswer,
           NEW s \in Statuses
    PROVE  LET r == RowOf(u)
               t == [r EXCEPT !.status = s] IN
           /\ r \in evidence /\ r.id = u.id /\ r.case = u.case /\ r.form = u.form
           /\ r.status = "PENDING"
           /\ t \in Rows /\ t.id = u.id /\ t.case = u.case /\ t.form = u.form /\ t.status = s
           /\ t = [id |-> u.id, case |-> u.case, status |-> s, form |-> u.form]
           /\ WithStatus(u, s) = (evidence \ {r}) \cup {t}
<1>1. PICK r \in evidence : /\ r.id = u.id /\ r.case = u.case
                            /\ r.form = u.form /\ r.status = "PENDING"
    BY DEF DeskInv, HasItsRow
<1>2. RowOf(u) = r
    BY <1>1 DEF DataInv, RowOf
<1>3. r \in Rows
    BY DEF DataInv
<1>4. /\ [r EXCEPT !.status = s] \in Rows
      /\ [r EXCEPT !.status = s] = [id |-> u.id, case |-> u.case, status |-> s, form |-> u.form]
    BY <1>1, <1>3 DEF Rows
<1> QED
    BY <1>1, <1>2, <1>4 DEF WithStatus

\* An upload that ends.
LEMMA DeskDrops ==
    ASSUME DataInv, DeskInv, NEW u \in uploads, Drop(u), UNCHANGED <<submissions, assigned>>,
           \A c \in Cases : chain[c] \subseteq chain'[c],
           \/ evidence' = evidence
           \/ u.id # NoAnswer /\ \E s \in Statuses : /\ evidence' = WithStatus(u, s)
                                                     /\ s = "INGESTED" => u.id \in chain'[u.case]
    PROVE  /\ evidence' \subseteq Rows /\ IsFiniteSet(evidence')
           /\ \A r, s \in evidence' : r.id = s.id => r = s
           /\ \A r \in evidence : \E s \in evidence' : s.id = r.id /\ s.case = r.case
           /\ \A r \in evidence : r.status # "PENDING" => r \in evidence'
           /\ \A v \in uploads' : v \in uploads /\ HasItsRow(v)'
           /\ Vouched'
<1>1. \A v \in uploads' : v \in uploads /\ v # u
    BY DEF Drop
<1>0. ASSUME NEW r \in evidence, r.status = "INGESTED" PROVE r.id \in chain'[r.case]
    <2>1. r.case \in Cases /\ r.id \in chain[r.case]
        BY <1>0 DEF DataInv, Rows, DeskInv, Vouched
    <2> QED
        BY <2>1
<1>2. CASE evidence' = evidence
    BY <1>0, <1>1, <1>2 DEF DataInv, DeskInv, HasItsRow, Vouched
<1>3. ASSUME u.id # NoAnswer, NEW s \in Statuses, evidence' = WithStatus(u, s),
             s = "INGESTED" => u.id \in chain'[u.case]
      PROVE  /\ evidence' \subseteq Rows /\ IsFiniteSet(evidence')
             /\ \A r, t \in evidence' : r.id = t.id => r = t
             /\ \A r \in evidence : \E t \in evidence' : t.id = r.id /\ t.case = r.case
             /\ \A r \in evidence : r.status # "PENDING" => r \in evidence'
             /\ \A v \in uploads' : v \in uploads /\ HasItsRow(v)'
             /\ Vouched'
    <2>1. PICK r \in evidence, t \in Rows :
             /\ r.id = u.id /\ r.case = u.case /\ r.form = u.form /\ r.status = "PENDING"
             /\ t.id = u.id /\ t.case = u.case /\ t.status = s
             /\ evidence' = (evidence \ {r}) \cup {t}
        <3> DEFINE r == RowOf(u)
                   t == [r EXCEPT !.status = s]
        <3>1. /\ r \in evidence /\ t \in Rows
              /\ r.id = u.id /\ r.case = u.case /\ r.form = u.form /\ r.status = "PENDING"
              /\ t.id = u.id /\ t.case = u.case /\ t.status = s
              /\ evidence' = (evidence \ {r}) \cup {t}
            BY <1>3, RowsChange
        <3> HIDE DEF r, t
        <3> QED
            BY <3>1
    <2>2. evidence' \subseteq Rows /\ IsFiniteSet(evidence')
        <3>1. IsFiniteSet(evidence \ {r})
            BY FS_Subset DEF DataInv
        <3>2. IsFiniteSet((evidence \ {r}) \cup {t})
            BY <3>1, FS_AddElement
        <3> QED
            BY <2>1, <3>2 DEF DataInv
    <2>3. \A x, y \in evidence' : x.id = y.id => x = y
        BY <2>1 DEF DataInv
    <2>4. \A v \in uploads' : HasItsRow(v)'
        <3> SUFFICES ASSUME NEW v \in uploads', v.id # NoAnswer
                     PROVE  \E x \in evidence' : /\ x.id = v.id /\ x.case = v.case
                                                 /\ x.form = v.form /\ x.status = "PENDING"
            BY DEF HasItsRow
        <3>1. v \in uploads /\ v.id # u.id
            BY <1>1, <1>3 DEF DeskInv
        <3>2. PICK x \in evidence : /\ x.id = v.id /\ x.case = v.case
                                    /\ x.form = v.form /\ x.status = "PENDING"
            BY <3>1 DEF DeskInv, HasItsRow
        <3> QED
            BY <2>1, <3>1, <3>2
    <2>5. Vouched'
        BY <1>0, <1>3, <2>1 DEF Vouched
    <2> QED
        BY <1>1, <2>1, <2>2, <2>3, <2>4, <2>5
<1> QED
    BY <1>2, <1>3

\* Assembling the invariants of the tables after a step.
LEMMA DeskAfter ==
    ASSUME DataInv, DeskInv,
           evidence' \subseteq Rows, IsFiniteSet(evidence'),
           \A r, s \in evidence' : r.id = s.id => r = s,
           chain' \in [Cases -> SUBSET Artifacts],
           \A c \in Cases : chain[c] \subseteq chain'[c],
           submissions' \in Nat, submissions <= submissions', assigned' \subseteq Cases,
           NEW keeps \in SUBSET uploads, NEW new, uploads' \in {keeps, keeps \cup {new}},
           \A u \in keeps : HasItsRow(u)' /\ WasAllowed(u)',
           new \in uploads' =>
             /\ new \in Uploads /\ new.no <= submissions'
             /\ new.stage \in {"received", "admitted"} <=> new.id = NoAnswer
             /\ HasItsRow(new)' /\ WasAllowed(new)'
             /\ new.stage = "anchored" => new.id \in chain'[new.case]
             /\ \A v \in keeps : v.no # new.no
             /\ \A v \in keeps : v.id # NoAnswer => v.id # new.id,
           Vouched'
    PROVE  DataInv' /\ DeskInv'
<1>1. DataInv'
    BY DEF DataInv
<1>2. \A u \in uploads' : u \in keeps \/ u = new
    OBVIOUS
<1>3. \A u \in keeps : /\ u \in Uploads /\ u.no <= submissions'
                       /\ u.stage \in {"received", "admitted"} <=> u.id = NoAnswer
                       /\ u.stage = "anchored" => u.id \in chain'[u.case]
    <2> SUFFICES ASSUME NEW u \in keeps
                 PROVE  /\ u \in Uploads /\ u.no <= submissions'
                        /\ u.stage \in {"received", "admitted"} <=> u.id = NoAnswer
                        /\ u.stage = "anchored" => u.id \in chain'[u.case]
        OBVIOUS
    <2>1. u \in Uploads /\ u.no \in Nat /\ u.case \in Cases
        BY DEF DeskInv, Uploads
    <2>2. u.no <= submissions'
        BY <2>1 DEF DeskInv
    <2> QED
        BY <2>1, <2>2 DEF DeskInv
<1>4. \A u \in uploads' :
         /\ u \in Uploads /\ u.no <= submissions'
         /\ u.stage \in {"received", "admitted"} <=> u.id = NoAnswer
         /\ HasItsRow(u)' /\ WasAllowed(u)'
         /\ u.stage = "anchored" => u.id \in chain'[u.case]
    BY <1>2, <1>3
<1>5. \A u, v \in uploads' : u.no = v.no => u = v
    BY <1>2 DEF DeskInv
<1>6. \A u, v \in uploads' : u.id # NoAnswer /\ u.id = v.id => u = v
    BY <1>2 DEF DeskInv
<1>7. DeskInv'
    BY <1>4, <1>5, <1>6 DEF DeskInv
<1> QED
    BY <1>1, <1>7

\* One upload takes the place of another, or of itself.
LEMMA DeskReplaces ==
    ASSUME DataInv, DeskInv, NEW u \in uploads,
           evidence' \subseteq Rows, IsFiniteSet(evidence'),
           \A r, s \in evidence' : r.id = s.id => r = s,
           chain' \in [Cases -> SUBSET Artifacts],
           \A c \in Cases : chain[c] \subseteq chain'[c],
           UNCHANGED <<submissions, assigned>>,
           \A v \in uploads \ {u} : HasItsRow(v)' /\ WasAllowed(v)',
           NEW w \in Uploads, uploads' = (uploads \ {u}) \cup {w}, w.no = u.no,
           w.stage \in {"received", "admitted"} <=> w.id = NoAnswer,
           HasItsRow(w)', WasAllowed(w)',
           w.stage = "anchored" => w.id \in chain'[w.case],
           \A v \in uploads \ {u} : v.id # NoAnswer => v.id # w.id,
           Vouched'
    PROVE  DataInv' /\ DeskInv'
<1> DEFINE keeps == uploads \ {u}
<1>1. keeps \in SUBSET uploads /\ uploads' = keeps \cup {w} /\ u \notin keeps
    OBVIOUS
<1>2. submissions' = submissions /\ submissions \in Nat /\ assigned' \subseteq Cases
    BY DEF DeskInv
<1>3. w.no <= submissions' /\ submissions <= submissions'
    BY <1>2 DEF DeskInv
<1>4. \A v \in keeps : v.no # w.no
    BY DEF DeskInv
<1>5. /\ \A v \in keeps : HasItsRow(v)' /\ WasAllowed(v)'
      /\ \A v \in keeps : v.id # NoAnswer => v.id # w.id
    OBVIOUS
<1> HIDE DEF keeps
<1> QED
    BY <1>1, <1>2, <1>3, <1>4, <1>5, DeskAfter

LEMMA DeskSteps ==
    ASSUME DataInv, DeskInv, NEW u \in uploads, Upload(u)
    PROVE  DataInv' /\ DeskInv' /\ DataGrows
<1>1. /\ u \in Uploads /\ u.no <= submissions /\ submissions \in Nat
      /\ u.no \in Nat /\ u.case \in Cases
      /\ u.stage \in {"received", "admitted"} <=> u.id = NoAnswer
      /\ HasItsRow(u) /\ WasAllowed(u)
      /\ u.stage = "anchored" => u.id \in chain[u.case]
    BY DEF DeskInv, Uploads
<1>2. UNCHANGED <<submissions, assigned>> /\ submissions <= submissions'
    BY <1>1 DEF Upload
<1>3. \A v \in uploads : v.no = u.no => v = u
    BY DEF DeskInv
<1>4. \A v \in uploads : v.id # NoAnswer /\ v.id = u.id => v = u
    BY DEF DeskInv
<1>5. \A v \in uploads : WasAllowed(v)'
    BY <1>2 DEF DeskInv, WasAllowed
<1>6. assigned' \subseteq Cases
    BY <1>2 DEF DeskInv
<1>7. ASSUME Drop(u), chain' \in [Cases -> SUBSET Artifacts],
             \A c \in Cases : chain[c] \subseteq chain'[c],
             \/ evidence' = evidence
             \/ u.id # NoAnswer /\ \E s \in Statuses : /\ evidence' = WithStatus(u, s)
                                                       /\ s = "INGESTED" => u.id \in chain'[u.case]
      PROVE  DataInv' /\ DeskInv' /\ DataGrows
    <2>1. /\ evidence' \subseteq Rows /\ IsFiniteSet(evidence')
          /\ \A r, s \in evidence' : r.id = s.id => r = s
          /\ \A r \in evidence : \E s \in evidence' : s.id = r.id /\ s.case = r.case
          /\ \A r \in evidence : r.status # "PENDING" => r \in evidence'
          /\ \A v \in uploads' : v \in uploads /\ HasItsRow(v)'
          /\ Vouched'
        BY <1>2, <1>7, DeskDrops
    <2>2. /\ uploads \ {u} \in SUBSET uploads /\ uploads' = uploads \ {u}
          /\ \A v \in uploads \ {u} : HasItsRow(v)' /\ WasAllowed(v)'
        BY <1>5, <1>7, <2>1 DEF Drop
    <2>3. DataGrows
        BY <1>7, <2>1 DEF DataGrows
    <2>4. u \notin uploads' /\ uploads' \in {uploads \ {u}, (uploads \ {u}) \cup {u}}
        BY <2>2
    <2>5. DataInv' /\ DeskInv'
        BY <1>2, <1>6, <1>7, <1>1, <2>1, <2>2, <2>4, DeskAfter
    <2> QED
        BY <2>3, <2>5
<1>0. ASSUME \A c \in Cases : chain[c] \subseteq chain'[c],
              \A r \in evidence' : r \in evidence \/ r.status # "INGESTED"
       PROVE  Vouched'
    <2>1. \A r \in evidence : r.case \in Cases
        BY DEF DataInv, Rows
    <2> QED
        BY <1>0, <2>1 DEF DeskInv, Vouched
<1>8. ASSUME NEW w \in Uploads, uploads' = (uploads \ {u}) \cup {w},
             w.no = u.no, w.case = u.case, w.form = u.form, w.id = u.id,
             w.stage \in {"received", "admitted"} <=> w.id = NoAnswer,
             WasAllowed(w), evidence' = evidence,
             w.stage = "anchored" => w.id \in chain'[w.case],
             chain' \in [Cases -> SUBSET Artifacts],
             \A c \in Cases : chain[c] \subseteq chain'[c]
      PROVE  DataInv' /\ DeskInv' /\ DataGrows
    <2>1. /\ evidence' \subseteq Rows /\ IsFiniteSet(evidence')
          /\ \A r, s \in evidence' : r.id = s.id => r = s
        BY <1>8 DEF DataInv
    <2>2. DataGrows
        BY <1>8 DEF DataGrows
    <2>3. \A v \in uploads : HasItsRow(v)'
        BY <1>8 DEF DeskInv, HasItsRow
    <2>4. HasItsRow(w)' /\ WasAllowed(w)'
        BY <1>1, <1>2, <1>8 DEF HasItsRow, WasAllowed
    <2>5. \A v \in uploads \ {u} : v.no # w.no /\ (v.id # NoAnswer => v.id # w.id)
        BY <1>3, <1>4, <1>8
    <2>7. Vouched'
        BY <1>8, <1>0
    <2>6. DataInv' /\ DeskInv'
        BY <1>2, <1>5, <1>8, <2>1, <2>3, <2>4, <2>5, <2>7, DeskReplaces
    <2> QED
        BY <2>2, <2>6
<1>9. /\ chain \in [Cases -> SUBSET Artifacts]
      /\ \A c \in Cases : chain[c] \subseteq chain[c]
    BY DEF DataInv
<1>10. ASSUME GiveUp(u), u.id # NoAnswer
       PROVE  /\ Drop(u)
              /\ \/ evidence' = evidence
                 \/ \E s \in Statuses : /\ evidence' = WithStatus(u, s)
                                        /\ s = "INGESTED" => u.id \in chain'[u.case]
    <2>1. "INGESTION_FAILED" \in Statuses /\ "INGESTION_FAILED" # "INGESTED"
        BY DEF Statuses
    <2>2. Drop(u) /\ evidence' \in {evidence, WithStatus(u, "INGESTION_FAILED")}
        BY <1>10 DEF GiveUp, Refuse
    <2> QED
        BY <2>1, <2>2
<1>11. ASSUME NEW stage \in Stages
       PROVE  /\ [u EXCEPT !.stage = stage] \in Uploads
              /\ [u EXCEPT !.stage = stage].no = u.no
              /\ [u EXCEPT !.stage = stage].case = u.case
              /\ [u EXCEPT !.stage = stage].form = u.form
              /\ [u EXCEPT !.stage = stage].id = u.id
              /\ [u EXCEPT !.stage = stage].allowed = u.allowed
              /\ [u EXCEPT !.stage = stage].stage = stage
    BY <1>1 DEF Uploads
<1>12. CASE CheckAssignment(u)
    <2>1. chain' = chain /\ evidence' = evidence /\ u.stage = "received"
        BY <1>12 DEF CheckAssignment
    <2>2. CASE u.case \in assigned /\ MoveOn(u, "admitted")
        <3> DEFINE w == [u EXCEPT !.stage = "admitted"]
        <3>1. uploads' = (uploads \ {u}) \cup {w}
            BY <2>2 DEF MoveOn
        <3>2. /\ w \in Uploads /\ w.no = u.no /\ w.case = u.case /\ w.form = u.form
              /\ w.id = u.id /\ w.allowed = u.allowed /\ w.stage = "admitted"
            BY <1>11 DEF Stages
        <3>3. u.allowed
            BY <1>1, <2>2 DEF WasAllowed
        <3> HIDE DEF w
        <3>4. /\ WasAllowed(w)
              /\ w.stage \in {"received", "admitted"} <=> w.id = NoAnswer
              /\ w.stage = "anchored" => w.id \in chain'[w.case]
            BY <1>1, <2>1, <3>2, <3>3 DEF WasAllowed
        <3> QED
            BY <1>8, <1>9, <2>1, <3>1, <3>2, <3>4
    <2>3. CASE Refuse(u, "403")
        BY <1>7, <1>9, <2>1, <2>3 DEF Refuse
    <2> QED
        BY <1>12, <2>2, <2>3 DEF CheckAssignment
<1>13. CASE Store(u)
    <2>1. chain' = chain /\ u.stage = "admitted"
        BY <1>13 DEF Store
    <2>2. CASE Refuse(u, "500") /\ UNCHANGED evidence
        BY <1>7, <1>9, <2>1, <2>2 DEF Refuse
    <2>3. ASSUME NEW id \in FreshIds,
                 evidence' = evidence \cup
                   {[id |-> id, case |-> u.case, status |-> "PENDING", form |-> u.form]},
                 \/ uploads' = (uploads \ {u}) \cup {[u EXCEPT !.stage = "stored", !.id = id]}
                 \/ Drop(u)
          PROVE  DataInv' /\ DeskInv' /\ DataGrows
        <3> DEFINE row == [id |-> id, case |-> u.case, status |-> "PENDING", form |-> u.form]
                   w == [u EXCEPT !.stage = "stored", !.id = id]
        <3>1. /\ row \in Rows /\ row.id = id /\ row.case = u.case /\ row.form = u.form
              /\ row.status = "PENDING"
            BY <1>1 DEF Rows, Uploads, Statuses, FreshIds
        <3>2. /\ w \in Uploads /\ w.no = u.no /\ w.case = u.case /\ w.form = u.form
              /\ w.id = id /\ w.allowed = u.allowed /\ w.stage = "stored"
            BY <1>1 DEF Uploads, Stages, FreshIds
        <3>3. /\ evidence' = evidence \cup {row}
              /\ uploads' \in {uploads \ {u}, (uploads \ {u}) \cup {w}}
            BY <2>3 DEF Drop
        <3> HIDE DEF row, w
        <3>4. id \in Artifacts /\ id # NoAnswer /\ \A r \in evidence : r.id # id
            BY NullAssumption DEF FreshIds, Ids
        <3>5. /\ evidence' \subseteq Rows /\ IsFiniteSet(evidence')
              /\ \A r, s \in evidence' : r.id = s.id => r = s
            <4>1. IsFiniteSet(evidence \cup {row})
                BY FS_AddElement DEF DataInv
            <4> QED
                BY <3>1, <3>3, <3>4, <4>1 DEF DataInv
        <3>6. DataGrows
            BY <2>1, <3>3 DEF DataGrows
        <3>7. \A v \in uploads : HasItsRow(v)'
            BY <3>3 DEF DeskInv, HasItsRow
        <3>8. \A v \in uploads : v.id # NoAnswer => v.id # id
            BY <3>4 DEF DeskInv, HasItsRow
        <3>9. HasItsRow(w)' /\ WasAllowed(w)'
            BY <1>1, <1>2, <2>1, <3>1, <3>2, <3>3 DEF HasItsRow, WasAllowed
        <3>10. \A v \in uploads \ {u} : v.no # w.no /\ (v.id # NoAnswer => v.id # w.id)
            BY <1>3, <3>2, <3>8
        <3>11. /\ w.stage \in {"received", "admitted"} <=> w.id = NoAnswer
               /\ w.stage = "anchored" => w.id \in chain'[w.case]
            BY <3>2, <3>4
        <3>12. /\ chain' \in [Cases -> SUBSET Artifacts]
               /\ \A c \in Cases : chain[c] \subseteq chain'[c]
            BY <1>9, <2>1
        <3>14. Vouched'
            BY <1>0, <3>1, <3>3, <3>12
        <3>15. /\ submissions' \in Nat
               /\ submissions <= submissions' /\ w.no <= submissions'
            BY <1>1, <1>2, <3>2
        <3>13. DataInv' /\ DeskInv'
            <4> DEFINE keeps == uploads \ {u}
            <4>1. /\ keeps \in SUBSET uploads /\ uploads' \in {keeps, keeps \cup {w}}
                  /\ \A v \in keeps : HasItsRow(v)' /\ WasAllowed(v)'
                  /\ \A v \in keeps : v.no # w.no
                  /\ \A v \in keeps : v.id # NoAnswer => v.id # w.id
                BY <1>5, <3>3, <3>7, <3>10
            <4>2. w.stage # "anchored"
                BY <3>2
            <4> HIDE DEF keeps
            <4> QED
                BY <1>6, <3>2, <3>5, <3>9, <3>11, <3>12, <3>14, <3>15, <4>1, <4>2, DeskAfter
        <3> QED
            BY <3>6, <3>13
    <2> QED
        BY <1>13, <2>2, <2>3 DEF Store
<1>14. CASE HashAndSign(u)
    <2>1. chain' = chain /\ u.stage = "stored" /\ u.id # NoAnswer
        BY <1>1, <1>14 DEF HashAndSign
    <2>2. CASE GiveUp(u)
        BY <1>7, <1>9, <1>10, <2>1, <2>2
    <2>3. CASE MoveOn(u, "signed") /\ UNCHANGED <<page, evidence>>
        <3> DEFINE w == [u EXCEPT !.stage = "signed"]
        <3>1. uploads' = (uploads \ {u}) \cup {w}
            BY <2>3 DEF MoveOn
        <3>2. /\ w \in Uploads /\ w.no = u.no /\ w.case = u.case /\ w.form = u.form
              /\ w.id = u.id /\ w.allowed = u.allowed /\ w.stage = "signed"
            BY <1>11 DEF Stages
        <3> HIDE DEF w
        <3>3. /\ WasAllowed(w)
              /\ w.stage \in {"received", "admitted"} <=> w.id = NoAnswer
              /\ w.stage = "anchored" => w.id \in chain'[w.case]
            BY <1>1, <2>1, <3>2 DEF WasAllowed
        <3> QED
            BY <1>8, <1>9, <2>1, <2>3, <3>1, <3>2, <3>3
    <2> QED
        BY <1>14, <2>2, <2>3 DEF HashAndSign
<1>15. CASE AppendProof(u)
    <2> DEFINE appended == [chain EXCEPT ![u.case] = @ \cup {u.id}]
    <2>1. u.stage = "signed" /\ u.id \in Artifacts /\ u.id # NoAnswer
        BY <1>1, <1>15 DEF AppendProof, Uploads
    <2>2. /\ appended \in [Cases -> SUBSET Artifacts]
          /\ \A c \in Cases : chain[c] \subseteq appended[c]
          /\ u.id \in appended[u.case]
        BY <1>1, <1>9, <2>1
    <2> HIDE DEF appended
    <2>3. CASE GiveUp(u) /\ chain' \in {chain, appended}
        BY <1>7, <1>9, <1>10, <2>1, <2>2, <2>3
    <2>4. CASE MoveOn(u, "anchored") /\ chain' = appended /\ UNCHANGED <<page, evidence>>
        <3> DEFINE w == [u EXCEPT !.stage = "anchored"]
        <3>1. uploads' = (uploads \ {u}) \cup {w}
            BY <2>4 DEF MoveOn
        <3>2. /\ w \in Uploads /\ w.no = u.no /\ w.case = u.case /\ w.form = u.form
              /\ w.id = u.id /\ w.allowed = u.allowed /\ w.stage = "anchored"
            BY <1>11 DEF Stages
        <3> HIDE DEF w
        <3>3. /\ WasAllowed(w)
              /\ w.stage \in {"received", "admitted"} <=> w.id = NoAnswer
              /\ w.stage = "anchored" => w.id \in chain'[w.case]
            BY <1>1, <2>1, <2>2, <2>4, <3>2 DEF WasAllowed
        <3> QED
            BY <1>8, <2>2, <2>4, <3>1, <3>2, <3>3
    <2> QED
        BY <1>15, <2>3, <2>4 DEF AppendProof, appended
<1>16. CASE Finish(u)
    <2>1. chain' = chain /\ u.id # NoAnswer /\ u.id \in chain[u.case]
        BY <1>1, <1>16 DEF Finish
    <2>2. /\ Drop(u)
          /\ evidence' \in {evidence, WithStatus(u, "INGESTED"), WithStatus(u, "INGESTION_FAILED")}
        BY <1>16 DEF Finish, Refuse
    <2>3. {"INGESTED", "INGESTION_FAILED"} \subseteq Statuses
        BY DEF Statuses
    <2>4. \/ evidence' = evidence
          \/ \E s \in Statuses : evidence' = WithStatus(u, s)
        BY <2>2, <2>3
    <2> QED
        BY <1>7, <1>9, <2>1, <2>2, <2>4
<1> QED
    BY <1>12, <1>13, <1>14, <1>15, <1>16 DEF Upload

\* Somebody else's upload.
LEMMA ElsewhereKeeps ==
    ASSUME DataInv, DeskInv, IngestedElsewhere, UNCHANGED uploadVars
    PROVE  DataInv' /\ DeskInv' /\ DataGrows
<1>1. PICK id \in FreshIds, c \in Cases, f \in Forms :
         /\ evidence' = evidence \cup {[id |-> id, case |-> c, status |-> "INGESTED", form |-> f]}
         /\ chain' = [chain EXCEPT ![c] = @ \cup {id}]
    BY DEF IngestedElsewhere
<1> DEFINE row == [id |-> id, case |-> c, status |-> "INGESTED", form |-> f]
<1>2. row \in Rows /\ row.id = id /\ evidence' = evidence \cup {row}
    BY <1>1 DEF Rows, Statuses, FreshIds
<1> HIDE DEF row
<1>3. id \in Artifacts /\ \A r \in evidence : r.id # id
    BY DEF FreshIds, Ids
<1>4. /\ evidence' \subseteq Rows /\ IsFiniteSet(evidence')
      /\ \A r, s \in evidence' : r.id = s.id => r = s
    <2>1. IsFiniteSet(evidence \cup {row})
        BY FS_AddElement DEF DataInv
    <2> QED
        BY <1>2, <1>3, <2>1 DEF DataInv
<1>5. /\ chain' \in [Cases -> SUBSET Artifacts]
      /\ \A d \in Cases : chain[d] \subseteq chain'[d]
    BY <1>1, <1>3 DEF DataInv
<1>6. DataGrows
    BY <1>2, <1>5 DEF DataGrows
<1>7. UNCHANGED <<uploads, submissions, assigned>>
    BY DEF uploadVars
<1>8. \A u \in uploads : HasItsRow(u)' /\ WasAllowed(u)'
    BY <1>2, <1>7 DEF DeskInv, HasItsRow, WasAllowed
<1>9. \A u \in uploads : u.stage = "anchored" => u.id \in chain'[u.case]
    BY <1>5 DEF DeskInv, Uploads
<1>10. DataInv'
    BY <1>4, <1>5 DEF DataInv
<1>11. Vouched'
    <2>1. \A r \in evidence : r.case \in Cases
        BY DEF DataInv, Rows
    <2>2. row.case = c /\ id \in chain'[c]
        BY <1>1, <1>2, <1>3 DEF DataInv, row
    <2> QED
        BY <1>2, <1>5, <2>1, <2>2 DEF DeskInv, Vouched
<1>12. DeskInv'
    BY <1>7, <1>8, <1>9, <1>11 DEF DeskInv
<1> QED
    BY <1>6, <1>10, <1>12

\* What a change of the assignments does to an upload.
AsNow(u, v, cases) ==
    /\ v = [u EXCEPT !.allowed = @ \/ u.case \in cases]
    /\ v \in Uploads /\ v.no = u.no /\ v.case = u.case /\ v.form = u.form
    /\ v.id = u.id /\ v.stage = u.stage
    /\ (u.allowed \/ u.case \in cases) <=> v.allowed

LEMMA NowAllowed ==
    ASSUME NEW u \in Uploads, NEW cases
    PROVE  AsNow(u, [u EXCEPT !.allowed = @ \/ u.case \in cases], cases)
<1> DEFINE b == u.allowed \/ u.case \in cases
<1>1. b \in BOOLEAN
    BY DEF Uploads
<1>2. [u EXCEPT !.allowed = @ \/ u.case \in cases] = [u EXCEPT !.allowed = b]
    BY DEF Uploads
<1>3. PICK v : v = [u EXCEPT !.allowed = b]
    OBVIOUS
<1> HIDE DEF b
<1>4. /\ v \in Uploads /\ v.no = u.no /\ v.case = u.case /\ v.form = u.form
      /\ v.id = u.id /\ v.stage = u.stage /\ v.allowed = b
    BY <1>1, <1>3 DEF Uploads
<1> QED
    BY <1>2, <1>3, <1>4 DEF AsNow, b

\* An administrator's change of the assignments.
LEMMA ReassignedKeeps ==
    ASSUME DataInv, DeskInv, Reassigned
    PROVE  /\ DataInv' /\ DeskInv' /\ DataGrows
           /\ \A u \in uploads : \E v \in uploads' : v.no = u.no /\ v.case = u.case /\ v.form = u.form
<1>1. PICK c \in Cases :
         /\ assigned' = IF c \in assigned THEN assigned \ {c} ELSE assigned \cup {c}
         /\ uploads' = {[u EXCEPT !.allowed = @ \/ u.case \in assigned'] : u \in uploads}
    BY DEF Reassigned
<1>2. UNCHANGED <<evidence, chain, submissions>>
    BY DEF Reassigned
<1>3. /\ \A u \in uploads : \E v \in uploads' : AsNow(u, v, assigned')
      /\ \A v \in uploads' : \E u \in uploads : AsNow(u, v, assigned')
    <2>1. PICK cases : cases = assigned'
        OBVIOUS
    <2>2. uploads' = {[u EXCEPT !.allowed = @ \/ u.case \in cases] : u \in uploads}
        BY <1>1, <2>1
    <2>3. \A u \in uploads : AsNow(u, [u EXCEPT !.allowed = @ \/ u.case \in cases], cases)
        BY NowAllowed DEF DeskInv
    <2>4. /\ \A u \in uploads : \E v \in uploads' : AsNow(u, v, cases)
          /\ \A v \in uploads' : \E u \in uploads : AsNow(u, v, cases)
        BY <2>2, <2>3
    <2> QED
        BY <2>1, <2>4
<1>4. /\ \A r, s \in evidence : r.id = s.id => r = s
      /\ assigned' \subseteq Cases
    BY <1>1 DEF DeskInv, DataInv
<1>5. ASSUME NEW v \in uploads'
      PROVE  /\ v \in Uploads /\ v.no <= submissions'
             /\ v.stage \in {"received", "admitted"} <=> v.id = NoAnswer
             /\ HasItsRow(v)' /\ WasAllowed(v)'
             /\ v.stage = "anchored" => v.id \in chain'[v.case]
    <2>1. PICK u \in uploads : AsNow(u, v, assigned')
        BY <1>3
    <2>2. HasItsRow(v)'
        BY <1>2, <2>1 DEF AsNow, DeskInv, HasItsRow
    <2>3. WasAllowed(v)'
        BY <2>1 DEF AsNow, DeskInv, WasAllowed
    <2> QED
        BY <1>2, <2>1, <2>2, <2>3 DEF AsNow, DeskInv
<1>6. /\ \A u, v \in uploads' : u.no = v.no => u = v
      /\ \A u, v \in uploads' : u.id # NoAnswer /\ u.id = v.id => u = v
    <2> SUFFICES ASSUME NEW u \in uploads', NEW v \in uploads',
                        u.no = v.no \/ (u.id # NoAnswer /\ u.id = v.id)
                 PROVE  u = v
        OBVIOUS
    <2>1. PICK x \in uploads, y \in uploads : AsNow(x, u, assigned') /\ AsNow(y, v, assigned')
        BY <1>3
    <2>2. x = y
        BY <2>1 DEF AsNow, DeskInv
    <2> QED
        BY <2>1, <2>2 DEF AsNow
<1>7. submissions' \in Nat
    BY <1>2 DEF DeskInv
<1>8. DeskInv'
    BY <1>2, <1>4, <1>5, <1>6, <1>7 DEF DeskInv, Vouched
<1>9. DataInv' /\ DataGrows
    BY <1>2 DEF DataInv, DataGrows
<1> QED
    BY <1>3, <1>8, <1>9 DEF AsNow

-----------------------------------------------------------------------------
(* Upload page *)

Submissions == [no : Nat, case : Cases, form : Forms]

UploadPages ==
    [name : {"upload"}, cases : SUBSET Cases, casesLoading : BOOLEAN,
     caseId : Cases \cup {NoAnswer}, form : Forms \cup {NoAnswer}, loading : BOOLEAN,
     error : BOOLEAN, result : Rows \cup {NoAnswer}, submitted : Submissions \cup {NoAnswer},
     status : {"none", "403", "500", "503", "lost"}, rowId : Artifacts \cup {NoAnswer},
     asks : {{}}, last : Nat, answered : {{}}, late : BOOLEAN]

\* The upload the page has submitted last.
IsOf(pg, u) ==
    u.no = pg.submitted.no /\ u.case = pg.submitted.case /\ u.form = pg.submitted.form

UploadInv(pg) ==
    /\ pg.result # NoAnswer =>
         /\ pg.result \in evidence /\ pg.result.status = "INGESTED"
         /\ pg.result.id \in chain[pg.result.case]
         /\ pg.result.case = pg.submitted.case /\ pg.result.form = pg.submitted.form
    /\ pg.status = "503" =>
         \E r \in evidence : r.id = pg.rowId /\ r.status = "INGESTION_FAILED"
    /\ pg.status = "403" => pg.rowId = NoAnswer
    /\ pg.loading => pg.status = "none" /\ pg.result = NoAnswer /\ \E u \in uploads : IsOf(pg, u)

LEMMA UploadMounted ==
    MountedUpload \in UploadPages /\ UploadInv(MountedUpload)
<1>1. /\ MountedUpload \in UploadPages
      /\ MountedUpload.result = NoAnswer /\ MountedUpload.status = "none"
      /\ MountedUpload.loading = FALSE
    BY DEF MountedUpload, UploadPages
<1> QED
    BY <1>1 DEF UploadInv

\* What of the page its outcome depends on.
SameOutcome(pg, after) ==
    /\ after.result = pg.result /\ after.submitted = pg.submitted
    /\ after.status \in {pg.status, "none"}
    /\ after.rowId = pg.rowId /\ after.loading = pg.loading

LEMMA OutcomeKept ==
    ASSUME NEW pg, UploadInv(pg), NEW after, SameOutcome(pg, after)
    PROVE  UploadInv(after)
BY DEF SameOutcome, UploadInv, IsOf

LEMMA UploadRaised ==
    ASSUME NEW pg \in UploadPages, UploadInv(pg), NEW n \in Nat,
           NEW after, after = [pg EXCEPT !.last = @ + n]
    PROVE  after \in UploadPages /\ UploadInv(after)
<1>1. pg.last \in Nat /\ pg.last + n \in Nat
    BY DEF UploadPages
<1>2. after \in UploadPages /\ SameOutcome(pg, after)
    BY <1>1 DEF UploadPages, SameOutcome
<1> QED
    BY <1>2, OutcomeKept

\* What the page shows stays true while the servers go on.
LEMMA OutcomeStands ==
    ASSUME DataInv, DataGrows, NEW pg \in UploadPages, UploadInv(pg),
           NEW after, SameOutcome(pg, after),
           after.loading => \E u \in uploads' : IsOf(pg, u)
    PROVE  UploadInv(after)'
<1>1. pg.result # NoAnswer =>
         /\ pg.result \in evidence' /\ pg.result.id \in chain'[pg.result.case]
    BY DEF UploadPages, UploadInv, DataGrows, Rows
<1>2. pg.status = "503" =>
         \E r \in evidence' : r.id = pg.rowId /\ r.status = "INGESTION_FAILED"
    BY DEF UploadInv, DataGrows
<1> QED
    BY <1>1, <1>2 DEF UploadInv, SameOutcome, IsOf

LEMMA UploadFillsIn ==
    ASSUME DeskInv, page \in UploadPages, UploadInv(page),
           UploadCases \/ FillForm \/ resetForm \/ AnswerLost
    PROVE  /\ page' \in UploadPages /\ UploadInv(page)'
           /\ UNCHANGED <<evidence, chain, uploadVars>>
<1>1. UNCHANGED <<evidence, chain, uploads, submissions, assigned>>
    BY DEF UploadCases, FillForm, resetForm, AnswerLost, uploadVars
<1>2. ASSUME UploadInv(page') PROVE UploadInv(page)'
    BY <1>1, <1>2 DEF UploadInv, IsOf
<1>3. CASE UploadCases
    <2>1. PICK data \in {assigned, page.cases} :
             page' = [page EXCEPT !.cases = data, !.casesLoading = FALSE]
        BY <1>3 DEF UploadCases
    <2>2. data \in SUBSET Cases
        BY DEF DeskInv, UploadPages
    <2>3. page' \in UploadPages /\ SameOutcome(page, page')
        BY <2>1, <2>2 DEF UploadPages, SameOutcome
    <2> QED
        BY <1>1, <1>2, <2>3, OutcomeKept DEF uploadVars
<1>4. CASE FillForm
    <2>1. page' \in UploadPages /\ SameOutcome(page, page')
        <3>1. ASSUME NEW c \in page.cases, page' = [page EXCEPT !.caseId = c]
              PROVE  page' \in UploadPages /\ SameOutcome(page, page')
            BY <3>1 DEF UploadPages, SameOutcome
        <3>2. ASSUME NEW f \in Forms, page' = [page EXCEPT !.form = f]
              PROVE  page' \in UploadPages /\ SameOutcome(page, page')
            BY <3>2 DEF UploadPages, SameOutcome
        <3> QED
            BY <1>4, <3>1, <3>2 DEF FillForm
    <2> QED
        BY <1>1, <1>2, <2>1, OutcomeKept DEF uploadVars
<1>5. CASE resetForm
    <2>1. page' = [page EXCEPT !.caseId = NoAnswer, !.form = NoAnswer, !.error = FALSE,
                          !.result = NoAnswer, !.submitted = NoAnswer, !.status = "none",
                          !.rowId = NoAnswer]
          /\ page.result # NoAnswer
        BY <1>5 DEF resetForm
    <2>2. /\ page' \in UploadPages
          /\ page'.result = NoAnswer /\ page'.status = "none" /\ page'.loading = page.loading
        BY <2>1 DEF UploadPages
    <2>3. ~page.loading
        BY <2>1 DEF UploadInv
    <2> QED
        BY <1>1, <1>2, <2>2, <2>3 DEF UploadInv, uploadVars
<1>6. CASE AnswerLost
    <2>1. PICK u \in uploads : Awaits(u) /\ page' = Errored(u, "lost")
        BY <1>6 DEF AnswerLost
    <2>2. page' = [page EXCEPT !.error = TRUE, !.loading = FALSE, !.status = "lost", !.rowId = u.id]
        BY <2>1 DEF Errored, UploadPages
    <2>3. u.id \in Artifacts \cup {NoAnswer}
        BY DEF DeskInv, Uploads
    <2>4. /\ page' \in UploadPages
          /\ page'.loading = FALSE /\ page'.status = "lost"
          /\ page'.result = page.result /\ page'.submitted = page.submitted
        BY <2>2, <2>3 DEF UploadPages
    <2>5. UploadInv(page')
        BY <2>4 DEF UploadInv
    <2> QED
        BY <1>1, <1>2, <2>4, <2>5 DEF uploadVars
<1> QED
    BY <1>3, <1>4, <1>5, <1>6

LEMMA SubmitKeeps ==
    ASSUME DataInv, DeskInv, page \in UploadPages, UploadInv(page), handleSubmit
    PROVE  /\ DataInv' /\ DeskInv' /\ DataGrows
           /\ page' \in UploadPages /\ UploadInv(page)'
<1>1. UNCHANGED <<evidence, chain>>
    BY DEF handleSubmit
<1>2. DataInv' /\ DataGrows
    BY <1>1 DEF DataInv, DataGrows
<1>3. CASE page.form = NoAnswer
    <2>1. page' = [page EXCEPT !.error = TRUE, !.status = "none"]
          /\ UNCHANGED <<uploads, submissions, assigned>>
        BY <1>3 DEF handleSubmit, uploadVars
    <2>2. page' \in UploadPages /\ SameOutcome(page, page')
        BY <2>1 DEF UploadPages, SameOutcome
    <2>3. DeskInv'
        BY <1>1, <2>1 DEF DeskInv, HasItsRow, WasAllowed, Vouched
    <2>4. UploadInv(page)'
        BY <1>1, <2>1, <2>2 DEF UploadInv, SameOutcome, IsOf
    <2> QED
        BY <1>2, <2>2, <2>3, <2>4
<1>4. CASE page.form # NoAnswer
    <2> DEFINE may == page.caseId \in assigned
    <2>1. PICK no, u, said :
             /\ no = submissions + 1
             /\ u = [no |-> no, case |-> page.caseId, form |-> page.form, id |-> NoAnswer,
                     stage |-> "received", allowed |-> may]
             /\ said = [no |-> no, case |-> page.caseId, form |-> page.form]
        OBVIOUS
    <2>2. /\ submissions \in Nat /\ no \in Nat /\ no > submissions
          /\ page.caseId \in Cases /\ page.form \in Forms
        BY <1>4, <2>1 DEF handleSubmit, DeskInv, UploadPages
    <2>3. may \in BOOLEAN
        OBVIOUS
    <2>4. /\ submissions' = no /\ uploads' = uploads \cup {u} /\ assigned' = assigned
          /\ page' = [page EXCEPT !.loading = TRUE, !.error = FALSE, !.status = "none",
                        !.rowId = NoAnswer, !.submitted = said]
          /\ page.result = NoAnswer
        BY <1>4, <2>1 DEF handleSubmit, AtForm
    <2> HIDE DEF may
    <2>5. /\ u \in Uploads /\ u.no = no /\ u.case = page.caseId /\ u.form = page.form
          /\ u.id = NoAnswer /\ u.stage = "received" /\ u.allowed = may
        BY <2>1, <2>2, <2>3 DEF Uploads, Stages
    <2>6. /\ said \in Submissions /\ said.no = no /\ said.case = page.caseId
          /\ said.form = page.form
        BY <2>1, <2>2 DEF Submissions
    <2>7. /\ page' \in UploadPages
          /\ page'.loading = TRUE /\ page'.status = "none"
          /\ page'.submitted = said /\ page'.result = NoAnswer
        <3>1. said \in Submissions \cup {NoAnswer}
            BY <2>6
        <3>2. PICK s : s = said
            OBVIOUS
        <3>3. page' = [page EXCEPT !.loading = TRUE, !.error = FALSE, !.status = "none",
                                   !.rowId = NoAnswer, !.submitted = s]
            BY <2>4, <3>2
        <3>4. page' \in UploadPages
            BY <3>1, <3>2, <3>3 DEF UploadPages
        <3>5. /\ page'.loading = TRUE /\ page'.status = "none"
              /\ page'.submitted = s /\ page'.result = page.result
            BY <3>3 DEF UploadPages
        <3> QED
            BY <2>4, <3>2, <3>4, <3>5
    <2>8. UploadInv(page)'
        BY <2>4, <2>5, <2>6, <2>7 DEF UploadInv, IsOf
    <2>9. DeskInv'
        <3>1. \A v \in uploads : HasItsRow(v)' /\ WasAllowed(v)'
            BY <1>1, <2>4 DEF DeskInv, HasItsRow, WasAllowed
        <3>2. HasItsRow(u)' /\ WasAllowed(u)'
            BY <2>4, <2>5 DEF HasItsRow, WasAllowed, may
        <3>3. \A v \in uploads : v.no \in Nat /\ v.no <= submissions
            BY DEF DeskInv, Uploads
        <3>4. \A v \in uploads : v.no # u.no /\ (v.id # NoAnswer => v.id # u.id)
            BY <2>2, <2>5, <3>3
        <3>5. /\ evidence' \subseteq Rows /\ IsFiniteSet(evidence')
              /\ \A r, s \in evidence' : r.id = s.id => r = s
              /\ chain' \in [Cases -> SUBSET Artifacts]
              /\ \A c \in Cases : chain[c] \subseteq chain'[c]
            BY <1>1 DEF DataInv
        <3>6. /\ submissions' \in Nat /\ submissions <= submissions' /\ assigned' \subseteq Cases
              /\ u.no <= submissions'
            BY <2>2, <2>4, <2>5 DEF DeskInv
        <3>7. uploads \in SUBSET uploads /\ uploads' \in {uploads, uploads \cup {u}}
            BY <2>4
        <3>8. /\ u.stage \in {"received", "admitted"} <=> u.id = NoAnswer
              /\ u.stage # "anchored"
            BY <2>5
        <3>9. Vouched'
            BY <1>1 DEF DeskInv, Vouched
        <3> QED
            BY <2>5, <3>1, <3>2, <3>4, <3>5, <3>6, <3>7, <3>8, <3>9, DeskAfter
    <2> QED
        BY <1>2, <2>7, <2>8, <2>9
<1> QED
    BY <1>3, <1>4

LEMMA UploadGoesOn ==
    ASSUME DataInv, DeskInv, DataGrows, page \in UploadPages, UploadInv(page),
           NEW u \in uploads, Upload(u)
    PROVE  page' \in UploadPages /\ UploadInv(page)'
<1>1. PICK after : after = page'
    OBVIOUS
<1>2. ASSUME UploadInv(after)' PROVE UploadInv(page)'
    BY <1>1, <1>2 DEF UploadInv, IsOf
<1>3. /\ u \in Uploads
      /\ u.stage \in {"received", "admitted"} <=> u.id = NoAnswer
      /\ u.stage = "anchored" => u.id \in chain[u.case]
    BY DEF DeskInv
<1>4. \A v \in uploads : page.loading /\ IsOf(page, v) => Awaits(v)
    BY DEF IsOf, Awaits, UploadPages
<1>5. ASSUME page' = page, NEW w, uploads' = (uploads \ {u}) \cup {w},
             w.no = u.no, w.case = u.case, w.form = u.form
      PROVE  page' \in UploadPages /\ UploadInv(page)'
    <2>1. page.loading => \E v \in uploads' : IsOf(page, v)
        BY <1>5 DEF UploadInv, IsOf
    <2> QED
        BY <1>1, <1>2, <1>5, <2>1, OutcomeStands DEF SameOutcome
<1>6. ASSUME page' = page, Drop(u), ~Awaits(u)
      PROVE  page' \in UploadPages /\ UploadInv(page)'
    <2>1. page.loading => \E v \in uploads' : IsOf(page, v)
        BY <1>4, <1>6 DEF UploadInv, Drop
    <2> QED
        BY <1>1, <1>2, <1>6, <2>1, OutcomeStands DEF SameOutcome
<1>7. Awaits(u) => /\ page.loading /\ page.status = "none" /\ page.result = NoAnswer
                   /\ IsOf(page, u)
    BY DEF Awaits, UploadInv, DeskInv, IsOf
<1>8. ASSUME NEW x, x.no = u.no, x.id \in Artifacts \cup {NoAnswer},
             NEW status \in {"403", "500", "503"}, page' = Errored(x, status), Drop(u),
             status = "403" => x.id = NoAnswer,
             status = "503" => \E r \in evidence' : r.id = x.id /\ r.status = "INGESTION_FAILED"
      PROVE  page' \in UploadPages /\ UploadInv(page)'
    <2>0. Awaits(x) <=> Awaits(u)
        BY <1>8 DEF Awaits
    <2>1. CASE ~Awaits(u)
        BY <1>6, <1>8, <2>0, <2>1 DEF Errored
    <2>2. CASE Awaits(u)
        <3>1. page' = [page EXCEPT !.error = TRUE, !.loading = FALSE, !.status = status,
                                   !.rowId = x.id]
            BY <1>8, <2>0, <2>2 DEF Errored
        <3>3. /\ page' \in UploadPages
              /\ page'.loading = FALSE /\ page'.rowId = x.id /\ page'.result = page.result
              /\ page'.status = status
            BY <1>8, <3>1 DEF UploadPages
        <3> QED
            BY <1>7, <1>8, <2>2, <3>3 DEF UploadInv
    <2> QED
        BY <2>1, <2>2
<1>0. u.id \in Artifacts \cup {NoAnswer}
    BY <1>3 DEF Uploads
<1>9. ASSUME GiveUp(u), u.id # NoAnswer PROVE page' \in UploadPages /\ UploadInv(page)'
    <2>1. CASE Refuse(u, "500")
        BY <1>0, <1>8, <2>1 DEF Refuse
    <2>2. CASE Refuse(u, "503") /\ evidence' = WithStatus(u, "INGESTION_FAILED")
        <3> DEFINE r == RowOf(u)
                   t == [r EXCEPT !.status = "INGESTION_FAILED"]
        <3>2. "INGESTION_FAILED" \in Statuses
            BY DEF Statuses
        <3>3. /\ t.id = u.id /\ t.status = "INGESTION_FAILED"
              /\ WithStatus(u, "INGESTION_FAILED") = (evidence \ {r}) \cup {t}
            BY <1>9, <3>2, RowsChange
        <3> HIDE DEF r, t
        <3>4. \E x \in evidence' : x.id = u.id /\ x.status = "INGESTION_FAILED"
            BY <2>2, <3>3
        <3> QED
            BY <1>0, <1>8, <2>2, <3>4 DEF Refuse
    <2> QED
        BY <1>9, <2>1, <2>2 DEF GiveUp
<1>10. ASSUME NEW stage \in Stages, MoveOn(u, stage), page' = page
       PROVE  page' \in UploadPages /\ UploadInv(page)'
    <2> DEFINE w == [u EXCEPT !.stage = stage]
    <2>1. w.no = u.no /\ w.case = u.case /\ w.form = u.form /\ uploads' = (uploads \ {u}) \cup {w}
        BY <1>3, <1>10 DEF Uploads, MoveOn
    <2> HIDE DEF w
    <2> QED
        BY <1>5, <1>10, <2>1
<1>11. CASE CheckAssignment(u)
    <2>1. CASE MoveOn(u, "admitted") /\ UNCHANGED page
        BY <1>10, <2>1 DEF Stages
    <2>2. CASE Refuse(u, "403")
        <3>1. u.id = NoAnswer
            BY <1>3, <1>11 DEF CheckAssignment
        <3> QED
            BY <1>0, <1>8, <2>2, <3>1 DEF Refuse
    <2> QED
        BY <1>11, <2>1, <2>2 DEF CheckAssignment
<1>12. CASE Store(u)
    <2>1. CASE Refuse(u, "500")
        BY <1>0, <1>8, <2>1 DEF Refuse
    <2>2. ASSUME NEW id \in FreshIds, NEW stored, stored = [u EXCEPT !.stage = "stored", !.id = id],
                 \/ uploads' = (uploads \ {u}) \cup {stored} /\ UNCHANGED page
                 \/ Drop(u) /\ page' = Errored(stored, "500")
          PROVE  page' \in UploadPages /\ UploadInv(page)'
        <3>1. /\ stored.no = u.no /\ stored.case = u.case /\ stored.form = u.form
              /\ stored.id \in Artifacts \cup {NoAnswer}
            BY <1>3, <2>2 DEF Uploads, FreshIds
        <3>2. CASE uploads' = (uploads \ {u}) \cup {stored} /\ UNCHANGED page
            BY <1>5, <3>1, <3>2
        <3>3. CASE Drop(u) /\ page' = Errored(stored, "500")
            BY <1>8, <3>1, <3>3
        <3> QED
            BY <2>2, <3>2, <3>3
    <2> QED
        BY <1>12, <2>1, <2>2 DEF Store
<1>13. CASE HashAndSign(u)
    <2>1. u.id # NoAnswer
        BY <1>3, <1>13 DEF HashAndSign
    <2> QED
        BY <1>9, <1>10, <1>13, <2>1 DEF HashAndSign, Stages
<1>14. CASE AppendProof(u)
    <2>1. u.id # NoAnswer
        BY <1>3, <1>14 DEF AppendProof
    <2> QED
        BY <1>9, <1>10, <1>14, <2>1 DEF AppendProof, Stages
<1>15. CASE Finish(u)
    <2>1. CASE Refuse(u, "500")
        BY <1>0, <1>8, <2>1 DEF Refuse
    <2>2. CASE /\ Drop(u)
               /\ evidence' = WithStatus(u, "INGESTED")
               /\ page' = Succeeded(u, [RowOf(u) EXCEPT !.status = "INGESTED"])
        <3> DEFINE r == RowOf(u)
                   t == [r EXCEPT !.status = "INGESTED"]
        <3>1. "INGESTED" \in Statuses /\ u.id # NoAnswer /\ chain' = chain /\ u.id \in chain[u.case]
            BY <1>3, <1>15 DEF Finish, Statuses
        <3>2. /\ t \in Rows /\ t.id = u.id /\ t.case = u.case /\ t.form = u.form
              /\ t.status = "INGESTED"
              /\ WithStatus(u, "INGESTED") = (evidence \ {r}) \cup {t}
            BY <3>1, RowsChange
        <3>3. page' = Succeeded(u, t) /\ Drop(u) /\ t \in evidence'
            BY <2>2, <3>2
        <3> HIDE DEF r, t
        <3>4. CASE ~Awaits(u)
            BY <1>6, <3>3, <3>4 DEF Succeeded
        <3>5. CASE Awaits(u)
            <4>1. page' = [page EXCEPT !.result = t, !.loading = FALSE]
                BY <3>3, <3>5 DEF Succeeded
            <4>2. /\ page' \in UploadPages
                  /\ page'.loading = FALSE /\ page'.result = t
                  /\ page'.submitted = page.submitted /\ page'.status = page.status
                BY <3>2, <4>1 DEF UploadPages
            <4> QED
                BY <1>7, <3>1, <3>2, <3>3, <3>5, <4>2 DEF UploadInv, IsOf
        <3> QED
            BY <3>4, <3>5
    <2> QED
        BY <1>15, <2>1, <2>2 DEF Finish
<1> QED
    BY <1>11, <1>12, <1>13, <1>14, <1>15 DEF Upload

\* What the upload page tells is true.
LEMMA UploadTells ==
    ASSUME DeskInv, page \in UploadPages, UploadInv(page)
    PROVE  UploadOutcomeTrue
<1>1. ASSUME page.result # NoAnswer
      PROVE  page.result = [id |-> page.result.id, case |-> page.result.case,
                            status |-> "INGESTED", form |-> page.result.form]
    <2>1. page.result \in Rows /\ page.result.status = "INGESTED"
        BY <1>1 DEF UploadPages, UploadInv
    <2> QED
        BY <2>1 DEF Rows
<1> QED
    BY <1>1 DEF UploadInv, UploadOutcomeTrue, SuccessCard, IsOf, DeskInv, Vouched

LEMMA DeskAllows ==
    ASSUME DataInv, DeskInv
    PROVE  UploadWasAllowed
BY DEF DeskInv, UploadWasAllowed, HasItsRow, WasAllowed

-----------------------------------------------------------------------------
(* Reports at the server *)

\* What putting an element before a sequence does.
LEMMA Prepend ==
    ASSUME NEW S, NEW s \in Seq(S), NEW e \in S, NEW t, t = <<e>> \o s
    PROVE  /\ t \in Seq(S) /\ Len(t) = Len(s) + 1 /\ Len(s) \in Nat
           /\ DOMAIN t = 1..(Len(s) + 1) /\ DOMAIN s = 1..Len(s)
           /\ t[1] = e /\ \A i \in 2..(Len(s) + 1) : t[i] = s[i - 1]
<1>1. <<e>> \in Seq(S) /\ Len(<<e>>) = 1 /\ <<e>>[1] = e
    OBVIOUS
<1>2. /\ t \in Seq(S) /\ Len(t) = 1 + Len(s)
      /\ \A i \in 1..(1 + Len(s)) : t[i] = IF i <= 1 THEN <<e>>[i] ELSE s[i - 1]
    BY <1>1, ConcatProperties
<1>3. Len(s) \in Nat /\ DOMAIN t = 1..Len(t) /\ DOMAIN s = 1..Len(s)
    BY <1>2, LenProperties
<1>4. t[1] = e /\ \A i \in 2..(Len(s) + 1) : t[i] = s[i - 1]
    BY <1>1, <1>2, <1>3
<1>5. DOMAIN t = 1..(Len(s) + 1)
    BY <1>2, <1>3
<1> QED
    BY <1>2, <1>3, <1>4, <1>5

ReportRows == [id : ReportIds, of : Artifacts]
Generations ==
    [of : Artifacts, id : ReportIds \cup {NoAnswer},
     stage : {"received", "filed", "anchored", "committed"}, live : BOOLEAN]

\* A generation past its first step has an id of its own, with a file, and a row
\* from the commit on.
Filed(g) ==
    g.stage # "received" =>
      g.id \in ReportIds /\ archive[g.id] # "none" /\ (g.id \in OnRecord <=> g.stage = "committed")

ReportsInv ==
    /\ reports \in Seq(ReportRows)
    /\ archive \in [ReportIds -> {"none", "intact", "altered"}]
    /\ anchored \subseteq ReportIds
    /\ generations \subseteq Generations
    /\ \A id \in OnRecord \cup anchored : archive[id] # "none"
    /\ published \subseteq OnRecord
    /\ \A i, j \in DOMAIN reports : reports[i].id = reports[j].id => i = j
    /\ \A g \in generations : Filed(g)
    /\ \A g, h \in generations :
         g.stage # "received" /\ h.stage # "received" /\ g.id = h.id => g = h

\* Files, rows and alterations of files stay.
ReportsGrow ==
    /\ OnRecord \subseteq OnRecord'
    /\ \A id \in ReportIds : archive[id] # "none" => archive'[id] # "none"
    /\ \A id \in ReportIds : archive[id] = "altered" => archive'[id] = "altered"

LEMMA OnRecordTyped ==
    ASSUME reports \in Seq(ReportRows)
    PROVE  OnRecord \subseteq ReportIds
<1>1. \A i \in DOMAIN reports : reports[i] \in ReportRows
    BY ElementOfSeq, LenProperties
<1> QED
    BY <1>1 DEF OnRecord, ReportRows

\* The list a page gets: ids of rows, each once.
LEMMA ListOfReports ==
    ASSUME ReportsInv, NEW a, NEW rows \in ByArtifact(a)
    PROVE  /\ rows \in Seq(ReportIds)
           /\ ToSet(rows) \subseteq OnRecord
           /\ IsInjective(rows)
<1> DEFINE mine == {i \in DOMAIN reports : reports[i].of = a}
<1>1. PICK at \in SetToSeqs(mine) : rows = [k \in DOMAIN at |-> reports[at[k]].id]
    BY DEF ByArtifact
<1>2. /\ Len(reports) \in Nat /\ DOMAIN reports = 1..Len(reports)
      /\ \A i \in DOMAIN reports : reports[i] \in ReportRows
    BY ElementOfSeq, LenProperties DEF ReportsInv
<1>3. IsFiniteSet(mine)
    <2>1. IsFiniteSet(1..Len(reports))
        BY <1>2, FS_Interval
    <2> QED
        BY <1>2, <2>1, FS_Subset
<1>4. Cardinality(mine) \in Nat
    BY <1>3, FS_CardinalityType
<1> DEFINE n == Cardinality(mine)
<1>5. /\ at \in [1..n -> mine]
      /\ \A k, l \in 1..n : k # l => at[k] # at[l]
    BY DEF SetToSeqs
<1> HIDE DEF n
<1>6. \A k \in 1..n : at[k] \in DOMAIN reports /\ reports[at[k]].id \in ReportIds
    BY <1>2, <1>5 DEF ReportRows
<1>7. /\ rows \in [1..n -> ReportIds]
      /\ \A k \in 1..n : rows[k] = reports[at[k]].id
    BY <1>1, <1>5, <1>6
<1>8. rows \in Seq(ReportIds)
    BY <1>4, <1>7, SeqDef DEF n
<1>9. ToSet(rows) \subseteq OnRecord
    BY <1>6, <1>7 DEF ToSet, OnRecord
<1>10. IsInjective(rows)
    BY <1>5, <1>6, <1>7 DEF IsInjective, ReportsInv
<1> QED
    BY <1>8, <1>9, <1>10

\* What is left of the invariant when tables and generations have changed.
LEMMA ReportsAfter ==
    ASSUME ReportsInv, NEW keeps \in SUBSET generations, NEW new,
           \A g \in generations' : g \in keeps \/ g = new,
           reports' \in Seq(ReportRows),
           archive' \in [ReportIds -> {"none", "intact", "altered"}],
           anchored' \subseteq ReportIds,
           \A id \in OnRecord' \cup anchored' : archive'[id] # "none",
           published' \subseteq OnRecord',
           \A i, j \in DOMAIN reports' : reports'[i].id = reports'[j].id => i = j,
           \A g \in keeps : Filed(g)',
           new \in generations' =>
             /\ new \in Generations /\ Filed(new)'
             /\ \A g \in keeps : g.stage # "received" /\ new.stage # "received" => g.id # new.id
    PROVE  ReportsInv'
<1>1. \A g \in generations' : g \in Generations /\ Filed(g)'
    BY DEF ReportsInv
<1>2. \A g, h \in generations' :
         g.stage # "received" /\ h.stage # "received" /\ g.id = h.id => g = h
    BY DEF ReportsInv
<1> QED
    BY <1>1, <1>2 DEF ReportsInv

\* Neither files nor rows change: Filed stays.
LEMMA FiledStays ==
    ASSUME NEW g, Filed(g), UNCHANGED <<reports, archive>>
    PROVE  Filed(g)' /\ OnRecord' = OnRecord
<1>1. OnRecord' = OnRecord
    BY DEF OnRecord
<1> QED
    BY <1>1 DEF Filed

LEMMA GenerateKeeps ==
    ASSUME ReportsInv, page.of \in Artifacts, UNCHANGED <<reports, archive, anchored, published>>,
           generations' = generations \cup
             {[of |-> page.of, id |-> NoAnswer, stage |-> "received", live |-> TRUE]}
    PROVE  ReportsInv' /\ ReportsGrow
<1>1. PICK g : g = [of |-> page.of, id |-> NoAnswer, stage |-> "received", live |-> TRUE]
    OBVIOUS
<1>2. g \in Generations /\ g.stage = "received"
    BY <1>1 DEF Generations
<1>3. OnRecord' = OnRecord /\ \A h \in generations : Filed(h)'
    BY FiledStays DEF ReportsInv, OnRecord
<1>4. Filed(g)'
    BY <1>2 DEF Filed
<1>5. generations \in SUBSET generations /\ \A h \in generations' : h \in generations \/ h = g
    BY <1>1
<1>6. /\ reports' \in Seq(ReportRows)
      /\ archive' \in [ReportIds -> {"none", "intact", "altered"}]
      /\ anchored' \subseteq ReportIds
      /\ \A id \in OnRecord' \cup anchored' : archive'[id] # "none"
      /\ published' \subseteq OnRecord'
      /\ \A i, j \in DOMAIN reports' : reports'[i].id = reports'[j].id => i = j
    BY <1>3 DEF ReportsInv
<1>7. ReportsInv'
    BY <1>2, <1>3, <1>4, <1>5, <1>6, ReportsAfter
<1> QED
    BY <1>3, <1>7 DEF ReportsGrow

\* A generation that is over, or whose page is gone.
LEMMA EndedKeeps ==
    ASSUME ReportsInv, NEW g \in generations, generations' = generations \ {g},
           UNCHANGED <<reports, archive, anchored>>,
           published' \subseteq published \cup OnRecord
    PROVE  ReportsInv' /\ ReportsGrow
<1>1. OnRecord' = OnRecord /\ \A h \in generations : Filed(h)'
    BY FiledStays DEF ReportsInv, OnRecord
<1>2. /\ reports' \in Seq(ReportRows)
      /\ archive' \in [ReportIds -> {"none", "intact", "altered"}]
      /\ anchored' \subseteq ReportIds
      /\ \A id \in OnRecord' \cup anchored' : archive'[id] # "none"
      /\ published' \subseteq OnRecord'
      /\ \A i, j \in DOMAIN reports' : reports'[i].id = reports'[j].id => i = j
    BY <1>1 DEF ReportsInv
<1>3. PICK keeps \in SUBSET generations : keeps = generations \ {g}
    OBVIOUS
<1>4. generations' = keeps /\ g \notin keeps /\ \A h \in keeps : Filed(h)'
    BY <1>1, <1>3
<1>5. (\A h \in generations' : h \in keeps \/ h = g) /\ g \notin generations'
    BY <1>4
<1>6. ReportsInv'
    BY <1>2, <1>4, <1>5, ReportsAfter
<1> QED
    BY <1>1, <1>6 DEF ReportsGrow

LEMMA LeftKeeps ==
    ASSUME ReportsInv, UNCHANGED <<reports, archive, anchored, published>>,
           generations' = {[g EXCEPT !.live = FALSE] : g \in generations}
    PROVE  ReportsInv' /\ \A g \in generations' : ~g.live
<1>1. OnRecord' = OnRecord
    BY DEF OnRecord
<1>2. ASSUME NEW h \in generations'
      PROVE  /\ h \in Generations /\ h.live = FALSE
             /\ \E g \in generations : h = [g EXCEPT !.live = FALSE] /\ h.id = g.id /\ h.stage = g.stage
    <2>1. PICK g \in generations : h = [g EXCEPT !.live = FALSE]
        OBVIOUS
    <2> QED
        BY <2>1 DEF ReportsInv, Generations
<1>3. ASSUME NEW h \in generations' PROVE Filed(h)'
    <2>1. PICK g \in generations : h.id = g.id /\ h.stage = g.stage
        BY <1>2
    <2>2. Filed(g)
        BY DEF ReportsInv
    <2> QED
        BY <1>1, <2>1, <2>2 DEF Filed
<1>4. ASSUME NEW h \in generations', NEW k \in generations',
             h.stage # "received", k.stage # "received", h.id = k.id
      PROVE  h = k
    <2>1. PICK g \in generations : h = [g EXCEPT !.live = FALSE] /\ h.id = g.id /\ h.stage = g.stage
        BY <1>2
    <2>2. PICK f \in generations : k = [f EXCEPT !.live = FALSE] /\ k.id = f.id /\ k.stage = f.stage
        BY <1>2
    <2>3. g = f
        BY <1>4, <2>1, <2>2 DEF ReportsInv
    <2> QED
        BY <2>1, <2>2, <2>3
<1>5. generations' \subseteq Generations
    BY <1>2
<1>6. ReportsInv'
    BY <1>1, <1>3, <1>4, <1>5 DEF ReportsInv
<1> QED
    BY <1>2, <1>6

LEMMA TamperKeeps ==
    ASSUME ReportsInv, Tamper
    PROVE  ReportsInv' /\ ReportsGrow /\ UNCHANGED <<page, generations>>
<1>1. PICK id \in OnRecord : archive[id] = "intact" /\ archive' = [archive EXCEPT ![id] = "altered"]
    BY DEF Tamper
<1>2. UNCHANGED <<reports, anchored, published, generations, page>> /\ OnRecord' = OnRecord
    BY DEF Tamper, OnRecord
<1>3. id \in ReportIds /\ OnRecord \subseteq ReportIds
    BY OnRecordTyped DEF ReportsInv
<1>4. /\ archive' \in [ReportIds -> {"none", "intact", "altered"}]
      /\ \A k \in ReportIds : (archive'[k] # "none" <=> archive[k] # "none")
      /\ \A k \in ReportIds : archive[k] = "altered" => archive'[k] = "altered"
    BY <1>1, <1>3 DEF ReportsInv
<1>5. \A g \in generations : Filed(g)'
    BY <1>2, <1>4 DEF ReportsInv, Filed
<1>6. \A k \in OnRecord' \cup anchored' : archive'[k] # "none"
    BY <1>2, <1>3, <1>4 DEF ReportsInv
<1>7. ReportsInv'
    BY <1>2, <1>4, <1>5, <1>6 DEF ReportsInv
<1> QED
    BY <1>2, <1>4, <1>7 DEF ReportsGrow

LEMMA AdvanceKeeps ==
    ASSUME ReportsInv, NEW g \in generations,
           WriteFile(g) \/ AnchorReport(g) \/ CommitReport(g)
    PROVE  /\ ReportsInv' /\ ReportsGrow /\ UNCHANGED page
           /\ \E w \in Generations :
                /\ generations' = (generations \ {g}) \cup {w}
                /\ w.live = g.live /\ w.stage # "received"
                /\ (g.stage # "received" /\ w.id = g.id) \/ w.id \notin OnRecord
<1>1. g \in Generations /\ Filed(g)
    BY DEF ReportsInv
<1>2. PICK keeps \in SUBSET generations : keeps = generations \ {g}
    OBVIOUS
<1>3. \A h \in keeps : h.stage # "received" /\ g.stage # "received" => h.id # g.id
    BY <1>2 DEF ReportsInv
<1>4. /\ OnRecord \subseteq ReportIds
      /\ \A id \in OnRecord \cup anchored : archive[id] # "none"
    BY OnRecordTyped DEF ReportsInv
<1>5. ASSUME NEW stage \in {"filed", "anchored", "committed"}
      PROVE  /\ [g EXCEPT !.stage = stage] \in Generations
             /\ [g EXCEPT !.stage = stage].id = g.id
             /\ [g EXCEPT !.stage = stage].live = g.live
             /\ [g EXCEPT !.stage = stage].stage = stage
    BY <1>1 DEF Generations
<1>6. CASE WriteFile(g)
    <2>1. PICK id \in ReportIds \ UsedIds :
             /\ archive' = [archive EXCEPT ![id] = "intact"]
             /\ generations' = (generations \ {g}) \cup {[g EXCEPT !.stage = "filed", !.id = id]}
        BY <1>6 DEF WriteFile
    <2>2. UNCHANGED <<page, reports, anchored, published>> /\ OnRecord' = OnRecord
        BY <1>6 DEF WriteFile, OnRecord
    <2>3. archive[id] = "none" /\ id \notin OnRecord \cup anchored
        BY <1>4, <2>1 DEF UsedIds
    <2>4. PICK w : w = [g EXCEPT !.stage = "filed", !.id = id]
        OBVIOUS
    <2>5. /\ w \in Generations /\ w.id = id /\ w.stage = "filed" /\ w.live = g.live
        BY <1>1, <2>4 DEF Generations
    <2>6. /\ archive' \in [ReportIds -> {"none", "intact", "altered"}]
          /\ archive'[id] = "intact"
          /\ \A k \in ReportIds : k # id => archive'[k] = archive[k]
        BY <2>1 DEF ReportsInv
    <2>7. \A h \in generations : h.stage # "received" => h.id # id
        BY <2>3 DEF ReportsInv, Filed
    <2>8. \A h \in keeps : Filed(h)'
        BY <1>2, <2>2, <2>6, <2>7 DEF ReportsInv, Filed
    <2>9. Filed(w)'
        BY <2>2, <2>3, <2>5, <2>6 DEF Filed
    <2>10. /\ \A k \in OnRecord' \cup anchored' : archive'[k] # "none"
           /\ reports' \in Seq(ReportRows) /\ anchored' \subseteq ReportIds
           /\ published' \subseteq OnRecord'
           /\ \A i, j \in DOMAIN reports' : reports'[i].id = reports'[j].id => i = j
        BY <1>4, <2>2, <2>3, <2>6 DEF ReportsInv
    <2>11. \A h \in generations' : h \in keeps \/ h = w
        BY <1>2, <2>1, <2>4
    <2>12. \A h \in keeps : h.stage # "received" /\ w.stage # "received" => h.id # w.id
        BY <1>2, <2>5, <2>7
    <2>13. ReportsInv'
        BY <2>5, <2>6, <2>8, <2>9, <2>10, <2>11, <2>12, ReportsAfter
    <2>14. ReportsGrow
        BY <2>2, <2>3, <2>6 DEF ReportsGrow
    <2> QED
        BY <2>1, <2>2, <2>3, <2>4, <2>5, <2>13, <2>14
<1>7. CASE AnchorReport(g)
    <2>1. UNCHANGED <<page, reports, archive, published>> /\ OnRecord' = OnRecord
        BY <1>7 DEF AnchorReport, OnRecord
    <2>2. g.stage = "filed" /\ anchored' \in {anchored, anchored \cup {g.id}}
        BY <1>7 DEF AnchorReport
    <2>3. PICK w : w = [g EXCEPT !.stage = "anchored"]
        OBVIOUS
    <2>4. w \in Generations /\ w.id = g.id /\ w.stage = "anchored" /\ w.live = g.live
        BY <1>5, <2>3
    <2>5. generations' = (generations \ {g}) \cup {w}
        BY <1>7, <2>3 DEF AnchorReport, GenerationAt
    <2>6. \A h \in keeps : Filed(h)'
        BY <1>2, <2>1, FiledStays DEF ReportsInv
    <2>7. Filed(w)'
        BY <1>1, <2>1, <2>2, <2>4 DEF Filed
    <2>8. g.id \in ReportIds /\ archive[g.id] # "none"
        BY <1>1, <2>2 DEF Filed
    <2>9. /\ \A k \in OnRecord' \cup anchored' : archive'[k] # "none"
          /\ reports' \in Seq(ReportRows) /\ anchored' \subseteq ReportIds
          /\ archive' \in [ReportIds -> {"none", "intact", "altered"}]
          /\ published' \subseteq OnRecord'
          /\ \A i, j \in DOMAIN reports' : reports'[i].id = reports'[j].id => i = j
        BY <1>4, <2>1, <2>2, <2>8 DEF ReportsInv
    <2>10. \A h \in generations' : h \in keeps \/ h = w
        BY <1>2, <2>5
    <2>11. \A h \in keeps : h.stage # "received" /\ w.stage # "received" => h.id # w.id
        BY <1>3, <2>2, <2>4
    <2>12. ReportsInv'
        BY <2>4, <2>6, <2>7, <2>9, <2>10, <2>11, ReportsAfter
    <2>13. ReportsGrow
        BY <2>1 DEF ReportsGrow
    <2> QED
        BY <2>1, <2>2, <2>4, <2>5, <2>12, <2>13
<1>8. CASE CommitReport(g)
    <2>1. UNCHANGED <<page, archive, anchored, published>>
        BY <1>8 DEF CommitReport
    <2>2. PICK row : row = [id |-> g.id, of |-> g.of]
        OBVIOUS
    <2>3. g.stage = "anchored" /\ reports' = Append(reports, row)
        BY <1>8, <2>2 DEF CommitReport
    <2>4. g.id \in ReportIds /\ archive[g.id] # "none" /\ g.id \notin OnRecord
        BY <1>1, <2>3 DEF Filed
    <2>5. row \in ReportRows /\ row.id = g.id
        BY <1>1, <2>2, <2>4 DEF ReportRows, Generations
    <2>6. /\ reports' \in Seq(ReportRows)
          /\ Len(reports) \in Nat
          /\ DOMAIN reports = 1..Len(reports) /\ DOMAIN reports' = 1..(Len(reports) + 1)
          /\ \A i \in 1..Len(reports) : reports'[i] = reports[i]
          /\ reports'[Len(reports) + 1] = row
        <3>1. /\ Append(reports, row) \in Seq(ReportRows)
              /\ Len(Append(reports, row)) = Len(reports) + 1
              /\ \A i \in 1..Len(reports) : Append(reports, row)[i] = reports[i]
              /\ Append(reports, row)[Len(reports) + 1] = row
            BY <2>5, AppendProperties DEF ReportsInv
        <3> QED
            BY <2>3, <3>1, LenProperties DEF ReportsInv
    <2>7. OnRecord' = OnRecord \cup {g.id}
        <3>1. \A i \in 1..(Len(reports) + 1) : i \in 1..Len(reports) \/ i = Len(reports) + 1
            BY <2>6
        <3>2. \A i \in 1..Len(reports) : i \in 1..(Len(reports) + 1)
            BY <2>6
        <3>3. Len(reports) + 1 \in 1..(Len(reports) + 1)
            BY <2>6
        <3> QED
            BY <2>5, <2>6, <3>1, <3>2, <3>3 DEF OnRecord
    <2>8. \A i, j \in DOMAIN reports' : reports'[i].id = reports'[j].id => i = j
        <3>1. \A i \in 1..(Len(reports) + 1) : i \in 1..Len(reports) \/ i = Len(reports) + 1
            BY <2>6
        <3>2. \A i \in 1..Len(reports) : reports[i].id # g.id
            BY <2>4, <2>6 DEF OnRecord
        <3> QED
            BY <2>5, <2>6, <3>1, <3>2 DEF ReportsInv
    <2>9. PICK w : w = [g EXCEPT !.stage = "committed"]
        OBVIOUS
    <2>10. w \in Generations /\ w.id = g.id /\ w.stage = "committed" /\ w.live = g.live
        BY <1>5, <2>9
    <2>11. generations' = (generations \ {g}) \cup {w}
        BY <1>8, <2>9 DEF CommitReport, GenerationAt
    <2>12. ASSUME NEW h \in keeps PROVE Filed(h)'
        <3>1. Filed(h) /\ (h.stage # "received" => h.id # g.id)
            BY <1>3, <2>3 DEF ReportsInv
        <3> QED
            BY <2>1, <2>7, <3>1 DEF Filed
    <2>13. Filed(w)'
        BY <2>1, <2>4, <2>7, <2>10 DEF Filed
    <2>14. /\ \A k \in OnRecord' \cup anchored' : archive'[k] # "none"
           /\ anchored' \subseteq ReportIds
           /\ archive' \in [ReportIds -> {"none", "intact", "altered"}]
           /\ published' \subseteq OnRecord'
        BY <1>4, <2>1, <2>4, <2>7 DEF ReportsInv
    <2>15. \A h \in generations' : h \in keeps \/ h = w
        BY <1>2, <2>11
    <2>16. \A h \in keeps : h.stage # "received" /\ w.stage # "received" => h.id # w.id
        BY <1>3, <2>3, <2>10
    <2>17. ReportsInv'
        BY <2>6, <2>8, <2>10, <2>12, <2>13, <2>14, <2>15, <2>16, ReportsAfter
    <2>18. ReportsGrow
        BY <2>1, <2>7 DEF ReportsGrow
    <2> QED
        BY <2>1, <2>3, <2>10, <2>11, <2>17, <2>18
<1> QED
    BY <1>6, <1>7, <1>8

-----------------------------------------------------------------------------
(* Report page *)

ReportKinds == {"list", "verify", "download"}
ReportAsks == Asks({"list"}, Artifacts) \cup Asks({"verify", "download"}, ReportIds)
Boxes == [of : ReportIds, report_valid : BOOLEAN]

ReportPages ==
    [name : {"reports"}, of : Artifacts, reports : Seq(ReportIds), loading : BOOLEAN,
     generating : BOOLEAN, downloadingId : ReportIds \cup {NoAnswer},
     verifyingId : ReportIds \cup {NoAnswer},
     verifications : [ReportIds -> Boxes \cup {NoAnswer}], error : BOOLEAN,
     made : Seq(ReportIds), raced : BOOLEAN,
     asks : SUBSET ReportAsks, last : Nat, answered : SUBSET Answers(ReportKinds),
     late : BOOLEAN]

\* What the page shows as going on is.
Working(pg) ==
    /\ pg.loading => \E a \in pg.asks : a.kind = "list"
    /\ pg.verifyingId # NoAnswer => \E a \in pg.asks : a.kind = "verify" /\ a.of = pg.verifyingId
    /\ pg.downloadingId # NoAnswer =>
         \E a \in pg.asks : a.kind = "download" /\ a.of = pg.downloadingId

\* What it lists is on record, what it verifies has a file, what it tells of a
\* report is that report's and, if it is bad, true.
Boxed(pg) ==
    /\ ToSet(pg.reports) \subseteq OnRecord
    /\ \A a \in pg.asks : a.kind = "verify" => archive[a.of] # "none"
    /\ \A id \in ReportIds : pg.verifications[id] # NoAnswer =>
         /\ pg.verifications[id].of = id
         /\ ~pg.verifications[id].report_valid => archive[id] = "altered"

\* One generation is live while the page waits for it, none otherwise.
Living(pg) ==
    /\ pg.generating <=> \E g \in generations : g.live
    /\ \A g, h \in generations : g.live /\ h.live => g = h

\* What the page has generated stands at the top of its list; what is being
\* generated is not in it yet.
Newest(pg) ==
    /\ (\E a \in pg.asks : a.kind = "list") => pg.made = <<>> /\ ~pg.generating
    /\ IsInjective(pg.reports)
    /\ Len(pg.made) <= Len(pg.reports)
    /\ \A i \in 1..Len(pg.made) : pg.made[i] = pg.reports[i]
    /\ \A g \in generations : g.live /\ g.stage # "received" => g.id \notin ToSet(pg.reports)

ReportInv(pg) == Working(pg) /\ Boxed(pg) /\ Living(pg) /\ (pg.raced \/ Newest(pg))

Idle == \A g \in generations : ~g.live

\* A report page that has just been mounted waits for its list and shows nothing.
Bare(pg) ==
    /\ pg \in ReportPages /\ pg.asks # {} /\ \A a \in pg.asks : a.kind = "list"
    /\ ~pg.generating /\ pg.verifyingId = NoAnswer /\ pg.downloadingId = NoAnswer
    /\ pg.reports = <<>> /\ pg.made = <<>>
    /\ \A id \in ReportIds : pg.verifications[id] = NoAnswer

LEMMA ReportMounted ==
    ASSUME NEW a \in Artifacts
    PROVE  Bare(MountedReports(a))
<1> DEFINE pg == MountedReports(a)
           ask == NewAsk(1, "list", a)
<1>1. ask \in Asks({"list"}, Artifacts) /\ ask.kind = "list"
    BY DEF NewAsk, Asks
<1>2. ask \in ReportAsks
    BY <1>1 DEF ReportAsks
<1>3. << >> \in Seq(ReportIds)
    BY EmptySeq
<1>4. [id \in ReportIds |-> NoAnswer] \in [ReportIds -> Boxes \cup {NoAnswer}]
    OBVIOUS
<1>5. pg \in ReportPages
    BY <1>2, <1>3, <1>4 DEF MountedReports, ReportPages
<1>6. /\ pg.asks = {ask} /\ pg.generating = FALSE
      /\ pg.verifyingId = NoAnswer /\ pg.downloadingId = NoAnswer
      /\ pg.reports = << >> /\ pg.made = << >>
      /\ \A id \in ReportIds : pg.verifications[id] = NoAnswer
    BY DEF MountedReports
<1> HIDE DEF pg, ask
<1> QED
    BY <1>1, <1>5, <1>6 DEF Bare, pg

LEMMA ReportRaised ==
    ASSUME NEW pg, Bare(pg), NEW n \in Nat, NEW after, after = [pg EXCEPT !.last = @ + n]
    PROVE  Bare(after)
<1>1. pg.last \in Nat /\ pg.last + n \in Nat
    BY DEF Bare, ReportPages
<1>2. after \in ReportPages
    BY <1>1 DEF Bare, ReportPages
<1>3. /\ after.asks = pg.asks /\ after.generating = pg.generating
      /\ after.verifyingId = pg.verifyingId /\ after.downloadingId = pg.downloadingId
      /\ after.reports = pg.reports /\ after.made = pg.made
      /\ after.verifications = pg.verifications
    BY DEF Bare, ReportPages
<1> QED
    BY <1>2, <1>3 DEF Bare

\* Such a page is right as long as nothing is generated for it.
LEMMA BareHolds ==
    ASSUME NEW pg, Bare(pg)
    PROVE  /\ pg \in ReportPages
           /\ Idle => ReportInv(pg)
           /\ Idle' => ReportInv(pg)'
<1>1. << >> \in Seq(ReportIds) /\ Len(<< >>) = 0
    BY EmptySeq
<1>2. DOMAIN << >> = {} /\ ToSet(<< >>) = {}
    <2>1. DOMAIN << >> = 1..0
        BY <1>1, LenProperties
    <2> QED
        BY <2>1 DEF ToSet
<1>3. Working(pg) /\ Working(pg)'
    BY DEF Bare, Working
<1>4. Boxed(pg) /\ Boxed(pg)'
    BY <1>2 DEF Bare, Boxed
<1>5. (Idle => Living(pg)) /\ (Idle' => Living(pg)')
    BY DEF Bare, ReportPages, Living, Idle
<1>6. (Idle => Newest(pg)) /\ (Idle' => Newest(pg)')
    BY <1>1, <1>2 DEF Bare, Newest, IsInjective, Idle
<1> QED
    BY <1>3, <1>4, <1>5, <1>6 DEF Bare, ReportInv

\* What of the page the list, the boxes and the buttons depend on.
SameList(pg, after) ==
    /\ after.reports = pg.reports /\ after.made = pg.made /\ after.raced = pg.raced
    /\ after.generating = pg.generating

SameBoxes(pg, after) == after.verifications = pg.verifications

SameButtons(pg, after) ==
    after.verifyingId = pg.verifyingId /\ after.downloadingId = pg.downloadingId

LEMMA ReportTakes ==
    ASSUME NEW pg \in ReportPages, NEW a \in pg.asks
    PROVE  /\ Take(pg, a) \in ReportPages
           /\ Take(pg, a).asks = pg.asks \ {a} /\ Take(pg, a).loading = pg.loading
           /\ SameList(pg, Take(pg, a)) /\ SameBoxes(pg, Take(pg, a))
           /\ SameButtons(pg, Take(pg, a))
<1> DEFINE x == [kind |-> a.kind, no |-> a.no]
           late == pg.late \/ \E b \in pg.answered : b.kind = a.kind /\ b.no > a.no
           after == Take(pg, a)
<1>1. a.kind \in ReportKinds /\ a.no \in Nat
    BY DEF ReportPages, ReportAsks, Asks, ReportKinds
<1>2. /\ pg.asks \ {a} \in SUBSET ReportAsks
      /\ pg.answered \cup {x} \in SUBSET Answers(ReportKinds)
      /\ late \in BOOLEAN
    BY <1>1 DEF ReportPages, Answers
<1>3. after = [pg EXCEPT !.asks = @ \ {a}, !.late = late, !.answered = @ \cup {x}]
    BY DEF Take
<1> HIDE DEF x, late, after
<1>4. after \in ReportPages
    BY <1>2, <1>3 DEF ReportPages
<1>5. /\ after.asks = pg.asks \ {a} /\ after.loading = pg.loading
      /\ SameList(pg, after) /\ SameBoxes(pg, after) /\ SameButtons(pg, after)
    BY <1>3 DEF ReportPages, SameList, SameBoxes, SameButtons
<1> QED
    BY <1>4, <1>5 DEF after

LEMMA ReportAsking ==
    ASSUME NEW pg \in ReportPages, NEW kind \in ReportKinds, NEW of,
           NewAsk(pg.last + 1, kind, of) \in ReportAsks
    PROVE  /\ Ask(pg, kind, of) \in ReportPages
           /\ Ask(pg, kind, of).asks = pg.asks \cup {NewAsk(pg.last + 1, kind, of)}
           /\ Ask(pg, kind, of).loading = pg.loading
           /\ SameList(pg, Ask(pg, kind, of)) /\ SameBoxes(pg, Ask(pg, kind, of))
           /\ SameButtons(pg, Ask(pg, kind, of))
<1> DEFINE new == NewAsk(pg.last + 1, kind, of)
           after == Ask(pg, kind, of)
<1>1. pg.last \in Nat /\ pg.last + 1 \in Nat /\ pg.asks \cup {new} \in SUBSET ReportAsks
    BY DEF ReportPages
<1>2. after = [pg EXCEPT !.asks = @ \cup {new}, !.last = @ + 1]
    BY DEF Ask
<1> HIDE DEF new, after
<1>3. after \in ReportPages
    BY <1>1, <1>2 DEF ReportPages
<1>4. /\ after.asks = pg.asks \cup {new} /\ after.loading = pg.loading
      /\ SameList(pg, after) /\ SameBoxes(pg, after) /\ SameButtons(pg, after)
    BY <1>2 DEF ReportPages, SameList, SameBoxes, SameButtons
<1> QED
    BY <1>3, <1>4 DEF new, after

LEMMA NoneBefore ==
    ASSUME NEW S, NEW s \in Seq(S)
    PROVE  Len(<< >>) <= Len(s) /\ \A i \in 1..Len(<< >>) : FALSE
<1>1. Len(<< >>) = 0 /\ Len(s) \in Nat
    BY EmptySeq, LenProperties
<1> QED
    BY <1>1

\* The list comes, or does not.
LEMMA ReportsCome ==
    ASSUME ReportsInv, NEW pg \in ReportPages, ReportInv(pg),
           NEW a \in pg.asks, a.kind = "list", NEW after,
           \/ \E rows \in ByArtifact(a.of) :
                after = [Take(pg, a) EXCEPT !.reports = rows, !.loading = FALSE]
           \/ after = [Take(pg, a) EXCEPT !.error = TRUE, !.loading = FALSE]
    PROVE  after \in ReportPages /\ ReportInv(after)
<1> DEFINE mid == Take(pg, a)
<1>1. /\ mid \in ReportPages
      /\ mid.asks = pg.asks \ {a} /\ mid.loading = pg.loading
      /\ SameList(pg, mid) /\ SameBoxes(pg, mid) /\ SameButtons(pg, mid)
    BY ReportTakes
<1>2. \A rows \in ByArtifact(a.of) :
         rows \in Seq(ReportIds) /\ ToSet(rows) \subseteq OnRecord /\ IsInjective(rows)
    BY ListOfReports
<1>3. \/ \E rows \in ByArtifact(a.of) : after = [mid EXCEPT !.reports = rows, !.loading = FALSE]
      \/ after = [mid EXCEPT !.error = TRUE, !.loading = FALSE]
    OBVIOUS
<1> HIDE DEF mid
<1>4. /\ after \in ReportPages
      /\ after.asks = pg.asks \ {a} /\ after.loading = FALSE
      /\ after.made = pg.made /\ after.raced = pg.raced /\ after.generating = pg.generating
      /\ SameBoxes(pg, after) /\ SameButtons(pg, after)
      /\ after.reports \in ByArtifact(a.of) \/ after.reports = pg.reports
    <2>1. ASSUME NEW rows \in ByArtifact(a.of), rows \in Seq(ReportIds),
                 after = [mid EXCEPT !.reports = rows, !.loading = FALSE]
          PROVE  /\ after \in ReportPages
                 /\ after.asks = mid.asks /\ after.loading = FALSE
                 /\ after.made = mid.made /\ after.raced = mid.raced
                 /\ after.generating = mid.generating /\ after.reports = rows
                 /\ after.verifications = mid.verifications
                 /\ after.verifyingId = mid.verifyingId
                 /\ after.downloadingId = mid.downloadingId
        BY <1>1, <2>1 DEF ReportPages
    <2>2. CASE after = [mid EXCEPT !.error = TRUE, !.loading = FALSE]
        BY <1>1, <2>2 DEF ReportPages, SameList, SameBoxes, SameButtons
    <2>3. CASE \E rows \in ByArtifact(a.of) : after = [mid EXCEPT !.reports = rows, !.loading = FALSE]
        BY <1>1, <1>2, <2>1, <2>3 DEF SameList, SameBoxes, SameButtons
    <2> QED
        BY <1>3, <2>2, <2>3
<1>5. Working(after)
    BY <1>4 DEF ReportInv, Working, SameButtons
<1>6. Boxed(after)
    <2>1. Boxed(pg)
        BY DEF ReportInv
    <2>2. ToSet(after.reports) \subseteq OnRecord
        BY <1>2, <1>4, <2>1 DEF Boxed
    <2>3. after.verifications = pg.verifications /\ after.asks \subseteq pg.asks
        BY <1>4 DEF SameBoxes
    <2> QED
        BY <2>1, <2>2, <2>3 DEF Boxed
<1>7. Living(after)
    BY <1>4 DEF ReportInv, Living
<1>8. ASSUME ~pg.raced PROVE Newest(after)
    <2>1. pg.made = <<>> /\ ~pg.generating /\ IsInjective(after.reports)
        BY <1>2, <1>4, <1>8 DEF ReportInv, Newest
    <2>2. /\ Len(after.made) <= Len(after.reports)
          /\ \A i \in 1..Len(after.made) : FALSE
        BY <1>4, <2>1, NoneBefore DEF ReportPages
    <2>3. \A g \in generations : ~g.live
        BY <2>1 DEF ReportInv, Living
    <2> QED
        BY <1>4, <2>1, <2>2, <2>3 DEF Newest
<1> QED
    BY <1>4, <1>5, <1>6, <1>7, <1>8 DEF ReportInv

\* Another artifact's list is asked for.
LEMMA ReportJumps ==
    ASSUME ReportsInv, NEW pg \in ReportPages, ReportInv(pg), NEW a \in Artifacts
    PROVE  ReportsEffect(pg, a) \in ReportPages /\ ReportInv(ReportsEffect(pg, a))
<1> DEFINE mid == Ask(pg, "list", a)
           new == NewAsk(pg.last + 1, "list", a)
           after == ReportsEffect(pg, a)
<1>1. new \in ReportAsks /\ new.kind = "list" /\ "list" \in ReportKinds
    BY DEF NewAsk, ReportAsks, Asks, ReportPages, ReportKinds
<1>2. /\ mid \in ReportPages /\ mid.asks = pg.asks \cup {new} /\ mid.loading = pg.loading
      /\ SameList(pg, mid) /\ SameBoxes(pg, mid) /\ SameButtons(pg, mid)
    BY <1>1, ReportAsking
<1>3. after = [mid EXCEPT !.of = a, !.raced = TRUE]
    BY DEF ReportsEffect
<1> HIDE DEF mid, new, after
<1>4. /\ after \in ReportPages /\ after.asks = mid.asks /\ after.loading = mid.loading
      /\ after.reports = mid.reports /\ after.generating = mid.generating
      /\ after.raced = TRUE
      /\ SameBoxes(mid, after) /\ SameButtons(mid, after)
    BY <1>2, <1>3 DEF ReportPages, SameBoxes, SameButtons
<1>5. Working(after)
    BY <1>2, <1>4 DEF ReportInv, Working, SameButtons
<1>6. Boxed(after)
    BY <1>1, <1>2, <1>4 DEF ReportInv, Boxed, SameBoxes, SameList
<1>7. Living(after)
    BY <1>2, <1>4 DEF ReportInv, Living, SameList
<1> QED
    BY <1>4, <1>5, <1>6, <1>7 DEF ReportInv, after

\* A listed report is to be verified, or downloaded.
LEMMA ReportButtons ==
    ASSUME ReportsInv, NEW pg \in ReportPages, ReportInv(pg), NEW id \in ToSet(pg.reports),
           NEW after,
           \/ after = [Ask(pg, "verify", id) EXCEPT !.verifyingId = id]
           \/ after = [Ask(pg, "download", id) EXCEPT !.downloadingId = id]
    PROVE  after \in ReportPages /\ ReportInv(after)
<1>1. id \in OnRecord /\ id \in ReportIds /\ archive[id] # "none"
    BY OnRecordTyped DEF ReportInv, Boxed, ReportsInv
<1>2. ASSUME NEW kind \in {"verify", "download"},
             \/ kind = "verify" /\ after = [Ask(pg, kind, id) EXCEPT !.verifyingId = id]
             \/ kind = "download" /\ after = [Ask(pg, kind, id) EXCEPT !.downloadingId = id]
      PROVE  after \in ReportPages /\ ReportInv(after)
    <2> DEFINE mid == Ask(pg, kind, id)
               new == NewAsk(pg.last + 1, kind, id)
    <2>1. /\ new \in ReportAsks /\ new.kind = kind /\ new.of = id /\ kind \in ReportKinds
        BY <1>1 DEF NewAsk, ReportAsks, Asks, ReportPages, ReportKinds
    <2>2. /\ mid \in ReportPages /\ mid.asks = pg.asks \cup {new} /\ mid.loading = pg.loading
          /\ SameList(pg, mid) /\ SameBoxes(pg, mid) /\ SameButtons(pg, mid)
        BY <2>1, ReportAsking
    <2>3. \/ kind = "verify" /\ after = [mid EXCEPT !.verifyingId = id]
          \/ kind = "download" /\ after = [mid EXCEPT !.downloadingId = id]
        BY <1>2
    <2> HIDE DEF mid, new
    <2>4. /\ after \in ReportPages /\ after.asks = mid.asks /\ after.loading = mid.loading
          /\ SameList(mid, after) /\ SameBoxes(mid, after)
          /\ \/ /\ kind = "verify" /\ after.verifyingId = id
                /\ after.downloadingId = mid.downloadingId
             \/ /\ kind = "download" /\ after.downloadingId = id
                /\ after.verifyingId = mid.verifyingId
        <3>1. CASE kind = "verify" /\ after = [mid EXCEPT !.verifyingId = id]
            BY <1>1, <2>2, <3>1 DEF ReportPages, SameList, SameBoxes
        <3>2. CASE kind = "download" /\ after = [mid EXCEPT !.downloadingId = id]
            BY <1>1, <2>2, <3>2 DEF ReportPages, SameList, SameBoxes
        <3> QED
            BY <2>3, <3>1, <3>2
    <2>5. Working(after)
        BY <2>1, <2>2, <2>4 DEF ReportInv, Working, SameButtons
    <2>6. Boxed(after)
        BY <1>1, <2>1, <2>2, <2>4 DEF ReportInv, Boxed, SameBoxes, SameList
    <2>7. Living(after)
        BY <2>2, <2>4 DEF ReportInv, Living, SameList
    <2>8. after.raced \/ Newest(after)
        <3>1. (\E b \in after.asks : b.kind = "list") => \E b \in pg.asks : b.kind = "list"
            BY <2>1, <2>2, <2>4
        <3> QED
            BY <2>2, <2>4, <3>1 DEF ReportInv, Newest, SameList
    <2> QED
        BY <2>4, <2>5, <2>6, <2>7, <2>8 DEF ReportInv
<1> QED
    BY <1>2

\* The answer to a verification, or to a download.
LEMMA ReportAnswers ==
    ASSUME ReportsInv, NEW pg \in ReportPages, ReportInv(pg), NEW a \in pg.asks, NEW after,
           \/ /\ a.kind = "verify"
              /\ \/ after = [[Take(pg, a) EXCEPT !.verifyingId = NoAnswer] EXCEPT
                               !.verifications[a.of] =
                                 [of |-> a.of, report_valid |-> archive[a.of] = "intact"]]
                 \/ after = [[Take(pg, a) EXCEPT !.verifyingId = NoAnswer] EXCEPT !.error = TRUE]
           \/ /\ a.kind = "download"
              /\ \E failed \in BOOLEAN :
                   after = [Take(pg, a) EXCEPT !.downloadingId = NoAnswer, !.error = @ \/ failed]
    PROVE  after \in ReportPages /\ ReportInv(after)
<1> DEFINE mid == Take(pg, a)
           box == [of |-> a.of, report_valid |-> archive[a.of] = "intact"]
<1>1. /\ mid \in ReportPages
      /\ mid.asks = pg.asks \ {a} /\ mid.loading = pg.loading
      /\ SameList(pg, mid) /\ SameBoxes(pg, mid) /\ SameButtons(pg, mid)
    BY ReportTakes
<1>2. a.kind # "list" => a.of \in ReportIds
    BY DEF ReportPages, ReportAsks, Asks
<1>3. a.kind = "verify" =>
         /\ box \in Boxes /\ box.of = a.of
         /\ ~box.report_valid => archive[a.of] = "altered"
    <2>1. a.kind = "verify" => archive[a.of] # "none"
        BY DEF ReportInv, Boxed
    <2> QED
        BY <1>2, <2>1 DEF Boxes, ReportsInv
<1>4. \/ /\ a.kind = "verify"
         /\ \/ after = [mid EXCEPT !.verifyingId = NoAnswer, !.verifications[a.of] = box]
            \/ after = [mid EXCEPT !.verifyingId = NoAnswer, !.error = TRUE]
      \/ /\ a.kind = "download"
         /\ \E failed \in BOOLEAN :
              after = [mid EXCEPT !.downloadingId = NoAnswer, !.error = @ \/ failed]
    BY <1>1 DEF ReportPages
<1> HIDE DEF mid, box
<1>5. /\ after \in ReportPages
      /\ after.asks = pg.asks \ {a} /\ after.loading = pg.loading
      /\ SameList(pg, after)
      /\ \/ a.kind = "verify" /\ after.verifyingId = NoAnswer
            /\ after.downloadingId = pg.downloadingId
         \/ a.kind = "download" /\ after.downloadingId = NoAnswer
            /\ after.verifyingId = pg.verifyingId
      /\ \/ a.kind = "verify" /\ after.verifications = [pg.verifications EXCEPT ![a.of] = box]
         \/ after.verifications = pg.verifications
    <2>1. CASE a.kind = "verify" /\ after = [mid EXCEPT !.verifyingId = NoAnswer, !.verifications[a.of] = box]
        <3>1. [mid.verifications EXCEPT ![a.of] = box] \in [ReportIds -> Boxes \cup {NoAnswer}]
            BY <1>1, <1>2, <1>3, <2>1 DEF ReportPages
        <3>2. after \in ReportPages
            BY <1>1, <2>1, <3>1 DEF ReportPages
        <3>3. /\ after.asks = mid.asks /\ after.loading = mid.loading /\ SameList(mid, after)
              /\ after.verifyingId = NoAnswer /\ after.downloadingId = mid.downloadingId
              /\ after.verifications = [mid.verifications EXCEPT ![a.of] = box]
            BY <1>1, <2>1 DEF ReportPages, SameList
        <3> QED
            BY <1>1, <2>1, <3>2, <3>3 DEF SameList, SameBoxes, SameButtons
    <2>2. CASE a.kind = "verify" /\ after = [mid EXCEPT !.verifyingId = NoAnswer, !.error = TRUE]
        BY <1>1, <2>2 DEF ReportPages, SameList, SameBoxes, SameButtons
    <2>3. ASSUME a.kind = "download", NEW failed \in BOOLEAN,
                 after = [mid EXCEPT !.downloadingId = NoAnswer, !.error = @ \/ failed]
          PROVE  /\ after \in ReportPages
                 /\ after.asks = mid.asks /\ after.loading = mid.loading /\ SameList(mid, after)
                 /\ after.downloadingId = NoAnswer /\ after.verifyingId = mid.verifyingId
                 /\ after.verifications = mid.verifications
        <3>1. PICK e \in BOOLEAN : e = (mid.error \/ failed)
            OBVIOUS
        <3>2. after = [mid EXCEPT !.downloadingId = NoAnswer, !.error = e]
            BY <1>1, <2>3, <3>1 DEF ReportPages
        <3> QED
            BY <1>1, <3>2 DEF ReportPages, SameList
    <2>4. CASE /\ a.kind = "download"
               /\ \E failed \in BOOLEAN :
                    after = [mid EXCEPT !.downloadingId = NoAnswer, !.error = @ \/ failed]
        BY <1>1, <2>3, <2>4 DEF SameList, SameBoxes, SameButtons
    <2> QED
        BY <1>4, <2>1, <2>2, <2>4
<1>6. Working(after)
    BY <1>5 DEF ReportInv, Working
<1>7. Boxed(after)
    <2>1. \A id \in ReportIds : after.verifications[id] # NoAnswer =>
             /\ after.verifications[id].of = id
             /\ ~after.verifications[id].report_valid => archive[id] = "altered"
        <3>1. CASE after.verifications = pg.verifications
            BY <3>1 DEF ReportInv, Boxed
        <3>2. CASE a.kind = "verify" /\ after.verifications = [pg.verifications EXCEPT ![a.of] = box]
            <4>1. \A id \in ReportIds :
                     after.verifications[id] = IF id = a.of THEN box ELSE pg.verifications[id]
                BY <3>2 DEF ReportPages
            <4> QED
                BY <1>3, <3>2, <4>1 DEF ReportInv, Boxed
        <3> QED
            BY <1>5, <3>1, <3>2
    <2> QED
        BY <1>5, <2>1 DEF ReportInv, Boxed, SameList
<1>8. Living(after)
    BY <1>5 DEF ReportInv, Living, SameList
<1>9. after.raced \/ Newest(after)
    BY <1>5 DEF ReportInv, Newest, SameList
<1> QED
    BY <1>5, <1>6, <1>7, <1>8, <1>9 DEF ReportInv

\* What the page shows stays true while the servers go on.
LEMMA ReportStands ==
    ASSUME NEW pg \in ReportPages, ReportInv(pg), ReportsInv, ReportsGrow,
           \/ UNCHANGED generations
           \/ \E g \in generations : \E w :
                /\ generations' = (generations \ {g}) \cup {w}
                /\ w.live = g.live /\ w.stage # "received"
                /\ (g.stage # "received" /\ w.id = g.id) \/ w.id \notin OnRecord
    PROVE  ReportInv(pg)'
<1>1. OnRecord \subseteq ReportIds
    BY OnRecordTyped DEF ReportsInv
<1>2. Boxed(pg)'
    <2>1. \A a \in pg.asks : a.kind = "verify" => a.of \in ReportIds
        BY DEF ReportPages, ReportAsks, Asks
    <2> QED
        BY <2>1 DEF ReportInv, Boxed, ReportsGrow
<1>3. Working(pg)'
    BY DEF ReportInv, Working
<1>4. CASE UNCHANGED generations
    BY <1>2, <1>3, <1>4 DEF ReportInv, Living, Newest
<1>5. ASSUME NEW g \in generations, NEW w,
             generations' = (generations \ {g}) \cup {w},
             w.live = g.live, w.stage # "received",
             (g.stage # "received" /\ w.id = g.id) \/ w.id \notin OnRecord
      PROVE  ReportInv(pg)'
    <2>1. Living(pg)'
        BY <1>5 DEF ReportInv, Living
    <2>2. ASSUME ~pg.raced PROVE Newest(pg)'
        <3>1. ASSUME NEW h \in generations', h.live, h.stage # "received"
              PROVE  h.id \notin ToSet(pg.reports)
            <4>1. CASE h = w
                BY <1>5, <2>2, <3>1, <4>1 DEF ReportInv, Newest, Boxed
            <4>2. CASE h # w
                BY <1>5, <2>2, <3>1, <4>2 DEF ReportInv, Newest
            <4> QED
                BY <4>1, <4>2
        <3> QED
            BY <2>2, <3>1 DEF ReportInv, Newest
    <2> QED
        BY <1>2, <1>3, <2>1, <2>2 DEF ReportInv
<1> QED
    BY <1>4, <1>5

\* A report is asked for.
LEMMA GeneratePressed ==
    ASSUME page \in ReportPages, ReportInv(page), ReportsInv, handleGenerate
    PROVE  page' \in ReportPages /\ ReportInv(page)'
<1>1. UNCHANGED <<reports, archive>> /\ OnRecord' = OnRecord /\ ~page.generating
    BY DEF handleGenerate, OnRecord
<1>2. PICK r \in BOOLEAN : r = (page.raced \/ Waiting("list") # {})
    OBVIOUS
<1>3. page' = [page EXCEPT !.generating = TRUE, !.error = FALSE, !.last = @ + 1, !.raced = r]
    BY <1>2 DEF handleGenerate, ReportPages
<1>4. page.last \in Nat /\ page.last + 1 \in Nat
    BY DEF ReportPages
<1>5. page' \in ReportPages
    BY <1>3, <1>4 DEF ReportPages
<1>6. /\ page'.asks = page.asks /\ page'.loading = page.loading /\ page'.generating = TRUE
      /\ page'.raced = r /\ page'.reports = page.reports /\ page'.made = page.made
      /\ SameBoxes(page, page') /\ SameButtons(page, page')
    BY <1>3 DEF ReportPages, SameBoxes, SameButtons
<1>7. PICK g : g = [of |-> page.of, id |-> NoAnswer, stage |-> "received", live |-> TRUE]
    OBVIOUS
<1>8. generations' = generations \cup {g} /\ g.live = TRUE /\ g.stage = "received"
    BY <1>7 DEF handleGenerate
<1>9. \A h \in generations : ~h.live
    BY <1>1 DEF ReportInv, Living
<1>10. Living(page)'
    BY <1>6, <1>8, <1>9 DEF Living
<1>11. Working(page)'
    BY <1>6 DEF ReportInv, Working, SameButtons
<1>12. Boxed(page)'
    BY <1>1, <1>6 DEF ReportInv, Boxed, SameBoxes
<1>13. ASSUME ~r PROVE Newest(page)'
    <2>1. ~page.raced /\ \A a \in page.asks : a.kind # "list"
        BY <1>2, <1>13 DEF Waiting
    <2>2. Newest(page)
        BY <2>1 DEF ReportInv
    <2>3. \A h \in generations' : h.live /\ h.stage # "received" => FALSE
        BY <1>8, <1>9
    <2> QED
        BY <1>6, <2>1, <2>2, <2>3 DEF Newest
<1> QED
    BY <1>5, <1>6, <1>10, <1>11, <1>12, <1>13 DEF ReportInv

\* The list of the report page, with a new report in front.
LEMMA PrependedRows ==
    ASSUME NEW pg, pg.reports \in Seq(ReportIds), NEW e \in ReportIds,
           NEW rows, rows = <<e>> \o pg.reports
    PROVE  /\ rows \in Seq(ReportIds) /\ Len(rows) = Len(pg.reports) + 1
           /\ Len(pg.reports) \in Nat
           /\ DOMAIN rows = 1..(Len(pg.reports) + 1)
           /\ DOMAIN pg.reports = 1..Len(pg.reports)
           /\ rows[1] = e
           /\ \A i \in 2..(Len(pg.reports) + 1) : rows[i] = pg.reports[i - 1]
<1>1. PICK old \in Seq(ReportIds) : old = pg.reports
    OBVIOUS
<1>2. rows = <<e>> \o old
    BY <1>1
<1>3. /\ rows \in Seq(ReportIds) /\ Len(rows) = Len(old) + 1 /\ Len(old) \in Nat
      /\ DOMAIN rows = 1..(Len(old) + 1) /\ DOMAIN old = 1..Len(old)
      /\ rows[1] = e /\ \A i \in 2..(Len(old) + 1) : rows[i] = old[i - 1]
    BY <1>2, Prepend
<1> QED
    BY <1>1, <1>3

\* The list of what the page has generated, with a new report in front.
LEMMA PrependedMade ==
    ASSUME NEW pg, pg.made \in Seq(ReportIds), NEW e \in ReportIds,
           NEW made, made = <<e>> \o pg.made
    PROVE  /\ made \in Seq(ReportIds) /\ Len(made) = Len(pg.made) + 1
           /\ Len(pg.made) \in Nat /\ made[1] = e
           /\ \A i \in 2..(Len(pg.made) + 1) : made[i] = pg.made[i - 1]
<1>1. PICK old \in Seq(ReportIds) : old = pg.made
    OBVIOUS
<1>2. made = <<e>> \o old
    BY <1>1
<1>3. /\ made \in Seq(ReportIds) /\ Len(made) = Len(old) + 1 /\ Len(old) \in Nat
      /\ made[1] = e /\ \A i \in 2..(Len(old) + 1) : made[i] = old[i - 1]
    BY <1>2, Prepend
<1> QED
    BY <1>1, <1>3

LEMMA GenerationAnswered ==
    ASSUME page \in ReportPages, ReportInv(page), ReportsInv, ReportsGrow,
           NEW g \in generations, generations' = generations \ {g},
           \/ page' = NotGenerated(g)
           \/ page' = Prepended(g) /\ g.stage = "committed"
    PROVE  page' \in ReportPages /\ ReportInv(page)'
<1>1. OnRecord \subseteq ReportIds /\ OnRecord \subseteq OnRecord'
    BY OnRecordTyped DEF ReportsInv, ReportsGrow
<1>2. \A a \in page.asks : a.kind = "verify" => archive'[a.of] # "none"
    <2>1. \A a \in page.asks : a.kind = "verify" => a.of \in ReportIds
        BY DEF ReportPages, ReportAsks, Asks
    <2> QED
        BY <2>1 DEF ReportInv, Boxed, ReportsGrow
<1>3. \A id \in ReportIds : page.verifications[id] # NoAnswer =>
         /\ page.verifications[id].of = id
         /\ ~page.verifications[id].report_valid => archive'[id] = "altered"
    BY DEF ReportInv, Boxed, ReportsGrow
<1>4. CASE ~g.live
    <2>1. page' = page
        BY <1>4 DEF NotGenerated, Prepended
    <2>2. Living(page)'
        BY <1>4, <2>1 DEF ReportInv, Living
    <2>3. Working(page)'
        BY <2>1 DEF ReportInv, Working
    <2>4. Boxed(page)'
        BY <1>1, <1>2, <1>3, <2>1 DEF ReportInv, Boxed
    <2>5. page.raced \/ Newest(page)'
        BY <2>1 DEF ReportInv, Newest
    <2> QED
        BY <2>1, <2>2, <2>3, <2>4, <2>5 DEF ReportInv
<1>5. CASE g.live
    <2>1. page.generating = TRUE /\ \A h \in generations' : ~h.live
        BY <1>5 DEF ReportInv, Living, ReportPages
    <2>2. CASE page' = NotGenerated(g)
        <3>1. page' = [page EXCEPT !.error = TRUE, !.generating = FALSE]
            BY <1>5, <2>2 DEF NotGenerated
        <3>2. /\ page' \in ReportPages /\ page'.generating = FALSE
              /\ page'.asks = page.asks /\ page'.loading = page.loading
              /\ page'.reports = page.reports /\ page'.made = page.made
              /\ page'.raced = page.raced
              /\ SameBoxes(page, page') /\ SameButtons(page, page')
            BY <3>1 DEF ReportPages, SameBoxes, SameButtons
        <3>3. Living(page)'
            BY <2>1, <3>2 DEF Living
        <3>4. Working(page)'
            BY <3>2 DEF ReportInv, Working, SameButtons
        <3>5. Boxed(page)'
            BY <1>1, <1>2, <1>3, <3>2 DEF ReportInv, Boxed, SameBoxes
        <3>6. page.raced \/ Newest(page)'
            BY <2>1, <3>2 DEF ReportInv, Newest
        <3> QED
            BY <3>2, <3>3, <3>4, <3>5, <3>6 DEF ReportInv
    <2>3. CASE page' = Prepended(g) /\ g.stage = "committed"
        <3>1. g.id \in OnRecord /\ g.id \in ReportIds
            BY <1>1, <2>3 DEF ReportsInv, Filed
        <3>2. PICK rows : rows = <<g.id>> \o page.reports
            OBVIOUS
        <3>3. PICK made : made = <<g.id>> \o page.made
            OBVIOUS
        <3>4. PICK e \in ReportIds : e = g.id
            BY <3>1
        <3>5. page.reports \in Seq(ReportIds) /\ page.made \in Seq(ReportIds)
            BY DEF ReportPages
        <3>6. rows = <<e>> \o page.reports /\ made = <<e>> \o page.made
            BY <3>2, <3>3, <3>4
        <3>7. /\ rows \in Seq(ReportIds) /\ Len(rows) = Len(page.reports) + 1
              /\ Len(page.reports) \in Nat
              /\ DOMAIN rows = 1..(Len(page.reports) + 1)
              /\ DOMAIN page.reports = 1..Len(page.reports)
              /\ rows[1] = g.id
              /\ \A i \in 2..(Len(page.reports) + 1) : rows[i] = page.reports[i - 1]
            BY <3>4, <3>5, <3>6, PrependedRows
        <3>8. /\ made \in Seq(ReportIds) /\ Len(made) = Len(page.made) + 1
              /\ Len(page.made) \in Nat /\ made[1] = g.id
              /\ \A i \in 2..(Len(page.made) + 1) : made[i] = page.made[i - 1]
            BY <3>4, <3>5, <3>6, PrependedMade
        <3>9. page' = [page EXCEPT !.reports = rows, !.made = made, !.generating = FALSE]
            BY <1>5, <2>3, <3>2, <3>3 DEF Prepended
        <3>10. /\ page' \in ReportPages /\ page'.generating = FALSE
              /\ page'.asks = page.asks /\ page'.loading = page.loading
              /\ page'.reports = rows /\ page'.made = made
              /\ page'.raced = page.raced
              /\ SameBoxes(page, page') /\ SameButtons(page, page')
            BY <3>7, <3>8, <3>9 DEF ReportPages, SameBoxes, SameButtons
        <3>11. Living(page)'
            BY <2>1, <3>10 DEF Living
        <3>12. Working(page)'
            BY <3>10 DEF ReportInv, Working, SameButtons
        <3>13. Boxed(page)'
            <4>1. \A i \in 1..Len(page.reports) : page.reports[i] \in OnRecord
                BY <3>7 DEF ReportInv, Boxed, ToSet
            <4>2. \A i \in 1..(Len(page.reports) + 1) :
                     i = 1 \/ (i \in 2..(Len(page.reports) + 1) /\ i - 1 \in 1..Len(page.reports))
                BY <3>7
            <4>3. \A i \in DOMAIN rows : rows[i] \in OnRecord
                BY <3>1, <3>7, <4>1, <4>2
            <4>4. ToSet(page'.reports) \subseteq OnRecord'
                BY <1>1, <3>10, <4>3 DEF ToSet
            <4> QED
                BY <1>2, <1>3, <3>10, <4>4 DEF Boxed, SameBoxes
        <3>14. ASSUME ~page.raced PROVE Newest(page)'
            <4>1. /\ \A a \in page.asks : a.kind # "list"
                  /\ IsInjective(page.reports) /\ Len(page.made) <= Len(page.reports)
                  /\ \A i \in 1..Len(page.made) : page.made[i] = page.reports[i]
                  /\ g.id \notin ToSet(page.reports)
                BY <1>5, <2>1, <2>3, <3>14 DEF ReportInv, Newest
            <4>2. IsInjective(rows)
                <5> SUFFICES ASSUME NEW i \in 1..(Len(page.reports) + 1),
                                    NEW j \in 1..(Len(page.reports) + 1), rows[i] = rows[j]
                             PROVE  i = j
                    BY <3>7 DEF IsInjective
                <5>1. \A k \in 1..(Len(page.reports) + 1) :
                         k = 1 \/ (k \in 2..(Len(page.reports) + 1) /\ k - 1 \in 1..Len(page.reports))
                    BY <3>7
                <5>2. \A k \in 1..Len(page.reports) : page.reports[k] # g.id
                    BY <3>7, <4>1 DEF ToSet
                <5>3. \A k, l \in 1..Len(page.reports) : page.reports[k] = page.reports[l] => k = l
                    BY <3>7, <4>1 DEF IsInjective
                <5>4. CASE i = 1 \/ j = 1
                    BY <3>7, <5>1, <5>2, <5>4
                <5>5. CASE i # 1 /\ j # 1
                    BY <3>7, <5>1, <5>3, <5>5
                <5> QED
                    BY <5>4, <5>5
            <4>3. ASSUME NEW i \in 1..Len(made) PROVE made[i] = rows[i]
                <5>1. CASE i = 1
                    BY <3>7, <3>8, <5>1
                <5>2. CASE i # 1
                    <6>1. /\ i \in 2..(Len(page.made) + 1) /\ i \in 2..(Len(page.reports) + 1)
                          /\ i - 1 \in 1..Len(page.made)
                        BY <3>7, <3>8, <4>1, <5>2
                    <6> QED
                        BY <3>7, <3>8, <4>1, <6>1
                <5> QED
                    BY <5>1, <5>2
            <4>4. Len(made) <= Len(rows)
                BY <3>7, <3>8, <4>1
            <4> QED
                BY <2>1, <3>10, <4>1, <4>2, <4>3, <4>4 DEF Newest
        <3> QED
            BY <3>10, <3>11, <3>12, <3>13, <3>14 DEF ReportInv
    <2> QED
        BY <2>2, <2>3
<1> QED
    BY <1>4, <1>5

\* A sequence that agrees with the beginning of another is a prefix of it.
LEMMA PrefixPointwise ==
    ASSUME NEW S, NEW s \in Seq(S), NEW t \in Seq(S), Len(s) <= Len(t),
           \A i \in 1..Len(s) : s[i] = t[i]
    PROVE  IsPrefix(s, t)
<1>1. Len(s) \in Nat /\ Len(t) \in Nat /\ 1 \in Int /\ Len(s) \in Int
    BY LenProperties
<1>2. \A i \in 1..Len(s) : s[i] \in S /\ t[i] \in S
    BY <1>1, ElementOfSeq
<1>3. PICK u : u = SubSeq(s, 1, Len(s))
    OBVIOUS
<1>4. PICK v : v = SubSeq(t, 1, Len(s))
    OBVIOUS
<1>5. /\ u \in Seq(S) /\ Len(u) = IF 1 <= Len(s) THEN Len(s) - 1 + 1 ELSE 0
      /\ \A i \in 1..(Len(s) - 1 + 1) : u[i] = s[1 + i - 1]
    BY <1>1, <1>2, <1>3, SubSeqProperties
<1>6. /\ v \in Seq(S) /\ Len(v) = IF 1 <= Len(s) THEN Len(s) - 1 + 1 ELSE 0
      /\ \A i \in 1..(Len(s) - 1 + 1) : v[i] = t[1 + i - 1]
    BY <1>1, <1>2, <1>4, SubSeqProperties
<1>7. Len(u) = Len(s) /\ Len(v) = Len(s)
    BY <1>1, <1>5, <1>6
<1>8. \A i \in 1..Len(s) : i \in 1..(Len(s) - 1 + 1) /\ 1 + i - 1 = i
    BY <1>1
<1>9. \A i \in 1..Len(u) : u[i] = v[i]
    BY <1>5, <1>6, <1>7, <1>8
<1>10. u = v
    BY <1>5, <1>6, <1>7, <1>9, SeqEqual
<1> QED
    BY <1>3, <1>4, <1>10 DEF IsPrefix

\* What the report page shows is on record, true, and newest first.
LEMMA ReportShows ==
    ASSUME page \in ReportPages, ReportInv(page)
    PROVE  VerdictUnderItsReport /\ GeneratedIsListed /\ ToSet(page.reports) \subseteq OnRecord
<1>1. VerdictUnderItsReport /\ ToSet(page.reports) \subseteq OnRecord
    BY DEF ReportInv, Boxed, VerdictUnderItsReport, VerdictBox
<1>2. ASSUME ~page.loading, ~page.raced
      PROVE  /\ IsInjective(page.reports)
             /\ IsPrefix(page.made, page.reports)
             /\ page.made # <<>> => LatestBadge(page) = page.made[1]
    <2>1. /\ IsInjective(page.reports) /\ Len(page.made) <= Len(page.reports)
          /\ \A i \in 1..Len(page.made) : page.made[i] = page.reports[i]
        BY <1>2 DEF ReportInv, Newest
    <2>2. /\ page.made \in Seq(ReportIds) /\ page.reports \in Seq(ReportIds)
          /\ Len(page.made) \in Nat /\ Len(page.reports) \in Nat
        BY LenProperties DEF ReportPages
    <2>3. IsPrefix(page.made, page.reports)
        BY <2>1, <2>2, PrefixPointwise
    <2>4. ASSUME page.made # <<>> PROVE LatestBadge(page) = page.made[1]
        <3>1. Len(page.made) > 0
            BY <2>2, <2>4, EmptySeq
        <3>2. page.made[1] = page.reports[1] /\ Len(page.reports) > 0
            BY <2>1, <2>2, <3>1
        <3>3. page.reports # <<>>
            BY <3>2, EmptySeq
        <3> QED
            BY <1>2, <3>2, <3>3 DEF LatestBadge
    <2> QED
        BY <2>1, <2>3, <2>4
<1> QED
    BY <1>1, <1>2 DEF GeneratedIsListed

-----------------------------------------------------------------------------
(* The tab *)

\* A page other than the report page.
Quiet(pg) ==
    \/ pg \in ListPages /\ ListInv(pg) /\ pg.known \subseteq Ids(Listed(pg.of))
    \/ pg \in DashboardPages /\ DashboardInv(pg)
    \/ pg \in DetailPages /\ DetailInv(pg)
    \/ pg \in LedgerPages /\ LedgerInv(pg) /\ SinceInChain(pg)
    \/ pg \in UploadPages /\ UploadInv(pg)

\* Off the report page nothing is generated for a page.
TabInv ==
    \/ Quiet(page) /\ Idle
    \/ page \in ReportPages /\ ReportInv(page)

Inv == DataInv /\ DeskInv /\ ReportsInv /\ TabInv

\* Each kind of page has its names.
LEMMA QuietByName ==
    ASSUME NEW pg, Quiet(pg)
    PROVE  /\ pg.name \in {"cases", "artifacts"} =>
                pg \in ListPages /\ ListInv(pg) /\ pg.known \subseteq Ids(Listed(pg.of))
           /\ pg.name = "dashboard" => pg \in DashboardPages /\ DashboardInv(pg)
           /\ pg.name = "detail" => pg \in DetailPages /\ DetailInv(pg)
           /\ pg.name = "ledger" => pg \in LedgerPages /\ LedgerInv(pg) /\ SinceInChain(pg)
           /\ pg.name = "upload" => pg \in UploadPages /\ UploadInv(pg)
           /\ pg.name \in {"cases", "artifacts", "dashboard", "detail", "ledger", "upload"}
<1>1. CASE pg \in ListPages /\ ListInv(pg) /\ pg.known \subseteq Ids(Listed(pg.of))
    <2>1. pg.name \in {"cases", "artifacts"}
        BY <1>1 DEF ListPages
    <2> QED
        BY <1>1, <2>1
<1>2. CASE pg \in DashboardPages /\ DashboardInv(pg)
    <2>1. pg.name = "dashboard"
        BY <1>2 DEF DashboardPages
    <2> QED
        BY <1>2, <2>1
<1>3. CASE pg \in DetailPages /\ DetailInv(pg)
    <2>1. pg.name = "detail"
        BY <1>3 DEF DetailPages
    <2> QED
        BY <1>3, <2>1
<1>4. CASE pg \in LedgerPages /\ LedgerInv(pg) /\ SinceInChain(pg)
    <2>1. pg.name = "ledger"
        BY <1>4 DEF LedgerPages
    <2> QED
        BY <1>4, <2>1
<1>5. CASE pg \in UploadPages /\ UploadInv(pg)
    <2>1. pg.name = "upload"
        BY <1>5 DEF UploadPages
    <2> QED
        BY <1>5, <2>1
<1> QED
    BY <1>1, <1>2, <1>3, <1>4, <1>5 DEF Quiet

LEMMA ByName ==
    ASSUME Inv
    PROVE  /\ page.name = "reports" => page \in ReportPages /\ ReportInv(page)
           /\ page.name # "reports" => Quiet(page) /\ Idle
<1>1. CASE Quiet(page) /\ Idle
    BY <1>1, QuietByName
<1>2. CASE page \in ReportPages /\ ReportInv(page)
    <2>1. page.name = "reports"
        BY <1>2 DEF ReportPages
    <2> QED
        BY <1>2, <2>1
<1> QED
    BY <1>1, <1>2 DEF Inv, TabInv

\* A page that is mounted.
LEMMA MountedHolds ==
    ASSUME DataInv, NEW pg \in Mountable
    PROVE  Quiet(pg) \/ Bare(pg)
<1>1. Ids(evidence) \subseteq Artifacts
    BY DEF DataInv, Rows, Ids
<1>2. ASSUME NEW c \in Cases, pg = MountedCases(c) PROVE Quiet(pg)
    <2>1. MountedCases(c) = MountedList("cases", c)
        BY DEF MountedCases
    <2> QED
        BY <1>2, <2>1, ListMounted DEF Quiet
<1>3. CASE pg = MountedArtifactList
    <2>1. MountedArtifactList = MountedList("artifacts", Everything)
        BY DEF MountedArtifactList
    <2> QED
        BY <1>3, <2>1, ListMounted DEF Quiet
<1>4. ASSUME NEW b \in BOOLEAN, pg = MountedDashboard(b) PROVE Quiet(pg)
    BY <1>4, DashboardMounted DEF Quiet
<1>5. ASSUME NEW a \in Ids(evidence), pg = MountedDetail(a) PROVE Quiet(pg)
    BY <1>1, <1>5, DetailMounted DEF Quiet
<1>6. ASSUME NEW a \in Ids(evidence), pg = MountedReports(a) PROVE Bare(pg)
    BY <1>1, <1>6, ReportMounted
<1>7. CASE pg = MountedLedger
    BY <1>7, LedgerMounted DEF Quiet
<1>8. CASE pg = MountedUpload
    BY <1>8, UploadMounted DEF Quiet
<1> QED
    BY <1>2, <1>3, <1>4, <1>5, <1>6, <1>7, <1>8 DEF Mountable

\* The numbers of its asks go on where the last page stopped.
LEMMA RaisedHolds ==
    ASSUME NEW pg, Quiet(pg) \/ Bare(pg), NEW n \in Nat,
           NEW after, after = [pg EXCEPT !.last = @ + n]
    PROVE  Quiet(after) \/ Bare(after)
<1>1. CASE Bare(pg)
    BY <1>1, ReportRaised
<1>2. CASE pg \in ListPages /\ ListInv(pg) /\ pg.known \subseteq Ids(Listed(pg.of))
    BY <1>2, ListRaised DEF Quiet
<1>3. CASE pg \in DashboardPages /\ DashboardInv(pg)
    BY <1>3, DashboardRaised DEF Quiet
<1>4. CASE pg \in DetailPages /\ DetailInv(pg)
    BY <1>4, DetailRaised DEF Quiet
<1>5. CASE pg \in LedgerPages /\ LedgerInv(pg) /\ SinceInChain(pg)
    BY <1>5, LedgerRaised DEF Quiet
<1>6. CASE pg \in UploadPages /\ UploadInv(pg)
    BY <1>6, UploadRaised DEF Quiet
<1> QED
    BY <1>1, <1>2, <1>3, <1>4, <1>5, <1>6 DEF Quiet

\* What the servers do leaves such a page as right as it was.
LEMMA QuietStands ==
    ASSUME DataInv, DataGrows, NEW pg, Quiet(pg), page' = pg,
           \/ pg \notin UploadPages
           \/ \A u \in uploads : \E v \in uploads' :
                v.no = u.no /\ v.case = u.case /\ v.form = u.form
    PROVE  Quiet(page)'
<1>1. CASE pg \in ListPages /\ ListInv(pg) /\ pg.known \subseteq Ids(Listed(pg.of))
    <2>1. Ids(Listed(pg.of)) \subseteq Ids(Listed(pg.of))'
        BY ListedGrows
    <2>2. page' \in ListPages /\ ListInv(page)' /\ page'.known \subseteq Ids(Listed(page.of))'
        BY <1>1, <2>1 DEF ListInv, Numbers, Pending, Over, ListShown
    <2> QED
        BY <2>2 DEF Quiet
<1>2. CASE pg \in DashboardPages /\ DashboardInv(pg)
    BY <1>2 DEF Quiet, DashboardInv
<1>3. CASE pg \in DetailPages /\ DetailInv(pg)
    <2>1. page' \in DetailPages /\ DetailInv(page)'
        BY <1>3 DEF DetailInv, Numbers, Pending, Over, VerdictHeld
    <2> QED
        BY <2>1 DEF Quiet
<1>4. CASE pg \in LedgerPages /\ LedgerInv(pg) /\ SinceInChain(pg)
    <2>1. pg.selectedCase # NoAnswer => pg.selectedCase \in Cases
        BY <1>4 DEF LedgerPages
    <2>2. SinceInChain(page)'
        BY <1>4, <2>1 DEF SinceInChain, DataGrows
    <2>3. page' \in LedgerPages /\ LedgerInv(page)'
        BY <1>4 DEF LedgerInv, Numbers, Over, LoadUnderWay, LedgerShown
    <2> QED
        BY <2>2, <2>3 DEF Quiet
<1>5. CASE pg \in UploadPages /\ UploadInv(pg)
    <2>1. pg.loading => \E u \in uploads' : IsOf(pg, u)
        BY <1>5 DEF UploadInv, IsOf
    <2>2. SameOutcome(pg, pg)
        BY DEF SameOutcome
    <2>3. UploadInv(pg)'
        BY <1>5, <2>1, <2>2, OutcomeStands
    <2>4. UploadInv(page)'
        BY <2>3 DEF UploadInv, IsOf
    <2> QED
        BY <1>5, <2>4 DEF Quiet
<1> QED
    BY <1>1, <1>2, <1>3, <1>4, <1>5 DEF Quiet

\* Nothing changes at the servers.
LEMMA ServersStand ==
    ASSUME DataInv, DeskInv, UNCHANGED <<evidence, chain, uploadVars>>
    PROVE  /\ DataInv' /\ DeskInv' /\ DataGrows
           /\ \A u \in uploads : \E v \in uploads' : v.no = u.no /\ v.case = u.case /\ v.form = u.form
<1>1. DataInv' /\ DataGrows
    BY DEF DataInv, DataGrows
<1>2. UNCHANGED <<evidence, chain, uploads, submissions, assigned>>
    BY DEF uploadVars
<1>3. \A u \in uploads : HasItsRow(u)' /\ WasAllowed(u)'
    BY <1>2 DEF DeskInv, HasItsRow, WasAllowed
<1>4. DeskInv'
    BY <1>2, <1>3 DEF DeskInv, Vouched
<1> QED
    BY <1>1, <1>2, <1>4

\* The pages that read, whatever they do.
LEMMA QuietReads ==
    ASSUME DataInv, Quiet(page),
           \/ ListAnswered \/ ListFailed \/ Type \/ DashboardAnswered \/ DashboardFailed
           \/ DetailLoaded \/ DetailNotLoaded \/ handleVerify \/ VerifyAnswered
           \/ handleDownload \/ DownloadAnswered
           \/ LedgerCases \/ LedgerAnswered \/ LedgerFailed
           \/ \E c \in Cases : JumpToCase(c) \/ SelectCase(c)
           \/ \E a \in Ids(evidence) : JumpToArtifact(a)
    PROVE  /\ UNCHANGED <<evidence, chain>>
           /\ \E after : page' = after /\ Quiet(after)
<1>1. Ids(evidence) \subseteq Artifacts
    BY DEF DataInv, Rows, Ids
<1>2. ASSUME page.name \in {"cases", "artifacts"},
             ListAnswered \/ ListFailed \/ Type \/ \E c \in Cases : JumpToCase(c)
      PROVE  UNCHANGED <<evidence, chain>> /\ \E after : page' = after /\ Quiet(after)
    <2>1. page \in ListPages /\ ListInv(page) /\ page.known \subseteq Ids(Listed(page.of))
        BY <1>2, QuietByName
    <2>2. CASE ListAnswered \/ ListFailed
        <3>1. PICK a \in page.asks :
                \/ page' = [Take(page, a) EXCEPT !.artifacts = Listed(a.of), !.loading = FALSE]
                \/ page' = [Take(page, a) EXCEPT !.error = TRUE, !.loading = FALSE]
            BY <2>2 DEF ListAnswered, ListFailed
        <3>2. PICK after : after = page'
            OBVIOUS
        <3>3. after \in ListPages /\ ListInv(after) /\ after.known = page.known /\ after.of = page.of
            BY <2>1, <3>1, <3>2, ListTakes
        <3>4. Quiet(after)
            BY <2>1, <3>3 DEF Quiet
        <3> QED
            BY <2>2, <3>2, <3>4 DEF ListAnswered, ListFailed
    <2>3. CASE Type
        <3>1. PICK after : after = page' /\ after = [page EXCEPT !.query = ~@]
            BY <2>3 DEF Type
        <3>2. after \in ListPages /\ ListInv(after) /\ after.known = page.known /\ after.of = page.of
            BY <2>1, <3>1, ListTyped
        <3>3. Quiet(after)
            BY <2>1, <3>2 DEF Quiet
        <3> QED
            BY <2>3, <3>1, <3>3 DEF Type
    <2>4. ASSUME NEW c \in Cases, JumpToCase(c)
          PROVE  UNCHANGED <<evidence, chain>> /\ \E after : page' = after /\ Quiet(after)
        <3>1. PICK after : after = page' /\ after = CasesEffect(page, c)
            BY <2>4 DEF JumpToCase
        <3>2. after \in ListPages /\ ListInv(after) /\ after.of = c
              /\ after.known \subseteq Ids(Listed(c))
            BY <2>1, <3>1, ListAsks
        <3>3. Quiet(after)
            BY <3>2 DEF Quiet
        <3> QED
            BY <2>4, <3>1, <3>3 DEF JumpToCase
    <2> QED
        BY <1>2, <2>2, <2>3, <2>4
<1>3. ASSUME page.name = "dashboard", DashboardAnswered \/ DashboardFailed
      PROVE  UNCHANGED <<evidence, chain>> /\ \E after : page' = after /\ Quiet(after)
    <2>1. page \in DashboardPages /\ DashboardInv(page)
        BY <1>3, QuietByName
    <2>2. PICK after : after = page'
        OBVIOUS
    <2>3. after \in DashboardPages /\ DashboardInv(after)
        BY <1>3, <2>1, <2>2, DashboardSteps DEF DashboardInv
    <2>4. UNCHANGED <<evidence, chain>>
        BY <1>3 DEF DashboardAnswered, DashboardFailed
    <2> QED
        BY <2>2, <2>3, <2>4 DEF Quiet
<1>4. ASSUME page.name = "ledger",
             LedgerCases \/ (\E c \in Cases : SelectCase(c)) \/ LedgerAnswered \/ LedgerFailed
      PROVE  UNCHANGED <<evidence, chain>> /\ \E after : page' = after /\ Quiet(after)
    <2>1. page \in LedgerPages /\ LedgerInv(page) /\ SinceInChain(page)
        BY <1>4, QuietByName
    <2>2. /\ page' \in LedgerPages /\ LedgerInv(page') /\ SinceInChain(page')
          /\ UNCHANGED <<evidence, chain>>
        BY <1>4, <2>1, LedgerSteps
    <2> QED
        BY <2>2 DEF Quiet
<1>5. ASSUME page.name = "detail",
             \/ DetailLoaded \/ DetailNotLoaded \/ handleVerify \/ VerifyAnswered
             \/ handleDownload \/ DownloadAnswered \/ \E a \in Ids(evidence) : JumpToArtifact(a)
      PROVE  UNCHANGED <<evidence, chain>> /\ \E after : page' = after /\ Quiet(after)
    <2>1. page \in DetailPages /\ DetailInv(page)
        BY <1>5, QuietByName
    <2>2. PICK after : after = page'
        OBVIOUS
    <2>3. CASE DetailLoaded \/ DetailNotLoaded
        <3>1. PICK a \in page.asks :
                \/ a.kind = "artifact" /\ after = [Take(page, a) EXCEPT !.artifact = a.of]
                \/ a.kind = "timeline" /\ after = [Take(page, a) EXCEPT !.timeline = a.of]
                \/ a.kind = "artifact" /\ after = [Take(page, a) EXCEPT !.fetchError = TRUE]
                \/ a.kind = "timeline" /\ after = [Take(page, a) EXCEPT !.hidden = TRUE]
            BY <2>2, <2>3 DEF DetailLoaded, DetailNotLoaded, Waiting
        <3>2. after \in DetailPages /\ DetailInv(after)
            BY <2>1, <3>1, DetailLoads
        <3> QED
            BY <2>2, <2>3, <3>2 DEF Quiet, DetailLoaded, DetailNotLoaded
    <2>4. CASE handleVerify
        <3>1. after \in DetailPages /\ DetailInv(after)
            BY <2>1, <2>2, <2>4, DetailVerifies DEF handleVerify
        <3> QED
            BY <2>2, <2>4, <3>1 DEF Quiet, handleVerify
    <2>5. CASE VerifyAnswered
        <3>1. PICK a \in page.asks :
                /\ a.kind = "verify"
                /\ \/ after = [Take(page, a) EXCEPT !.verifyResult = a, !.verifying = FALSE]
                   \/ after = [Take(page, a) EXCEPT !.verifyError = a, !.verifying = FALSE]
            BY <2>2, <2>5 DEF VerifyAnswered, Waiting
        <3>2. after \in DetailPages /\ DetailInv(after)
            BY <2>1, <3>1, DetailVerified
        <3> QED
            BY <2>2, <2>5, <3>2 DEF Quiet, VerifyAnswered
    <2>6. CASE handleDownload
        <3>1. after \in DetailPages /\ DetailInv(after)
            BY <2>1, <2>2, <2>6, DetailDownloads DEF handleDownload
        <3> QED
            BY <2>2, <2>6, <3>1 DEF Quiet, handleDownload
    <2>7. CASE DownloadAnswered
        <3>1. PICK a \in page.asks, failed \in BOOLEAN :
                /\ a.kind = "download"
                /\ after = [Take(page, a) EXCEPT !.downloading = FALSE, !.downloadError = failed]
            BY <2>2, <2>7 DEF DownloadAnswered, Waiting
        <3>2. after \in DetailPages /\ DetailInv(after)
            BY <2>1, <3>1, DetailDownloaded
        <3> QED
            BY <2>2, <2>7, <3>2 DEF Quiet, DownloadAnswered
    <2>8. ASSUME NEW a \in Ids(evidence), JumpToArtifact(a)
          PROVE  UNCHANGED <<evidence, chain>> /\ Quiet(after)
        <3>1. after = DetailEffect(page, a) /\ a \in Artifacts
            BY <1>1, <2>2, <2>8 DEF JumpToArtifact
        <3>2. after \in DetailPages /\ DetailInv(after)
            BY <2>1, <3>1, DetailJumps
        <3> QED
            BY <2>8, <3>2 DEF Quiet, JumpToArtifact
    <2> QED
        BY <1>5, <2>2, <2>3, <2>4, <2>5, <2>6, <2>7, <2>8
<1>6. ListAnswered \/ ListFailed \/ Type \/ (\E c \in Cases : JumpToCase(c))
        => page.name \in {"cases", "artifacts"}
    BY DEF ListAnswered, ListFailed, Type, JumpToCase
<1>7. DashboardAnswered \/ DashboardFailed => page.name = "dashboard"
    BY DEF DashboardAnswered, DashboardFailed
<1>8. LedgerCases \/ (\E c \in Cases : SelectCase(c)) \/ LedgerAnswered \/ LedgerFailed
        => page.name = "ledger"
    BY DEF LedgerCases, SelectCase, LedgerAnswered, LedgerFailed
<1>9. DetailLoaded \/ DetailNotLoaded \/ handleVerify \/ VerifyAnswered
        \/ handleDownload \/ DownloadAnswered \/ (\E a \in Ids(evidence) : JumpToArtifact(a))
        => page.name = "detail"
    BY DEF DetailLoaded, DetailNotLoaded, handleVerify, VerifyAnswered, handleDownload,
           DownloadAnswered, JumpToArtifact
<1> QED
    BY <1>2, <1>3, <1>4, <1>5, <1>6, <1>7, <1>8, <1>9

\* A set put in some order: a sequence of its elements, each once, none left out.
LEMMA SeqsOfFinite ==
    ASSUME NEW S, IsFiniteSet(S), NEW s \in SetToSeqs(S)
    PROVE  /\ s \in Seq(S) /\ \A x \in S : \E i \in DOMAIN s : s[i] = x
           /\ \A i, j \in DOMAIN s : s[i] = s[j] => i = j
<1>1. PICK n \in Nat : n = Cardinality(S)
    BY FS_CardinalityType
<1>2. s \in [1..n -> S] /\ \A i, j \in 1..n : i # j => s[i] # s[j]
    BY <1>1 DEF SetToSeqs
<1>3. s \in Seq(S)
    BY <1>2, SeqDef
<1>4. s \in Injection(1..n, S)
    BY <1>2 DEF Injection, IsInjective
<1>5. Cardinality(1..n) = n
    BY FS_Interval
<1>6. s \in Surjection(1..n, S)
    BY <1>1, <1>4, <1>5, FS_Injection
<1>7. \A x \in S : \E i \in 1..n : s[i] = x
    BY <1>6 DEF Surjection
<1> QED
    BY <1>2, <1>3, <1>7

LEMMA InitHolds ==
    ASSUME Init
    PROVE  Inv
<1>1. PICK id \in Artifacts, c \in Cases, f \in Forms :
        /\ evidence = {[id |-> id, case |-> c, status |-> "INGESTED", form |-> f]}
        /\ chain = [d \in Cases |-> IF d = c THEN {id} ELSE {}]
        /\ assigned = {c}
        /\ page \in Mountable
        /\ \E ids \in {{}, IF page.name = "reports" THEN ReportIds ELSE {}} :
             /\ reports \in SetToSeqs({[id |-> r, of |-> id] : r \in ids})
             /\ archive = [r \in ReportIds |-> IF r \in ids THEN "intact" ELSE "none"]
             /\ anchored = ids /\ published = ids
    BY DEF Init
<1>2. uploads = {} /\ submissions = 0 /\ generations = {}
    BY DEF Init
<1>3. DataInv
    <2>1. PICK row : row = [id |-> id, case |-> c, status |-> "INGESTED", form |-> f]
        OBVIOUS
    <2>2. row \in Rows
        BY <2>1 DEF Rows, Statuses
    <2>3. evidence = {row} /\ IsFiniteSet({row})
        BY <1>1, <2>1, FS_Singleton
    <2>4. chain \in [Cases -> SUBSET Artifacts]
        BY <1>1
    <2> QED
        BY <2>2, <2>3, <2>4 DEF DataInv
<1>4. DeskInv
    BY <1>1, <1>2 DEF DeskInv, Vouched
<1>5. ReportsInv
    <2>1. PICK ids \in SUBSET ReportIds :
            /\ reports \in SetToSeqs({[id |-> r, of |-> id] : r \in ids})
            /\ archive = [r \in ReportIds |-> IF r \in ids THEN "intact" ELSE "none"]
            /\ anchored = ids /\ published = ids
        BY <1>1
    <2> DEFINE rows == {[id |-> r, of |-> id] : r \in ids}
    <2>2. IsFiniteSet(rows)
        <3>1. IsFiniteSet(ids)
            BY ReportAssumption, FS_Subset
        <3>2. [r \in ids |-> [id |-> r, of |-> id]] \in Surjection(ids, rows)
            BY DEF Surjection
        <3> QED
            BY <3>1, <3>2, FS_Surjection
    <2>3. /\ reports \in Seq(rows) /\ \A x \in rows : \E i \in DOMAIN reports : reports[i] = x
          /\ \A i, j \in DOMAIN reports : reports[i] = reports[j] => i = j
        BY <2>1, <2>2, SeqsOfFinite
    <2>4. rows \subseteq ReportRows /\ \A x \in rows : x.id \in ids
        BY DEF ReportRows
    <2>5. reports \in Seq(ReportRows)
        BY <2>3, <2>4, SeqDef
    <2>6. \A i \in DOMAIN reports : reports[i] \in rows
        BY <2>3, ElementOfSeq, LenProperties
    <2>7. OnRecord = ids
        <3>1. ASSUME NEW r \in ids PROVE r \in OnRecord
            <4>1. [id |-> r, of |-> id] \in rows /\ [id |-> r, of |-> id].id = r
                OBVIOUS
            <4>2. PICK i \in DOMAIN reports : reports[i] = [id |-> r, of |-> id]
                BY <2>3, <4>1
            <4> QED
                BY <4>1, <4>2 DEF OnRecord
        <3>2. \A r \in OnRecord : r \in ids
            BY <2>4, <2>6 DEF OnRecord
        <3> QED
            BY <3>1, <3>2
    <2>8. \A i, j \in DOMAIN reports : reports[i].id = reports[j].id => i = j
        <3>1. \A x, y \in rows : x.id = y.id => x = y
            OBVIOUS
        <3> QED
            BY <2>3, <2>6, <3>1
    <2>9. /\ archive \in [ReportIds -> {"none", "intact", "altered"}]
          /\ \A r \in OnRecord \cup anchored : archive[r] # "none"
          /\ anchored \subseteq ReportIds /\ published \subseteq OnRecord
        BY <2>1, <2>7
    <2> QED
        BY <1>2, <2>5, <2>8, <2>9 DEF ReportsInv
<1>6. Idle
    BY <1>2 DEF Idle
<1>7. TabInv
    <2>1. Quiet(page) \/ Bare(page)
        BY <1>1, <1>3, MountedHolds
    <2> QED
        BY <1>6, <2>1, BareHolds DEF TabInv
<1> QED
    BY <1>3, <1>4, <1>5, <1>7 DEF Inv

\* Going to another page.
LEMMA NavigateKeeps ==
    ASSUME Inv, Navigate
    PROVE  Inv'
<1>1. /\ UNCHANGED <<evidence, chain, uploadVars>>
      /\ UNCHANGED <<reports, archive, anchored, published>>
    BY DEF Navigate, servers
<1>2. /\ DataInv' /\ DeskInv' /\ DataGrows
      /\ \A u \in uploads : \E v \in uploads' : v.no = u.no /\ v.case = u.case /\ v.form = u.form
    BY <1>1, ServersStand DEF Inv
<1>3. ReportsInv' /\ Idle'
    BY <1>1, LeftKeeps DEF Inv, Navigate, Idle
<1>4. page.last \in Nat
    BY DEF Inv, TabInv, Quiet, ListPages, DashboardPages, DetailPages, LedgerPages,
           UploadPages, ReportPages
<1>5. PICK pg \in Mountable : page' = [pg EXCEPT !.last = @ + page.last]
    BY DEF Navigate
<1>6. PICK after : page' = after /\ after = [pg EXCEPT !.last = @ + page.last]
    BY <1>5
<1>7. Quiet(after) \/ Bare(after)
    BY <1>4, <1>6, MountedHolds, RaisedHolds DEF Inv
<1>8. CASE Quiet(after)
    BY <1>2, <1>3, <1>6, <1>8, QuietStands DEF Inv, TabInv
<1>9. CASE Bare(after)
    <2>1. after \in ReportPages /\ ReportInv(after)'
        BY <1>3, <1>9, BareHolds
    <2>2. page' \in ReportPages /\ ReportInv(page)'
        BY <1>6, <2>1 DEF ReportInv, Working, Boxed, Living, Newest
    <2> QED
        BY <1>2, <1>3, <2>2 DEF Inv, TabInv
<1> QED
    BY <1>7, <1>8, <1>9

\* Nothing changes in the reports.
LEMMA ReportsStand ==
    ASSUME ReportsInv, UNCHANGED reportVars
    PROVE  ReportsInv' /\ ReportsGrow /\ (Idle => Idle')
<1>1. UNCHANGED <<reports, archive, anchored, published, generations>> /\ OnRecord' = OnRecord
    BY DEF reportVars, OnRecord
<1>2. \A g \in generations : Filed(g)'
    BY <1>1 DEF ReportsInv, Filed
<1> QED
    BY <1>1, <1>2 DEF ReportsInv, ReportsGrow, Idle

\* The page does nothing, and the reports stay as they are.
LEMMA TabStands ==
    ASSUME Inv, DataGrows, UNCHANGED <<page, reportVars>>,
           \A u \in uploads : \E v \in uploads' : v.no = u.no /\ v.case = u.case /\ v.form = u.form
    PROVE  ReportsInv' /\ TabInv'
<1>1. ReportsInv' /\ ReportsGrow /\ (Idle => Idle') /\ UNCHANGED generations
    BY ReportsStand DEF Inv, reportVars
<1>2. PICK pg : page = pg /\ page' = pg
    OBVIOUS
<1>3. CASE Quiet(page) /\ Idle
    <2>1. Quiet(pg)
        BY <1>2, <1>3
    <2> QED
        BY <1>1, <1>2, <1>3, <2>1, QuietStands DEF Inv, TabInv
<1>4. CASE page \in ReportPages /\ ReportInv(page)
    <2>1. pg \in ReportPages /\ ReportInv(pg)
        BY <1>2, <1>4
    <2>2. ReportInv(pg)'
        BY <1>1, <2>1, ReportStands DEF Inv
    <2>3. page' \in ReportPages /\ ReportInv(page)'
        BY <1>2, <2>1, <2>2 DEF ReportInv, Working, Boxed, Living, Newest
    <2> QED
        BY <1>1, <2>3 DEF TabInv
<1> QED
    BY <1>3, <1>4 DEF Inv, TabInv

LEMMA ReadingKeeps ==
    ASSUME Inv, ReadingStep
    PROVE  Inv'
<1>1. UNCHANGED uploadVars /\ UNCHANGED reportVars
    BY DEF ReadingStep
<1>2. CASE IngestedElsewhere
    <2>1. DataInv' /\ DeskInv' /\ DataGrows
        BY <1>1, <1>2, ElsewhereKeeps DEF Inv
    <2>2. UNCHANGED page
        BY <1>2 DEF IngestedElsewhere
    <2>3. ReportsInv' /\ TabInv'
        BY <1>1, <2>1, <2>2, TabStands DEF uploadVars
    <2> QED
        BY <2>1, <2>3 DEF Inv
<1>3. CASE ~IngestedElsewhere
    <2>1. page.name # "reports"
        BY <1>3 DEF ReadingStep, ListAnswered, ListFailed, Type, DashboardAnswered,
                    DashboardFailed, DetailLoaded, DetailNotLoaded, handleVerify,
                    VerifyAnswered, handleDownload, DownloadAnswered, LedgerCases,
                    LedgerAnswered, LedgerFailed, JumpToCase, SelectCase, JumpToArtifact
    <2>2. Quiet(page) /\ Idle /\ DataInv /\ DeskInv
        BY <2>1, ByName DEF Inv
    <2>3. UNCHANGED <<evidence, chain>> /\ \E after : page' = after /\ Quiet(after)
        BY <1>3, <2>2, QuietReads DEF ReadingStep
    <2>4. PICK after : page' = after /\ Quiet(after)
        BY <2>3
    <2>5. /\ DataInv' /\ DeskInv' /\ DataGrows
          /\ \A u \in uploads : \E v \in uploads' : v.no = u.no /\ v.case = u.case /\ v.form = u.form
        BY <1>1, <2>2, <2>3, ServersStand
    <2>6. ReportsInv' /\ Idle'
        BY <1>1, <2>2, ReportsStand DEF Inv
    <2>7. Quiet(page)'
        BY <2>2, <2>4, <2>5, QuietStands
    <2> QED
        BY <2>5, <2>6, <2>7 DEF Inv, TabInv
<1> QED
    BY <1>2, <1>3

LEMMA UploadKeeps ==
    ASSUME Inv, UploadStep
    PROVE  Inv'
<1>1. UNCHANGED reportVars
    BY DEF UploadStep
<1>2. CASE Reassigned
    <2>1. /\ DataInv' /\ DeskInv' /\ DataGrows
          /\ \A u \in uploads : \E v \in uploads' : v.no = u.no /\ v.case = u.case /\ v.form = u.form
        BY <1>2, ReassignedKeeps DEF Inv
    <2>2. UNCHANGED page
        BY <1>2 DEF Reassigned
    <2> QED
        BY <1>1, <2>1, <2>2, TabStands DEF Inv
<1>3. CASE page.name = "upload"
    <2>1. page \in UploadPages /\ UploadInv(page) /\ Idle /\ DataInv /\ DeskInv
        BY <1>3, ByName, QuietByName DEF Inv
    <2>2. CASE UploadCases \/ FillForm \/ resetForm \/ AnswerLost
        <3>1. /\ page' \in UploadPages /\ UploadInv(page)'
              /\ UNCHANGED <<evidence, chain, uploadVars>>
            BY <2>1, <2>2, UploadFillsIn
        <3>2. DataInv' /\ DeskInv'
            BY <2>1, <3>1, ServersStand
        <3> QED
            BY <1>1, <2>1, <3>1, <3>2, ReportsStand DEF Inv, TabInv, Quiet
    <2>3. CASE handleSubmit
        <3>1. DataInv' /\ DeskInv' /\ page' \in UploadPages /\ UploadInv(page)'
            BY <2>1, <2>3, SubmitKeeps
        <3> QED
            BY <1>1, <2>1, <3>1, ReportsStand DEF Inv, TabInv, Quiet
    <2>4. ASSUME NEW u \in uploads, Upload(u)
          PROVE  Inv'
        <3>1. DataInv' /\ DeskInv' /\ DataGrows
            BY <2>1, <2>4, DeskSteps
        <3>2. page' \in UploadPages /\ UploadInv(page)'
            BY <2>1, <2>4, <3>1, UploadGoesOn
        <3> QED
            BY <1>1, <2>1, <3>1, <3>2, ReportsStand DEF Inv, TabInv, Quiet
    <2> QED
        BY <1>2, <2>2, <2>3, <2>4 DEF UploadStep
<1>4. CASE page.name # "upload"
    <2>1. ~UploadCases /\ ~FillForm /\ ~resetForm /\ ~handleSubmit /\ ~AnswerLost
        BY <1>4 DEF UploadCases, FillForm, AtForm, resetForm, handleSubmit, AnswerLost, Awaits
    <2>2. ASSUME NEW u \in uploads, Upload(u)
          PROVE  Inv'
        <3>1. DataInv' /\ DeskInv' /\ DataGrows
            BY <2>2, DeskSteps DEF Inv
        <3>2. UNCHANGED page
            BY <1>4, <2>2 DEF Upload, CheckAssignment, Store, HashAndSign, AppendProof, Finish,
                              GiveUp, Refuse, Errored, Succeeded, Awaits
        <3>3. CASE page.name = "reports"
            <4>1. page \in ReportPages /\ ReportInv(page)
                BY <3>3, ByName
            <4>2. ReportsInv' /\ ReportsGrow /\ UNCHANGED generations
                BY <1>1, ReportsStand DEF Inv, reportVars
            <4>3. PICK pg : page = pg /\ page' = pg
                BY <3>2
            <4>4. pg \in ReportPages /\ ReportInv(pg)
                BY <4>1, <4>3
            <4>5. ReportInv(pg)'
                BY <4>2, <4>4, ReportStands DEF Inv
            <4>6. page' \in ReportPages /\ ReportInv(page)'
                BY <4>3, <4>4, <4>5 DEF ReportInv, Working, Boxed, Living, Newest
            <4> QED
                BY <3>1, <4>2, <4>6 DEF Inv, TabInv
        <3>4. CASE page.name # "reports"
            <4>1. Quiet(page) /\ Idle /\ ReportsInv' /\ Idle'
                BY <1>1, <3>4, ByName, ReportsStand DEF Inv
            <4>2. PICK pg : page = pg /\ page' = pg
                BY <3>2
            <4>3. Quiet(pg) /\ pg \notin UploadPages
                BY <1>4, <4>1, <4>2 DEF UploadPages
            <4>4. Quiet(page)'
                BY <3>1, <4>2, <4>3, QuietStands DEF Inv
            <4> QED
                BY <3>1, <4>1, <4>4 DEF Inv, TabInv
        <3> QED
            BY <3>3, <3>4
    <2> QED
        BY <1>2, <2>1, <2>2 DEF UploadStep
<1> QED
    BY <1>3, <1>4

LEMMA ReportKeeps ==
    ASSUME Inv, ReportStep
    PROVE  Inv'
<1>1. UNCHANGED <<evidence, chain, uploadVars>>
    BY DEF ReportStep, ReportsListed, handleGenerate, ReportVerified, ReportDownloaded, Tamper,
           JumpToReports, handleVerifyReport, handleDownloadReport, generate_report, WriteFile,
           AnchorReport, CommitReport, PublishAndAnswer, GenerationFails
<1>2. /\ DataInv' /\ DeskInv' /\ DataGrows
      /\ \A u \in uploads : \E v \in uploads' : v.no = u.no /\ v.case = u.case /\ v.form = u.form
    BY <1>1, ServersStand DEF Inv
<1>3. Ids(evidence) \subseteq Artifacts
    BY DEF Inv, DataInv, Rows, Ids
<1>4. CASE page.name # "reports"
    <2>1. Quiet(page) /\ Idle
        BY <1>4, ByName
    <2>2. PICK g \in generations : generate_report(g) \/ GenerationFails(g)
        BY <1>4 DEF ReportStep, ReportsListed, handleGenerate, ReportVerified, ReportDownloaded,
                    Tamper, JumpToReports, handleVerifyReport, handleDownloadReport
    <2>3. ReportsInv' /\ Idle' /\ UNCHANGED page
        <3>1. CASE WriteFile(g) \/ AnchorReport(g) \/ CommitReport(g)
            <4>1. ReportsInv' /\ UNCHANGED page
                BY <3>1, AdvanceKeeps DEF Inv
            <4>2. PICK w \in Generations :
                    generations' = (generations \ {g}) \cup {w} /\ w.live = g.live
                BY <3>1, AdvanceKeeps DEF Inv
            <4> QED
                BY <2>1, <4>1, <4>2 DEF Idle
        <3>2. CASE PublishAndAnswer(g) \/ GenerationFails(g)
            <4>1. /\ generations' = generations \ {g}
                  /\ UNCHANGED <<reports, archive, anchored>>
                BY <3>2 DEF PublishAndAnswer, GenerationFails
            <4>2. published' \subseteq published \cup OnRecord
                BY <3>2 DEF PublishAndAnswer, GenerationFails, Inv, ReportsInv, Filed
            <4>3. ReportsInv'
                BY <4>1, <4>2, EndedKeeps DEF Inv
            <4>4. UNCHANGED page
                BY <2>1, <3>2 DEF PublishAndAnswer, GenerationFails, Prepended, NotGenerated, Idle
            <4> QED
                BY <2>1, <4>1, <4>3, <4>4 DEF Idle
        <3> QED
            BY <2>2, <3>1, <3>2 DEF generate_report
    <2>4. PICK pg : page = pg /\ page' = pg
        BY <2>3
    <2>5. Quiet(page)'
        BY <1>2, <2>1, <2>4, QuietStands DEF Inv
    <2> QED
        BY <1>2, <2>3, <2>5 DEF Inv, TabInv
<1>5. CASE page.name = "reports"
    <2>1. page \in ReportPages /\ ReportInv(page) /\ ReportsInv
        BY <1>5, ByName DEF Inv
    <2>2. SUFFICES ReportsInv' /\ page' \in ReportPages /\ ReportInv(page)'
        BY <1>2 DEF Inv, TabInv
    <2>3. CASE \/ ReportsListed \/ ReportVerified \/ ReportDownloaded
               \/ \E a \in Ids(evidence) : JumpToReports(a)
               \/ \E id \in ReportIds : handleVerifyReport(id) \/ handleDownloadReport(id)
        <3>1. UNCHANGED reportVars
            BY <2>3 DEF ReportsListed, ReportVerified, ReportDownloaded, JumpToReports,
                        handleVerifyReport, handleDownloadReport
        <3>2. PICK after : after = page'
            OBVIOUS
        <3>3. after \in ReportPages /\ ReportInv(after)
            <4>1. CASE ReportsListed
                <5>1. PICK a \in page.asks :
                        /\ a.kind = "list"
                        /\ \/ \E rows \in ByArtifact(a.of) :
                                after = [Take(page, a) EXCEPT !.reports = rows, !.loading = FALSE]
                           \/ after = [Take(page, a) EXCEPT !.error = TRUE, !.loading = FALSE]
                    BY <3>2, <4>1 DEF ReportsListed, Waiting
                <5> QED
                    BY <2>1, <5>1, ReportsCome
            <4>2. CASE ReportVerified \/ ReportDownloaded
                <5>1. PICK a \in page.asks :
                        \/ /\ a.kind = "verify"
                           /\ \/ after = [[Take(page, a) EXCEPT !.verifyingId = NoAnswer] EXCEPT
                                            !.verifications[a.of] =
                                              [of |-> a.of, report_valid |-> archive[a.of] = "intact"]]
                              \/ after = [[Take(page, a) EXCEPT !.verifyingId = NoAnswer] EXCEPT
                                            !.error = TRUE]
                        \/ /\ a.kind = "download"
                           /\ \E failed \in BOOLEAN :
                                after = [Take(page, a) EXCEPT !.downloadingId = NoAnswer,
                                                              !.error = @ \/ failed]
                    BY <3>2, <4>2 DEF ReportVerified, ReportDownloaded, Waiting
                <5> QED
                    BY <2>1, <5>1, ReportAnswers
            <4>3. ASSUME NEW a \in Ids(evidence), JumpToReports(a)
                  PROVE  after \in ReportPages /\ ReportInv(after)
                BY <1>3, <2>1, <3>2, <4>3, ReportJumps DEF JumpToReports
            <4>4. ASSUME NEW id \in ReportIds, handleVerifyReport(id) \/ handleDownloadReport(id)
                  PROVE  after \in ReportPages /\ ReportInv(after)
                <5>1. /\ id \in ToSet(page.reports)
                      /\ \/ after = [Ask(page, "verify", id) EXCEPT !.verifyingId = id]
                         \/ after = [Ask(page, "download", id) EXCEPT !.downloadingId = id]
                    BY <3>2, <4>4 DEF handleVerifyReport, handleDownloadReport
                <5> QED
                    BY <2>1, <5>1, ReportButtons
            <4> QED
                BY <2>3, <4>1, <4>2, <4>3, <4>4
        <3>4. ReportsInv' /\ ReportsGrow /\ UNCHANGED generations
            BY <2>1, <3>1, ReportsStand DEF reportVars
        <3>5. ReportInv(after)'
            BY <2>1, <3>3, <3>4, ReportStands
        <3>6. page' \in ReportPages /\ ReportInv(page)'
            BY <3>2, <3>3, <3>5 DEF ReportInv, Working, Boxed, Living, Newest
        <3> QED
            BY <3>4, <3>6
    <2>4. CASE handleGenerate
        <3>1. page' \in ReportPages /\ ReportInv(page)'
            BY <2>1, <2>4, GeneratePressed
        <3>2. page.of \in Artifacts
            BY <2>1 DEF ReportPages
        <3>3. ReportsInv'
            BY <2>1, <2>4, <3>2, GenerateKeeps DEF handleGenerate
        <3> QED
            BY <3>1, <3>3
    <2>5. CASE Tamper
        <3>1. ReportsInv' /\ ReportsGrow /\ UNCHANGED <<page, generations>>
            BY <2>1, <2>5, TamperKeeps
        <3>2. PICK pg : page = pg /\ page' = pg
            BY <3>1
        <3>3. pg \in ReportPages /\ ReportInv(pg)
            BY <2>1, <3>2
        <3>4. ReportInv(pg)'
            BY <2>1, <3>1, <3>3, ReportStands
        <3>5. page' \in ReportPages /\ ReportInv(page)'
            BY <3>2, <3>3, <3>4 DEF ReportInv, Working, Boxed, Living, Newest
        <3> QED
            BY <3>1, <3>5
    <2>6. ASSUME NEW g \in generations, WriteFile(g) \/ AnchorReport(g) \/ CommitReport(g)
          PROVE  ReportsInv' /\ page' \in ReportPages /\ ReportInv(page)'
        <3>1. ReportsInv' /\ ReportsGrow /\ UNCHANGED page
            BY <2>1, <2>6, AdvanceKeeps
        <3>2. PICK w \in Generations :
                /\ generations' = (generations \ {g}) \cup {w}
                /\ w.live = g.live /\ w.stage # "received"
                /\ (g.stage # "received" /\ w.id = g.id) \/ w.id \notin OnRecord
            BY <2>1, <2>6, AdvanceKeeps
        <3>3. PICK pg : page = pg /\ page' = pg
            BY <3>1
        <3>4. pg \in ReportPages /\ ReportInv(pg)
            BY <2>1, <3>3
        <3>5. ReportInv(pg)'
            BY <2>1, <3>1, <3>2, <3>4, ReportStands
        <3>6. page' \in ReportPages /\ ReportInv(page)'
            BY <3>3, <3>4, <3>5 DEF ReportInv, Working, Boxed, Living, Newest
        <3> QED
            BY <3>1, <3>6
    <2>7. ASSUME NEW g \in generations, PublishAndAnswer(g) \/ GenerationFails(g)
          PROVE  ReportsInv' /\ page' \in ReportPages /\ ReportInv(page)'
        <3>1. /\ generations' = generations \ {g}
              /\ UNCHANGED <<reports, archive, anchored>>
            BY <2>7 DEF PublishAndAnswer, GenerationFails
        <3>2. published' \subseteq published \cup OnRecord
            BY <2>1, <2>7 DEF PublishAndAnswer, GenerationFails, ReportsInv, Filed
        <3>3. ReportsInv' /\ ReportsGrow
            BY <2>1, <3>1, <3>2, EndedKeeps
        <3>4. \/ page' = NotGenerated(g)
              \/ page' = Prepended(g) /\ g.stage = "committed"
            BY <2>7 DEF PublishAndAnswer, GenerationFails
        <3> QED
            BY <2>1, <3>1, <3>3, <3>4, GenerationAnswered
    <2> QED
        BY <2>3, <2>4, <2>5, <2>6, <2>7 DEF ReportStep, generate_report
<1> QED
    BY <1>4, <1>5

\* The invariant holds in every reachable state.
THEOREM TabIsRight == Spec => []Inv
<1>1. Init => Inv
    BY InitHolds
<1>2. Inv /\ [Next]_vars => Inv'
    <2> SUFFICES ASSUME Inv, [Next]_vars PROVE Inv'
        OBVIOUS
    <2>1. CASE Navigate
        BY <2>1, NavigateKeeps
    <2>2. CASE ReadingStep
        BY <2>2, ReadingKeeps
    <2>3. CASE UploadStep
        BY <2>3, UploadKeeps
    <2>4. CASE ReportStep
        BY <2>4, ReportKeeps
    <2>5. CASE UNCHANGED vars
        <3>1. UNCHANGED <<evidence, chain, uploadVars, page, reportVars>>
            BY <2>5 DEF vars, servers, reportVars
        <3>2. /\ DataInv' /\ DeskInv' /\ DataGrows
              /\ \A u \in uploads : \E v \in uploads' :
                   v.no = u.no /\ v.case = u.case /\ v.form = u.form
            BY <3>1, ServersStand DEF Inv
        <3> QED
            BY <3>1, <3>2, TabStands DEF Inv
    <2> QED
        BY <2>1, <2>2, <2>3, <2>4, <2>5 DEF Next
<1> QED
    BY <1>1, <1>2, PTL DEF Spec

\* The case page and the artifact list show the rows of what their header names
\* once nothing is awaited, nothing failed and no answer overtook another.
THEOREM ListsShowTheirCase == Spec => []ListShowsItsCase
<1>1. Inv => ListShowsItsCase
    <2> SUFFICES ASSUME Inv, page.name \in {"cases", "artifacts"} PROVE ListShowsItsCase
        BY DEF ListShowsItsCase
    <2>1. page \in ListPages /\ ListInv(page)
        BY ByName, QuietByName
    <2> QED
        BY <2>1, ListShows
<1> QED
    BY <1>1, TabIsRight, PTL

\* The artifact page shows the artifact in its URL once nothing is awaited, unless
\* an answer came late or a section could not be loaded.
THEOREM ArtifactPageShowsItsArtifact == Spec => []DetailShowsItsArtifact
<1>1. Inv => DetailShowsItsArtifact
    <2> SUFFICES ASSUME Inv, page.name = "detail" PROVE DetailShowsItsArtifact
        BY DEF DetailShowsItsArtifact
    <2>1. page \in DetailPages /\ DetailInv(page)
        BY ByName, QuietByName
    <2> QED
        BY <2>1, DetailShows
<1> QED
    BY <1>1, TabIsRight, PTL

\* The verdict box of the artifact page holds the outcome of the file submitted
\* last, and that for the artifact in the URL unless the URL changed.
THEOREM VerdictIsOfLastSubmission == Spec => []VerdictOfLastSubmission
<1>1. Inv => VerdictOfLastSubmission
    <2> SUFFICES ASSUME Inv, page.name = "detail" PROVE VerdictOfLastSubmission
        BY DEF VerdictOfLastSubmission
    <2>1. page \in DetailPages /\ DetailInv(page)
        BY ByName, QuietByName
    <2> QED
        BY <2>1, DetailShows
<1> QED
    BY <1>1, TabIsRight, PTL

\* Table and verdict of the ledger page come from one load, and once all is
\* settled from the selected case's, which misses nothing.
THEOREM LedgerPageShowsItsCase == Spec => []LedgerShowsItsCase
<1>1. Inv => LedgerShowsItsCase
    <2> SUFFICES ASSUME Inv, page.name = "ledger" PROVE LedgerShowsItsCase
        BY DEF LedgerShowsItsCase
    <2>1. page \in LedgerPages /\ LedgerInv(page)
        BY ByName, QuietByName
    <2> QED
        BY <2>1, LedgerShows
<1> QED
    BY <1>1, TabIsRight, PTL

\* UploadOutcomeTrue in every behaviour: what the upload page says of an upload is
\* so at the servers, also when commits of the collector raise (evidence.py:91-174,
\* ArtifactUploadPage.tsx:277-296).
THEOREM UploadPageTellsTheTruth == Spec => []UploadOutcomeTrue
<1>1. Inv => UploadOutcomeTrue
    <2> SUFFICES ASSUME Inv, page.name = "upload" PROVE UploadOutcomeTrue
        BY DEF UploadOutcomeTrue
    <2>1. page \in UploadPages /\ UploadInv(page)
        BY ByName, QuietByName
    <2> QED
        BY <2>1, UploadTells DEF Inv
<1> QED
    BY <1>1, TabIsRight, PTL

\* A row is written only into a case that was assigned after the button was
\* pressed, and a row under way is its upload's own.
THEOREM UploadsWereAllowed == Spec => []UploadWasAllowed
<1>1. Inv => UploadWasAllowed
    BY DeskAllows DEF Inv
<1> QED
    BY <1>1, TabIsRight, PTL

\* Every row and anchored hash of a report has its file, every event and every
\* listed report its row, and no report id has two rows.
THEOREM ReportsAreBacked == Spec => []ReportOnRecordIsBacked
<1>1. Inv => ReportOnRecordIsBacked
    <2> SUFFICES ASSUME Inv PROVE ReportOnRecordIsBacked
        OBVIOUS
    <2>1. page.name = "reports" => ToSet(page.reports) \subseteq OnRecord
        BY ByName, ReportShows
    <2>2. IsInjective([i \in DOMAIN reports |-> reports[i].id])
        BY DEF Inv, ReportsInv, IsInjective
    <2> QED
        BY <2>1, <2>2 DEF Inv, ReportsInv, ReportOnRecordIsBacked
<1> QED
    BY <1>1, TabIsRight, PTL

\* A verdict is displayed under the report it is about, and "TAMPERED" only if
\* that report's file was altered.
THEOREM VerdictsAreUnderTheirReports == Spec => []VerdictUnderItsReport
<1>1. Inv => VerdictUnderItsReport
    <2> SUFFICES ASSUME Inv, page.name = "reports" PROVE VerdictUnderItsReport
        BY DEF VerdictUnderItsReport
    <2> QED
        BY ByName, ReportShows
<1> QED
    BY <1>1, TabIsRight, PTL

\* The reports a page generated stand at the top of its list, newest first, each
\* once, unless one was asked for while the list was still awaited.
THEOREM GeneratedAreListed == Spec => []GeneratedIsListed
<1>1. Inv => GeneratedIsListed
    <2> SUFFICES ASSUME Inv, page.name = "reports" PROVE GeneratedIsListed
        BY DEF GeneratedIsListed
    <2> QED
        BY ByName, ReportShows
<1> QED
    BY <1>1, TabIsRight, PTL

\* While a page shows a spinner or keeps a button disabled, a request is under way
\* whose answer ends it.
THEOREM SpinnersHaveTheirRequests == Spec => []SpinnerHasItsRequest
<1>1. Inv => SpinnerHasItsRequest
    <2> SUFFICES ASSUME Inv PROVE SpinnerHasItsRequest
        OBVIOUS
    <2>1. CASE page.name = "reports"
        <3>1. Working(page) /\ Living(page)
            BY <2>1, ByName DEF ReportInv
        <3>2. /\ page.loading => Waiting("list") # {}
              /\ page.generating => \E g \in generations : g.live
              /\ page.verifyingId # NoAnswer => \E a \in Waiting("verify") : a.of = page.verifyingId
              /\ page.downloadingId # NoAnswer =>
                   \E a \in Waiting("download") : a.of = page.downloadingId
            BY <3>1 DEF Working, Living, Waiting
        <3> QED
            BY <2>1, <3>2 DEF SpinnerHasItsRequest
    <2>2. CASE page.name \in {"cases", "artifacts"}
        <3>1. page \in ListPages /\ ListInv(page)
            BY <2>2, ByName, QuietByName
        <3>2. \A a \in page.asks : a.kind = "list"
            BY <3>1 DEF ListPages, Asks
        <3>3. page.loading => Waiting("list") # {}
            BY <3>1, <3>2 DEF ListInv, Waiting
        <3> QED
            BY <2>2, <3>3 DEF SpinnerHasItsRequest
    <2>3. CASE page.name = "dashboard"
        <3>1. page.loading => NoAnswer \in {page.gotCases, page.gotArtifacts}
            BY <2>3, ByName, QuietByName DEF DashboardInv
        <3> QED
            BY <2>3, <3>1 DEF SpinnerHasItsRequest
    <2>4. CASE page.name = "ledger"
        <3>1. page \in LedgerPages /\ LedgerInv(page)
            BY <2>4, ByName, QuietByName
        <3>2. \A a \in page.asks : a.kind = "load"
            BY <3>1 DEF LedgerPages, Loads
        <3>3. page.loading => Waiting("load") # {}
            BY <3>1, <3>2 DEF LedgerInv, Waiting
        <3> QED
            BY <2>4, <3>3 DEF SpinnerHasItsRequest
    <2>5. CASE page.name = "detail"
        <3>1. DetailInv(page)
            BY <2>5, ByName, QuietByName
        <3>2. /\ page.verifying => Waiting("verify") # {}
              /\ page.downloading => Waiting("download") # {}
            BY <3>1 DEF DetailInv, VerdictHeld, Waiting
        <3> QED
            BY <2>5, <3>2 DEF SpinnerHasItsRequest
    <2>6. CASE page.name = "upload"
        <3>1. UploadInv(page)
            BY <2>6, ByName, QuietByName
        <3>2. page.loading => \E u \in uploads : Awaits(u)
            BY <2>6, <3>1 DEF UploadInv, IsOf, Awaits
        <3> QED
            BY <2>6, <3>2 DEF SpinnerHasItsRequest
    <2>7. page.name \in {"reports", "cases", "artifacts", "dashboard", "ledger", "detail", "upload"}
        BY ByName, QuietByName
    <2> QED
        BY <2>1, <2>2, <2>3, <2>4, <2>5, <2>6, <2>7
<1> QED
    BY <1>1, TabIsRight, PTL
=============================================================================
