----------------------------- MODULE AdminProofs -----------------------------
(***************************************************************************)
(* AssignedRoleHolds and ConsoleMatchesTables for any users, roles, cases, *)
(* number of calls under way and number of rows.                           *)
(*                                                                         *)
(* AssignedRoleHolds alone is not inductive: that a new user does not      *)
(* count as one that an assignment was made for needs the ids to be        *)
(* bounded by made, that the user create_assignment finds is the only one  *)
(* of its name needs the names to be unique, and between its reads and its *)
(* insert RolesRead says what is still true of what was read.              *)
(*                                                                         *)
(* ConsoleMatchesTables speaks of quiet moments only.  In between, what is *)
(* displayed differs from the table by exactly the answers on their way:   *)
(* Follows says so of rows that are added and deleted, Mirrors of the      *)
(* cases, which are added and replaced, and Blank of a list that has not   *)
(* arrived.  The first part below is about ids and names, the second about *)
(* Follows, Mirrors and Blank, the third about the calls and who waits for *)
(* them, then come the tab, the dialogue of the assignments, and the two   *)
(* theorems.                                                               *)
(***************************************************************************)
EXTENDS AdminConsole, TLAPS

\* Ids have been given out: the next one is higher than all of them, also than
\* that of any user create_assignment has found.
IdsGiven ==
  /\ made \in Nat
  /\ \A u \in users : u.id \in Nat /\ u.id <= made
  /\ \A a \in assignments : a.id \in Nat /\ a.id <= made /\ a.account \in Nat /\ a.account <= made
  /\ checks \in [Slots -> Checks]
  /\ \A i \in Slots : checks[i].account \in Nat /\ checks[i].account <= made

\* The unique constraint on the name of a user.
NamesUnique == \A u, v \in users : u.name = v.name => u = v

IInv == IdsGiven /\ NamesUnique

\* No row appears and nothing is read: what holds of all rows, or of all pairs of
\* them, is kept.
LEMMA Shrinks ==
  ASSUME IInv, made' = made, users' \subseteq users, assignments' \subseteq assignments,
         checks' = checks \/ \E i \in Slots : checks' = [checks EXCEPT ![i] = Unread]
  PROVE  IInv'
<1>1. checks' \in [Slots -> Checks]
      /\ \A i \in Slots : checks'[i].account \in Nat /\ checks'[i].account <= made
  BY DEF IInv, IdsGiven, Unread, Checks
<1>2. IdsGiven'
  BY <1>1 DEF IInv, IdsGiven
<1>3. NamesUnique'
  BY DEF IInv, NamesUnique
<1> QED
  BY <1>2, <1>3 DEF IInv

\* A new user has a new name and a new id.
LEMMA UserAdded ==
  ASSUME IInv, NEW i \in Slots, create_user(i), checks' = checks
  PROVE  IInv'
<1> DEFINE user == [id |-> made + 1, name |-> calls[i].what, role |-> calls[i].role]
<1>1. /\ \A u \in users : u.name # user.name
      /\ users' = users \cup {user} /\ made' = made + 1 /\ assignments' = assignments
  BY DEF create_user
<1>2. user.id = made + 1
  OBVIOUS
<1> HIDE DEF user
<1>3. IdsGiven'
  BY <1>1, <1>2 DEF IInv, IdsGiven
<1>4. NamesUnique'
  BY <1>1 DEF IInv, NamesUnique
<1> QED
  BY <1>3, <1>4 DEF IInv

\* So has a new assignment; the account it was made for is one that was read.
LEMMA AssignmentAdded ==
  ASSUME IInv, NEW i \in Slots, create_assignment(i)
  PROVE  IInv'
<1> DEFINE new == Assignment(i)
<1>1. /\ assignments' = assignments \cup {new} /\ made' = made + 1 /\ users' = users
      /\ checks' = [checks EXCEPT ![i] = Unread]
  BY DEF create_assignment
<1>2. new.id = made + 1 /\ new.account = checks[i].account
  BY DEF Assignment
<1> HIDE DEF new
<1>3. checks' \in [Slots -> Checks]
      /\ \A j \in Slots : checks'[j].account \in Nat /\ checks'[j].account <= made
  BY <1>1 DEF IInv, IdsGiven, Unread, Checks
<1>4. IdsGiven'
  BY <1>1, <1>2, <1>3 DEF IInv, IdsGiven
<1>5. NamesUnique'
  BY <1>1 DEF IInv, NamesUnique
<1> QED
  BY <1>4, <1>5 DEF IInv

\* create_assignment reads: a user that is there has an id that was given.
LEMMA ChecksAdvance ==
  ASSUME IInv, NEW i \in Slots, read_case(i) \/ read_user(i)
  PROVE  IInv' /\ UNCHANGED <<tables, client, calls>>
<1>1. UNCHANGED <<tables, client, calls>>
  BY DEF read_case, read_user, UserRead
<1>2. PICK c \in Checks : c.account <= made /\ checks' = [checks EXCEPT ![i] = c]
  <2>1. CASE read_case(i)
    <3>1. PICK c : c = checks[i] /\ c \in Checks /\ c.account <= made
      BY DEF IInv, IdsGiven
    <3>2. checks' = [checks EXCEPT ![i] = [c EXCEPT !.read = "case"]]
      BY <2>1, <3>1 DEF read_case
    <3>3. [c EXCEPT !.read = "case"] \in Checks /\ [c EXCEPT !.read = "case"].account = c.account
      BY <3>1 DEF Checks
    <3> QED
      BY <3>1, <3>2, <3>3
  <2>2. CASE read_user(i)
    BY <2>2 DEF read_user, UserRead, IInv, IdsGiven, Checks
  <2> QED
    BY <2>1, <2>2
<1>3. checks' \in [Slots -> Checks]
      /\ \A j \in Slots : checks'[j].account \in Nat /\ checks'[j].account <= made
  BY <1>2 DEF IInv, IdsGiven, Checks
<1> QED
  BY <1>1, <1>3 DEF IInv, IdsGiven, NamesUnique, tables

LEMMA Inductive == Spec => []IInv
<1>1. Init => IInv
  <2> SUFFICES ASSUME Init PROVE IInv
    OBVIOUS
  <2>1. checks \in [Slots -> Checks] /\ \A i \in Slots : checks[i].account = 0
    BY DEF Init, Unread, Checks
  <2> QED
    BY <2>1 DEF Init, IInv, IdsGiven, NamesUnique
<1>2. IInv /\ [Next]_vars => IInv'
  <2> SUFFICES ASSUME IInv, [Next]_vars PROVE IInv'
    OBVIOUS
  <2>1. CASE Clicked /\ checks' = checks
    <3>1. UNCHANGED tables
      BY <2>1 DEF Clicked, SetActiveTab, OpenForm, CloseForm, handleSubmit, handleDelete,
         handleToggleStatus, OpenAssignments, CloseAssignments, handleAssign, handleRemove
    <3> QED
      BY <2>1, <3>1, Shrinks DEF tables
  <2>2. ASSUME NEW i \in Slots, List(i) \/ Answered(i), checks' = checks PROVE IInv'
    <3>1. UNCHANGED tables
      BY <2>2 DEF List, Answered, Deliver
    <3> QED
      BY <2>2, <3>1, Shrinks DEF tables
  <2>3. ASSUME NEW i \in Slots, Refused(i) PROVE IInv'
    <3>1. UNCHANGED tables /\ checks' = [checks EXCEPT ![i] = Unread]
      BY <2>3 DEF Refused, Deliver
    <3> QED
      BY <3>1, Shrinks DEF tables
  <2>4. ASSUME NEW i \in Slots, checks' = checks,
               delete_user(i) \/ update_case_status(i) \/ delete_assignment(i)
        PROVE  IInv'
    BY <2>4, Shrinks DEF delete_user, update_case_status, delete_assignment
  <2>5. ASSUME NEW i \in Slots, create_case(i), checks' = checks PROVE IInv'
    \* A case takes an id of the common count, which only grows.
    <3>1. users' = users /\ assignments' = assignments /\ made' = made + 1
      BY <2>5 DEF create_case
    <3>2. IdsGiven'
      BY <2>5, <3>1 DEF IInv, IdsGiven
    <3> QED
      BY <3>1, <3>2 DEF IInv, NamesUnique
  <2>6. ASSUME NEW i \in Slots, read_case(i) \/ read_user(i) PROVE IInv'
    BY <2>6, ChecksAdvance
  <2>7. CASE UNCHANGED vars
    BY <2>7, Shrinks DEF vars, tables
  <2> QED
    BY <2>1, <2>2, <2>3, <2>4, <2>5, <2>6, <2>7, UserAdded, AssignmentAdded
       DEF Next, Otherwise
<1> QED
  BY <1>1, <1>2, PTL DEF Spec

-----------------------------------------------------------------------------
(* What is displayed, what the tables hold, and what is on its way *)

\* Whoever made call i of this kind still takes its answer; and it is on its way.
Live(cs, i, kind) == cs[i] # NoAnswer /\ cs[i].kind = kind /\ Awaited(cs[i])
Done(cs, i, kind) == Live(cs, i, kind) /\ cs[i].answer # NoAnswer /\ cs[i].answer.ok

\* Before a list has arrived nothing is shown, and nothing can be changed that
\* it would not contain.
Blank(cs, list, add, change, T, R) ==
  /\ R = {}
  /\ \A i \in Slots : Live(cs, i, list) /\ cs[i].answer # NoAnswer =>
       cs[i].answer.ok /\ cs[i].answer.rows = T
  /\ \A i \in Slots : ~Done(cs, i, add) /\ ~Live(cs, i, change)

\* Rows R follow table T, up to answers on their way: every row of the table is
\* shown or announced, every row shown is there or announced to be deleted.
\* No row is announced twice, and none is deleted before it is shown.
Follows(cs, T, R, add, del, last) ==
  /\ \A t \in T : t \in R \/ \E i \in Slots : Done(cs, i, add) /\ t \in cs[i].answer.rows
  /\ \A r \in R : r \in T \/ \E i \in Slots : Done(cs, i, del) /\ cs[i].id = r.id
  /\ \A i \in Slots : Live(cs, i, del) => cs[i].id \in Nat /\ cs[i].id <= last
  /\ \A i \in Slots : Done(cs, i, del) => \A t \in T : t.id # cs[i].id
  /\ \A i \in Slots : Done(cs, i, add) => \A p \in cs[i].answer.rows :
       /\ p \in T
       /\ \A r \in R : r.id # p.id
       /\ \A j \in Slots : Live(cs, j, del) => cs[j].id # p.id
       /\ \A j \in Slots \ {i} : Done(cs, j, add) =>
            \A q \in cs[j].answer.rows : q.id # p.id

\* The same of the cases, which are never deleted but replaced, one change of a
\* case at a time.
Mirrors(cs, T, R) ==
  /\ \A t \in T : \/ t \in R
                  \/ \E i \in Slots : /\ Done(cs, i, "createCase") \/ Done(cs, i, "toggle")
                                      /\ t \in cs[i].answer.rows
  /\ \A r \in R : r \in T \/ \E i \in Slots : Done(cs, i, "toggle") /\ cs[i].on = r.no
  /\ \A i \in Slots : Live(cs, i, "toggle") =>
       /\ \E r \in R : r.no = cs[i].on
       /\ \A j \in Slots : Live(cs, j, "toggle") /\ cs[j].on = cs[i].on => i = j
  /\ \A i \in Slots : Done(cs, i, "toggle") =>
       \E n \in T : n.no = cs[i].on /\ cs[i].answer.rows = {n}
  /\ \A i \in Slots : Done(cs, i, "createCase") => \A p \in cs[i].answer.rows :
       /\ p \in T
       /\ \A r \in R : r.no # p.no
       /\ \A j \in Slots \ {i} : Done(cs, j, "createCase") =>
            \A q \in cs[j].answer.rows : q.no # p.no

\* From cs to ds nothing was announced of these kinds, or taken, and no change asked for.
NoNews(cs, ds, add, change) ==
  \A i \in Slots :
    /\ Done(ds, i, add) <=> Done(cs, i, add)
    /\ Done(ds, i, change) <=> Done(cs, i, change)
    /\ Live(ds, i, change) => Live(cs, i, change) /\ ds[i].id = cs[i].id /\ ds[i].on = cs[i].on
    /\ Done(cs, i, add) \/ Done(cs, i, change) => ds[i].answer = cs[i].answer

LEMMA DoneIsLive ==
  ASSUME NEW cs, NEW i, NEW kind, Done(cs, i, kind)
  PROVE  Live(cs, i, kind) /\ cs[i].kind = kind
BY DEF Done, Live

LEMMA FollowsStill ==
  ASSUME NEW cs, NEW ds, NEW T, NEW R, NEW add, NEW del, NEW last \in Nat, NEW m \in Nat,
         Follows(cs, T, R, add, del, last), NoNews(cs, ds, add, del), last <= m
  PROVE  Follows(ds, T, R, add, del, m)
<1>1. /\ \A t \in T : t \in R \/ \E i \in Slots : Done(ds, i, add) /\ t \in ds[i].answer.rows
      /\ \A r \in R : r \in T \/ \E i \in Slots : Done(ds, i, del) /\ ds[i].id = r.id
  BY DoneIsLive DEF Follows, NoNews
<1>2. /\ \A i \in Slots : Live(ds, i, del) => ds[i].id \in Nat /\ ds[i].id <= m
      /\ \A i \in Slots : Done(ds, i, del) => \A t \in T : t.id # ds[i].id
  BY DoneIsLive DEF Follows, NoNews
<1>3. \A i \in Slots : Done(ds, i, add) => \A p \in ds[i].answer.rows :
        /\ p \in T
        /\ \A r \in R : r.id # p.id
        /\ \A j \in Slots : Live(ds, j, del) => ds[j].id # p.id
        /\ \A j \in Slots \ {i} : Done(ds, j, add) =>
             \A q \in ds[j].answer.rows : q.id # p.id
  BY DEF Follows, NoNews
<1> QED
  BY <1>1, <1>2, <1>3 DEF Follows

\* Call i is asked, answered or delivered; the others stay.
Beside(cs, ds, i) == \A j \in Slots \ {i} : ds[j] = cs[j]

LEMMA BesideSame ==
  ASSUME NEW cs, NEW ds, NEW i, Beside(cs, ds, i), NEW j \in Slots \ {i}, NEW kind
  PROVE  /\ Live(ds, j, kind) <=> Live(cs, j, kind)
         /\ Done(ds, j, kind) <=> Done(cs, j, kind)
         /\ ds[j] = cs[j]
BY DEF Beside, Live, Done

\* A deletion is asked for.
LEMMA FollowsAsked ==
  ASSUME NEW cs, NEW ds, NEW T, NEW R, NEW add, NEW del, NEW last \in Nat,
         Follows(cs, T, R, add, del, last), \A t \in T : t.id \in Nat /\ t.id <= last,
         NEW i \in Slots, cs[i] = NoAnswer, Beside(cs, ds, i), add # del,
         ds[i].kind = del, ds[i].answer = NoAnswer, NEW r \in R, ds[i].id = r.id
  PROVE  Follows(ds, T, R, add, del, last)
<1>1. ~Live(cs, i, add) /\ ~Live(cs, i, del) /\ ~Done(ds, i, add) /\ ~Done(ds, i, del)
      /\ ~Done(cs, i, add) /\ ~Done(cs, i, del)
  BY DEF Live, Done
<1>2. r.id \in Nat /\ r.id <= last
  BY DoneIsLive DEF Follows
<1>3. /\ \A t \in T : t \in R \/ \E j \in Slots : Done(ds, j, add) /\ t \in ds[j].answer.rows
      /\ \A s \in R : s \in T \/ \E j \in Slots : Done(ds, j, del) /\ ds[j].id = s.id
  BY <1>1, BesideSame DEF Follows
<1>4. /\ \A j \in Slots : Live(ds, j, del) => ds[j].id \in Nat /\ ds[j].id <= last
      /\ \A j \in Slots : Done(ds, j, del) => \A t \in T : t.id # ds[j].id
  BY <1>1, <1>2, BesideSame DEF Follows
<1>5. ASSUME NEW j \in Slots, Done(ds, j, add), NEW p \in ds[j].answer.rows
      PROVE  /\ p \in T
             /\ \A s \in R : s.id # p.id
             /\ \A k \in Slots : Live(ds, k, del) => ds[k].id # p.id
             /\ \A k \in Slots \ {j} : Done(ds, k, add) =>
                  \A q \in ds[k].answer.rows : q.id # p.id
  BY <1>1, <1>5, BesideSame DEF Follows
<1> QED
  BY <1>3, <1>4, <1>5 DEF Follows

\* A row is added to the table.
LEMMA FollowsAdded ==
  ASSUME NEW cs, NEW ds, NEW T, NEW R, NEW add, NEW del, NEW last \in Nat,
         Follows(cs, T, R, add, del, last), \A t \in T : t.id \in Nat /\ t.id <= last,
         NEW i \in Slots, cs[i].kind = add, cs[i].answer = NoAnswer,
         Beside(cs, ds, i), add # del, ds[i].kind = add,
         NEW p, p.id = last + 1, Done(ds, i, add), ds[i].answer.rows = {p}
  PROVE  Follows(ds, T \cup {p}, R, add, del, last + 1)
<1>1. ~Live(cs, i, del) /\ ~Live(ds, i, del) /\ ~Done(ds, i, del)
      /\ ~Done(cs, i, add) /\ ~Done(cs, i, del)
  BY DEF Live, Done
<1>2. \A r \in R : r.id \in Nat /\ r.id <= last
  BY DoneIsLive DEF Follows
<1>3. /\ \A t \in T \cup {p} :
            t \in R \/ \E j \in Slots : Done(ds, j, add) /\ t \in ds[j].answer.rows
      /\ \A r \in R : r \in T \cup {p} \/ \E j \in Slots : Done(ds, j, del) /\ ds[j].id = r.id
  BY <1>1, BesideSame DEF Follows
<1>4. \A j \in Slots : Live(ds, j, del) =>
        ds[j].id \in Nat /\ ds[j].id <= last /\ ds[j].id <= last + 1
  BY <1>1, BesideSame DEF Follows
<1>5. \A j \in Slots : Done(ds, j, del) => \A t \in T \cup {p} : t.id # ds[j].id
  BY <1>1, <1>4, BesideSame, DoneIsLive DEF Follows
<1>6. ASSUME NEW j \in Slots, Done(ds, j, add), NEW q \in ds[j].answer.rows
      PROVE  /\ q \in T \cup {p}
             /\ \A r \in R : r.id # q.id
             /\ \A k \in Slots : Live(ds, k, del) => ds[k].id # q.id
             /\ \A k \in Slots \ {j} : Done(ds, k, add) =>
                  \A s \in ds[k].answer.rows : s.id # q.id
  <2>1. CASE j = i
    <3>1. q = p
      BY <2>1, <1>6
    <3>2. \A k \in Slots \ {j} : Done(ds, k, add) => \A s \in ds[k].answer.rows : s \in T
      BY <2>1, BesideSame DEF Follows
    <3> QED
      BY <1>2, <1>4, <3>1, <3>2
  <2>2. CASE j # i
    <3>1. Done(cs, j, add) /\ q \in cs[j].answer.rows
      BY <2>2, <1>6, BesideSame
    <3>2. q \in T /\ \A r \in R : r.id # q.id
      BY <3>1 DEF Follows
    <3>3. \A k \in Slots : Live(ds, k, del) => ds[k].id # q.id
      BY <3>1, <1>1, BesideSame DEF Follows
    <3>4. ASSUME NEW k \in Slots \ {j}, Done(ds, k, add), NEW s \in ds[k].answer.rows
          PROVE  s.id # q.id
      <4>1. CASE k = i
        BY <4>1, <3>2, <3>4
      <4>2. CASE k # i
        BY <4>2, <3>1, <3>4, BesideSame DEF Follows
      <4> QED
        BY <4>1, <4>2
    <3> QED
      BY <3>2, <3>3, <3>4
  <2> QED
    BY <2>1, <2>2
<1> QED
  BY <1>3, <1>4, <1>5, <1>6 DEF Follows

\* A row is deleted from the table.
LEMMA FollowsRemoved ==
  ASSUME NEW cs, NEW ds, NEW T, NEW R, NEW add, NEW del, NEW last \in Nat,
         Follows(cs, T, R, add, del, last), \A t, u \in T : t.id = u.id => t = u,
         NEW i \in Slots, Live(cs, i, del), cs[i].answer = NoAnswer,
         Beside(cs, ds, i), add # del, Done(ds, i, del), ds[i].id = cs[i].id,
         NEW t \in T, t.id = cs[i].id
  PROVE  Follows(ds, T \ {t}, R, add, del, last)
<1>1. ~Live(cs, i, add) /\ ~Done(cs, i, del) /\ ~Done(cs, i, add) /\ ~Done(ds, i, add)
  BY DEF Live, Done
<1>2. /\ \A s \in T \ {t} : s \in R \/ \E j \in Slots : Done(ds, j, add) /\ s \in ds[j].answer.rows
      /\ \A r \in R : r \in T \ {t} \/ \E j \in Slots : Done(ds, j, del) /\ ds[j].id = r.id
  BY <1>1, BesideSame DEF Follows
<1>3. /\ \A j \in Slots : Live(ds, j, del) => ds[j].id \in Nat /\ ds[j].id <= last
      /\ \A j \in Slots : Done(ds, j, del) => \A s \in T \ {t} : s.id # ds[j].id
  BY <1>1, BesideSame DEF Follows
<1>4. ASSUME NEW j \in Slots, Done(ds, j, add), NEW p \in ds[j].answer.rows
      PROVE  /\ p \in T \ {t}
             /\ \A r \in R : r.id # p.id
             /\ \A k \in Slots : Live(ds, k, del) => ds[k].id # p.id
             /\ \A k \in Slots \ {j} : Done(ds, k, add) =>
                  \A q \in ds[k].answer.rows : q.id # p.id
  <2>1. j # i /\ Done(cs, j, add) /\ p \in cs[j].answer.rows
    BY <1>1, <1>4, BesideSame
  <2>2. p \in T \ {t} /\ \A r \in R : r.id # p.id
    BY <2>1 DEF Follows
  <2>3. \A k \in Slots : Live(ds, k, del) => ds[k].id # p.id
    BY <2>1, BesideSame DEF Follows
  <2>4. \A k \in Slots \ {j} : Done(ds, k, add) => \A q \in ds[k].answer.rows : q.id # p.id
    BY <2>1, <1>1, BesideSame DEF Follows
  <2> QED
    BY <2>2, <2>3, <2>4
<1> QED
  BY <1>2, <1>3, <1>4 DEF Follows

\* The answer to an addition is taken.
LEMMA FollowsTold ==
  ASSUME NEW cs, NEW ds, NEW T, NEW R, NEW add, NEW del, NEW last \in Nat,
         Follows(cs, T, R, add, del, last), NEW i \in Slots, Done(cs, i, add),
         Beside(cs, ds, i), add # del, ds[i] = NoAnswer
  PROVE  Follows(ds, T, R \cup cs[i].answer.rows, add, del, last)
<1> DEFINE S == R \cup cs[i].answer.rows
<1>1. ~Live(cs, i, del) /\ ~Live(ds, i, del) /\ ~Done(ds, i, del) /\ ~Done(ds, i, add)
      /\ ~Done(cs, i, del)
  BY DEF Live, Done
<1>2. /\ \A t \in T : t \in S \/ \E j \in Slots : Done(ds, j, add) /\ t \in ds[j].answer.rows
      /\ \A r \in S : r \in T \/ \E j \in Slots : Done(ds, j, del) /\ ds[j].id = r.id
  BY <1>1, BesideSame DEF Follows
<1>3. /\ \A j \in Slots : Live(ds, j, del) => ds[j].id \in Nat /\ ds[j].id <= last
      /\ \A j \in Slots : Done(ds, j, del) => \A t \in T : t.id # ds[j].id
  BY <1>1, BesideSame DEF Follows
<1>4. ASSUME NEW j \in Slots, Done(ds, j, add), NEW p \in ds[j].answer.rows
      PROVE  /\ p \in T
             /\ \A r \in S : r.id # p.id
             /\ \A k \in Slots : Live(ds, k, del) => ds[k].id # p.id
             /\ \A k \in Slots \ {j} : Done(ds, k, add) =>
                  \A q \in ds[k].answer.rows : q.id # p.id
  <2>1. j # i /\ Done(cs, j, add) /\ p \in cs[j].answer.rows
    BY <1>1, <1>4, BesideSame
  <2>2. p \in T /\ \A r \in R : r.id # p.id
    BY <2>1 DEF Follows
  <2>3. \A r \in cs[i].answer.rows : r.id # p.id
    BY <2>1 DEF Follows
  <2>4. \A k \in Slots : Live(ds, k, del) => ds[k].id # p.id
    BY <2>1, <1>1, BesideSame DEF Follows
  <2>5. \A k \in Slots \ {j} : Done(ds, k, add) => \A q \in ds[k].answer.rows : q.id # p.id
    BY <2>1, <1>1, BesideSame DEF Follows
  <2> QED
    BY <2>2, <2>3, <2>4, <2>5
<1> QED
  BY <1>2, <1>3, <1>4 DEF Follows

\* The answer to a deletion is taken.
LEMMA FollowsStruck ==
  ASSUME NEW cs, NEW ds, NEW T, NEW R, NEW add, NEW del, NEW last \in Nat,
         Follows(cs, T, R, add, del, last), NEW i \in Slots, Done(cs, i, del),
         Beside(cs, ds, i), add # del, ds[i] = NoAnswer,
         NEW S, S = {r \in R : r.id # cs[i].id}
  PROVE  Follows(ds, T, S, add, del, last)
<1>1. ~Live(cs, i, add) /\ ~Live(ds, i, del) /\ ~Done(ds, i, del) /\ ~Done(ds, i, add)
      /\ ~Done(cs, i, add)
  BY DEF Live, Done
<1>2. /\ \A t \in T : t \in S \/ \E j \in Slots : Done(ds, j, add) /\ t \in ds[j].answer.rows
      /\ \A r \in S : r \in T \/ \E j \in Slots : Done(ds, j, del) /\ ds[j].id = r.id
  BY <1>1, BesideSame DEF Follows
<1>3. /\ \A j \in Slots : Live(ds, j, del) => ds[j].id \in Nat /\ ds[j].id <= last
      /\ \A j \in Slots : Done(ds, j, del) => \A t \in T : t.id # ds[j].id
  BY <1>1, BesideSame DEF Follows
<1>4. ASSUME NEW j \in Slots, Done(ds, j, add), NEW p \in ds[j].answer.rows
      PROVE  /\ p \in T
             /\ \A r \in S : r.id # p.id
             /\ \A k \in Slots : Live(ds, k, del) => ds[k].id # p.id
             /\ \A k \in Slots \ {j} : Done(ds, k, add) =>
                  \A q \in ds[k].answer.rows : q.id # p.id
  BY <1>1, <1>4, BesideSame DEF Follows
<1> QED
  BY <1>2, <1>3, <1>4 DEF Follows

\* A list that has come follows its table, for nothing has happened meanwhile.
LEMMA FollowsLoaded ==
  ASSUME NEW cs, NEW T, NEW list, NEW add, NEW del, NEW R, NEW last,
         Blank(cs, list, add, del, T, R)
  PROVE  Follows(cs, T, T, add, del, last)
BY DoneIsLive DEF Blank, Follows

LEMMA MirrorsStill ==
  ASSUME NEW cs, NEW ds, NEW T, NEW R, Mirrors(cs, T, R), NoNews(cs, ds, "createCase", "toggle")
  PROVE  Mirrors(ds, T, R)
<1>1. /\ \A t \in T : \/ t \in R
                      \/ \E i \in Slots : /\ Done(ds, i, "createCase") \/ Done(ds, i, "toggle")
                                          /\ t \in ds[i].answer.rows
      /\ \A r \in R : r \in T \/ \E i \in Slots : Done(ds, i, "toggle") /\ ds[i].on = r.no
  BY DoneIsLive DEF Mirrors, NoNews
<1>2. /\ \A i \in Slots : Live(ds, i, "toggle") =>
           /\ \E r \in R : r.no = ds[i].on
           /\ \A j \in Slots : Live(ds, j, "toggle") /\ ds[j].on = ds[i].on => i = j
      /\ \A i \in Slots : Done(ds, i, "toggle") =>
           \E n \in T : n.no = ds[i].on /\ ds[i].answer.rows = {n}
  BY DoneIsLive DEF Mirrors, NoNews
<1>3. \A i \in Slots : Done(ds, i, "createCase") => \A p \in ds[i].answer.rows :
        /\ p \in T
        /\ \A r \in R : r.no # p.no
        /\ \A j \in Slots \ {i} : Done(ds, j, "createCase") =>
             \A q \in ds[j].answer.rows : q.no # p.no
  BY DEF Mirrors, NoNews
<1> QED
  BY <1>1, <1>2, <1>3 DEF Mirrors

\* A change is asked for, of a case that is not being changed.
LEMMA MirrorsAsked ==
  ASSUME NEW cs, NEW ds, NEW T, NEW R, Mirrors(cs, T, R),
         NEW i \in Slots, cs[i] = NoAnswer, Beside(cs, ds, i),
         ds[i].kind = "toggle", ds[i].answer = NoAnswer, NEW r \in R, ds[i].on = r.no,
         \A j \in Slots : Live(cs, j, "toggle") => cs[j].on # r.no
  PROVE  Mirrors(ds, T, R)
<1>1. /\ ~Live(cs, i, "createCase") /\ ~Done(cs, i, "createCase") /\ ~Done(ds, i, "createCase")
      /\ ~Live(cs, i, "toggle") /\ ~Done(cs, i, "toggle") /\ ~Done(ds, i, "toggle")
  BY DEF Live, Done
<1>2. /\ \A t \in T : \/ t \in R
                      \/ \E j \in Slots : /\ Done(ds, j, "createCase") \/ Done(ds, j, "toggle")
                                          /\ t \in ds[j].answer.rows
      /\ \A s \in R : s \in T \/ \E j \in Slots : Done(ds, j, "toggle") /\ ds[j].on = s.no
  BY <1>1, BesideSame DEF Mirrors
<1>3. \A j \in Slots : Live(ds, j, "toggle") =>
           /\ \E s \in R : s.no = ds[j].on
           /\ \A k \in Slots : Live(ds, k, "toggle") /\ ds[k].on = ds[j].on => j = k
  BY <1>1, BesideSame DEF Mirrors
<1>4. /\ \A j \in Slots : Done(ds, j, "toggle") =>
           \E n \in T : n.no = ds[j].on /\ ds[j].answer.rows = {n}
      /\ \A j \in Slots : Done(ds, j, "createCase") => \A p \in ds[j].answer.rows :
           /\ p \in T
           /\ \A s \in R : s.no # p.no
           /\ \A k \in Slots \ {j} : Done(ds, k, "createCase") =>
                \A q \in ds[k].answer.rows : q.no # p.no
  BY <1>1, BesideSame DEF Mirrors
<1> QED
  BY <1>2, <1>3, <1>4 DEF Mirrors

\* A case is added to the table.
LEMMA MirrorsAdded ==
  ASSUME NEW cs, NEW ds, NEW T, NEW R, Mirrors(cs, T, R),
         NEW i \in Slots, cs[i].kind = "createCase", cs[i].answer = NoAnswer,
         Beside(cs, ds, i), ds[i].kind = "createCase",
         NEW p, \A t \in T : t.no # p.no, Done(ds, i, "createCase"), ds[i].answer.rows = {p}
  PROVE  Mirrors(ds, T \cup {p}, R)
<1>1. /\ ~Live(cs, i, "toggle") /\ ~Live(ds, i, "toggle") /\ ~Done(ds, i, "toggle")
      /\ ~Done(cs, i, "createCase") /\ ~Done(cs, i, "toggle")
  BY DEF Live, Done
<1>2. \A r \in R : r.no # p.no
  <2> SUFFICES ASSUME NEW r \in R, r \notin T PROVE r.no # p.no
    OBVIOUS
  <2>1. PICK j \in Slots : Done(cs, j, "toggle") /\ cs[j].on = r.no
    BY DEF Mirrors
  <2>2. PICK n \in T : n.no = r.no
    BY <2>1 DEF Mirrors
  <2> QED
    BY <2>2
<1>3. /\ \A t \in T \cup {p} :
            \/ t \in R
            \/ \E j \in Slots : /\ Done(ds, j, "createCase") \/ Done(ds, j, "toggle")
                                /\ t \in ds[j].answer.rows
      /\ \A s \in R : s \in T \cup {p} \/ \E j \in Slots : Done(ds, j, "toggle") /\ ds[j].on = s.no
  BY <1>1, BesideSame DEF Mirrors
<1>4. /\ \A j \in Slots : Live(ds, j, "toggle") =>
           /\ \E s \in R : s.no = ds[j].on
           /\ \A k \in Slots : Live(ds, k, "toggle") /\ ds[k].on = ds[j].on => j = k
      /\ \A j \in Slots : Done(ds, j, "toggle") =>
           \E n \in T : n.no = ds[j].on /\ ds[j].answer.rows = {n}
  BY <1>1, BesideSame DEF Mirrors
<1>5. ASSUME NEW j \in Slots, Done(ds, j, "createCase"), NEW q \in ds[j].answer.rows
      PROVE  /\ q \in T \cup {p}
             /\ \A s \in R : s.no # q.no
             /\ \A k \in Slots \ {j} : Done(ds, k, "createCase") =>
                  \A s \in ds[k].answer.rows : s.no # q.no
  <2>1. CASE j = i
    <3>1. q = p
      BY <2>1, <1>5
    <3>2. \A k \in Slots \ {j} : Done(ds, k, "createCase") => \A s \in ds[k].answer.rows : s \in T
      BY <2>1, BesideSame DEF Mirrors
    <3> QED
      BY <1>2, <3>1, <3>2
  <2>2. CASE j # i
    <3>1. Done(cs, j, "createCase") /\ q \in cs[j].answer.rows
      BY <2>2, <1>5, BesideSame
    <3>2. q \in T /\ \A r \in R : r.no # q.no
      BY <3>1 DEF Mirrors
    <3>3. ASSUME NEW k \in Slots \ {j}, Done(ds, k, "createCase"), NEW s \in ds[k].answer.rows
          PROVE  s.no # q.no
      <4>1. CASE k = i
        BY <4>1, <3>2, <3>3
      <4>2. CASE k # i
        BY <4>2, <3>1, <3>3, BesideSame DEF Mirrors
      <4> QED
        BY <4>1, <4>2
    <3> QED
      BY <3>2, <3>3
  <2> QED
    BY <2>1, <2>2
<1> QED
  BY <1>3, <1>4, <1>5 DEF Mirrors

\* A case is replaced in the table.
LEMMA MirrorsReplaced ==
  ASSUME NEW cs, NEW ds, NEW T, NEW R, Mirrors(cs, T, R),
         \A t, u \in T : t.no = u.no => t = u,
         NEW i \in Slots, Live(cs, i, "toggle"), cs[i].answer = NoAnswer,
         Beside(cs, ds, i), Done(ds, i, "toggle"), ds[i].on = cs[i].on,
         NEW c \in T, c.no = cs[i].on, NEW n, n.no = c.no, ds[i].answer.rows = {n}
  PROVE  Mirrors(ds, (T \ {c}) \cup {n}, R)
<1> DEFINE U == (T \ {c}) \cup {n}
<1>1. /\ ~Live(cs, i, "createCase") /\ ~Done(cs, i, "createCase") /\ ~Done(cs, i, "toggle")
      /\ ~Done(ds, i, "createCase") /\ Live(ds, i, "toggle")
  BY DEF Live, Done
<1>2. /\ \A t \in U : \/ t \in R
                      \/ \E j \in Slots : /\ Done(ds, j, "createCase") \/ Done(ds, j, "toggle")
                                          /\ t \in ds[j].answer.rows
      /\ \A r \in R : r \in U \/ \E j \in Slots : Done(ds, j, "toggle") /\ ds[j].on = r.no
  BY <1>1, BesideSame DEF Mirrors
<1>3. \A j \in Slots : Live(ds, j, "toggle") <=> Live(cs, j, "toggle")
  BY <1>1, BesideSame
<1>4. \A j \in Slots : Live(ds, j, "toggle") => ds[j].on = cs[j].on
  BY BesideSame
<1>5. \A j \in Slots : Live(ds, j, "toggle") =>
        /\ \E r \in R : r.no = ds[j].on
        /\ \A k \in Slots : Live(ds, k, "toggle") /\ ds[k].on = ds[j].on => j = k
  BY <1>3, <1>4 DEF Mirrors
<1>6. ASSUME NEW j \in Slots, Done(ds, j, "toggle")
      PROVE  \E m \in U : m.no = ds[j].on /\ ds[j].answer.rows = {m}
  <2>1. CASE j = i
    BY <2>1
  <2>2. CASE j # i
    <3>1. Done(cs, j, "toggle") /\ Live(cs, j, "toggle") /\ ds[j] = cs[j]
      BY <2>2, <1>6, BesideSame, DoneIsLive
    <3>2. cs[j].on # cs[i].on
      BY <2>2, <3>1 DEF Mirrors
    <3>3. PICK m \in T : m.no = cs[j].on /\ cs[j].answer.rows = {m}
      BY <3>1 DEF Mirrors
    <3> QED
      BY <3>1, <3>2, <3>3
  <2> QED
    BY <2>1, <2>2
<1>7. ASSUME NEW j \in Slots, Done(ds, j, "createCase"), NEW p \in ds[j].answer.rows
      PROVE  /\ p \in U
             /\ \A r \in R : r.no # p.no
             /\ \A k \in Slots \ {j} : Done(ds, k, "createCase") =>
                  \A q \in ds[k].answer.rows : q.no # p.no
  <2>1. j # i /\ Done(cs, j, "createCase") /\ p \in cs[j].answer.rows
    BY <1>1, <1>7, BesideSame
  <2>2. p \in T /\ \A r \in R : r.no # p.no
    BY <2>1 DEF Mirrors
  <2>3. p.no # c.no
    BY <2>2 DEF Mirrors
  <2>4. \A k \in Slots \ {j} : Done(ds, k, "createCase") => \A q \in ds[k].answer.rows : q.no # p.no
    BY <2>1, <1>1, BesideSame DEF Mirrors
  <2> QED
    BY <2>2, <2>3, <2>4
<1> QED
  BY <1>2, <1>5, <1>6, <1>7 DEF Mirrors

\* The answer to an addition is taken.
LEMMA MirrorsTold ==
  ASSUME NEW cs, NEW ds, NEW T, NEW R, Mirrors(cs, T, R), NEW i \in Slots,
         Done(cs, i, "createCase"), Beside(cs, ds, i), ds[i] = NoAnswer
  PROVE  Mirrors(ds, T, R \cup cs[i].answer.rows)
<1> DEFINE S == R \cup cs[i].answer.rows
<1>1. /\ ~Live(cs, i, "toggle") /\ ~Live(ds, i, "toggle") /\ ~Done(ds, i, "toggle")
      /\ ~Done(ds, i, "createCase") /\ ~Done(cs, i, "toggle")
  BY DEF Live, Done
<1>2. /\ \A t \in T : \/ t \in S
                      \/ \E j \in Slots : /\ Done(ds, j, "createCase") \/ Done(ds, j, "toggle")
                                          /\ t \in ds[j].answer.rows
      /\ \A r \in S : r \in T \/ \E j \in Slots : Done(ds, j, "toggle") /\ ds[j].on = r.no
  BY <1>1, BesideSame DEF Mirrors
<1>3. /\ \A j \in Slots : Live(ds, j, "toggle") =>
           /\ \E r \in S : r.no = ds[j].on
           /\ \A k \in Slots : Live(ds, k, "toggle") /\ ds[k].on = ds[j].on => j = k
      /\ \A j \in Slots : Done(ds, j, "toggle") =>
           \E n \in T : n.no = ds[j].on /\ ds[j].answer.rows = {n}
  BY <1>1, BesideSame DEF Mirrors
<1>4. ASSUME NEW j \in Slots, Done(ds, j, "createCase"), NEW p \in ds[j].answer.rows
      PROVE  /\ p \in T
             /\ \A r \in S : r.no # p.no
             /\ \A k \in Slots \ {j} : Done(ds, k, "createCase") =>
                  \A q \in ds[k].answer.rows : q.no # p.no
  <2>1. j # i /\ Done(cs, j, "createCase") /\ p \in cs[j].answer.rows
    BY <1>1, <1>4, BesideSame
  <2>2. p \in T /\ \A r \in R : r.no # p.no
    BY <2>1 DEF Mirrors
  <2>3. \A r \in cs[i].answer.rows : r.no # p.no
    BY <2>1 DEF Mirrors
  <2>4. \A k \in Slots \ {j} : Done(ds, k, "createCase") => \A q \in ds[k].answer.rows : q.no # p.no
    BY <2>1, <1>1, BesideSame DEF Mirrors
  <2> QED
    BY <2>2, <2>3, <2>4
<1> QED
  BY <1>2, <1>3, <1>4 DEF Mirrors

\* The answer to a change is taken.
LEMMA MirrorsShown ==
  ASSUME NEW cs, NEW ds, NEW T, NEW R, Mirrors(cs, T, R),
         \A t, u \in T : t.no = u.no => t = u,
         NEW i \in Slots, Done(cs, i, "toggle"), Beside(cs, ds, i), ds[i] = NoAnswer
  PROVE  Mirrors(ds, T, Replaced(R, cs[i].answer.rows))
<1>1. /\ ~Live(cs, i, "createCase") /\ ~Live(ds, i, "toggle") /\ ~Done(ds, i, "toggle")
      /\ ~Done(ds, i, "createCase") /\ ~Done(cs, i, "createCase") /\ Live(cs, i, "toggle")
  BY DEF Live, Done
<1>2. PICK n \in T : n.no = cs[i].on /\ cs[i].answer.rows = {n}
  BY DEF Mirrors
<1> DEFINE S == {r \in R : r.no # n.no} \cup {n}
<1>3. Replaced(R, cs[i].answer.rows) = S
  BY <1>2 DEF Replaced
<1>4. ASSUME NEW t \in T
      PROVE  \/ t \in S
             \/ \E j \in Slots : /\ Done(ds, j, "createCase") \/ Done(ds, j, "toggle")
                                 /\ t \in ds[j].answer.rows
  <2>1. CASE t.no = n.no
    BY <2>1
  <2>2. CASE t.no # n.no
    BY <2>2, <1>1, <1>2, BesideSame DEF Mirrors
  <2> QED
    BY <2>1, <2>2
<1>5. \A r \in S : r \in T \/ \E j \in Slots : Done(ds, j, "toggle") /\ ds[j].on = r.no
  BY <1>1, <1>2, BesideSame DEF Mirrors
<1>6. ASSUME NEW j \in Slots, Live(ds, j, "toggle")
      PROVE  /\ \E r \in S : r.no = ds[j].on
             /\ \A k \in Slots : Live(ds, k, "toggle") /\ ds[k].on = ds[j].on => j = k
  <2>1. j # i /\ Live(cs, j, "toggle") /\ ds[j] = cs[j]
    BY <1>1, <1>6, BesideSame
  <2>2. cs[j].on # n.no
    BY <1>1, <1>2, <2>1 DEF Mirrors
  <2>3. \A k \in Slots : Live(ds, k, "toggle") /\ ds[k].on = ds[j].on => j = k
    BY <1>1, <2>1, BesideSame DEF Mirrors
  <2> QED
    BY <2>1, <2>2, <2>3 DEF Mirrors
<1>7. \A j \in Slots : Done(ds, j, "toggle") =>
           \E m \in T : m.no = ds[j].on /\ ds[j].answer.rows = {m}
  BY <1>1, BesideSame DEF Mirrors
<1>8. ASSUME NEW j \in Slots, Done(ds, j, "createCase"), NEW p \in ds[j].answer.rows
      PROVE  /\ p \in T
             /\ \A r \in S : r.no # p.no
             /\ \A k \in Slots \ {j} : Done(ds, k, "createCase") =>
                  \A q \in ds[k].answer.rows : q.no # p.no
  <2>1. j # i /\ Done(cs, j, "createCase") /\ p \in cs[j].answer.rows
    BY <1>1, <1>8, BesideSame
  <2>2. p \in T /\ \A r \in R : r.no # p.no
    BY <2>1 DEF Mirrors
  <2>3. p.no # n.no
    BY <1>1, <1>2, <2>2 DEF Mirrors
  <2>4. \A k \in Slots \ {j} : Done(ds, k, "createCase") => \A q \in ds[k].answer.rows : q.no # p.no
    BY <2>1, <1>1, BesideSame DEF Mirrors
  <2> QED
    BY <2>2, <2>3, <2>4
<1> QED
  BY <1>3, <1>4, <1>5, <1>6, <1>7, <1>8 DEF Mirrors

\* A list that has come mirrors its table, for nothing has happened meanwhile.
LEMMA MirrorsLoaded ==
  ASSUME NEW cs, NEW T, NEW R, Blank(cs, "cases", "createCase", "toggle", T, R)
  PROVE  Mirrors(cs, T, T)
BY DoneIsLive DEF Blank, Mirrors

LEMMA BlankStill ==
  ASSUME NEW cs, NEW ds, NEW T, NEW R, NEW list, NEW add, NEW change,
         Blank(cs, list, add, change, T, R), NoNews(cs, ds, add, change),
         \A i \in Slots : Live(ds, i, list) => Live(cs, i, list) /\ ds[i].answer = cs[i].answer
  PROVE  Blank(ds, list, add, change, T, R)
BY DEF Blank, NoNews

LEMMA BlankListed ==
  ASSUME NEW cs, NEW ds, NEW T, NEW R, NEW list, NEW add, NEW change,
         Blank(cs, list, add, change, T, R), list \notin {add, change},
         NEW i \in Slots, cs[i].kind = list, ds[i].kind = list, Beside(cs, ds, i),
         ds[i].answer.ok, ds[i].answer.rows = T
  PROVE  Blank(ds, list, add, change, T, R)
<1>1. \A j \in Slots : ~Done(ds, j, add) /\ ~Live(ds, j, change)
  BY BesideSame DEF Blank, Live, Done
<1> QED
  BY <1>1, BesideSame DEF Blank

-----------------------------------------------------------------------------
(* Types of the console *)

\* What kind of rows a call is answered with.
RowsFor(kind) ==
  CASE kind \in {"users", "known", "createUser"} -> UserRows
    [] kind \in {"cases", "createCase", "toggle"} -> CaseRows
    [] kind \in {"assignments", "assign"} -> AssignmentRows
    [] OTHER -> {}

UserKinds == {"users", "createUser", "deleteUser"}
CaseKinds == {"cases", "createCase", "toggle"}
ModalKinds == {"assignments", "assign", "unassign"}

WellFormed(call) ==
  /\ call \in Calls
  /\ call.kind = "createUser" => call.what \in Names /\ call.role \in Roles
  /\ call.kind = "toggle" => call.on \in Cases /\ call.what \in {"OPEN", "CLOSED"}
  /\ call.kind = "createCase" => call.on \in Cases
  /\ call.kind = "assign" => call.on \in Cases /\ call.what \in Names /\ call.role \in Roles
  /\ call.answer # NoAnswer => /\ call.answer.rows \subseteq RowsFor(call.kind)
                               /\ ~call.answer.ok => call.answer.rows = {}
                               /\ Awaited(call)

CallsOk(cs) ==
  /\ cs \in [Slots -> Calls \cup {NoAnswer}]
  /\ \A i \in Slots : cs[i] # NoAnswer => WellFormed(cs[i])

Tabs ==
  [name : {"users", "cases"}, rows : SUBSET (UserRows \cup CaseRows), loading : BOOLEAN,
   error : BOOLEAN, form : BOOLEAN, saving : BOOLEAN, raced : BOOLEAN]

TypeInv ==
  /\ users \subseteq UserRows /\ cases \subseteq CaseRows /\ assignments \subseteq AssignmentRows
  /\ known \subseteq UserRows /\ made \in Nat
  /\ tab \in Tabs /\ tab.rows \subseteq RowsFor(tab.name)
  /\ modal \in Modals \cup {NoAnswer}
  /\ CallsOk(calls)

-----------------------------------------------------------------------------
(* What becomes of the calls *)

TabKinds == UserKinds \cup CaseKinds

\* A new row is being made from a dialogue that is still open.
Boxed(cs, i) == cs[i] # NoAnswer /\ cs[i].kind \in {"createUser", "createCase"} /\ cs[i].box

\* From cs to ds the calls of these kinds are the same to those who made them.
Alike(cs, ds, kinds) ==
  \A i \in Slots, kind \in kinds :
    /\ Live(ds, i, kind) <=> Live(cs, i, kind)
    /\ Live(cs, i, kind) => ds[i].id = cs[i].id /\ ds[i].on = cs[i].on /\ ds[i].answer = cs[i].answer

LEMMA AlikeIsNoNews ==
  ASSUME NEW cs, NEW ds, NEW kinds, Alike(cs, ds, kinds), NEW add \in kinds, NEW change \in kinds
  PROVE  NoNews(cs, ds, add, change)
BY DEF Alike, NoNews, Done

LEMMA BesideIsAlike ==
  ASSUME NEW cs, NEW ds, NEW i, Beside(cs, ds, i), NEW kinds,
         \A kind \in kinds : ~Live(cs, i, kind) /\ ~Live(ds, i, kind)
  PROVE  Alike(cs, ds, kinds)
BY BesideSame DEF Alike

\* Kinds are told apart, and who waits for what.
LEMMA LiveTab ==
  ASSUME NEW cs, NEW i, NEW kind \in TabKinds
  PROVE  Live(cs, i, kind) <=> cs[i] # NoAnswer /\ cs[i].kind = kind /\ cs[i].tab
BY DEF Live, Awaited, TabKinds, UserKinds, CaseKinds

LEMMA LiveModal ==
  ASSUME NEW cs, NEW i, NEW kind \in ModalKinds
  PROVE  Live(cs, i, kind) <=> cs[i] # NoAnswer /\ cs[i].kind = kind /\ cs[i].box
BY DEF Live, Awaited, ModalKinds

LEMMA KindsDiffer ==
  \A kind \in TabKinds : kind \notin ModalKinds /\ kind # "known"
BY DEF TabKinds, UserKinds, CaseKinds, ModalKinds

\* Calls of what has been unmounted.
LEMMA BoxGone ==
  ASSUME CallsOk(calls), NEW ds, ds = Orphaned("box")
  PROVE  /\ CallsOk(ds) /\ Alike(calls, ds, TabKinds)
         /\ \A i \in Slots : ~Boxed(ds, i) /\ (calls[i] = NoAnswer => ds[i] = NoAnswer)
         /\ \A i \in Slots, kind \in ModalKinds : ~Live(ds, i, kind)
<1>1. /\ ds \in [Slots -> Calls \cup {NoAnswer}]
      /\ \A i \in Slots : ds[i] # NoAnswer =>
           /\ calls[i] # NoAnswer /\ WellFormed(ds[i]) /\ ~ds[i].box
           /\ ds[i].kind = calls[i].kind /\ ds[i].tab = calls[i].tab /\ ds[i].id = calls[i].id
           /\ ds[i].on = calls[i].on /\ ds[i].answer = calls[i].answer
      /\ \A i \in Slots : calls[i] # NoAnswer /\ calls[i].kind \in TabKinds /\ calls[i].tab =>
           ds[i] # NoAnswer
  <2>1. ASSUME NEW i \in Slots
        PROVE  /\ ds[i] \in Calls \cup {NoAnswer}
               /\ ds[i] # NoAnswer =>
                    /\ calls[i] # NoAnswer /\ WellFormed(ds[i]) /\ ~ds[i].box
                    /\ ds[i].kind = calls[i].kind /\ ds[i].tab = calls[i].tab
                    /\ ds[i].id = calls[i].id /\ ds[i].on = calls[i].on
                    /\ ds[i].answer = calls[i].answer
               /\ calls[i] # NoAnswer /\ calls[i].kind \in TabKinds /\ calls[i].tab =>
                    ds[i] # NoAnswer
    <3> DEFINE c == calls[i]
               call == [calls[i] EXCEPT !.box = FALSE]
    <3>1. CASE c = NoAnswer
      BY <3>1 DEF Orphaned
    <3>2. CASE c # NoAnswer
      <4>1. c \in Calls /\ WellFormed(c)
        BY <3>2 DEF CallsOk, WellFormed
      <4>2. ds[i] = IF ~Awaited(call) /\ (call.kind \in Reads \/ call.answer # NoAnswer)
                    THEN NoAnswer ELSE call
        BY <3>2 DEF Orphaned
      <4>3. /\ call \in Calls /\ call.kind = c.kind /\ call.on = c.on /\ call.what = c.what
            /\ call.role = c.role /\ call.id = c.id /\ call.tab = c.tab /\ ~call.box
            /\ call.answer = c.answer
        BY <4>1 DEF Calls
      <4>4. call # NoAnswer
        BY <4>3, NullAssumption
      <4> HIDE DEF call
      <4>5. call.kind \in TabKinds /\ call.tab => Awaited(call)
        BY DEF TabKinds, UserKinds, CaseKinds, Awaited
      <4>6. call.answer # NoAnswer /\ ds[i] = call => Awaited(call)
        BY <4>2, <4>4
      <4> QED
        BY <3>2, <4>1, <4>2, <4>3, <4>4, <4>5, <4>6 DEF WellFormed
    <3> QED
      BY <3>1, <3>2
  <2>2. ds = [i \in Slots |-> ds[i]]
    BY DEF Orphaned
  <2> QED
    BY <2>1, <2>2
<1>2. Alike(calls, ds, TabKinds)
  <2> SUFFICES ASSUME NEW i \in Slots, NEW kind \in TabKinds
               PROVE  /\ Live(ds, i, kind) <=> Live(calls, i, kind)
                      /\ Live(calls, i, kind) => /\ ds[i].id = calls[i].id
                                                 /\ ds[i].on = calls[i].on
                                                 /\ ds[i].answer = calls[i].answer
    BY DEF Alike
  <2>1. /\ Live(ds, i, kind) <=> ds[i] # NoAnswer /\ ds[i].kind = kind /\ ds[i].tab
        /\ Live(calls, i, kind) <=>
             calls[i] # NoAnswer /\ calls[i].kind = kind /\ calls[i].tab
    BY LiveTab
  <2> QED
    BY <1>1, <2>1
<1>3. \A i \in Slots, kind \in ModalKinds : ~Live(ds, i, kind)
  BY <1>1, LiveModal
<1> QED
  BY <1>1, <1>2, <1>3 DEF CallsOk, Boxed

LEMMA TabGone ==
  ASSUME CallsOk(calls), NEW ds, ds = Orphaned("tab")
  PROVE  /\ CallsOk(ds)
         /\ \A i \in Slots, kind \in TabKinds : ~Live(ds, i, kind)
         /\ \A i \in Slots : Boxed(ds, i) => Boxed(calls, i)
         /\ \A i \in Slots, kind \in ModalKinds : Live(ds, i, kind) => Live(calls, i, kind)
<1>1. ASSUME NEW i \in Slots
      PROVE  /\ ds[i] \in Calls \cup {NoAnswer}
             /\ ds[i] # NoAnswer =>
                  /\ calls[i] # NoAnswer /\ WellFormed(ds[i]) /\ ~ds[i].tab
                  /\ ds[i].kind = calls[i].kind /\ ds[i].box = calls[i].box
  <2> DEFINE c == calls[i]
             call == [calls[i] EXCEPT !.tab = FALSE]
  <2>1. CASE c = NoAnswer
    BY <2>1 DEF Orphaned
  <2>2. CASE c # NoAnswer
    <3>1. c \in Calls /\ WellFormed(c)
      BY <2>2 DEF CallsOk, WellFormed
    <3>2. ds[i] = IF ~Awaited(call) /\ (call.kind \in Reads \/ call.answer # NoAnswer)
                  THEN NoAnswer ELSE call
      BY <2>2 DEF Orphaned
    <3>3. /\ call \in Calls /\ call.kind = c.kind /\ call.on = c.on /\ call.what = c.what
          /\ call.role = c.role /\ call.id = c.id /\ ~call.tab /\ call.box = c.box
          /\ call.answer = c.answer
      BY <3>1 DEF Calls
    <3> HIDE DEF call
    <3>4. call.answer # NoAnswer /\ ds[i] = call /\ call # NoAnswer => Awaited(call)
      BY <3>2
    <3> QED
      BY <2>2, <3>1, <3>2, <3>3, <3>4 DEF WellFormed
  <2> QED
    BY <2>1, <2>2
<1>2. ds = [i \in Slots |-> ds[i]]
  BY DEF Orphaned
<1>3. ds \in [Slots -> Calls \cup {NoAnswer}]
  BY <1>1, <1>2
<1> QED
  BY <1>1, <1>3, LiveTab, LiveModal DEF CallsOk, Boxed

\* A call is sent by way of a free slot.
LEMMA Sent ==
  ASSUME NEW cs, CallsOk(cs), NEW call, WellFormed(call), SendFrom(cs, call)
  PROVE  CallsOk(calls') /\ \E i \in Slots :
           cs[i] = NoAnswer /\ calls'[i] = call /\ call # NoAnswer /\ Beside(cs, calls', i)
<1>1. PICK i \in Slots : cs[i] = NoAnswer /\ calls' = [cs EXCEPT ![i] = call]
  BY DEF SendFrom
<1>2. call \in Calls /\ call # NoAnswer
  BY NullAssumption DEF WellFormed
<1>3. calls'[i] = call /\ \A j \in Slots \ {i} : calls'[j] = cs[j]
  BY <1>1 DEF CallsOk
<1>4. calls' \in [Slots -> Calls \cup {NoAnswer}]
  BY <1>1, <1>2 DEF CallsOk
<1> QED
  BY <1>1, <1>2, <1>3, <1>4 DEF CallsOk, Beside

\* What has just been sent says what was asked for.
LEMMA NewCallOk ==
  ASSUME NEW kind \in TabKinds \cup ModalKinds \cup {"known"}, NEW on \in Cases \cup {NoAnswer},
         NEW what \in Names \cup {"OPEN", "CLOSED", NoAnswer},
         NEW role \in Roles \cup {NoAnswer}, NEW id \in Nat,
         kind = "createUser" => what \in Names /\ role \in Roles,
         kind = "toggle" => on \in Cases /\ what \in {"OPEN", "CLOSED"},
         kind = "createCase" => on \in Cases,
         kind = "assign" => on \in Cases /\ what \in Names /\ role \in Roles
  PROVE  LET c == NewCall(kind, on, what, role, id) IN
         /\ WellFormed(c) /\ c.kind = kind /\ c.on = on /\ c.id = id
         /\ c.answer = NoAnswer /\ c.tab
         /\ c.box <=> kind \in {"createUser", "createCase", "assignments", "assign", "unassign"}
<1> DEFINE c == NewCall(kind, on, what, role, id)
<1>1. /\ c.kind = kind /\ c.on = on /\ c.what = what /\ c.role = role /\ c.id = id
      /\ c.answer = NoAnswer /\ c.tab
      /\ c.box <=> kind \in {"createUser", "createCase", "assignments", "assign", "unassign"}
  BY DEF NewCall
<1>2. c \in Calls
  <2>1. kind \in Reads \cup {"createUser", "deleteUser", "createCase", "toggle", "assign", "unassign"}
    BY DEF TabKinds, UserKinds, CaseKinds, ModalKinds, Reads
  <2>2. (kind \in {"createUser", "createCase", "assignments", "assign", "unassign"}) \in BOOLEAN
    OBVIOUS
  <2> QED
    BY <2>1, <2>2 DEF Calls, NewCall
<1>3. WellFormed(c)
  BY <1>1, <1>2 DEF WellFormed
<1> QED
  BY <1>1, <1>3

\* Call i was free in cs, and is asked in ds.
Asks(cs, ds, i, kind, on, id) ==
  /\ cs[i] = NoAnswer /\ ds[i] # NoAnswer /\ Beside(cs, ds, i)
  /\ ds[i].kind = kind /\ ds[i].on = on /\ ds[i].id = id
  /\ ds[i].answer = NoAnswer /\ ds[i].tab
  /\ ds[i].box <=> kind \in {"createUser", "createCase", "assignments", "assign", "unassign"}

LEMMA Sending ==
  ASSUME NEW cs, CallsOk(cs),
         NEW kind \in TabKinds \cup ModalKinds \cup {"known"}, NEW on \in Cases \cup {NoAnswer},
         NEW what \in Names \cup {"OPEN", "CLOSED", NoAnswer},
         NEW role \in Roles \cup {NoAnswer}, NEW id \in Nat,
         kind = "createUser" => what \in Names /\ role \in Roles,
         kind = "toggle" => on \in Cases /\ what \in {"OPEN", "CLOSED"},
         kind = "createCase" => on \in Cases,
         kind = "assign" => on \in Cases /\ what \in Names /\ role \in Roles,
         SendFrom(cs, NewCall(kind, on, what, role, id))
  PROVE  CallsOk(calls') /\ \E i \in Slots : Asks(cs, calls', i, kind, on, id)
<1>1. PICK c : c = NewCall(kind, on, what, role, id)
  OBVIOUS
<1>2. /\ WellFormed(c) /\ c.kind = kind /\ c.on = on /\ c.id = id
      /\ c.answer = NoAnswer /\ c.tab
      /\ c.box <=> kind \in {"createUser", "createCase", "assignments", "assign", "unassign"}
  BY <1>1, NewCallOk
<1> QED
  BY <1>1, <1>2, Sent DEF Asks

AllRows == UserRows \cup CaseRows \cup AssignmentRows

LEMMA RowsForTyped ==
  ASSUME NEW kind
  PROVE  RowsFor(kind) \subseteq AllRows
BY DEF RowsFor, AllRows

\* A call is answered if somebody waits for it, and gone otherwise.
LEMMA Replied ==
  ASSUME CallsOk(calls), NEW i \in Slots, calls[i] # NoAnswer, calls[i].answer = NoAnswer,
         NEW ok \in BOOLEAN, NEW rows, rows \subseteq RowsFor(calls[i].kind), ~ok => rows = {},
         Reply(i, ok, rows)
  PROVE  /\ CallsOk(calls') /\ Beside(calls, calls', i)
         /\ ~Awaited(calls[i]) => calls'[i] = NoAnswer
         /\ Awaited(calls[i]) =>
              /\ calls'[i] # NoAnswer /\ Awaited(calls'[i])
              /\ calls'[i].kind = calls[i].kind /\ calls'[i].on = calls[i].on
              /\ calls'[i].id = calls[i].id /\ calls'[i].tab = calls[i].tab
              /\ calls'[i].box = calls[i].box
              /\ calls'[i].answer # NoAnswer
              /\ calls'[i].answer.ok = ok /\ calls'[i].answer.rows = rows
<1> DEFINE c == calls[i]
           a == [ok |-> ok, rows |-> rows]
           d == [c EXCEPT !.answer = a]
<1>1. c \in Calls /\ WellFormed(c)
  BY DEF CallsOk, WellFormed
<1>2. a \in Answers /\ a # NoAnswer /\ a.ok = ok /\ a.rows = rows
  <2>1. rows \subseteq UserRows \cup CaseRows \cup AssignmentRows
    BY RowsForTyped DEF AllRows
  <2>2. a \in Answers
    BY <2>1 DEF Answers
  <2> QED
    BY <2>2, NullAssumption
<1>3. calls' = [calls EXCEPT ![i] = IF Awaited(c) THEN d ELSE NoAnswer]
  BY DEF Reply
<1> HIDE DEF a
<1>4. /\ d \in Calls /\ d.kind = c.kind /\ d.on = c.on /\ d.what = c.what /\ d.role = c.role
      /\ d.id = c.id /\ d.tab = c.tab /\ d.box = c.box /\ d.answer = a
  BY <1>1, <1>2 DEF Calls
<1>5. d # NoAnswer
  BY <1>4, NullAssumption
<1> HIDE DEF d
<1>6. Awaited(c) => Awaited(d)
  BY <1>4 DEF Awaited
<1>7. calls'[i] = (IF Awaited(c) THEN d ELSE NoAnswer) /\ \A j \in Slots \ {i} : calls'[j] = calls[j]
  BY <1>3 DEF CallsOk
<1>8. calls' \in [Slots -> Calls \cup {NoAnswer}]
  BY <1>3, <1>4 DEF CallsOk
<1>9. Awaited(c) => WellFormed(d)
  BY <1>1, <1>2, <1>4, <1>6 DEF WellFormed
<1> QED
  BY <1>2, <1>4, <1>5, <1>6, <1>7, <1>8, <1>9 DEF CallsOk, Beside

-----------------------------------------------------------------------------
(* What turns and what is disabled *)

ThatMany(S, flag) == (flag <=> S # {}) /\ \A i, j \in S : i = j

\* The tab's calls are of its own kinds; it waits for one list while it is loading,
\* and its dialogue for one new row while it is saving.
Waits(cs, tb) ==
  /\ \A i \in Slots, kind \in UserKinds : Live(cs, i, kind) => tb.name = "users"
  /\ \A i \in Slots, kind \in CaseKinds : Live(cs, i, kind) => tb.name = "cases"
  /\ ThatMany({i \in Slots : Live(cs, i, tb.name)}, tb.loading)
  /\ ThatMany({i \in Slots : Boxed(cs, i)}, tb.saving)
  /\ \A i \in Slots : Boxed(cs, i) => cs[i].tab
  /\ tb.saving => tb.form

\* The calls the dialogue waits for are about its case, one list while it is loading
\* and one assignment while it is saving; without a dialogue there are none.
BoxWaits(cs, md, tb) ==
  IF md = NoAnswer THEN \A i \in Slots, kind \in ModalKinds : ~Live(cs, i, kind)
  ELSE /\ ~tb.form
       /\ \A i \in Slots, kind \in ModalKinds : Live(cs, i, kind) => cs[i].on = md.case.no
       /\ ThatMany({i \in Slots : Live(cs, i, "assignments")}, md.loading)
       /\ ThatMany({i \in Slots : Live(cs, i, "assign")}, md.saving)

LEMMA WaitsAlike ==
  ASSUME NEW cs, NEW ds, NEW tb \in Tabs, NEW t2, Waits(cs, tb),
         \A i \in Slots, kind \in TabKinds : Live(ds, i, kind) <=> Live(cs, i, kind),
         \A i \in Slots : Boxed(ds, i) <=> Boxed(cs, i),
         \A i \in Slots : Boxed(cs, i) => ds[i].tab = cs[i].tab,
         t2.name = tb.name, t2.loading = tb.loading, t2.saving = tb.saving, tb.form => t2.form
  PROVE  Waits(ds, t2)
<1>1. tb.name \in TabKinds
  BY DEF Tabs, TabKinds, UserKinds, CaseKinds
<1>2. {i \in Slots : Live(ds, i, t2.name)} = {i \in Slots : Live(cs, i, tb.name)}
  BY <1>1
<1>3. {i \in Slots : Boxed(ds, i)} = {i \in Slots : Boxed(cs, i)}
  OBVIOUS
<1> QED
  BY <1>2, <1>3 DEF Waits, TabKinds, ThatMany

LEMMA BoxWaitsAlike ==
  ASSUME NEW cs, NEW ds, NEW md, NEW m2, NEW tb, NEW t2, BoxWaits(cs, md, tb),
         \A i \in Slots, kind \in ModalKinds : Live(ds, i, kind) <=> Live(cs, i, kind),
         \A i \in Slots, kind \in ModalKinds : Live(cs, i, kind) => ds[i].on = cs[i].on,
         m2 = NoAnswer <=> md = NoAnswer,
         md # NoAnswer => m2.case = md.case /\ m2.loading = md.loading /\ m2.saving = md.saving,
         md # NoAnswer /\ t2.form => tb.form
  PROVE  BoxWaits(ds, m2, t2)
<1>1. CASE md = NoAnswer
  BY <1>1 DEF BoxWaits
<1>2. CASE md # NoAnswer
  <2>1. "assignments" \in ModalKinds /\ "assign" \in ModalKinds
    BY DEF ModalKinds
  <2>2. /\ {i \in Slots : Live(ds, i, "assignments")} = {i \in Slots : Live(cs, i, "assignments")}
        /\ {i \in Slots : Live(ds, i, "assign")} = {i \in Slots : Live(cs, i, "assign")}
    BY <2>1
  <2> QED
    BY <1>2, <2>2 DEF BoxWaits, ThatMany
<1> QED
  BY <1>1, <1>2

\* Who waits after a call was sent, or was answered.
LEMMA AskedLive ==
  ASSUME NEW cs, NEW ds, NEW i \in Slots, cs[i] = NoAnswer, ds[i] # NoAnswer,
         Beside(cs, ds, i), ds[i].tab
  PROVE  /\ \A j \in Slots, kind \in TabKinds :
              Live(ds, j, kind) <=> Live(cs, j, kind) \/ (j = i /\ kind = ds[i].kind)
         /\ \A j \in Slots, kind \in ModalKinds :
              Live(ds, j, kind) <=> Live(cs, j, kind) \/ (j = i /\ kind = ds[i].kind /\ ds[i].box)
         /\ \A j \in Slots : Boxed(ds, j) <=>
              Boxed(cs, j) \/ (j = i /\ ds[i].kind \in {"createUser", "createCase"} /\ ds[i].box)
<1>1. ASSUME NEW kind \in TabKinds
      PROVE  (Live(ds, i, kind) <=> kind = ds[i].kind) /\ ~Live(cs, i, kind)
  <2>1. Live(ds, i, kind) <=> ds[i] # NoAnswer /\ ds[i].kind = kind /\ ds[i].tab
    BY LiveTab
  <2> QED
    BY <2>1 DEF Live
<1>2. ASSUME NEW kind \in ModalKinds
      PROVE  (Live(ds, i, kind) <=> kind = ds[i].kind /\ ds[i].box) /\ ~Live(cs, i, kind)
  <2>1. Live(ds, i, kind) <=> ds[i] # NoAnswer /\ ds[i].kind = kind /\ ds[i].box
    BY LiveModal
  <2> QED
    BY <2>1 DEF Live
<1>3. \A j \in Slots \ {i}, kind \in TabKinds \cup ModalKinds : Live(ds, j, kind) <=> Live(cs, j, kind)
  BY BesideSame
<1>4. \A j \in Slots : Boxed(ds, j) <=>
        Boxed(cs, j) \/ (j = i /\ ds[i].kind \in {"createUser", "createCase"} /\ ds[i].box)
  BY DEF Boxed, Beside
<1> QED
  BY <1>1, <1>2, <1>3, <1>4

LEMMA RepliedLive ==
  ASSUME NEW cs, NEW ds, NEW i \in Slots, Beside(cs, ds, i), cs[i] # NoAnswer,
         ~Awaited(cs[i]) => ds[i] = NoAnswer,
         Awaited(cs[i]) => /\ ds[i] # NoAnswer /\ Awaited(ds[i])
                           /\ ds[i].kind = cs[i].kind /\ ds[i].on = cs[i].on
                           /\ ds[i].id = cs[i].id /\ ds[i].tab = cs[i].tab
                           /\ ds[i].box = cs[i].box,
         Boxed(cs, i) => cs[i].tab
  PROVE  /\ \A kind : \A j \in Slots : Live(ds, j, kind) <=> Live(cs, j, kind)
         /\ \A kind : \A j \in Slots : Live(cs, j, kind) =>
              ds[j].id = cs[j].id /\ ds[j].on = cs[j].on
         /\ \A j \in Slots : Boxed(ds, j) <=> Boxed(cs, j)
         /\ \A j \in Slots : Boxed(cs, j) => ds[j].tab = cs[j].tab
<1>1. \A kind : Live(ds, i, kind) <=> Live(cs, i, kind)
  BY DEF Live
<1>2. \A kind : Live(cs, i, kind) => ds[i].id = cs[i].id /\ ds[i].on = cs[i].on
  BY DEF Live
<1>3. Boxed(cs, i) => Awaited(cs[i])
  BY DEF Boxed, Awaited
<1>4. Boxed(ds, i) <=> Boxed(cs, i)
  BY <1>3 DEF Boxed
<1>5. Boxed(cs, i) => ds[i].tab = cs[i].tab
  BY <1>3
<1>6. \A j \in Slots \ {i} :
        /\ \A kind : Live(ds, j, kind) <=> Live(cs, j, kind)
        /\ ds[j] = cs[j] /\ (Boxed(ds, j) <=> Boxed(cs, j))
  BY BesideSame DEF Boxed
<1> QED
  BY <1>1, <1>2, <1>4, <1>5, <1>6

\* Every component is mounted with the types its fields have.
LEMMA MountedTyped ==
  /\ \A name \in {"users", "cases"} : MountedTab(name) \in Tabs /\ MountedTab(name).rows = {}
  /\ \A c \in CaseRows : MountedModal(c) \in Modals
BY DEF MountedTab, Tabs, MountedModal, Modals

\* What the administrator's clicks ask the service for.
LEMMA Clicks ==
  ASSUME TypeInv
  PROVE  /\ SetActiveTab => CallsOk(calls') /\ \E i \in Slots, name \in {"users", "cases"} :
              Asks(Orphaned("tab"), calls', i, name, NoAnswer, 0) /\ tab' = MountedTab(name)
         /\ handleSubmit => CallsOk(calls') /\ \E on : \E i \in Slots :
              \/ tab.name = "users" /\ Asks(calls, calls', i, "createUser", on, 0)
              \/ tab.name = "cases" /\ Asks(calls, calls', i, "createCase", on, 0)
         /\ handleDelete => CallsOk(calls') /\ \E i \in Slots, u \in tab.rows :
              Asks(calls, calls', i, "deleteUser", NoAnswer, u.id)
         /\ handleToggleStatus => CallsOk(calls') /\ \E i \in Slots, c \in tab.rows :
              /\ Asks(calls, calls', i, "toggle", c.no, 0)
              /\ tab' = [tab EXCEPT !.raced = @ \/ Toggling(c.no)]
         /\ OpenAssignments => CallsOk(calls') /\ \E i \in Slots, c \in CaseRows :
              Asks(calls, calls', i, "assignments", c.no, 0) /\ modal' = MountedModal(c)
         /\ handleAssign => CallsOk(calls') /\ \E i \in Slots :
              Asks(calls, calls', i, "assign", modal.case.no, 0)
         /\ handleRemove => CallsOk(calls') /\ \E i \in Slots, a \in modal.rows :
              Asks(calls, calls', i, "unassign", modal.case.no, a.id)
<1>1. /\ CallsOk(calls) /\ tab \in Tabs /\ tab.rows \subseteq RowsFor(tab.name)
      /\ known \subseteq UserRows
  BY DEF TypeInv
<1>2. /\ {"users", "cases", "createUser", "createCase", "deleteUser", "toggle", "assignments",
          "assign", "unassign"} \subseteq TabKinds \cup ModalKinds \cup {"known"}
      /\ Cases \subseteq Cases \cup {NoAnswer} /\ NoAnswer \in Cases \cup {NoAnswer}
      /\ Names \subseteq Names \cup {"OPEN", "CLOSED", NoAnswer}
      /\ {"OPEN", "CLOSED", NoAnswer} \subseteq Names \cup {"OPEN", "CLOSED", NoAnswer}
      /\ Roles \subseteq Roles \cup {NoAnswer} /\ NoAnswer \in Roles \cup {NoAnswer} /\ 0 \in Nat
  BY DEF TabKinds, UserKinds, CaseKinds, ModalKinds
<1>3. ASSUME SetActiveTab
      PROVE  CallsOk(calls') /\ \E i \in Slots, name \in {"users", "cases"} :
               Asks(Orphaned("tab"), calls', i, name, NoAnswer, 0) /\ tab' = MountedTab(name)
  <2>1. PICK name \in {"users", "cases"} :
          /\ SendFrom(Orphaned("tab"), Load(name, NoAnswer)) /\ tab' = MountedTab(name)
    BY <1>3 DEF SetActiveTab
  <2>2. CallsOk(Orphaned("tab"))
    BY <1>1, TabGone
  <2>3. SendFrom(Orphaned("tab"), NewCall(name, NoAnswer, NoAnswer, NoAnswer, 0))
    BY <2>1 DEF Load
  <2> QED
    BY <1>2, <2>1, <2>2, <2>3, Sending
<1>4. ASSUME handleSubmit
      PROVE  CallsOk(calls') /\ \E on : \E i \in Slots :
               \/ tab.name = "users" /\ Asks(calls, calls', i, "createUser", on, 0)
               \/ tab.name = "cases" /\ Asks(calls, calls', i, "createCase", on, 0)
  <2>1. CASE tab.name = "users"
    <3>1. PICK n \in Names, r \in Roles :
            SendFrom(calls, NewCall("createUser", NoAnswer, n, r, 0))
      BY <1>4, <2>1 DEF handleSubmit, Send
    <3> QED
      BY <1>1, <1>2, <2>1, <3>1, Sending
  <2>2. CASE tab.name = "cases"
    <3>1. PICK c \in Cases : SendFrom(calls, NewCall("createCase", c, NoAnswer, NoAnswer, 0))
      BY <1>4, <2>2 DEF handleSubmit, Send
    <3> QED
      BY <1>1, <1>2, <2>2, <3>1, Sending
  <2> QED
    BY <1>4, <2>1, <2>2 DEF handleSubmit
<1>5. ASSUME handleDelete
      PROVE  CallsOk(calls') /\ \E i \in Slots, u \in tab.rows :
               Asks(calls, calls', i, "deleteUser", NoAnswer, u.id)
  <2>1. PICK u \in tab.rows :
          SendFrom(calls, NewCall("deleteUser", NoAnswer, NoAnswer, NoAnswer, u.id))
    BY <1>5 DEF handleDelete, Send
  <2>2. PICK id \in Nat : id = u.id
    BY <1>1, <1>5 DEF handleDelete, RowsFor, UserRows
  <2> QED
    BY <1>1, <1>2, <2>1, <2>2, Sending
<1>6. ASSUME handleToggleStatus
      PROVE  CallsOk(calls') /\ \E i \in Slots, c \in tab.rows :
               /\ Asks(calls, calls', i, "toggle", c.no, 0)
               /\ tab' = [tab EXCEPT !.raced = @ \/ Toggling(c.no)]
  <2>1. PICK c \in tab.rows, s \in {"OPEN", "CLOSED"} :
          /\ SendFrom(calls, NewCall("toggle", c.no, s, NoAnswer, 0))
          /\ tab' = [tab EXCEPT !.raced = @ \/ Toggling(c.no)]
    BY <1>6 DEF handleToggleStatus, Send
  <2>2. PICK n \in Cases : n = c.no
    BY <1>1, <1>6 DEF handleToggleStatus, RowsFor, CaseRows
  <2> QED
    BY <1>1, <1>2, <2>1, <2>2, Sending
<1>7. ASSUME OpenAssignments
      PROVE  CallsOk(calls') /\ \E i \in Slots, c \in CaseRows :
               Asks(calls, calls', i, "assignments", c.no, 0) /\ modal' = MountedModal(c)
  <2>1. PICK c \in tab.rows : /\ SendFrom(calls, NewCall("assignments", c.no, NoAnswer, NoAnswer, 0))
                              /\ modal' = MountedModal(c)
    BY <1>7 DEF OpenAssignments, Send, Load
  <2>2. c \in CaseRows
    BY <1>1, <1>7 DEF OpenAssignments, RowsFor
  <2>3. PICK n \in Cases : n = c.no
    BY <2>2 DEF CaseRows
  <2> QED
    BY <1>1, <1>2, <2>1, <2>2, <2>3, Sending
<1>8. ASSUME handleAssign
      PROVE  CallsOk(calls') /\ \E i \in Slots : Asks(calls, calls', i, "assign", modal.case.no, 0)
  <2>1. PICK u \in known : SendFrom(calls, NewCall("assign", modal.case.no, u.name, u.role, 0))
    BY <1>8 DEF handleAssign, Send
  <2>2. PICK n \in Cases : n = modal.case.no
    BY <1>8 DEF handleAssign, TypeInv, Modals, CaseRows
  <2>3. PICK name \in Names, role \in Roles : name = u.name /\ role = u.role
    BY <1>1 DEF UserRows
  <2> QED
    BY <1>1, <1>2, <2>1, <2>2, <2>3, Sending
<1>9. ASSUME handleRemove
      PROVE  CallsOk(calls') /\ \E i \in Slots, a \in modal.rows :
               Asks(calls, calls', i, "unassign", modal.case.no, a.id)
  <2>1. PICK a \in modal.rows :
          SendFrom(calls, NewCall("unassign", modal.case.no, NoAnswer, NoAnswer, a.id))
    BY <1>9 DEF handleRemove, Send
  <2>2. PICK n \in Cases, id \in Nat : n = modal.case.no /\ id = a.id
    <3>1. modal \in Modals
      BY <1>9 DEF handleRemove, TypeInv
    <3> QED
      BY <3>1 DEF Modals, CaseRows, AssignmentRows
  <2> QED
    BY <1>1, <1>2, <2>1, <2>2, Sending
<1> QED
  BY <1>3, <1>4, <1>5, <1>6, <1>7, <1>8, <1>9

\* What the administrator does keeps the types.
LEMMA ClickTypes ==
  ASSUME TypeInv,
         \/ SetActiveTab \/ OpenForm \/ CloseForm \/ handleSubmit
         \/ handleDelete \/ handleToggleStatus
         \/ OpenAssignments \/ CloseAssignments \/ handleAssign \/ handleRemove
  PROVE  TypeInv'
<1>1. CallsOk(calls) /\ tab \in Tabs /\ tab.rows \subseteq RowsFor(tab.name)
  BY DEF TypeInv
<1>2. UNCHANGED <<users, cases, assignments, known, made>>
  BY DEF SetActiveTab, OpenForm, CloseForm, handleSubmit, handleDelete, handleToggleStatus,
     OpenAssignments, CloseAssignments, handleAssign, handleRemove, tables, client
<1>3. CallsOk(calls')
  <2>1. CASE CloseForm \/ CloseAssignments
    BY <1>1, <2>1, BoxGone DEF CloseForm, CloseAssignments
  <2>2. CASE OpenForm
    BY <1>1, <2>2 DEF OpenForm
  <2> QED
    BY <2>1, <2>2, Clicks
<1>4. tab' \in Tabs /\ tab'.rows \subseteq RowsFor(tab'.name)
  <2>1. CASE SetActiveTab
    BY <2>1, Clicks, MountedTyped
  <2>2. CASE OpenForm \/ CloseForm \/ handleSubmit
    BY <1>1, <2>2 DEF OpenForm, CloseForm, handleSubmit, Tabs
  <2>3. CASE handleToggleStatus
    BY <1>1, <2>3, Clicks DEF Tabs
  <2>4. CASE handleDelete \/ OpenAssignments \/ CloseAssignments \/ handleAssign \/ handleRemove
    BY <1>1, <2>4 DEF handleDelete, OpenAssignments, CloseAssignments,
         handleAssign, handleRemove, client
  <2> QED
    BY <2>1, <2>2, <2>3, <2>4
<1>5. modal' \in Modals \cup {NoAnswer}
  <2>1. CASE OpenAssignments
    BY <2>1, Clicks, MountedTyped
  <2>2. CASE handleAssign
    BY <2>2 DEF handleAssign, TypeInv, Modals
  <2>3. CASE ~OpenAssignments /\ ~handleAssign
    BY <2>3 DEF SetActiveTab, OpenForm, CloseForm, handleSubmit, handleDelete, handleToggleStatus,
       CloseAssignments, handleRemove, client, TypeInv
  <2> QED
    BY <2>1, <2>2, <2>3
<1> QED
  BY <1>2, <1>3, <1>4, <1>5 DEF TypeInv

\* Kinds of the calls that change a table.
LEMMA RowsForKinds ==
  /\ RowsFor("users") = UserRows /\ RowsFor("known") = UserRows /\ RowsFor("createUser") = UserRows
  /\ RowsFor("cases") = CaseRows /\ RowsFor("createCase") = CaseRows /\ RowsFor("toggle") = CaseRows
  /\ RowsFor("assignments") = AssignmentRows /\ RowsFor("assign") = AssignmentRows
BY DEF RowsFor

\* What a change does to the calls and to the page, whose answer may be lost.
LEMMA ChangedFacts ==
  ASSUME TypeInv, NEW i \in Slots, calls[i] # NoAnswer, calls[i].answer = NoAnswer,
         NEW rows, rows \subseteq RowsFor(calls[i].kind), Changed(i, rows),
         Boxed(calls, i) => calls[i].tab
  PROVE  /\ CallsOk(calls') /\ Beside(calls, calls', i)
         /\ tab' \in Tabs /\ tab'.name = tab.name /\ tab'.rows = tab.rows
         /\ tab'.loading = tab.loading /\ tab'.error = tab.error /\ tab'.form = tab.form
         /\ tab'.saving = tab.saving /\ (tab.raced => tab'.raced)
         /\ modal' \in Modals \cup {NoAnswer} /\ (modal' = NoAnswer <=> modal = NoAnswer)
         /\ modal # NoAnswer =>
              /\ modal'.case = modal.case /\ modal'.rows = modal.rows
              /\ modal'.loading = modal.loading /\ modal'.loaded = modal.loaded
              /\ modal'.saving = modal.saving /\ (modal.raced => modal'.raced)
         /\ \A kind : \A j \in Slots : Live(calls', j, kind) <=> Live(calls, j, kind)
         /\ \A kind : \A j \in Slots : Live(calls, j, kind) =>
              calls'[j].id = calls[j].id /\ calls'[j].on = calls[j].on
         /\ \A j \in Slots : Boxed(calls', j) <=> Boxed(calls, j)
         /\ \A j \in Slots : Boxed(calls, j) => calls'[j].tab = calls[j].tab
         /\ ~tab'.raced => ~tab.loading /\ calls[i].tab
         /\ modal # NoAnswer /\ ~modal'.raced => ~modal.loading /\ calls[i].box
         /\ (~tab'.raced \/ (modal # NoAnswer /\ ~modal'.raced)) /\ Awaited(calls[i]) =>
                Done(calls', i, calls[i].kind) /\ calls'[i].answer.rows = rows
<1>1. PICK lost \in BOOLEAN :
        /\ Reply(i, ~lost, IF lost THEN {} ELSE rows)
        /\ tab' = [tab EXCEPT !.raced = @ \/ lost \/ tab.loading \/ ~calls[i].tab]
        /\ modal' = IF modal = NoAnswer THEN modal
                    ELSE [modal EXCEPT !.raced = @ \/ lost \/ modal.loading \/ ~calls[i].box]
  BY DEF Changed
<1>2. CallsOk(calls)
  BY DEF TypeInv
<1>3. PICK ok, answered : /\ ok = ~lost /\ ok \in BOOLEAN /\ answered = IF lost THEN {} ELSE rows
                          /\ Reply(i, ok, answered)
  BY <1>1
<1>4. answered \subseteq RowsFor(calls[i].kind) /\ (~ok => answered = {})
  BY <1>3
<1>5. /\ CallsOk(calls') /\ Beside(calls, calls', i)
      /\ ~Awaited(calls[i]) => calls'[i] = NoAnswer
      /\ Awaited(calls[i]) =>
           /\ calls'[i] # NoAnswer /\ Awaited(calls'[i])
           /\ calls'[i].kind = calls[i].kind /\ calls'[i].on = calls[i].on
           /\ calls'[i].id = calls[i].id /\ calls'[i].tab = calls[i].tab
           /\ calls'[i].box = calls[i].box
           /\ calls'[i].answer # NoAnswer
           /\ calls'[i].answer.ok = ok /\ calls'[i].answer.rows = answered
  BY <1>2, <1>3, <1>4, Replied
<1>6. PICK ds : ds = calls'
  OBVIOUS
<1>7. /\ \A kind : \A j \in Slots : Live(ds, j, kind) <=> Live(calls, j, kind)
      /\ \A kind : \A j \in Slots : Live(calls, j, kind) =>
           ds[j].id = calls[j].id /\ ds[j].on = calls[j].on
      /\ \A j \in Slots : Boxed(ds, j) <=> Boxed(calls, j)
      /\ \A j \in Slots : Boxed(calls, j) => ds[j].tab = calls[j].tab
  BY <1>5, <1>6, RepliedLive
<1>8. /\ tab' \in Tabs /\ tab'.name = tab.name /\ tab'.rows = tab.rows
      /\ tab'.loading = tab.loading /\ tab'.error = tab.error /\ tab'.form = tab.form
      /\ tab'.saving = tab.saving
      /\ tab'.raced <=> tab.raced \/ lost \/ tab.loading \/ ~calls[i].tab
  BY <1>1 DEF TypeInv, Tabs
<1>9. CASE modal = NoAnswer
  <2>1. modal' = NoAnswer
    BY <1>1, <1>9
  <2>2. ~tab'.raced /\ Awaited(calls[i]) =>
          Done(calls', i, calls[i].kind) /\ calls'[i].answer.rows = rows
    BY <1>3, <1>5, <1>8 DEF Done, Live
  <2> QED
    BY <1>5, <1>6, <1>7, <1>8, <1>9, <2>1, <2>2
<1>10. CASE modal # NoAnswer
  <2>1. /\ modal' \in Modals /\ modal'.case = modal.case /\ modal'.rows = modal.rows
        /\ modal'.loading = modal.loading /\ modal'.loaded = modal.loaded
        /\ modal'.saving = modal.saving
        /\ modal'.raced <=> modal.raced \/ lost \/ modal.loading \/ ~calls[i].box
    BY <1>1, <1>10 DEF TypeInv, Modals
  <2>2. (~tab'.raced \/ ~modal'.raced) /\ Awaited(calls[i]) =>
          Done(calls', i, calls[i].kind) /\ calls'[i].answer.rows = rows
    BY <1>3, <1>5, <1>8, <2>1 DEF Done, Live
  <2>3. modal' # NoAnswer
    BY <2>1, NullAssumption
  <2> QED
    BY <1>5, <1>6, <1>7, <1>8, <1>10, <2>1, <2>2, <2>3
<1> QED
  BY <1>9, <1>10

\* The service keeps the types.
LEMMA ServiceTypes ==
  ASSUME TypeInv, IdsGiven, NEW i \in Slots, Boxed(calls, i) => calls[i].tab,
         \/ create_user(i) \/ delete_user(i) \/ create_case(i) \/ update_case_status(i)
         \/ create_assignment(i) \/ delete_assignment(i)
  PROVE  /\ TypeInv'
         /\ \E rows : rows \subseteq RowsFor(calls[i].kind) /\ Changed(i, rows)
         /\ calls[i] # NoAnswer /\ calls[i].answer = NoAnswer
<1>1. calls[i] # NoAnswer /\ calls[i].answer = NoAnswer /\ WellFormed(calls[i])
  BY DEF create_user, delete_user, create_case, update_case_status,
     create_assignment, delete_assignment, Asked, TypeInv, CallsOk
<1>2. ASSUME NEW rows, rows \subseteq RowsFor(calls[i].kind), Changed(i, rows),
             users' \subseteq UserRows, cases' \subseteq CaseRows,
             assignments' \subseteq AssignmentRows, known' = known, made' \in Nat
      PROVE  TypeInv'
  BY <1>1, <1>2, ChangedFacts DEF TypeInv
<1>3. CASE create_user(i)
  <2> DEFINE user == [id |-> made + 1, name |-> calls[i].what, role |-> calls[i].role]
  <2>1. /\ users' = users \cup {user} /\ made' = made + 1 /\ Changed(i, {user})
        /\ calls[i].kind = "createUser" /\ UNCHANGED <<cases, assignments, known>>
    BY <1>3 DEF create_user, Asked
  <2>2. user \in UserRows
    BY <1>1, <2>1 DEF WellFormed, UserRows, TypeInv
  <2> HIDE DEF user
  <2>3. {user} \subseteq RowsFor(calls[i].kind)
    BY <2>1, <2>2, RowsForKinds
  <2> QED
    BY <1>1, <1>2, <2>1, <2>2, <2>3 DEF TypeInv
<1>4. CASE delete_user(i)
  BY <1>1, <1>2, <1>4 DEF delete_user, TypeInv
<1>5. CASE create_case(i)
  <2> DEFINE case == [no |-> calls[i].on, status |-> "OPEN"]
  <2>1. /\ cases' = cases \cup {case} /\ made' = made + 1 /\ Changed(i, {case})
        /\ calls[i].kind = "createCase" /\ UNCHANGED <<users, assignments, known>>
    BY <1>5 DEF create_case, Asked
  <2>2. case \in CaseRows
    BY <1>1, <2>1 DEF WellFormed, CaseRows
  <2> HIDE DEF case
  <2>3. {case} \subseteq RowsFor(calls[i].kind)
    BY <2>1, <2>2, RowsForKinds
  <2> QED
    BY <1>1, <1>2, <2>1, <2>2, <2>3 DEF TypeInv
<1>6. CASE update_case_status(i)
  <2>1. PICK c \in cases : LET n == [c EXCEPT !.status = calls[i].what] IN
          cases' = (cases \ {c}) \cup {n} /\ Changed(i, {n})
    BY <1>6 DEF update_case_status
  <2> DEFINE n == [c EXCEPT !.status = calls[i].what]
  <2>2. calls[i].kind = "toggle" /\ UNCHANGED <<users, assignments, made, known>>
    BY <1>6 DEF update_case_status, Asked
  <2>3. n \in CaseRows
    BY <1>1, <2>2 DEF WellFormed, CaseRows, TypeInv
  <2>4. cases' = (cases \ {c}) \cup {n} /\ Changed(i, {n})
    BY <2>1
  <2> HIDE DEF n
  <2>5. {n} \subseteq RowsFor(calls[i].kind)
    BY <2>2, <2>3, RowsForKinds
  <2> QED
    BY <1>1, <1>2, <2>2, <2>3, <2>4, <2>5 DEF TypeInv
<1>7. CASE create_assignment(i)
  <2> DEFINE new == Assignment(i)
  <2>1. /\ assignments' = assignments \cup {new} /\ made' = made + 1 /\ Changed(i, {new})
        /\ calls[i].kind = "assign" /\ UNCHANGED <<users, cases, known>>
    BY <1>7 DEF create_assignment, Asked
  <2>2. new \in AssignmentRows
    BY <1>1, <2>1 DEF WellFormed, AssignmentRows, TypeInv, IdsGiven, Assignment
  <2> HIDE DEF new
  <2>3. {new} \subseteq RowsFor(calls[i].kind)
    BY <2>1, <2>2, RowsForKinds
  <2> QED
    BY <1>1, <1>2, <2>1, <2>2, <2>3 DEF TypeInv
<1>8. CASE delete_assignment(i)
  BY <1>1, <1>2, <1>8 DEF delete_assignment, TypeInv
<1> QED
  BY <1>3, <1>4, <1>5, <1>6, <1>7, <1>8

\* A list is what the table holds.
LEMMA ListFacts ==
  ASSUME TypeInv, NEW i \in Slots, List(i), Boxed(calls, i) => calls[i].tab
  PROVE  /\ TypeInv' /\ UNCHANGED <<users, cases, assignments, made, known, tab, modal>>
         /\ calls[i] # NoAnswer /\ calls[i].kind \in Reads /\ Beside(calls, calls', i)
         /\ \A kind : \A j \in Slots : Live(calls', j, kind) <=> Live(calls, j, kind)
         /\ \A kind : \A j \in Slots : Live(calls, j, kind) =>
              calls'[j].id = calls[j].id /\ calls'[j].on = calls[j].on
         /\ \A j \in Slots : Boxed(calls', j) <=> Boxed(calls, j)
         /\ \A j \in Slots : Boxed(calls, j) => calls'[j].tab = calls[j].tab
         /\ Awaited(calls[i]) =>
              /\ Done(calls', i, calls[i].kind)
              /\ calls[i].kind = "users" => calls'[i].answer.rows = users
              /\ calls[i].kind = "cases" => calls'[i].answer.rows = cases
              /\ calls[i].kind = "assignments" =>
                   calls'[i].answer.rows = {a \in assignments : a.case = calls[i].on}
<1>1. PICK rows :
        /\ calls[i] # NoAnswer /\ calls[i].answer = NoAnswer /\ Reply(i, TRUE, rows)
        /\ calls[i].kind \in Reads
        /\ calls[i].kind \in {"users", "known"} => rows = users
        /\ calls[i].kind = "cases" => rows = cases
        /\ calls[i].kind = "assignments" => rows = {a \in assignments : a.case = calls[i].on}
  BY DEF List, Asked, Reads
<1>2. rows \subseteq RowsFor(calls[i].kind)
  <2>1. /\ users \subseteq UserRows /\ cases \subseteq CaseRows
        /\ {a \in assignments : a.case = calls[i].on} \subseteq AssignmentRows
    BY DEF TypeInv
  <2>2. calls[i].kind \in {"users", "known", "cases", "assignments"}
    BY <1>1 DEF Reads
  <2> QED
    BY <1>1, <2>1, <2>2, RowsForKinds
<1>3. CallsOk(calls) /\ UNCHANGED <<users, cases, assignments, made, known, tab, modal>>
  BY DEF TypeInv, List, tables, client
<1>4. /\ CallsOk(calls') /\ Beside(calls, calls', i)
      /\ ~Awaited(calls[i]) => calls'[i] = NoAnswer
      /\ Awaited(calls[i]) =>
           /\ calls'[i] # NoAnswer /\ Awaited(calls'[i])
           /\ calls'[i].kind = calls[i].kind /\ calls'[i].on = calls[i].on
           /\ calls'[i].id = calls[i].id /\ calls'[i].tab = calls[i].tab
           /\ calls'[i].box = calls[i].box
           /\ calls'[i].answer # NoAnswer
           /\ calls'[i].answer.ok = TRUE /\ calls'[i].answer.rows = rows
  BY <1>1, <1>2, <1>3, Replied
<1>5. PICK ds : ds = calls'
  OBVIOUS
<1>6. /\ \A kind : \A j \in Slots : Live(ds, j, kind) <=> Live(calls, j, kind)
      /\ \A kind : \A j \in Slots : Live(calls, j, kind) =>
           ds[j].id = calls[j].id /\ ds[j].on = calls[j].on
      /\ \A j \in Slots : Boxed(ds, j) <=> Boxed(calls, j)
      /\ \A j \in Slots : Boxed(calls, j) => ds[j].tab = calls[j].tab
  BY <1>1, <1>4, <1>5, RepliedLive
<1>7. TypeInv'
  BY <1>3, <1>4 DEF TypeInv
<1>8. Awaited(calls[i]) =>
        Done(calls', i, calls[i].kind) /\ calls'[i].answer.rows = rows
  BY <1>4 DEF Done, Live
<1> QED
  BY <1>1, <1>3, <1>4, <1>5, <1>6, <1>7, <1>8

\* An answer is taken, good or bad; a good one is the answer to a call somebody
\* waits for.
LEMMA Taken ==
  ASSUME TypeInv, NEW i \in Slots, Answered(i) \/ Refused(i)
  PROVE  \E ok \in BOOLEAN, rows \in SUBSET AllRows :
           /\ Deliver(i, ok, rows) /\ calls[i] # NoAnswer /\ WellFormed(calls[i])
           /\ rows \subseteq RowsFor(calls[i].kind) /\ (~ok => rows = {})
           /\ ok => Done(calls, i, calls[i].kind) /\ rows = calls[i].answer.rows
           /\ ~ok => \A kind : ~Done(calls, i, kind)
<1>1. CASE Refused(i)
  <2>1. /\ Deliver(i, FALSE, {}) /\ calls[i] # NoAnswer /\ WellFormed(calls[i])
        /\ \A kind : ~Done(calls, i, kind)
    BY <1>1 DEF Refused, Done, TypeInv, CallsOk
  <2>2. {} \in SUBSET AllRows /\ {} \subseteq RowsFor(calls[i].kind)
    OBVIOUS
  <2> QED
    BY <2>1, <2>2
<1>2. CASE Answered(i)
  <2> DEFINE ok == calls[i].answer.ok
             rows == calls[i].answer.rows
  <2>1. /\ calls[i] # NoAnswer /\ WellFormed(calls[i]) /\ calls[i] \in Calls
        /\ calls[i].answer # NoAnswer /\ Deliver(i, ok, rows)
    BY <1>2 DEF Answered, TypeInv, CallsOk, WellFormed
  <2>2. ok \in BOOLEAN
    BY <2>1 DEF Calls, Answers
  <2>3. rows \subseteq RowsFor(calls[i].kind) /\ (~ok => rows = {}) /\ Awaited(calls[i])
    BY <2>1 DEF WellFormed
  <2>4. ok => Done(calls, i, calls[i].kind)
    BY <2>1, <2>3 DEF Done, Live
  <2>5. ~ok => \A kind : ~Done(calls, i, kind)
    BY DEF Done
  <2>6. rows \in SUBSET AllRows
    BY <2>3, RowsForTyped
  <2> HIDE DEF ok, rows
  <2>7. ok => Done(calls, i, calls[i].kind) /\ rows = calls[i].answer.rows
    BY <2>4 DEF rows
  <2> QED
    BY <2>1, <2>2, <2>3, <2>5, <2>6, <2>7
<1> QED
  BY <1>1, <1>2

\* The call is gone, and a new row closes the dialogue that is open by now.
Closes(i, ok) == ok /\ tab.form /\ calls[i].kind \in {"createUser", "createCase"}

LEMMA DeliveredCalls ==
  ASSUME TypeInv, NEW i \in Slots, NEW ok \in BOOLEAN, NEW rows, Deliver(i, ok, rows)
  PROVE  /\ CallsOk(calls') /\ calls'[i] = NoAnswer
         /\ \E es : /\ es = IF Closes(i, ok) THEN Orphaned("box") ELSE calls
                    /\ CallsOk(es) /\ Beside(es, calls', i) /\ Alike(calls, es, TabKinds)
                    /\ Closes(i, ok) =>
                         /\ \A j \in Slots : ~Boxed(es, j)
                         /\ \A j \in Slots, kind \in ModalKinds : ~Live(es, j, kind)
<1>1. PICK es : es = IF Closes(i, ok) THEN Orphaned("box") ELSE calls
  OBVIOUS
<1>2. CallsOk(calls)
  BY DEF TypeInv
<1>3. /\ CallsOk(es) /\ Alike(calls, es, TabKinds)
      /\ Closes(i, ok) => /\ \A j \in Slots : ~Boxed(es, j)
                          /\ \A j \in Slots, kind \in ModalKinds : ~Live(es, j, kind)
  <2>1. CASE Closes(i, ok)
    BY <1>1, <1>2, <2>1, BoxGone
  <2>2. CASE ~Closes(i, ok)
    BY <1>1, <1>2, <2>2 DEF Alike
  <2> QED
    BY <2>1, <2>2
<1>4. calls' = [es EXCEPT ![i] = NoAnswer]
  BY <1>1 DEF Deliver, Closes
<1>5. /\ calls' \in [Slots -> Calls \cup {NoAnswer}] /\ calls'[i] = NoAnswer
      /\ \A j \in Slots \ {i} : calls'[j] = es[j]
  BY <1>3, <1>4 DEF CallsOk
<1> QED
  BY <1>1, <1>3, <1>5 DEF CallsOk, Beside

LEMMA DeliveredTypes ==
  ASSUME TypeInv, Waits(calls, tab), NEW i \in Slots, Answered(i) \/ Refused(i)
  PROVE  TypeInv'
<1>1. PICK ok \in BOOLEAN, rows \in SUBSET AllRows :
        /\ Deliver(i, ok, rows) /\ calls[i] # NoAnswer /\ WellFormed(calls[i])
        /\ rows \subseteq RowsFor(calls[i].kind)
        /\ ok => Done(calls, i, calls[i].kind)
  BY Taken
<1> DEFINE call == calls[i]
<1>2. CallsOk(calls')
  BY <1>1, DeliveredCalls
<1>3. /\ UNCHANGED <<users, cases, assignments, made>>
      /\ known' = IF call.kind = "known" /\ ok THEN rows ELSE known
      /\ tab' = IF call.tab THEN TabAnswered(call, ok, rows) ELSE tab
      /\ modal' = IF modal # NoAnswer /\ call.box THEN ModalAnswered(call, ok, rows) ELSE modal
  BY <1>1 DEF Deliver, tables
<1>4. known' \subseteq UserRows
  BY <1>1, <1>3, RowsForKinds DEF TypeInv
<1>5. tab' \in Tabs /\ tab'.rows \subseteq RowsFor(tab'.name)
  <2>1. tab \in Tabs /\ tab.rows \subseteq RowsFor(tab.name)
    BY DEF TypeInv
  <2>2. CASE ~call.tab
    BY <1>3, <2>1, <2>2
  <2>3. CASE call.tab /\ call.kind \in {"users", "cases"}
    <3>1. Live(calls, i, call.kind)
      BY <1>1, <2>3, LiveTab DEF TabKinds, UserKinds, CaseKinds
    <3>2. tab.name = call.kind
      BY <2>3, <3>1 DEF Waits, UserKinds, CaseKinds
    <3>3. rows \subseteq UserRows \cup CaseRows
      BY <1>1, <2>3, RowsForKinds
    <3>4. tab' = [tab EXCEPT !.loading = FALSE, !.error = ~ok, !.rows = IF ok THEN rows ELSE @]
      BY <1>3, <2>3 DEF TabAnswered
    <3> QED
      BY <1>1, <2>1, <3>2, <3>3, <3>4 DEF Tabs
  <2>4. CASE call.tab /\ call.kind \in {"createUser", "createCase"}
    <3>1. Live(calls, i, call.kind)
      BY <1>1, <2>4, LiveTab DEF TabKinds, UserKinds, CaseKinds
    <3>2. RowsFor(call.kind) = RowsFor(tab.name)
      BY <2>4, <3>1, RowsForKinds DEF Waits, UserKinds, CaseKinds
    <3>3. rows \subseteq UserRows \cup CaseRows
      BY <1>1, <2>4, RowsForKinds
    <3>4. CASE ok
      <4>1. tab' = [tab EXCEPT !.form = FALSE, !.saving = FALSE, !.rows = @ \cup rows]
        BY <1>3, <2>4, <3>4 DEF TabAnswered
      <4> QED
        BY <1>1, <2>1, <3>2, <3>3, <4>1 DEF Tabs
    <3>5. CASE ~ok
      <4>1. tab' = [tab EXCEPT !.saving = @ /\ ~call.box]
        BY <1>3, <2>4, <3>5 DEF TabAnswered
      <4> QED
        BY <1>1, <2>1, <4>1 DEF Tabs
    <3> QED
      BY <3>4, <3>5
  <2>5. CASE call.tab /\ call.kind = "deleteUser"
    <3>1. tab' = [tab EXCEPT !.rows = {r \in @ : ~ok \/ r.id # call.id}]
      BY <1>3, <2>5 DEF TabAnswered
    <3> QED
      BY <2>1, <3>1 DEF Tabs
  <2>6. CASE call.tab /\ call.kind = "toggle"
    <3>1. Live(calls, i, "toggle")
      BY <1>1, <2>6, LiveTab DEF TabKinds, CaseKinds
    <3>2. tab.name = "cases" /\ rows \subseteq CaseRows
      BY <1>1, <2>6, <3>1, RowsForKinds DEF Waits, CaseKinds
    <3>3. tab' = [tab EXCEPT !.rows = IF ok THEN Replaced(@, rows) ELSE @]
      BY <1>3, <2>6 DEF TabAnswered
    <3>4. Replaced(tab.rows, rows) \subseteq CaseRows
      BY <2>1, <3>2, RowsForKinds DEF Replaced
    <3> QED
      BY <2>1, <3>2, <3>3, <3>4, RowsForKinds DEF Tabs
  <2>7. CASE call.kind \notin {"users", "cases", "createUser", "createCase", "deleteUser", "toggle"}
    BY <1>3, <2>1, <2>7 DEF TabAnswered
  <2> QED
    BY <2>2, <2>3, <2>4, <2>5, <2>6, <2>7
<1>6. modal' \in Modals \cup {NoAnswer}
  <2>1. CASE modal = NoAnswer \/ ~call.box
    BY <1>3, <2>1 DEF TypeInv
  <2>2. CASE modal \in Modals /\ call.kind \in {"assignments", "assign"} /\ call.box
    <3>1. rows \subseteq AssignmentRows
      BY <1>1, <2>2, RowsForKinds
    <3> QED
      BY <1>1, <1>3, <2>2, <3>1 DEF ModalAnswered, Modals
  <2>3. CASE modal \in Modals /\ call.kind \notin {"assignments", "assign"} /\ call.box
    BY <1>3, <2>3 DEF ModalAnswered, Modals
  <2> QED
    BY <2>1, <2>2, <2>3 DEF TypeInv
<1> QED
  BY <1>2, <1>3, <1>4, <1>5, <1>6 DEF TypeInv

-----------------------------------------------------------------------------
(* What the tab shows *)

Shown(cs, tb, us, ca, last) ==
  /\ tb.name = "users" =>
       IF tb.loading THEN Blank(cs, "users", "createUser", "deleteUser", us, tb.rows)
       ELSE Follows(cs, us, tb.rows, "createUser", "deleteUser", last)
  /\ tb.name = "cases" =>
       IF tb.loading THEN Blank(cs, "cases", "createCase", "toggle", ca, tb.rows)
       ELSE Mirrors(cs, ca, tb.rows)

Outdated(tb) == tb.raced \/ (tb.error /\ ~tb.loading)

TabInv == Waits(calls, tab) /\ (Outdated(tab) \/ Shown(calls, tab, users, cases, made))

\* Nothing the tab waits for, and no table it shows, changes.
LEMMA ShownStill ==
  ASSUME NEW cs, NEW ds,
         NoNews(cs, ds, "createUser", "deleteUser"), NoNews(cs, ds, "createCase", "toggle"),
         \A list \in {"users", "cases"}, i \in Slots :
           Live(ds, i, list) => Live(cs, i, list) /\ ds[i].answer = cs[i].answer,
         NEW tb, NEW t2, t2.name = tb.name, t2.loading = tb.loading, t2.rows = tb.rows,
         NEW us, NEW u2, NEW ca, NEW c2, tb.name = "users" => u2 = us, tb.name = "cases" => c2 = ca,
         NEW last \in Nat, NEW m \in Nat, last <= m, Shown(cs, tb, us, ca, last)
  PROVE  Shown(ds, t2, u2, c2, m)
<1>1. CASE tb.name = "users"
  BY <1>1, BlankStill, FollowsStill DEF Shown
<1>2. CASE tb.name = "cases"
  BY <1>2, BlankStill, MirrorsStill DEF Shown
<1> QED
  BY <1>1, <1>2 DEF Shown

LEMMA ShownAlike ==
  ASSUME NEW cs, NEW ds, Alike(cs, ds, TabKinds), NEW tb, NEW t2,
         t2.name = tb.name, t2.loading = tb.loading, t2.rows = tb.rows,
         NEW us, NEW u2, NEW ca, NEW c2, tb.name = "users" => u2 = us, tb.name = "cases" => c2 = ca,
         NEW last \in Nat, NEW m \in Nat, last <= m, Shown(cs, tb, us, ca, last)
  PROVE  Shown(ds, t2, u2, c2, m)
<1>1. {"users", "createUser", "deleteUser", "cases", "createCase", "toggle"} \subseteq TabKinds
  BY DEF TabKinds, UserKinds, CaseKinds
<1>2. NoNews(cs, ds, "createUser", "deleteUser") /\ NoNews(cs, ds, "createCase", "toggle")
  <2>1. NoNews(cs, ds, "createUser", "deleteUser")
    BY <1>1, AlikeIsNoNews
  <2>2. NoNews(cs, ds, "createCase", "toggle")
    BY <1>1, AlikeIsNoNews
  <2> QED
    BY <2>1, <2>2
<1>3. \A list \in {"users", "cases"}, i \in Slots :
        Live(ds, i, list) => Live(cs, i, list) /\ ds[i].answer = cs[i].answer
  BY <1>1 DEF Alike
<1> QED
  BY <1>2, <1>3, ShownStill

\* A call that changes nothing that is shown yet is sent; or one is refused.
LEMMA ShownBeside ==
  ASSUME NEW cs, NEW ds, NEW i \in Slots, Beside(cs, ds, i), \A kind : ~Done(cs, i, kind),
         ds[i] # NoAnswer =>
           ds[i].answer = NoAnswer /\ ds[i].kind \notin {"users", "cases", "deleteUser", "toggle"},
         NEW tb, NEW t2, t2.name = tb.name, t2.loading = tb.loading, t2.rows = tb.rows,
         NEW us, NEW ca, NEW last \in Nat, Shown(cs, tb, us, ca, last)
  PROVE  Shown(ds, t2, us, ca, last)
<1>1. ASSUME NEW add, NEW change \in {"deleteUser", "toggle"}
      PROVE  NoNews(cs, ds, add, change)
  <2>1. /\ ~Done(ds, i, add) /\ ~Done(cs, i, add) /\ ~Done(ds, i, change) /\ ~Done(cs, i, change)
        /\ ~Live(ds, i, change)
    BY DEF Done, Live
  <2> QED
    BY <2>1, BesideSame DEF NoNews
<1>2. \A list \in {"users", "cases"}, j \in Slots :
        Live(ds, j, list) => Live(cs, j, list) /\ ds[j].answer = cs[j].answer
  <2>1. \A list \in {"users", "cases"} : ~Live(ds, i, list)
    BY DEF Live
  <2> QED
    BY <2>1, BesideSame
<1> QED
  BY <1>1, <1>2, ShownStill

\* A tab that has just been mounted waits for its list only.
LEMMA TabMounted ==
  ASSUME NEW cs, NEW ds, NEW i \in Slots, cs[i] = NoAnswer, Beside(cs, ds, i),
         ds[i] # NoAnswer, ds[i].answer = NoAnswer, ds[i].tab,
         NEW name \in {"users", "cases"}, ds[i].kind = name,
         \A j \in Slots, kind \in TabKinds : ~Live(cs, j, kind),
         \A j \in Slots : ~Boxed(cs, j), NEW us, NEW ca, NEW last
  PROVE  Waits(ds, MountedTab(name)) /\ Shown(ds, MountedTab(name), us, ca, last)
<1> DEFINE tb == MountedTab(name)
<1>1. tb.name = name /\ tb.loading = TRUE /\ tb.rows = {} /\ tb.saving = FALSE
  BY DEF MountedTab
<1>2. /\ \A j \in Slots, kind \in TabKinds : Live(ds, j, kind) <=> j = i /\ kind = name
      /\ \A j \in Slots : ~Boxed(ds, j)
  BY AskedLive
<1> HIDE DEF tb
<1>3. {j \in Slots : Live(ds, j, tb.name)} = {i} /\ {j \in Slots : Boxed(ds, j)} = {}
  BY <1>1, <1>2 DEF TabKinds, UserKinds, CaseKinds
<1>4. Waits(ds, tb)
  BY <1>1, <1>2, <1>3 DEF Waits, ThatMany, TabKinds, UserKinds, CaseKinds
<1>5. /\ \A j \in Slots : ~Live(ds, j, "deleteUser") /\ ~Live(ds, j, "toggle")
      /\ \A j \in Slots : ~Done(ds, j, "createUser") /\ ~Done(ds, j, "createCase")
      /\ \A j \in Slots : Live(ds, j, name) => ds[j].answer = NoAnswer
  BY <1>2, DoneIsLive DEF TabKinds, UserKinds, CaseKinds
<1>6. Shown(ds, tb, us, ca, last)
  BY <1>1, <1>5 DEF Shown, Blank
<1> QED
  BY <1>4, <1>6 DEF tb

\* What the administrator does: the tab.
LEMMA ClickTab ==
  ASSUME TypeInv, TabInv, BoxWaits(calls, modal, tab), IdsGiven,
         \/ SetActiveTab \/ OpenForm \/ CloseForm \/ handleSubmit
         \/ handleDelete \/ handleToggleStatus
         \/ OpenAssignments \/ CloseAssignments \/ handleAssign \/ handleRemove
  PROVE  TabInv'
<1>1. CallsOk(calls) /\ tab \in Tabs /\ made \in Nat /\ Waits(calls, tab)
  BY DEF TypeInv, TabInv
<1>2. UNCHANGED <<users, cases, made>>
  BY DEF SetActiveTab, OpenForm, CloseForm, handleSubmit, handleDelete, handleToggleStatus,
     OpenAssignments, CloseAssignments, handleAssign, handleRemove, tables
<1>3. PICK ds, t2 : ds = calls' /\ t2 = tab'
  OBVIOUS
<1>4. SUFFICES Waits(ds, t2) /\ (Outdated(t2) \/ Shown(ds, t2, users, cases, made))
  BY <1>2, <1>3 DEF TabInv
<1>5. CASE SetActiveTab
  <2>1. PICK cs : cs = Orphaned("tab")
    OBVIOUS
  <2>2. PICK i \in Slots, name \in {"users", "cases"} :
          Asks(cs, ds, i, name, NoAnswer, 0) /\ t2 = MountedTab(name)
    BY <1>3, <1>5, <2>1, Clicks
  <2>3. /\ \A j \in Slots, kind \in TabKinds : ~Live(cs, j, kind)
        /\ \A j \in Slots : Boxed(cs, j) => Boxed(calls, j)
    BY <1>1, <2>1, TabGone
  <2>4. \A j \in Slots : ~Boxed(cs, j)
    BY <1>1, <1>5, <2>3 DEF SetActiveTab, Clickable, Waits, ThatMany
  <2> QED
    BY <2>2, <2>3, <2>4, TabMounted DEF Asks
<1>6. CASE OpenForm
  <2>1. /\ t2.name = tab.name /\ t2.loading = tab.loading /\ t2.rows = tab.rows
        /\ t2.saving = tab.saving /\ t2.error = tab.error /\ t2.raced = tab.raced /\ t2.form
        /\ ds = calls
    BY <1>1, <1>3, <1>6 DEF OpenForm, Tabs
  <2>2. Waits(ds, t2)
    BY <1>1, <2>1, WaitsAlike
  <2> QED
    BY <2>1, <2>2 DEF TabInv, Shown, Outdated
<1>7. CASE CloseForm
  <2>1. /\ t2.name = tab.name /\ t2.loading = tab.loading /\ t2.rows = tab.rows
        /\ t2.saving = FALSE /\ t2.error = tab.error /\ t2.raced = tab.raced
    BY <1>1, <1>3, <1>7 DEF CloseForm, Tabs
  <2>2. Alike(calls, ds, TabKinds) /\ \A i \in Slots : ~Boxed(ds, i)
    BY <1>1, <1>3, <1>7, BoxGone DEF CloseForm
  <2>3. tab.name \in TabKinds
    BY <1>1 DEF Tabs, TabKinds, UserKinds, CaseKinds
  <2>4. \A i \in Slots, kind \in TabKinds : Live(ds, i, kind) <=> Live(calls, i, kind)
    BY <2>2 DEF Alike
  <2>5. /\ {i \in Slots : Live(ds, i, t2.name)} = {i \in Slots : Live(calls, i, tab.name)}
        /\ {i \in Slots : Boxed(ds, i)} = {}
    BY <2>1, <2>2, <2>3, <2>4
  <2>6. Waits(ds, t2)
    BY <1>1, <2>1, <2>2, <2>4, <2>5 DEF Waits, ThatMany, TabKinds
  <2> QED
    BY <1>1, <2>1, <2>2, <2>6, ShownAlike DEF TabInv, Outdated
<1>8. CASE handleSubmit
  <2>1. PICK i \in Slots :
          /\ calls[i] = NoAnswer /\ ds[i] # NoAnswer /\ Beside(calls, ds, i)
          /\ ds[i].answer = NoAnswer /\ ds[i].tab /\ ds[i].box
          /\ \/ ds[i].kind = "createUser" /\ tab.name = "users"
             \/ ds[i].kind = "createCase" /\ tab.name = "cases"
    BY <1>3, <1>8, Clicks DEF Asks
  <2>2. /\ t2.name = tab.name /\ t2.loading = tab.loading /\ t2.rows = tab.rows
        /\ t2.saving = TRUE /\ t2.form /\ t2.error = tab.error /\ t2.raced = tab.raced
        /\ ~tab.saving
    BY <1>1, <1>3, <1>8 DEF handleSubmit, Tabs
  <2>3. /\ \A j \in Slots, kind \in TabKinds :
             Live(ds, j, kind) <=> Live(calls, j, kind) \/ (j = i /\ kind = ds[i].kind)
        /\ \A j \in Slots : Boxed(ds, j) <=> Boxed(calls, j) \/ j = i
    BY <2>1, AskedLive
  <2>4. \A j \in Slots : ~Boxed(calls, j)
    BY <1>1, <2>2 DEF Waits, ThatMany
  <2>5. tab.name \in TabKinds /\ tab.name # ds[i].kind
    BY <1>1, <2>1 DEF Tabs, TabKinds, UserKinds, CaseKinds
  <2>6. /\ {j \in Slots : Live(ds, j, t2.name)} = {j \in Slots : Live(calls, j, tab.name)}
        /\ {j \in Slots : Boxed(ds, j)} = {i}
    BY <2>2, <2>3, <2>4, <2>5
  <2>7. /\ \A j \in Slots, kind \in UserKinds : Live(ds, j, kind) => t2.name = "users"
        /\ \A j \in Slots, kind \in CaseKinds : Live(ds, j, kind) => t2.name = "cases"
    BY <1>1, <2>1, <2>2, <2>3 DEF Waits, TabKinds, UserKinds, CaseKinds
  <2>8. Waits(ds, t2)
    <3>1. \A j \in Slots : Boxed(ds, j) => ds[j].tab
      BY <2>1, <2>3, <2>4
    <3>2. /\ ThatMany({j \in Slots : Live(ds, j, t2.name)}, t2.loading)
          /\ ThatMany({j \in Slots : Boxed(ds, j)}, t2.saving)
      BY <1>1, <2>2, <2>6 DEF Waits, ThatMany
    <3> QED
      BY <2>2, <2>7, <3>1, <3>2 DEF Waits
  <2>9. Outdated(tab) \/ Shown(ds, t2, users, cases, made)
    <3>1. \A kind : ~Done(calls, i, kind)
      BY <2>1 DEF Done, Live
    <3> QED
      BY <1>1, <2>1, <2>2, <3>1, ShownBeside DEF TabInv
  <2> QED
    BY <2>2, <2>8, <2>9 DEF Outdated
<1>9. CASE handleDelete
  <2>1. t2 = tab /\ tab.name = "users"
    BY <1>3, <1>9 DEF handleDelete, client
  <2>2. PICK i \in Slots, u \in tab.rows :
          /\ calls[i] = NoAnswer /\ ds[i] # NoAnswer /\ Beside(calls, ds, i)
          /\ ds[i].answer = NoAnswer /\ ds[i].tab /\ ~ds[i].box
          /\ ds[i].kind = "deleteUser" /\ ds[i].id = u.id
    BY <1>3, <1>9, Clicks DEF Asks
  <2>3. /\ \A j \in Slots, kind \in TabKinds :
             Live(ds, j, kind) <=> Live(calls, j, kind) \/ (j = i /\ kind = "deleteUser")
        /\ \A j \in Slots : Boxed(ds, j) <=> Boxed(calls, j)
        /\ \A j \in Slots : Boxed(calls, j) => j # i
    BY <2>2, AskedLive DEF Boxed
  <2>4. /\ {j \in Slots : Live(ds, j, tab.name)} = {j \in Slots : Live(calls, j, tab.name)}
        /\ {j \in Slots : Boxed(ds, j)} = {j \in Slots : Boxed(calls, j)}
        /\ \A j \in Slots : Boxed(calls, j) => ds[j] = calls[j]
    BY <2>1, <2>2, <2>3 DEF TabKinds, UserKinds, Beside
  <2>5. Waits(ds, tab)
    BY <1>1, <2>1, <2>3, <2>4 DEF Waits, TabKinds, UserKinds, CaseKinds
  <2>6. Shown(calls, tab, users, cases, made) => Shown(ds, tab, users, cases, made)
    <3>1. ASSUME Follows(calls, users, tab.rows, "createUser", "deleteUser", made)
          PROVE  Follows(ds, users, tab.rows, "createUser", "deleteUser", made)
      BY <1>1, <2>2, <3>1, FollowsAsked DEF IdsGiven
    <3>2. Blank(calls, "users", "createUser", "deleteUser", users, tab.rows) => FALSE
      BY DEF Blank
    <3> QED
      BY <2>1, <3>1, <3>2 DEF Shown
  <2> QED
    BY <2>1, <2>5, <2>6 DEF TabInv, Outdated
<1>10. CASE handleToggleStatus
  <2>1. PICK i \in Slots, c \in tab.rows :
          /\ calls[i] = NoAnswer /\ ds[i] # NoAnswer /\ Beside(calls, ds, i)
          /\ ds[i].answer = NoAnswer /\ ds[i].tab /\ ~ds[i].box
          /\ ds[i].kind = "toggle" /\ ds[i].on = c.no
          /\ t2 = [tab EXCEPT !.raced = @ \/ Toggling(c.no)]
    BY <1>3, <1>10, Clicks DEF Asks
  <2>2. /\ t2.name = tab.name /\ t2.loading = tab.loading /\ t2.rows = tab.rows
        /\ t2.saving = tab.saving /\ t2.form = tab.form /\ t2.error = tab.error
        /\ t2.raced <=> tab.raced \/ Toggling(c.no)
        /\ tab.name = "cases"
    BY <1>1, <1>10, <2>1 DEF handleToggleStatus, Tabs
  <2>3. /\ \A j \in Slots, kind \in TabKinds :
             Live(ds, j, kind) <=> Live(calls, j, kind) \/ (j = i /\ kind = "toggle")
        /\ \A j \in Slots : Boxed(ds, j) <=> Boxed(calls, j)
        /\ \A j \in Slots : Boxed(calls, j) => j # i
    BY <2>1, AskedLive DEF Boxed
  <2>4. /\ {j \in Slots : Live(ds, j, t2.name)} = {j \in Slots : Live(calls, j, tab.name)}
        /\ {j \in Slots : Boxed(ds, j)} = {j \in Slots : Boxed(calls, j)}
        /\ \A j \in Slots : Boxed(calls, j) => ds[j] = calls[j]
    BY <2>2, <2>1, <2>3 DEF TabKinds, CaseKinds, Beside
  <2>5. Waits(ds, t2)
    BY <1>1, <2>2, <2>3, <2>4 DEF Waits, TabKinds, UserKinds, CaseKinds
  <2>6. Shown(calls, tab, users, cases, made) =>
           t2.raced \/ Shown(ds, t2, users, cases, made)
    <3>1. ASSUME Mirrors(calls, cases, tab.rows), ~Toggling(c.no)
          PROVE  Mirrors(ds, cases, tab.rows)
      <4>1. \A j \in Slots : Live(calls, j, "toggle") => calls[j].on # c.no
        BY <3>1 DEF Toggling, Free, Live
      <4> QED
        BY <2>1, <3>1, <4>1, MirrorsAsked
    <3>2. Blank(calls, "cases", "createCase", "toggle", cases, tab.rows) => FALSE
      BY DEF Blank
    <3> QED
      BY <2>2, <3>1, <3>2 DEF Shown
  <2> QED
    BY <2>2, <2>5, <2>6 DEF TabInv, Outdated
<1>11. CASE OpenAssignments \/ handleAssign \/ handleRemove
  <2>1. PICK i \in Slots : /\ calls[i] = NoAnswer /\ ds[i] # NoAnswer /\ Beside(calls, ds, i)
                           /\ ds[i].tab /\ ds[i].kind \in ModalKinds
    BY <1>3, <1>11, Clicks DEF Asks, ModalKinds
  <2>2. t2 = tab
    BY <1>3, <1>11 DEF OpenAssignments, handleAssign, handleRemove, client
  <2>3. \A kind \in TabKinds : ~Live(calls, i, kind) /\ ~Live(ds, i, kind)
    BY <2>1, KindsDiffer DEF Live
  <2>4. Alike(calls, ds, TabKinds)
    BY <2>1, <2>3, BesideIsAlike
  <2>5. /\ \A j \in Slots : Boxed(ds, j) <=> Boxed(calls, j)
        /\ \A j \in Slots : Boxed(calls, j) => ds[j].tab = calls[j].tab
    BY <2>1 DEF Boxed, Beside, ModalKinds
  <2>6. Waits(ds, tab)
    BY <1>1, <2>4, <2>5, WaitsAlike DEF Alike
  <2> QED
    BY <1>1, <2>2, <2>4, <2>6, ShownAlike DEF TabInv, Outdated
<1>12. CASE CloseAssignments
  <2>1. Alike(calls, ds, TabKinds) /\ \A i \in Slots : ~Boxed(ds, i)
    BY <1>1, <1>3, <1>12, BoxGone DEF CloseAssignments
  <2>2. t2 = tab /\ ~tab.form
    BY <1>3, <1>12 DEF CloseAssignments, BoxWaits
  <2>3. \A i \in Slots : ~Boxed(calls, i)
    BY <1>1, <2>2 DEF Waits, ThatMany
  <2>4. Waits(ds, tab)
    BY <1>1, <2>1, <2>3, WaitsAlike DEF Alike
  <2> QED
    BY <1>1, <2>1, <2>2, <2>4, ShownAlike DEF TabInv, Outdated
<1> QED
  BY <1>5, <1>6, <1>7, <1>8, <1>9, <1>10, <1>11, <1>12

\* The keys of the tables.
KeysUnique ==
  /\ \A u, v \in users : u.id = v.id => u = v
  /\ \A a, b \in assignments : a.id = b.id => a = b
  /\ \A c, d \in cases : c.no = d.no => c = d

\* The service changes a table, and announces it to the tab if that asked for it.
LEMMA ServiceTab ==
  ASSUME TypeInv, TabInv, IdsGiven, KeysUnique, NEW i \in Slots,
         \/ create_user(i) \/ delete_user(i) \/ create_case(i) \/ update_case_status(i)
         \/ create_assignment(i) \/ delete_assignment(i)
  PROVE  TabInv'
<1>1. Waits(calls, tab) /\ tab \in Tabs /\ made \in Nat
      /\ (Boxed(calls, i) => calls[i].tab)
  BY DEF TabInv, TypeInv, Waits
<1>2. calls[i] # NoAnswer /\ calls[i].answer = NoAnswer
  BY <1>1, ServiceTypes
<1>3. PICK ds, t2 : ds = calls' /\ t2 = tab'
  OBVIOUS
<1>4. ASSUME NEW rows, rows \subseteq RowsFor(calls[i].kind), Changed(i, rows)
      PROVE  /\ Beside(calls, ds, i)
             /\ t2.name = tab.name /\ t2.rows = tab.rows /\ t2.loading = tab.loading
             /\ t2.error = tab.error /\ t2.form = tab.form /\ t2.saving = tab.saving
             /\ tab.raced => t2.raced
             /\ \A kind : \A j \in Slots : Live(ds, j, kind) <=> Live(calls, j, kind)
             /\ \A kind : \A j \in Slots : Live(calls, j, kind) =>
                  ds[j].id = calls[j].id /\ ds[j].on = calls[j].on
             /\ \A j \in Slots : Boxed(ds, j) <=> Boxed(calls, j)
             /\ \A j \in Slots : Boxed(calls, j) => ds[j].tab = calls[j].tab
             /\ ~t2.raced => /\ ~tab.loading /\ calls[i].tab
                             /\ Awaited(calls[i]) =>
                                  Done(ds, i, calls[i].kind) /\ ds[i].answer.rows = rows
  BY <1>1, <1>2, <1>3, <1>4, ChangedFacts
<1>5. PICK rows : rows \subseteq RowsFor(calls[i].kind) /\ Changed(i, rows)
  BY <1>1, ServiceTypes
<1>6. Waits(ds, t2)
  BY <1>1, <1>4, <1>5, WaitsAlike
<1>7. SUFFICES ASSUME ~Outdated(t2)
               PROVE  Shown(ds, t2, users', cases', made')
  BY <1>3, <1>6 DEF TabInv
<1>8. /\ ~t2.raced /\ ~t2.error /\ ~tab.loading /\ ~t2.loading /\ calls[i].tab
      /\ Shown(calls, tab, users, cases, made)
      /\ t2.name = tab.name /\ t2.rows = tab.rows /\ t2.loading = tab.loading
      /\ Beside(calls, ds, i)
  BY <1>4, <1>5, <1>7 DEF Outdated, TabInv
<1>9. \A kind \in TabKinds : calls[i].kind = kind =>
        /\ Live(calls, i, kind) /\ Awaited(calls[i]) /\ Live(ds, i, kind)
        /\ ds[i].kind = kind /\ ds[i].id = calls[i].id /\ ds[i].on = calls[i].on
  <2>1. ASSUME NEW kind \in TabKinds, calls[i].kind = kind PROVE Live(calls, i, kind)
    BY <1>2, <1>8, <2>1, LiveTab
  <2> QED
    BY <1>4, <1>5, <2>1 DEF Live
<1>10. CASE create_user(i)
  <2> DEFINE user == [id |-> made + 1, name |-> calls[i].what, role |-> calls[i].role]
  <2>1. /\ users' = users \cup {user} /\ made' = made + 1 /\ Changed(i, {user})
        /\ calls[i].kind = "createUser" /\ user.id = made + 1
    BY <1>10 DEF create_user, Asked
  <2>2. user \in UserRows
    <3>1. user \in users'
      BY <2>1
    <3> QED
      BY <1>1, <1>10, <3>1, ServiceTypes DEF TypeInv
  <2> HIDE DEF user
  <2>3. {user} \subseteq RowsFor(calls[i].kind) /\ "createUser" \in TabKinds
    BY <2>1, <2>2, RowsForKinds DEF TabKinds, UserKinds
  <2>4. /\ Live(calls, i, "createUser") /\ ds[i].kind = "createUser"
        /\ Done(ds, i, "createUser") /\ ds[i].answer.rows = {user}
    BY <1>4, <1>8, <1>9, <2>1, <2>3
  <2>5. tab.name = "users"
    BY <1>1, <2>4 DEF Waits, UserKinds
  <2>6. Follows(calls, users, tab.rows, "createUser", "deleteUser", made)
    BY <1>8, <2>5 DEF Shown
  <2>7. Follows(ds, users \cup {user}, tab.rows, "createUser", "deleteUser", made + 1)
    BY <1>1, <1>2, <1>8, <2>1, <2>4, <2>6, FollowsAdded DEF IdsGiven
  <2> QED
    BY <1>8, <2>1, <2>5, <2>7 DEF Shown
<1>11. CASE delete_user(i)
  <2>1. PICK u \in users : u.id = calls[i].id /\ users' = users \ {u}
    BY <1>11 DEF delete_user
  <2>2. Changed(i, {}) /\ calls[i].kind = "deleteUser" /\ made' = made
    BY <1>11 DEF delete_user, Asked
  <2>3. "deleteUser" \in TabKinds
    BY DEF TabKinds, UserKinds
  <2>4. /\ Live(calls, i, "deleteUser") /\ Done(ds, i, "deleteUser") /\ ds[i].id = calls[i].id
    BY <1>4, <1>8, <1>9, <2>2, <2>3
  <2>5. tab.name = "users"
    BY <1>1, <2>4 DEF Waits, UserKinds
  <2>6. Follows(calls, users, tab.rows, "createUser", "deleteUser", made)
    BY <1>8, <2>5 DEF Shown
  <2>7. Follows(ds, users \ {u}, tab.rows, "createUser", "deleteUser", made)
    BY <1>1, <1>2, <1>8, <2>1, <2>4, <2>6, FollowsRemoved DEF KeysUnique
  <2> QED
    BY <1>8, <2>1, <2>2, <2>5, <2>7 DEF Shown
<1>12. CASE create_case(i)
  <2> DEFINE case == [no |-> calls[i].on, status |-> "OPEN"]
  <2>1. /\ cases' = cases \cup {case} /\ Changed(i, {case}) /\ \A c \in cases : c.no # case.no
        /\ calls[i].kind = "createCase"
    BY <1>12 DEF create_case, Asked
  <2>2. case \in CaseRows
    <3>1. case \in cases'
      BY <2>1
    <3> QED
      BY <1>1, <1>12, <3>1, ServiceTypes DEF TypeInv
  <2> HIDE DEF case
  <2>3. {case} \subseteq RowsFor(calls[i].kind) /\ "createCase" \in TabKinds
    BY <2>1, <2>2, RowsForKinds DEF TabKinds, CaseKinds
  <2>4. /\ Live(calls, i, "createCase") /\ ds[i].kind = "createCase"
        /\ Done(ds, i, "createCase") /\ ds[i].answer.rows = {case}
    BY <1>4, <1>8, <1>9, <2>1, <2>3
  <2>5. tab.name = "cases"
    BY <1>1, <2>4 DEF Waits, CaseKinds
  <2>6. Mirrors(ds, cases \cup {case}, tab.rows)
    BY <1>2, <1>8, <2>1, <2>4, <2>5, MirrorsAdded DEF Shown
  <2> QED
    BY <1>8, <2>1, <2>5, <2>6 DEF Shown
<1>13. CASE update_case_status(i)
  <2>1. PICK c, n : /\ c \in cases /\ n = [c EXCEPT !.status = calls[i].what] /\ c.no = calls[i].on
                    /\ cases' = (cases \ {c}) \cup {n} /\ Changed(i, {n})
    BY <1>13 DEF update_case_status
  <2>2. calls[i].kind = "toggle" /\ n.no = c.no
    BY <1>13, <2>1 DEF update_case_status, Asked, TypeInv, CaseRows
  <2>3. n \in CaseRows
    BY <1>1, <1>13, <2>1, ServiceTypes DEF TypeInv
  <2>4. {n} \subseteq RowsFor(calls[i].kind) /\ "toggle" \in TabKinds
    BY <2>2, <2>3, RowsForKinds DEF TabKinds, CaseKinds
  <2>5. /\ Live(calls, i, "toggle") /\ Done(ds, i, "toggle") /\ ds[i].on = calls[i].on
        /\ ds[i].answer.rows = {n}
    BY <1>4, <1>8, <1>9, <2>1, <2>2, <2>4
  <2>6. tab.name = "cases"
    BY <1>1, <2>5 DEF Waits, CaseKinds
  <2>7. Mirrors(calls, cases, tab.rows)
    BY <1>8, <2>6 DEF Shown
  <2>8. Mirrors(ds, (cases \ {c}) \cup {n}, tab.rows)
    BY <1>2, <1>8, <2>1, <2>2, <2>5, <2>7, MirrorsReplaced DEF KeysUnique
  <2> QED
    BY <1>8, <2>1, <2>6, <2>8 DEF Shown
<1>14. CASE create_assignment(i) \/ delete_assignment(i)
  <2>1. /\ users' = users /\ cases' = cases /\ made' \in Nat /\ made <= made'
        /\ calls[i].kind \in ModalKinds
    BY <1>1, <1>14 DEF create_assignment, delete_assignment, Asked, ModalKinds
  <2>2. \A kind \in TabKinds : ~Live(calls, i, kind) /\ ~Live(ds, i, kind)
    BY <1>4, <1>5, <2>1, KindsDiffer DEF Live
  <2>3. Alike(calls, ds, TabKinds)
    BY <1>8, <2>2, BesideIsAlike
  <2> QED
    BY <1>1, <1>8, <2>1, <2>3, ShownAlike
<1> QED
  BY <1>10, <1>11, <1>12, <1>13, <1>14

\* A list is answered: what the tab waits for is the table as it is now.
LEMMA ListTab ==
  ASSUME TypeInv, TabInv, NEW i \in Slots, List(i)
  PROVE  TabInv'
<1>1. Waits(calls, tab) /\ tab \in Tabs /\ made \in Nat /\ (Boxed(calls, i) => calls[i].tab)
  BY DEF TabInv, TypeInv, Waits
<1>2. PICK ds : ds = calls'
  OBVIOUS
<1>3. /\ UNCHANGED <<users, cases, made, tab>>
      /\ calls[i] # NoAnswer /\ calls[i].kind \in Reads /\ Beside(calls, ds, i)
      /\ \A kind : \A j \in Slots : Live(ds, j, kind) <=> Live(calls, j, kind)
      /\ \A j \in Slots : Boxed(ds, j) <=> Boxed(calls, j)
      /\ \A j \in Slots : Boxed(calls, j) => ds[j].tab = calls[j].tab
      /\ Awaited(calls[i]) =>
           /\ Done(ds, i, calls[i].kind)
           /\ calls[i].kind = "users" => ds[i].answer.rows = users
           /\ calls[i].kind = "cases" => ds[i].answer.rows = cases
  BY <1>1, <1>2, ListFacts
<1>4. Waits(ds, tab)
  BY <1>1, <1>3, WaitsAlike
<1>5. SUFFICES ASSUME Shown(calls, tab, users, cases, made)
               PROVE  Shown(ds, tab, users, cases, made)
  BY <1>2, <1>3, <1>4 DEF TabInv
<1>6. CASE \E list \in {"users", "cases"} : Live(calls, i, list)
  <2>1. PICK list \in {"users", "cases"} : Live(calls, i, list)
    BY <1>6
  <2>2. tab.name = list
    BY <1>1, <2>1 DEF Waits, UserKinds, CaseKinds
  <2>3. tab.loading
    BY <1>1, <2>1, <2>2 DEF Waits, ThatMany
  <2>4. calls[i].kind = list /\ ds[i].kind = list /\ ds[i].answer.ok
    BY <1>3, <2>1 DEF Live, Done
  <2>5. CASE list = "users"
    <3>1. /\ ds[i].answer.rows = users
          /\ Blank(calls, "users", "createUser", "deleteUser", users, tab.rows)
      BY <1>3, <1>5, <2>1, <2>2, <2>3, <2>4, <2>5 DEF Shown, Live
    <3>2. Blank(ds, "users", "createUser", "deleteUser", users, tab.rows)
      BY <1>3, <2>4, <2>5, <3>1, BlankListed
    <3> QED
      BY <2>2, <2>3, <2>5, <3>2 DEF Shown
  <2>6. CASE list = "cases"
    <3>1. /\ ds[i].answer.rows = cases
          /\ Blank(calls, "cases", "createCase", "toggle", cases, tab.rows)
      BY <1>3, <1>5, <2>1, <2>2, <2>3, <2>4, <2>6 DEF Shown, Live
    <3>2. Blank(ds, "cases", "createCase", "toggle", cases, tab.rows)
      BY <1>3, <2>4, <2>6, <3>1, BlankListed
    <3> QED
      BY <2>2, <2>3, <2>6, <3>2 DEF Shown
  <2> QED
    BY <2>5, <2>6
<1>7. CASE ~ \E list \in {"users", "cases"} : Live(calls, i, list)
  <2>1. \A kind \in TabKinds : ~Live(calls, i, kind) /\ ~Live(ds, i, kind)
    BY <1>3, <1>7 DEF Live, TabKinds, UserKinds, CaseKinds, Reads
  <2>2. Alike(calls, ds, TabKinds)
    BY <1>3, <2>1, BesideIsAlike
  <2> QED
    BY <1>1, <1>5, <2>2, ShownAlike
<1> QED
  BY <1>6, <1>7

\* An answer is taken by the tab, or by nobody.
LEMMA DeliverTab ==
  ASSUME TypeInv, TabInv, KeysUnique, NEW i \in Slots, Answered(i) \/ Refused(i)
  PROVE  TabInv'
<1>1. Waits(calls, tab) /\ tab \in Tabs /\ made \in Nat
  BY DEF TabInv, TypeInv
<1>2. PICK ok \in BOOLEAN, rows \in SUBSET AllRows :
        /\ Deliver(i, ok, rows) /\ calls[i] # NoAnswer /\ (~ok => rows = {})
        /\ ok => Done(calls, i, calls[i].kind) /\ rows = calls[i].answer.rows
        /\ ~ok => \A kind : ~Done(calls, i, kind)
  BY Taken
<1>3. PICK ds, t2, call : ds = calls' /\ t2 = tab' /\ call = calls[i]
  OBVIOUS
<1>4. /\ UNCHANGED <<users, cases, made>>
      /\ t2 = IF call.tab THEN TabAnswered(call, ok, rows) ELSE tab
  BY <1>2, <1>3 DEF Deliver, tables
<1>5. PICK es :
        /\ es = IF Closes(i, ok) THEN Orphaned("box") ELSE calls
        /\ ds[i] = NoAnswer /\ Beside(es, ds, i) /\ Alike(calls, es, TabKinds)
        /\ Closes(i, ok) => \A j \in Slots : ~Boxed(es, j)
  BY <1>2, <1>3, DeliveredCalls
<1>6. SUFFICES Waits(ds, t2) /\ (Outdated(t2) \/ Shown(ds, t2, users, cases, made))
  BY <1>3, <1>4 DEF TabInv
<1>7. /\ \A j \in Slots, kind \in TabKinds :
           /\ Live(ds, j, kind) <=> j # i /\ Live(calls, j, kind)
      /\ \A j \in Slots : Boxed(ds, j) => j # i /\ Boxed(calls, j) /\ ~Closes(i, ok)
      /\ ~Closes(i, ok) => \A j \in Slots \ {i} : Boxed(calls, j) => Boxed(ds, j) /\ ds[j] = calls[j]
  <2>1. \A kind : ~Live(ds, i, kind)
    BY <1>5 DEF Live
  <2>2. ASSUME NEW j \in Slots, NEW kind \in TabKinds
        PROVE  Live(ds, j, kind) <=> j # i /\ Live(calls, j, kind)
    <3>1. Live(es, j, kind) <=> Live(calls, j, kind)
      BY <1>5 DEF Alike
    <3>2. CASE j = i
      BY <2>1, <3>2
    <3>3. CASE j # i
      BY <1>5, <3>1, <3>3, BesideSame
    <3> QED
      BY <3>2, <3>3
  <2>3. \A j \in Slots : Boxed(ds, j) => j # i /\ Boxed(calls, j) /\ ~Closes(i, ok)
    BY <1>5 DEF Boxed, Beside
  <2>4. ~Closes(i, ok) => \A j \in Slots \ {i} : Boxed(calls, j) => Boxed(ds, j) /\ ds[j] = calls[j]
    BY <1>5 DEF Boxed, Beside
  <2> QED
    BY <2>2, <2>3, <2>4
<1>8. Boxed(calls, i) => call.tab
  BY <1>1, <1>3 DEF Waits
<1>9. /\ Closes(i, ok) <=> ok /\ tab.form /\ call.kind \in {"createUser", "createCase"}
      /\ call.kind \in {"createUser", "createCase"} /\ call.box <=> Boxed(calls, i)
      /\ ok => Live(calls, i, call.kind)
      /\ ok /\ call.kind \in TabKinds => call.tab
  <2>1. ok => Live(calls, i, call.kind)
    BY <1>2, <1>3 DEF Done
  <2>2. ok /\ call.kind \in TabKinds => call.tab
    BY <1>3, <2>1, LiveTab
  <2> QED
    BY <1>2, <1>3, <2>1, <2>2 DEF Closes, Boxed
<1>10. ASSUME NEW kind \in TabKinds
       PROVE  /\ Live(calls, i, kind) <=> call.kind = kind /\ call.tab
              /\ kind \in UserKinds /\ call.kind = kind /\ call.tab => tab.name = "users"
              /\ kind \in CaseKinds /\ call.kind = kind /\ call.tab => tab.name = "cases"
  BY <1>1, <1>2, <1>3, LiveTab DEF Waits
<1>11. {"users", "createUser", "deleteUser", "cases", "createCase", "toggle"} \subseteq TabKinds
       /\ tab.name \in {"users", "cases"} /\ tab.name \in TabKinds
  BY <1>1 DEF Tabs, TabKinds, UserKinds, CaseKinds
\* What the answer does to the tab.
<1>12. /\ t2.name = tab.name /\ t2.raced = tab.raced
       /\ ~(call.tab /\ call.kind \in {"users", "cases"}) =>
            t2.loading = tab.loading /\ t2.error = tab.error
       /\ call.tab /\ call.kind \in {"users", "cases"} =>
            /\ t2.loading = FALSE /\ t2.error = ~ok /\ t2.saving = tab.saving /\ t2.form = tab.form
            /\ ok => t2.rows = rows
       /\ call.tab /\ ok /\ call.kind \in {"createUser", "createCase"} =>
            t2.rows = tab.rows \cup rows /\ t2.saving = FALSE /\ t2.form = FALSE
       /\ call.tab /\ ~ok /\ call.kind \in {"createUser", "createCase"} =>
            t2.rows = tab.rows /\ t2.saving = (tab.saving /\ ~call.box) /\ t2.form = tab.form
       /\ call.tab /\ call.kind = "deleteUser" =>
            t2.rows = {r \in tab.rows : ~ok \/ r.id # call.id}
       /\ call.tab /\ call.kind = "toggle" =>
            t2.rows = IF ok THEN Replaced(tab.rows, rows) ELSE tab.rows
       /\ ~call.tab \/ call.kind \notin {"createUser", "createCase"} =>
            t2.saving = tab.saving /\ t2.form = tab.form
       /\ ~call.tab \/ call.kind \notin TabKinds => t2.rows = tab.rows
  <2>1. CASE ~call.tab \/ call.kind \notin TabKinds
    <3>1. t2 = tab
      BY <1>4, <1>11, <2>1 DEF TabAnswered
    <3> QED
      BY <1>11, <2>1, <3>1
  <2>2. CASE call.tab /\ call.kind \in {"users", "cases"}
    <3>1. t2 = [tab EXCEPT !.loading = FALSE, !.error = ~ok, !.rows = IF ok THEN rows ELSE @]
      BY <1>4, <2>2 DEF TabAnswered
    <3> QED
      BY <1>1, <1>11, <2>2, <3>1 DEF Tabs
  <2>3. CASE call.tab /\ call.kind \in {"createUser", "createCase"} /\ ok
    <3>1. t2 = [tab EXCEPT !.form = FALSE, !.saving = FALSE, !.rows = @ \cup rows]
      BY <1>4, <2>3 DEF TabAnswered
    <3> QED
      BY <1>1, <1>11, <2>3, <3>1 DEF Tabs
  <2>4. CASE call.tab /\ call.kind \in {"createUser", "createCase"} /\ ~ok
    <3>1. t2 = [tab EXCEPT !.saving = @ /\ ~call.box]
      BY <1>4, <2>4 DEF TabAnswered
    <3> QED
      BY <1>1, <1>11, <2>4, <3>1 DEF Tabs
  <2>5. CASE call.tab /\ call.kind = "deleteUser"
    <3>1. t2 = [tab EXCEPT !.rows = {r \in @ : ~ok \/ r.id # call.id}]
      BY <1>4, <2>5 DEF TabAnswered
    <3> QED
      BY <1>1, <1>11, <2>5, <3>1 DEF Tabs
  <2>6. CASE call.tab /\ call.kind = "toggle"
    <3>1. t2 = [tab EXCEPT !.rows = IF ok THEN Replaced(@, rows) ELSE @]
      BY <1>4, <2>6 DEF TabAnswered
    <3> QED
      BY <1>1, <1>11, <2>6, <3>1 DEF Tabs
  <2> QED
    BY <2>1, <2>2, <2>3, <2>4, <2>5, <2>6 DEF TabKinds, UserKinds, CaseKinds
<1>13. Waits(ds, t2)
  <2>1. /\ \A j \in Slots, kind \in UserKinds : Live(ds, j, kind) => t2.name = "users"
        /\ \A j \in Slots, kind \in CaseKinds : Live(ds, j, kind) => t2.name = "cases"
    BY <1>1, <1>7, <1>12 DEF Waits, TabKinds
  <2>2. ThatMany({j \in Slots : Live(ds, j, t2.name)}, t2.loading)
    <3> DEFINE S == {j \in Slots : Live(calls, j, tab.name)}
    <3>1. {j \in Slots : Live(ds, j, t2.name)} = S \ {i}
      BY <1>7, <1>11, <1>12
    <3>2. ThatMany(S, tab.loading)
      BY <1>1 DEF Waits
    <3>3. CASE call.tab /\ call.kind \in {"users", "cases"}
      <4>1. i \in S /\ t2.loading = FALSE
        BY <1>10, <1>11, <1>12, <3>3 DEF UserKinds, CaseKinds
      <4> QED
        BY <3>1, <3>2, <4>1 DEF ThatMany
    <3>4. CASE ~(call.tab /\ call.kind \in {"users", "cases"})
      <4>1. i \notin S /\ t2.loading = tab.loading
        BY <1>10, <1>11, <1>12, <3>4
      <4> QED
        BY <3>1, <3>2, <4>1 DEF ThatMany
    <3> QED
      BY <3>3, <3>4
  <2>3. ThatMany({j \in Slots : Boxed(ds, j)}, t2.saving) /\ (t2.saving => t2.form)
    <3> DEFINE S == {j \in Slots : Boxed(calls, j)}
    <3>1. ThatMany(S, tab.saving) /\ (tab.saving => tab.form)
      BY <1>1 DEF Waits
    <3>2. CASE ok /\ call.kind \in {"createUser", "createCase"}
      <4>1. t2.saving = FALSE
        BY <1>9, <1>11, <1>12, <3>2
      <4>2. \A j \in Slots : ~Boxed(ds, j)
        BY <1>7, <1>9, <3>1, <3>2 DEF ThatMany
      <4> QED
        BY <4>1, <4>2 DEF ThatMany
    <3>3. CASE ~(ok /\ call.kind \in {"createUser", "createCase"})
      <4>1. {j \in Slots : Boxed(ds, j)} = S \ {i}
        BY <1>7, <1>9, <3>3
      <4>2. CASE Boxed(calls, i)
        <5>1. t2.saving = FALSE
          BY <1>8, <1>9, <1>12, <3>3, <4>2
        <5> QED
          BY <3>1, <4>1, <4>2, <5>1 DEF ThatMany
      <4>3. CASE ~Boxed(calls, i)
        <5>1. (t2.saving <=> tab.saving) /\ t2.form = tab.form
          BY <1>9, <1>12, <3>3, <4>3
        <5> QED
          BY <3>1, <4>1, <4>3, <5>1 DEF ThatMany
      <4> QED
        BY <4>2, <4>3
    <3> QED
      BY <3>2, <3>3
  <2>4. \A j \in Slots : Boxed(ds, j) => ds[j].tab
    BY <1>1, <1>7 DEF Waits
  <2> QED
    BY <2>1, <2>2, <2>3, <2>4 DEF Waits
<1>14. Outdated(t2) \/ Shown(ds, t2, users, cases, made)
  <2> SUFFICES ASSUME ~Outdated(t2) PROVE Shown(ds, t2, users, cases, made)
    OBVIOUS
  \* Nobody takes it, or it is about something else.
  <2>1. CASE ~call.tab \/ call.kind \notin TabKinds
    <3>1. Shown(calls, tab, users, cases, made)
      BY <1>11, <1>12, <2>1 DEF TabInv, Outdated
    <3>2. \A kind \in TabKinds : ~Live(calls, i, kind) /\ ~Live(ds, i, kind)
      BY <1>7, <1>10, <2>1
    <3>3. Alike(calls, ds, TabKinds)
      <4>1. ASSUME NEW j \in Slots, NEW kind \in TabKinds, Live(calls, j, kind)
            PROVE  ds[j].id = calls[j].id /\ ds[j].on = calls[j].on /\ ds[j].answer = calls[j].answer
        BY <1>5, <3>2, <4>1 DEF Alike, Beside
      <4> QED
        BY <1>7, <3>2, <4>1 DEF Alike
    <3> QED
      BY <1>1, <1>11, <1>12, <2>1, <3>1, <3>3, ShownAlike
  \* It is bad.
  <2>2. CASE call.tab /\ call.kind \in TabKinds /\ ~ok
    <3>1. call.kind \notin {"users", "cases"}
      BY <1>12, <2>2 DEF Outdated
    <3>2. Shown(calls, tab, users, cases, made) /\ Beside(calls, ds, i)
      BY <1>5, <1>9, <1>12, <2>2, <3>1 DEF TabInv, Outdated
    <3>3. t2.rows = tab.rows /\ t2.loading = tab.loading
      BY <1>12, <2>2, <3>1 DEF TabKinds, UserKinds, CaseKinds
    <3> QED
      BY <1>1, <1>2, <1>5, <1>12, <2>2, <3>2, <3>3, ShownBeside
  \* It is the list.
  <2>3. CASE call.tab /\ call.kind \in {"users", "cases"} /\ ok
    <3>1. /\ Done(calls, i, call.kind) /\ rows = calls[i].answer.rows /\ Live(calls, i, call.kind)
          /\ tab.name = call.kind /\ t2.name = call.kind /\ t2.loading = FALSE /\ t2.rows = rows
          /\ Beside(calls, ds, i)
      BY <1>2, <1>3, <1>5, <1>9, <1>10, <1>11, <1>12, <2>3 DEF UserKinds, CaseKinds
    <3>2. tab.loading
      BY <1>1, <3>1 DEF Waits, ThatMany
    <3>3. Shown(calls, tab, users, cases, made)
      BY <1>12, <3>2 DEF TabInv, Outdated
    <3>4. calls[i].answer # NoAnswer
      BY <3>1 DEF Done
    <3>5. CASE call.kind = "users"
      <4>1. Blank(calls, "users", "createUser", "deleteUser", users, tab.rows)
        BY <3>1, <3>2, <3>3, <3>5 DEF Shown
      <4>2. rows = users
        BY <3>1, <3>4, <3>5, <4>1 DEF Blank
      <4>3. Blank(ds, "users", "createUser", "deleteUser", users, tab.rows)
        <5>1. NoNews(calls, ds, "createUser", "deleteUser")
          BY <1>5, <3>1, <3>5, BesideSame DEF NoNews, Live, Done
        <5>2. \A j \in Slots : Live(ds, j, "users") =>
                Live(calls, j, "users") /\ ds[j].answer = calls[j].answer
          BY <1>7, <1>11, <3>1, BesideSame
        <5> QED
          BY <4>1, <5>1, <5>2, BlankStill
      <4>4. Follows(ds, users, users, "createUser", "deleteUser", made)
        BY <4>3, FollowsLoaded
      <4> QED
        BY <3>1, <3>5, <4>2, <4>4 DEF Shown
    <3>6. CASE call.kind = "cases"
      <4>1. Blank(calls, "cases", "createCase", "toggle", cases, tab.rows)
        BY <3>1, <3>2, <3>3, <3>6 DEF Shown
      <4>2. rows = cases
        BY <3>1, <3>4, <3>6, <4>1 DEF Blank
      <4>3. Blank(ds, "cases", "createCase", "toggle", cases, tab.rows)
        <5>1. NoNews(calls, ds, "createCase", "toggle")
          BY <1>5, <3>1, <3>6, BesideSame DEF NoNews, Live, Done
        <5>2. \A j \in Slots : Live(ds, j, "cases") =>
                Live(calls, j, "cases") /\ ds[j].answer = calls[j].answer
          BY <1>7, <1>11, <3>1, BesideSame
        <5> QED
          BY <4>1, <5>1, <5>2, BlankStill
      <4>4. Mirrors(ds, cases, cases)
        BY <4>3, MirrorsLoaded
      <4> QED
        BY <3>1, <3>6, <4>2, <4>4 DEF Shown
    <3> QED
      BY <2>3, <3>5, <3>6
  \* It says that a table has changed.
  <2>4. CASE call.tab /\ call.kind \in TabKinds \ {"users", "cases"} /\ ok
    <3>1. /\ Done(calls, i, call.kind) /\ rows = calls[i].answer.rows /\ Live(calls, i, call.kind)
          /\ t2.name = tab.name /\ t2.loading = tab.loading
          /\ Shown(calls, tab, users, cases, made)
      BY <1>2, <1>3, <1>9, <1>12, <2>4 DEF TabInv, Outdated
    <3>2. ~tab.loading
      BY <1>11, <2>4, <3>1, <1>10 DEF Shown, Blank, TabKinds, UserKinds, CaseKinds
    <3>3. Shown(es, tab, users, cases, made)
      BY <1>1, <1>5, <3>1, ShownAlike
    <3>4. /\ Done(es, i, call.kind) /\ es[i].answer.rows = rows /\ es[i].id = call.id
      <4>1. Live(es, i, call.kind) /\ es[i].answer = calls[i].answer /\ es[i].id = call.id
        BY <1>3, <1>5, <2>4, <3>1 DEF Alike
      <4> QED
        BY <3>1, <4>1 DEF Done
    <3>5. CASE call.kind = "createUser"
      <4>1. tab.name = "users" /\ t2.rows = tab.rows \cup rows
        BY <1>10, <1>11, <1>12, <2>4, <3>5 DEF UserKinds
      <4>2. Follows(es, users, tab.rows, "createUser", "deleteUser", made)
        BY <3>2, <3>3, <4>1 DEF Shown
      <4>3. Follows(ds, users, tab.rows \cup rows, "createUser", "deleteUser", made)
        BY <1>1, <1>5, <3>4, <3>5, <4>2, FollowsTold
      <4> QED
        BY <3>1, <3>2, <4>1, <4>3 DEF Shown
    <3>6. CASE call.kind = "deleteUser"
      <4>1. tab.name = "users" /\ t2.rows = {r \in tab.rows : r.id # es[i].id}
        BY <1>10, <1>11, <1>12, <2>4, <3>4, <3>6 DEF UserKinds
      <4>2. Follows(es, users, tab.rows, "createUser", "deleteUser", made)
        BY <3>2, <3>3, <4>1 DEF Shown
      <4>3. Follows(ds, users, {r \in tab.rows : r.id # es[i].id}, "createUser", "deleteUser", made)
        BY <1>1, <1>5, <3>4, <3>6, <4>2, FollowsStruck
      <4> QED
        BY <3>1, <3>2, <4>1, <4>3 DEF Shown
    <3>7. CASE call.kind = "createCase"
      <4>1. tab.name = "cases" /\ t2.rows = tab.rows \cup rows
        BY <1>10, <1>11, <1>12, <2>4, <3>7 DEF CaseKinds
      <4>2. Mirrors(es, cases, tab.rows)
        BY <3>2, <3>3, <4>1 DEF Shown
      <4>3. Mirrors(ds, cases, tab.rows \cup rows)
        BY <1>5, <3>4, <3>7, <4>2, MirrorsTold
      <4> QED
        BY <3>1, <3>2, <4>1, <4>3 DEF Shown
    <3>8. CASE call.kind = "toggle"
      <4>1. tab.name = "cases" /\ t2.rows = Replaced(tab.rows, rows)
        BY <1>10, <1>11, <1>12, <2>4, <3>8 DEF CaseKinds
      <4>2. Mirrors(es, cases, tab.rows)
        BY <3>2, <3>3, <4>1 DEF Shown
      <4>3. Mirrors(ds, cases, Replaced(tab.rows, rows))
        BY <1>5, <3>4, <3>8, <4>2, MirrorsShown DEF KeysUnique
      <4> QED
        BY <3>1, <3>2, <4>1, <4>3 DEF Shown
    <3> QED
      BY <2>4, <3>5, <3>6, <3>7, <3>8 DEF TabKinds, UserKinds, CaseKinds
  <2> QED
    BY <1>11, <2>1, <2>2, <2>3, <2>4
<1> QED
  BY <1>13, <1>14

-----------------------------------------------------------------------------
(* What the dialogue of the assignments shows *)

AssignedTo(as, case) == {a \in as : a.case = case.no}

BoxShown(cs, md, as, last) ==
  md # NoAnswer =>
    \/ md.raced
    \/ IF md.loading
       THEN Blank(cs, "assignments", "assign", "unassign", AssignedTo(as, md.case), md.rows)
       ELSE md.loaded =>
              Follows(cs, AssignedTo(as, md.case), md.rows, "assign", "unassign", last)

ModalInv == BoxWaits(calls, modal, tab) /\ BoxShown(calls, modal, assignments, made)

\* Nothing the dialogue waits for, and nothing it shows, changes.
LEMMA BoxShownStill ==
  ASSUME NEW cs, NEW ds, NEW md, NEW m2, md # NoAnswer => NoNews(cs, ds, "assign", "unassign"),
         md # NoAnswer => \A i \in Slots : Live(ds, i, "assignments") =>
           Live(cs, i, "assignments") /\ ds[i].answer = cs[i].answer,
         m2 # NoAnswer =>
           /\ md # NoAnswer /\ m2.case = md.case /\ m2.loading = md.loading
           /\ m2.loaded = md.loaded /\ m2.rows = md.rows /\ (md.raced => m2.raced),
         NEW as, NEW last \in Nat, NEW m \in Nat, last <= m, BoxShown(cs, md, as, last)
  PROVE  BoxShown(ds, m2, as, m)
<1>1. SUFFICES ASSUME m2 # NoAnswer, ~m2.raced
               PROVE  IF m2.loading
                      THEN Blank(ds, "assignments", "assign", "unassign",
                                 AssignedTo(as, m2.case), m2.rows)
                      ELSE m2.loaded => Follows(ds, AssignedTo(as, m2.case), m2.rows,
                                                "assign", "unassign", m)
  BY DEF BoxShown
<1>2. CASE md.loading
  <2>1. Blank(cs, "assignments", "assign", "unassign", AssignedTo(as, md.case), md.rows)
    BY <1>1, <1>2 DEF BoxShown
  <2> QED
    BY <1>1, <1>2, <2>1, BlankStill
<1>3. CASE ~md.loading
  <2>1. md.loaded => Follows(cs, AssignedTo(as, md.case), md.rows, "assign", "unassign", last)
    BY <1>1, <1>3 DEF BoxShown
  <2> QED
    BY <1>1, <1>3, <2>1, FollowsStill
<1> QED
  BY <1>2, <1>3

LEMMA BoxShownAlike ==
  ASSUME NEW cs, NEW ds, NEW md, NEW m2, md # NoAnswer => Alike(cs, ds, ModalKinds),
         m2 # NoAnswer =>
           /\ md # NoAnswer /\ m2.case = md.case /\ m2.loading = md.loading
           /\ m2.loaded = md.loaded /\ m2.rows = md.rows /\ (md.raced => m2.raced),
         NEW as, NEW last \in Nat, NEW m \in Nat, last <= m, BoxShown(cs, md, as, last)
  PROVE  BoxShown(ds, m2, as, m)
<1>1. {"assignments", "assign", "unassign"} \subseteq ModalKinds
  BY DEF ModalKinds
<1>2. md # NoAnswer => NoNews(cs, ds, "assign", "unassign")
  BY <1>1, AlikeIsNoNews
<1>3. md # NoAnswer => \A i \in Slots : Live(ds, i, "assignments") =>
        Live(cs, i, "assignments") /\ ds[i].answer = cs[i].answer
  BY <1>1 DEF Alike
<1> QED
  BY <1>2, <1>3, BoxShownStill

\* What the administrator does: the dialogue.
LEMMA ClickModal ==
  ASSUME TypeInv, ModalInv, IdsGiven,
         \/ SetActiveTab \/ OpenForm \/ CloseForm \/ handleSubmit
         \/ handleDelete \/ handleToggleStatus
         \/ OpenAssignments \/ CloseAssignments \/ handleAssign \/ handleRemove
  PROVE  ModalInv'
<1>1. /\ CallsOk(calls) /\ tab \in Tabs /\ made \in Nat /\ BoxWaits(calls, modal, tab)
      /\ BoxShown(calls, modal, assignments, made) /\ UNCHANGED <<assignments, made>>
  BY DEF TypeInv, ModalInv, SetActiveTab, OpenForm, CloseForm, handleSubmit, handleDelete,
     handleToggleStatus, OpenAssignments, CloseAssignments, handleAssign, handleRemove, tables
<1>2. PICK ds, m2 : ds = calls' /\ m2 = modal'
  OBVIOUS
<1>3. SUFFICES BoxWaits(ds, m2, tab') /\ BoxShown(ds, m2, assignments, made)
  BY <1>1, <1>2 DEF ModalInv
<1>4. ASSUME m2 = NoAnswer, \A j \in Slots, kind \in ModalKinds : ~Live(ds, j, kind)
      PROVE  BoxWaits(ds, m2, tab') /\ BoxShown(ds, m2, assignments, made)
  BY <1>4 DEF BoxWaits, BoxShown
<1>5. modal = NoAnswer => \A j \in Slots, kind \in ModalKinds : ~Live(calls, j, kind)
  BY <1>1 DEF BoxWaits
<1>6. /\ tab.form => modal = NoAnswer
      /\ modal # NoAnswer => modal \in Modals /\ ~tab.form
  BY <1>1 DEF BoxWaits, TypeInv
<1>7. CASE SetActiveTab
  <2>1. PICK cs : cs = Orphaned("tab")
    OBVIOUS
  <2>2. PICK i \in Slots, name \in {"users", "cases"} : Asks(cs, ds, i, name, NoAnswer, 0)
    BY <1>2, <1>7, <2>1, Clicks
  <2>3. m2 = NoAnswer /\ modal = NoAnswer
    BY <1>2, <1>7 DEF SetActiveTab, Clickable
  <2>4. \A j \in Slots, kind \in ModalKinds : ~Live(cs, j, kind)
    BY <1>1, <1>5, <2>1, <2>3, TabGone
  <2>5. \A j \in Slots, kind \in ModalKinds : ~Live(ds, j, kind)
    BY <2>2, <2>4, AskedLive DEF Asks, ModalKinds
  <2> QED
    BY <1>4, <2>3, <2>5
<1>8. CASE OpenForm
  BY <1>2, <1>4, <1>5, <1>8 DEF OpenForm, Clickable
<1>9. CASE CloseForm \/ CloseAssignments
  <2>1. m2 = NoAnswer
    BY <1>2, <1>6, <1>9 DEF CloseForm, CloseAssignments
  <2>2. \A j \in Slots, kind \in ModalKinds : ~Live(ds, j, kind)
    BY <1>1, <1>2, <1>9, BoxGone DEF CloseForm, CloseAssignments
  <2> QED
    BY <1>4, <2>1, <2>2
<1>10. CASE handleSubmit \/ handleDelete \/ handleToggleStatus
  <2>1. m2 = NoAnswer /\ modal = NoAnswer
    BY <1>2, <1>6, <1>10 DEF handleSubmit, handleDelete, handleToggleStatus, Clickable, client
  <2>2. PICK i \in Slots : /\ calls[i] = NoAnswer /\ ds[i] # NoAnswer /\ Beside(calls, ds, i)
                           /\ ds[i].tab
                           /\ ds[i].kind \in {"createUser", "createCase", "deleteUser", "toggle"}
    BY <1>2, <1>10, Clicks DEF Asks
  <2>3. \A j \in Slots, kind \in ModalKinds : ~Live(ds, j, kind)
    BY <1>5, <2>1, <2>2, AskedLive DEF ModalKinds
  <2> QED
    BY <1>4, <2>1, <2>3
<1>11. CASE OpenAssignments
  <2>1. PICK i \in Slots, c \in CaseRows :
          Asks(calls, ds, i, "assignments", c.no, 0) /\ m2 = MountedModal(c)
    BY <1>2, <1>11, Clicks
  <2>2. /\ m2.case = c /\ m2.rows = {} /\ m2.loading = TRUE /\ m2.saving = FALSE
        /\ m2 # NoAnswer
    BY <2>1, MountedTyped, NullAssumption DEF MountedModal
  <2>3. modal = NoAnswer /\ tab' = tab /\ ~tab.form
    BY <1>11 DEF OpenAssignments, Clickable
  <2>4. /\ calls[i] = NoAnswer /\ ds[i] # NoAnswer /\ Beside(calls, ds, i) /\ ds[i].tab
        /\ ds[i].kind = "assignments" /\ ds[i].box /\ ds[i].on = c.no /\ ds[i].answer = NoAnswer
    BY <2>1 DEF Asks
  <2>5. \A j \in Slots, kind \in ModalKinds : Live(ds, j, kind) <=> j = i /\ kind = "assignments"
    BY <1>5, <2>3, <2>4, AskedLive
  <2>6. /\ {j \in Slots : Live(ds, j, "assignments")} = {i}
        /\ {j \in Slots : Live(ds, j, "assign")} = {}
    BY <2>5 DEF ModalKinds
  <2>7. BoxWaits(ds, m2, tab')
    BY <2>2, <2>3, <2>4, <2>5, <2>6 DEF BoxWaits, ThatMany
  <2>8. BoxShown(ds, m2, assignments, made)
    <3>1. \A j \in Slots : /\ ~Live(ds, j, "unassign") /\ ~Done(ds, j, "assign")
                           /\ Live(ds, j, "assignments") => ds[j].answer = NoAnswer
      BY <2>4, <2>5, DoneIsLive DEF ModalKinds
    <3> QED
      BY <2>2, <3>1 DEF BoxShown, Blank
  <2> QED
    BY <2>7, <2>8
<1>12. CASE handleAssign
  <2>1. PICK i \in Slots : Asks(calls, ds, i, "assign", modal.case.no, 0)
    BY <1>2, <1>12, Clicks
  <2>2. /\ m2.case = modal.case /\ m2.rows = modal.rows /\ m2.loading = modal.loading
        /\ m2.loaded = modal.loaded /\ m2.saving = TRUE /\ m2.raced = modal.raced
        /\ m2 # NoAnswer /\ modal # NoAnswer /\ ~modal.saving /\ tab' = tab
    <3>1. modal \in Modals /\ m2 = [modal EXCEPT !.saving = TRUE]
      BY <1>2, <1>6, <1>12 DEF handleAssign
    <3>2. m2 \in Modals
      BY <3>1 DEF Modals
    <3> QED
      BY <1>12, <3>1, <3>2, NullAssumption DEF handleAssign, Modals
  <2>3. /\ calls[i] = NoAnswer /\ ds[i] # NoAnswer /\ Beside(calls, ds, i) /\ ds[i].tab
        /\ ds[i].kind = "assign" /\ ds[i].box /\ ds[i].on = modal.case.no /\ ds[i].answer = NoAnswer
    BY <2>1 DEF Asks
  <2>4. \A j \in Slots, kind \in ModalKinds :
          Live(ds, j, kind) <=> Live(calls, j, kind) \/ (j = i /\ kind = "assign")
    BY <2>3, AskedLive
  <2>5. \A j \in Slots : ~Live(calls, j, "assign")
    BY <1>1, <2>2 DEF BoxWaits, ThatMany
  <2>6. /\ {j \in Slots : Live(ds, j, "assignments")} =
             {j \in Slots : Live(calls, j, "assignments")}
        /\ {j \in Slots : Live(ds, j, "assign")} = {i}
    BY <2>4, <2>5 DEF ModalKinds
  <2>7. \A j \in Slots, kind \in ModalKinds : Live(ds, j, kind) => ds[j].on = modal.case.no
    BY <1>1, <2>2, <2>3, <2>4 DEF BoxWaits, Beside
  <2>8. BoxWaits(ds, m2, tab')
    BY <1>1, <1>6, <2>2, <2>6, <2>7 DEF BoxWaits, ThatMany
  <2>9. BoxShown(ds, m2, assignments, made)
    <3>1. NoNews(calls, ds, "assign", "unassign")
      BY <2>3, <2>4, BesideSame DEF NoNews, Live, Done, ModalKinds
    <3>2. \A j \in Slots : Live(ds, j, "assignments") =>
            Live(calls, j, "assignments") /\ ds[j].answer = calls[j].answer
      BY <2>3, BesideSame DEF Live
    <3> QED
      BY <1>1, <2>2, <3>1, <3>2, BoxShownStill
  <2> QED
    BY <2>8, <2>9
<1>13. CASE handleRemove
  <2>1. PICK i \in Slots, a \in modal.rows : Asks(calls, ds, i, "unassign", modal.case.no, a.id)
    BY <1>2, <1>13, Clicks
  <2>2. m2 = modal /\ modal # NoAnswer /\ tab' = tab
    BY <1>2, <1>13 DEF handleRemove, client
  <2>3. /\ calls[i] = NoAnswer /\ ds[i] # NoAnswer /\ Beside(calls, ds, i) /\ ds[i].tab
        /\ ds[i].kind = "unassign" /\ ds[i].box /\ ds[i].on = modal.case.no
        /\ ds[i].answer = NoAnswer /\ ds[i].id = a.id
    BY <2>1 DEF Asks
  <2>4. \A j \in Slots, kind \in ModalKinds :
          Live(ds, j, kind) <=> Live(calls, j, kind) \/ (j = i /\ kind = "unassign")
    BY <2>3, AskedLive
  <2>5. /\ {j \in Slots : Live(ds, j, "assignments")} =
             {j \in Slots : Live(calls, j, "assignments")}
        /\ {j \in Slots : Live(ds, j, "assign")} = {j \in Slots : Live(calls, j, "assign")}
    BY <2>4 DEF ModalKinds
  <2>6. \A j \in Slots, kind \in ModalKinds : Live(ds, j, kind) => ds[j].on = modal.case.no
    BY <1>1, <2>2, <2>3, <2>4 DEF BoxWaits, Beside
  <2>7. BoxWaits(ds, m2, tab')
    BY <1>1, <2>2, <2>5, <2>6 DEF BoxWaits
  <2>8. BoxShown(ds, m2, assignments, made)
    <3> DEFINE T == AssignedTo(assignments, modal.case)
    <3>1. ~Blank(calls, "assignments", "assign", "unassign", T, modal.rows)
      BY DEF Blank
    <3>2. ASSUME Follows(calls, T, modal.rows, "assign", "unassign", made)
          PROVE  Follows(ds, T, modal.rows, "assign", "unassign", made)
      <4>1. \A t \in T : t.id \in Nat /\ t.id <= made
        BY DEF IdsGiven, AssignedTo
      <4> HIDE DEF T
      <4> QED
        BY <1>1, <2>3, <3>2, <4>1, FollowsAsked
    <3> QED
      BY <1>1, <2>2, <3>1, <3>2 DEF BoxShown
  <2> QED
    BY <2>7, <2>8
<1> QED
  BY <1>7, <1>8, <1>9, <1>10, <1>11, <1>12, <1>13

\* The service changes a table, and announces it to the dialogue if that asked for it.
LEMMA ServiceModal ==
  ASSUME TypeInv, Waits(calls, tab), ModalInv, IdsGiven, KeysUnique, NEW i \in Slots,
         \/ create_user(i) \/ delete_user(i) \/ create_case(i) \/ update_case_status(i)
         \/ create_assignment(i) \/ delete_assignment(i)
  PROVE  ModalInv'
<1>1. /\ made \in Nat /\ BoxWaits(calls, modal, tab) /\ BoxShown(calls, modal, assignments, made)
      /\ (Boxed(calls, i) => calls[i].tab)
  BY DEF TypeInv, ModalInv, Waits
<1>2. calls[i] # NoAnswer /\ calls[i].answer = NoAnswer
  BY <1>1, ServiceTypes
<1>3. PICK ds, m2 : ds = calls' /\ m2 = modal'
  OBVIOUS
<1>4. ASSUME NEW rows, rows \subseteq RowsFor(calls[i].kind), Changed(i, rows)
      PROVE  /\ Beside(calls, ds, i) /\ tab'.form = tab.form
             /\ m2 = NoAnswer <=> modal = NoAnswer
             /\ modal # NoAnswer => /\ m2.case = modal.case /\ m2.rows = modal.rows
                                    /\ m2.loading = modal.loading /\ m2.loaded = modal.loaded
                                    /\ m2.saving = modal.saving /\ (modal.raced => m2.raced)
             /\ \A kind : \A j \in Slots : Live(ds, j, kind) <=> Live(calls, j, kind)
             /\ \A kind : \A j \in Slots : Live(calls, j, kind) =>
                  ds[j].id = calls[j].id /\ ds[j].on = calls[j].on
             /\ modal # NoAnswer /\ ~m2.raced =>
                  /\ ~modal.loading /\ calls[i].box
                  /\ Awaited(calls[i]) =>
                       Done(ds, i, calls[i].kind) /\ ds[i].answer.rows = rows
  BY <1>1, <1>2, <1>3, <1>4, ChangedFacts
<1>5. PICK rows : rows \subseteq RowsFor(calls[i].kind) /\ Changed(i, rows)
  BY <1>1, ServiceTypes
<1>6. BoxWaits(ds, m2, tab')
  BY <1>1, <1>4, <1>5, BoxWaitsAlike
<1>7. SUFFICES BoxShown(ds, m2, assignments', made')
  BY <1>3, <1>6 DEF ModalInv
<1>8. CASE create_user(i) \/ delete_user(i) \/ create_case(i) \/ update_case_status(i)
  <2>1. /\ assignments' = assignments /\ made' \in Nat /\ made <= made'
        /\ calls[i].kind \in TabKinds
    BY <1>1, <1>8 DEF create_user, delete_user, create_case, update_case_status, Asked,
       TabKinds, UserKinds, CaseKinds
  <2>2. \A kind \in ModalKinds : ~Live(calls, i, kind) /\ ~Live(ds, i, kind)
    BY <1>4, <1>5, <2>1, KindsDiffer DEF Live
  <2>3. Alike(calls, ds, ModalKinds)
    BY <1>4, <1>5, <2>2, BesideIsAlike
  <2> QED
    BY <1>1, <1>4, <1>5, <2>1, <2>3, BoxShownAlike
<1>9. CASE create_assignment(i) \/ delete_assignment(i)
  <2>1. SUFFICES ASSUME m2 # NoAnswer, ~m2.raced, m2.loaded
                 PROVE  Follows(ds, AssignedTo(assignments', m2.case), m2.rows,
                                "assign", "unassign", made')
    BY <1>4, <1>5 DEF BoxShown
  <2>2. PICK no, T, R : /\ no = modal.case.no /\ T = AssignedTo(assignments, modal.case)
                        /\ R = modal.rows
    OBVIOUS
  <2>3. /\ modal # NoAnswer /\ m2.case = modal.case /\ m2.rows = R /\ ~modal.raced
        /\ ~modal.loading /\ modal.loaded /\ calls[i].box /\ Beside(calls, ds, i)
    BY <1>4, <1>5, <2>1, <2>2
  <2>4. Follows(calls, T, R, "assign", "unassign", made)
    BY <1>1, <2>2, <2>3 DEF BoxShown
  <2>5. ASSUME NEW kind \in ModalKinds, calls[i].kind = kind
        PROVE  /\ Live(calls, i, kind) /\ Awaited(calls[i]) /\ calls[i].on = no
               /\ ds[i].kind = kind /\ ds[i].id = calls[i].id
    <3>1. Live(calls, i, kind)
      BY <1>2, <2>3, <2>5, LiveModal
    <3>2. Live(ds, i, kind) /\ ds[i].id = calls[i].id
      BY <1>4, <1>5, <3>1
    <3> QED
      BY <1>1, <2>2, <2>3, <3>1, <3>2 DEF Live, BoxWaits
  <2>6. \A t \in T : t.id \in Nat /\ t.id <= made
    BY <2>2 DEF IdsGiven, AssignedTo
  <2>7. "assign" \in ModalKinds /\ "unassign" \in ModalKinds
    BY DEF ModalKinds
  <2>8. CASE create_assignment(i)
    <3> DEFINE new == Assignment(i)
    <3>1. /\ assignments' = assignments \cup {new} /\ made' = made + 1 /\ Changed(i, {new})
          /\ calls[i].kind = "assign"
      BY <2>8 DEF create_assignment, Asked
    <3>2. new.id = made + 1 /\ new.case = calls[i].on
      BY DEF Assignment
    <3>3. new \in AssignmentRows
      <4>1. new \in assignments'
        BY <3>1
      <4> QED
        BY <1>1, <2>8, <4>1, ServiceTypes DEF TypeInv
    <3> HIDE DEF new
    <3>4. {new} \subseteq RowsFor(calls[i].kind)
      BY <3>1, <3>3, RowsForKinds
    <3>5. /\ Done(ds, i, "assign") /\ ds[i].answer.rows = {new} /\ ds[i].kind = "assign"
          /\ calls[i].on = no
      BY <1>4, <2>1, <2>3, <2>5, <2>7, <3>1, <3>4
    <3>6. AssignedTo(assignments', m2.case) = T \cup {new}
      BY <2>2, <2>3, <3>1, <3>2, <3>5 DEF AssignedTo
    <3>7. Follows(ds, T \cup {new}, R, "assign", "unassign", made + 1)
      BY <1>1, <1>2, <2>3, <2>4, <2>6, <3>1, <3>2, <3>5, FollowsAdded
    <3> QED
      BY <2>3, <3>1, <3>6, <3>7
  <2>9. CASE delete_assignment(i)
    <3>1. PICK a \in assignments :
            a.id = calls[i].id /\ a.case = calls[i].on /\ assignments' = assignments \ {a}
      BY <2>9 DEF delete_assignment
    <3>2. Changed(i, {}) /\ calls[i].kind = "unassign" /\ made' = made
      BY <2>9 DEF delete_assignment, Asked
    <3>3. /\ Live(calls, i, "unassign") /\ Done(ds, i, "unassign") /\ ds[i].id = calls[i].id
          /\ calls[i].on = no
      BY <1>4, <2>1, <2>3, <2>5, <2>7, <3>2
    <3>4. a \in T /\ AssignedTo(assignments', m2.case) = T \ {a}
      BY <2>2, <2>3, <3>1, <3>3 DEF AssignedTo
    <3>5. \A t, u \in T : t.id = u.id => t = u
      BY <2>2 DEF KeysUnique, AssignedTo
    <3>6. Follows(ds, T \ {a}, R, "assign", "unassign", made)
      BY <1>1, <1>2, <2>3, <2>4, <3>1, <3>3, <3>4, <3>5, FollowsRemoved
    <3> QED
      BY <2>3, <3>2, <3>4, <3>6
  <2> QED
    BY <1>9, <2>8, <2>9
<1> QED
  BY <1>8, <1>9

\* A list is answered: what the dialogue waits for are the assignments as they are now.
LEMMA ListModal ==
  ASSUME TypeInv, Waits(calls, tab), ModalInv, NEW i \in Slots, List(i)
  PROVE  ModalInv'
<1>1. /\ made \in Nat /\ BoxWaits(calls, modal, tab) /\ BoxShown(calls, modal, assignments, made)
      /\ (Boxed(calls, i) => calls[i].tab)
  BY DEF TypeInv, ModalInv, Waits
<1>2. PICK ds : ds = calls'
  OBVIOUS
<1>3. /\ UNCHANGED <<assignments, made, tab, modal>>
      /\ calls[i] # NoAnswer /\ calls[i].kind \in Reads /\ Beside(calls, ds, i)
      /\ \A kind : \A j \in Slots : Live(ds, j, kind) <=> Live(calls, j, kind)
      /\ \A kind : \A j \in Slots : Live(calls, j, kind) => ds[j].on = calls[j].on
      /\ Awaited(calls[i]) =>
           /\ Done(ds, i, calls[i].kind)
           /\ calls[i].kind = "assignments" =>
                ds[i].answer.rows = {a \in assignments : a.case = calls[i].on}
  BY <1>1, <1>2, ListFacts
<1>4. BoxWaits(ds, modal, tab)
  BY <1>1, <1>3, BoxWaitsAlike
<1>5. SUFFICES BoxShown(ds, modal, assignments, made)
  BY <1>2, <1>3, <1>4 DEF ModalInv
<1>6. CASE modal # NoAnswer /\ Live(calls, i, "assignments")
  <2>1. modal.loading /\ calls[i].on = modal.case.no
    BY <1>1, <1>6 DEF BoxWaits, ThatMany, ModalKinds
  <2>2. /\ calls[i].kind = "assignments" /\ ds[i].kind = "assignments" /\ ds[i].answer.ok
        /\ ds[i].answer.rows = AssignedTo(assignments, modal.case)
    BY <1>3, <1>6, <2>1 DEF Live, Done, AssignedTo
  <2> QED
    BY <1>1, <1>3, <2>1, <2>2, BlankListed DEF BoxShown
<1>7. CASE modal # NoAnswer /\ ~Live(calls, i, "assignments")
  <2>1. \A kind \in ModalKinds : ~Live(calls, i, kind) /\ ~Live(ds, i, kind)
    BY <1>3, <1>7 DEF Live, ModalKinds, Reads
  <2>2. Alike(calls, ds, ModalKinds)
    BY <1>3, <2>1, BesideIsAlike
  <2> QED
    BY <1>1, <2>2, BoxShownAlike
<1>8. CASE modal = NoAnswer
  BY <1>8 DEF BoxShown
<1> QED
  BY <1>6, <1>7, <1>8

\* An answer is taken by the dialogue, or by nobody.
LEMMA DeliverModal ==
  ASSUME TypeInv, Waits(calls, tab), ModalInv, NEW i \in Slots, Answered(i) \/ Refused(i)
  PROVE  ModalInv'
<1>1. /\ made \in Nat /\ BoxWaits(calls, modal, tab) /\ BoxShown(calls, modal, assignments, made)
      /\ tab \in Tabs
  BY DEF TypeInv, ModalInv
<1>2. PICK ok \in BOOLEAN, rows \in SUBSET AllRows :
        /\ Deliver(i, ok, rows) /\ calls[i] # NoAnswer /\ (~ok => rows = {})
        /\ rows \subseteq RowsFor(calls[i].kind)
        /\ ok => Done(calls, i, calls[i].kind) /\ rows = calls[i].answer.rows
        /\ ~ok => \A kind : ~Done(calls, i, kind)
  BY Taken
<1>3. PICK ds, m2, call : ds = calls' /\ m2 = modal' /\ call = calls[i]
  OBVIOUS
<1>4. /\ UNCHANGED <<assignments, made>>
      /\ m2 = IF modal # NoAnswer /\ call.box THEN ModalAnswered(call, ok, rows) ELSE modal
      /\ tab' = IF call.tab THEN TabAnswered(call, ok, rows) ELSE tab
  BY <1>2, <1>3 DEF Deliver, tables
<1>5. PICK es :
        /\ es = IF Closes(i, ok) THEN Orphaned("box") ELSE calls
        /\ ds[i] = NoAnswer /\ Beside(es, ds, i)
        /\ Closes(i, ok) => \A j \in Slots, kind \in ModalKinds : ~Live(es, j, kind)
  BY <1>2, <1>3, DeliveredCalls
<1>6. SUFFICES BoxWaits(ds, m2, tab') /\ BoxShown(ds, m2, assignments, made)
  BY <1>3, <1>4 DEF ModalInv
<1>7. CASE modal = NoAnswer
  <2>1. \A j \in Slots, kind \in ModalKinds : ~Live(es, j, kind)
    BY <1>1, <1>5, <1>7 DEF BoxWaits
  <2>2. \A j \in Slots, kind \in ModalKinds : ~Live(ds, j, kind)
    BY <1>5, <2>1 DEF Live, Beside
  <2> QED
    BY <1>4, <1>7, <2>2 DEF BoxWaits, BoxShown
<1>8. CASE modal # NoAnswer
  <2>1. modal \in Modals /\ ~tab.form
    BY <1>1, <1>8 DEF TypeInv, BoxWaits
  <2>2. Beside(calls, ds, i) /\ \A kind : ~Live(ds, i, kind)
    BY <1>5, <2>1 DEF Closes, Live
  <2>3. ~tab'.form
    BY <1>1, <1>4, <2>1 DEF TabAnswered, Tabs
  <2>4. \A kind \in ModalKinds : Live(calls, i, kind) <=> call.kind = kind /\ call.box
    BY <1>2, <1>3, LiveModal
  <2>5. \A j \in Slots, kind \in ModalKinds :
          Live(ds, j, kind) <=> j # i /\ Live(calls, j, kind)
    BY <2>2, BesideSame
  \* What the answer does to the dialogue.
  <2>6. /\ m2 \in Modals
        /\ m2.case = modal.case /\ m2.raced = modal.raced
        /\ call.box /\ call.kind = "assignments" =>
             /\ m2.loading = FALSE /\ m2.loaded = ok /\ m2.saving = modal.saving
             /\ ok => m2.rows = rows
        /\ call.box /\ call.kind = "assign" =>
             /\ m2.saving = FALSE /\ m2.rows = modal.rows \cup rows
             /\ m2.loading = modal.loading /\ m2.loaded = modal.loaded
        /\ call.box /\ call.kind = "unassign" =>
             /\ m2.rows = {r \in modal.rows : ~ok \/ r.id # call.id}
             /\ m2.loading = modal.loading /\ m2.loaded = modal.loaded /\ m2.saving = modal.saving
        /\ ~call.box \/ call.kind \notin ModalKinds => m2 = modal
    <3>1. CASE ~call.box \/ call.kind \notin ModalKinds
      BY <1>4, <2>1, <3>1 DEF ModalAnswered, ModalKinds
    <3>2. CASE call.box /\ call.kind = "assignments"
      <4>1. m2 = [modal EXCEPT !.loading = FALSE, !.loaded = ok, !.rows = IF ok THEN rows ELSE @]
        BY <1>4, <1>8, <3>2 DEF ModalAnswered
      <4>2. rows \subseteq AssignmentRows
        BY <1>2, <1>3, <3>2, RowsForKinds
      <4> QED
        BY <2>1, <3>2, <4>1, <4>2 DEF Modals, ModalKinds
    <3>3. CASE call.box /\ call.kind = "assign"
      <4>1. m2 = [modal EXCEPT !.saving = FALSE, !.rows = @ \cup rows]
        BY <1>4, <1>8, <3>3 DEF ModalAnswered
      <4>2. rows \subseteq AssignmentRows
        BY <1>2, <1>3, <3>3, RowsForKinds
      <4> QED
        BY <2>1, <3>3, <4>1, <4>2 DEF Modals, ModalKinds
    <3>4. CASE call.box /\ call.kind = "unassign"
      <4>1. m2 = [modal EXCEPT !.rows = {r \in @ : ~ok \/ r.id # call.id}]
        BY <1>4, <1>8, <3>4 DEF ModalAnswered
      <4> QED
        BY <2>1, <3>4, <4>1 DEF Modals, ModalKinds
    <3> QED
      BY <3>1, <3>2, <3>3, <3>4 DEF ModalKinds
  <2>7. BoxWaits(ds, m2, tab')
    <3> DEFINE L == {j \in Slots : Live(calls, j, "assignments")}
               S == {j \in Slots : Live(calls, j, "assign")}
    <3>1. /\ {j \in Slots : Live(ds, j, "assignments")} = L \ {i}
          /\ {j \in Slots : Live(ds, j, "assign")} = S \ {i}
      BY <2>5 DEF ModalKinds
    <3>2. ThatMany(L, modal.loading) /\ ThatMany(S, modal.saving)
      BY <1>1, <1>8 DEF BoxWaits
    <3>3. ThatMany(L \ {i}, m2.loading)
      BY <2>4, <2>6, <3>2 DEF ThatMany, ModalKinds
    <3>4. ThatMany(S \ {i}, m2.saving)
      BY <2>4, <2>6, <3>2 DEF ThatMany, ModalKinds
    <3>5. \A j \in Slots, kind \in ModalKinds : Live(ds, j, kind) => ds[j].on = m2.case.no
      BY <1>1, <1>8, <2>2, <2>5, <2>6 DEF BoxWaits, Beside
    <3>6. m2 # NoAnswer
      BY <2>6, NullAssumption
    <3> QED
      BY <2>3, <3>1, <3>3, <3>4, <3>5, <3>6 DEF BoxWaits
  <2>8. BoxShown(ds, m2, assignments, made)
    <3>1. SUFFICES ASSUME ~modal.raced, m2.loading \/ m2.loaded
                   PROVE  BoxShown(ds, m2, assignments, made)
      BY <2>6 DEF BoxShown
    <3>2. PICK T : T = AssignedTo(assignments, modal.case)
      OBVIOUS
    <3>3. CASE ~call.box \/ call.kind \notin ModalKinds
      <4>1. \A kind \in ModalKinds : ~Live(calls, i, kind)
        BY <2>4, <3>3
      <4>2. Alike(calls, ds, ModalKinds)
        BY <2>2, <4>1, BesideIsAlike
      <4> QED
        BY <1>1, <2>6, <3>3, <4>2, BoxShownAlike
    \* It is the list.
    <3>4. CASE call.box /\ call.kind = "assignments"
      <4>1. ok /\ m2.loading = FALSE /\ m2.rows = rows
        BY <2>6, <3>1, <3>4
      <4>2. /\ Done(calls, i, "assignments") /\ Live(calls, i, "assignments")
            /\ rows = calls[i].answer.rows
        BY <1>2, <1>3, <2>4, <3>4, <4>1 DEF ModalKinds
      <4>3. modal.loading
        BY <1>1, <1>8, <4>2 DEF BoxWaits, ThatMany
      <4>4. Blank(calls, "assignments", "assign", "unassign", T, modal.rows)
        BY <1>1, <1>8, <3>1, <3>2, <4>3 DEF BoxShown
      <4>5. rows = T
        BY <4>2, <4>4 DEF Blank, Done
      <4>6. Blank(ds, "assignments", "assign", "unassign", T, modal.rows)
        BY <2>2, <4>4, BesideSame DEF Blank, Done
      <4>7. Follows(ds, T, T, "assign", "unassign", made)
        BY <4>6, FollowsLoaded
      <4> QED
        BY <2>6, <3>2, <4>1, <4>5, <4>7 DEF BoxShown
    \* It is bad.
    <3>5. CASE call.box /\ call.kind \in {"assign", "unassign"} /\ ~ok
      <4>1. /\ m2.rows = modal.rows /\ m2.loading = modal.loading /\ m2.loaded = modal.loaded
        BY <1>2, <2>6, <3>5
      <4>2. NoNews(calls, ds, "assign", "unassign")
        BY <1>2, <2>2, <3>5, BesideSame DEF NoNews, Done
      <4>3. \A j \in Slots : Live(ds, j, "assignments") =>
              Live(calls, j, "assignments") /\ ds[j].answer = calls[j].answer
        BY <2>2, BesideSame
      <4> QED
        BY <1>1, <1>8, <2>6, <4>1, <4>2, <4>3, BoxShownStill
    \* It says that the assignments have changed.
    <3>6. CASE call.box /\ call.kind \in {"assign", "unassign"} /\ ok
      <4>1. Done(calls, i, call.kind) /\ Live(calls, i, call.kind) /\ rows = calls[i].answer.rows
        BY <1>2, <1>3, <2>4, <3>6 DEF ModalKinds
      <4>2. ~Blank(calls, "assignments", "assign", "unassign", T, modal.rows)
        BY <3>6, <4>1 DEF Blank
      <4>3. ~modal.loading /\ modal.loaded /\ m2.loading = modal.loading
        BY <1>1, <1>8, <2>6, <3>1, <3>2, <3>6, <4>2 DEF BoxShown
      <4>4. Follows(calls, T, modal.rows, "assign", "unassign", made)
        BY <1>1, <1>8, <3>1, <3>2, <4>3 DEF BoxShown
      <4>5. Follows(ds, T, m2.rows, "assign", "unassign", made)
        <5>1. CASE call.kind = "assign"
          <6>1. m2.rows = modal.rows \cup calls[i].answer.rows /\ Done(calls, i, "assign")
            BY <2>6, <3>6, <4>1, <5>1
          <6>2. Follows(ds, T, modal.rows \cup calls[i].answer.rows, "assign", "unassign", made)
            <7>1. made \in Nat /\ ds[i] = NoAnswer /\ Beside(calls, ds, i)
              BY <1>1, <1>5, <2>2
            <7>2. "assign" # "unassign"
              OBVIOUS
            <7> QED
              BY <4>4, <6>1, <7>1, <7>2, FollowsTold
          <6> QED
            BY <6>1, <6>2
        <5>2. CASE call.kind = "unassign"
          <6>1. m2.rows = {r \in modal.rows : r.id # calls[i].id}
            BY <1>3, <2>6, <3>6, <5>2
          <6>2. /\ made \in Nat /\ ds[i] = NoAnswer /\ Beside(calls, ds, i)
                /\ Done(calls, i, "unassign")
            BY <1>1, <1>5, <2>2, <4>1, <5>2
          <6>3. "assign" # "unassign"
            OBVIOUS
          <6> QED
            BY <4>4, <6>1, <6>2, <6>3, FollowsStruck
        <5> QED
          BY <3>6, <5>1, <5>2
      <4> QED
        BY <2>6, <3>2, <4>3, <4>5 DEF BoxShown
    <3> QED
      BY <3>3, <3>4, <3>5, <3>6 DEF ModalKinds
  <2> QED
    BY <2>7, <2>8
<1> QED
  BY <1>7, <1>8

-----------------------------------------------------------------------------
(* The page shows what the tables hold *)

ConsoleInv == TypeInv /\ KeysUnique /\ TabInv /\ ModalInv

LEMMA ConsoleStarts == Init => ConsoleInv
<1> SUFFICES ASSUME Init PROVE ConsoleInv
  OBVIOUS
<1>1. PICK i, j \in Slots :
        /\ i # j
        /\ calls = [k \in Slots |-> IF k = i THEN Load("users", NoAnswer)
                                   ELSE IF k = j THEN Load("known", NoAnswer) ELSE NoAnswer]
  BY DEF Init
<1>2. PICK u \in UserRows, c \in CaseRows : users = {u} /\ cases = {c}
  BY DEF Init, UserRows, CaseRows
<1>3. assignments = {} /\ made = 1 /\ known = {} /\ tab = MountedTab("users") /\ modal = NoAnswer
  BY DEF Init
<1>4. PICK list, known0 : list = Load("users", NoAnswer) /\ known0 = Load("known", NoAnswer)
  OBVIOUS
<1>5. /\ WellFormed(list) /\ list.kind = "users" /\ list.answer = NoAnswer /\ list.tab
      /\ list # NoAnswer
  <2>1. "users" \in TabKinds
    BY DEF TabKinds, UserKinds
  <2> QED
    BY <1>4, <2>1, NewCallOk, NullAssumption DEF Load, WellFormed
<1>6. WellFormed(known0) /\ known0.kind = "known" /\ known0 # NoAnswer
  <2>1. WellFormed(known0)
    BY <1>4, NewCallOk DEF Load
  <2>2. known0.kind = "known"
    BY <1>4 DEF Load, NewCall
  <2> QED
    BY <2>1, <2>2, NullAssumption DEF WellFormed
<1>7. /\ calls[i] = list /\ calls[j] = known0
      /\ \A k \in Slots : k # i /\ k # j => calls[k] = NoAnswer
  BY <1>1, <1>4
<1>8. CallsOk(calls)
  <2>1. list \in Calls /\ known0 \in Calls
    BY <1>5, <1>6 DEF WellFormed
  <2>2. calls \in [Slots -> Calls \cup {NoAnswer}]
    BY <1>1, <1>4, <2>1
  <2> QED
    BY <1>5, <1>6, <1>7, <2>2 DEF CallsOk
<1>9. TypeInv
  BY <1>2, <1>3, <1>8, MountedTyped DEF TypeInv
<1>10. KeysUnique
  BY <1>2, <1>3 DEF KeysUnique
<1>11. /\ \A k \in Slots, kind \in TabKinds : Live(calls, k, kind) <=> k = i /\ kind = "users"
       /\ \A k \in Slots, kind \in ModalKinds : ~Live(calls, k, kind)
       /\ \A k \in Slots : ~Boxed(calls, k)
  <2>1. \A k \in Slots, kind \in TabKinds : Live(calls, k, kind) <=> k = i /\ kind = "users"
    BY <1>5, <1>6, <1>7, LiveTab, KindsDiffer
  <2>2. \A k \in Slots, kind \in ModalKinds : ~Live(calls, k, kind)
    BY <1>5, <1>6, <1>7 DEF Live, ModalKinds
  <2> QED
    BY <1>5, <1>6, <1>7, <2>1, <2>2 DEF Boxed
<1>12. TabInv
  <2>1. tab.name = "users" /\ tab.loading = TRUE /\ tab.rows = {} /\ tab.saving = FALSE
    BY <1>3 DEF MountedTab
  <2>2. {k \in Slots : Live(calls, k, tab.name)} = {i} /\ {k \in Slots : Boxed(calls, k)} = {}
    BY <1>11, <2>1 DEF TabKinds, UserKinds
  <2>3. Waits(calls, tab)
    BY <1>11, <2>1, <2>2 DEF Waits, ThatMany, TabKinds, UserKinds, CaseKinds
  <2>4. \A k \in Slots : /\ ~Done(calls, k, "createUser") /\ ~Live(calls, k, "deleteUser")
                         /\ Live(calls, k, "users") => calls[k].answer = NoAnswer
    BY <1>5, <1>7, <1>11, DoneIsLive DEF TabKinds, UserKinds
  <2>5. Shown(calls, tab, users, cases, made)
    BY <2>1, <2>4 DEF Shown, Blank
  <2> QED
    BY <2>3, <2>5 DEF TabInv
<1>13. ModalInv
  BY <1>3, <1>11 DEF ModalInv, BoxWaits, BoxShown
<1> QED
  BY <1>9, <1>10, <1>12, <1>13 DEF ConsoleInv

\* Rows are added with a new key, and changed without changing it.
LEMMA KeysKept ==
  ASSUME TypeInv, IdsGiven, KeysUnique, [Next]_vars
  PROVE  KeysUnique'
<1>1. CASE UNCHANGED <<users, cases, assignments>>
  BY <1>1 DEF KeysUnique
<1>2. ASSUME NEW i \in Slots, create_user(i) PROVE KeysUnique'
  <2> DEFINE user == [id |-> made + 1, name |-> calls[i].what, role |-> calls[i].role]
  <2>1. users' = users \cup {user} /\ user.id = made + 1
    BY <1>2 DEF create_user
  <2> HIDE DEF user
  <2> QED
    BY <1>2, <2>1 DEF create_user, KeysUnique, IdsGiven
<1>3. ASSUME NEW i \in Slots, create_case(i) PROVE KeysUnique'
  <2> DEFINE case == [no |-> calls[i].on, status |-> "OPEN"]
  <2>1. cases' = cases \cup {case} /\ \A d \in cases : d.no # case.no
    BY <1>3 DEF create_case
  <2> HIDE DEF case
  <2> QED
    BY <1>3, <2>1 DEF create_case, KeysUnique
<1>4. ASSUME NEW i \in Slots, update_case_status(i) PROVE KeysUnique'
  <2>1. PICK c, n : /\ c \in cases /\ n = [c EXCEPT !.status = calls[i].what]
                  /\ cases' = (cases \ {c}) \cup {n}
    BY <1>4 DEF update_case_status
  <2>2. c \in cases /\ n.no = c.no
    BY <2>1 DEF TypeInv, CaseRows
  <2>3. users' = users /\ assignments' = assignments
    BY <1>4 DEF update_case_status
  <2>4. \A d, e \in (cases \ {c}) \cup {n} : d.no = e.no => d = e
    BY <2>2 DEF KeysUnique
  <2> QED
    BY <2>1, <2>3, <2>4 DEF KeysUnique
<1>5. ASSUME NEW i \in Slots, create_assignment(i) PROVE KeysUnique'
  <2>1. assignments' = assignments \cup {Assignment(i)} /\ Assignment(i).id = made + 1
    BY <1>5 DEF create_assignment, Assignment
  <2> QED
    BY <1>5, <2>1 DEF create_assignment, KeysUnique, IdsGiven
<1>6. ASSUME NEW i \in Slots, delete_user(i) \/ delete_assignment(i) PROVE KeysUnique'
  BY <1>6 DEF delete_user, delete_assignment, KeysUnique
<1>7. ASSUME NEW i \in Slots, List(i) \/ Refused(i) \/ Answered(i) PROVE KeysUnique'
  BY <1>1, <1>7 DEF List, Refused, Answered, Deliver, tables
<1>8. CASE Clicked
  BY <1>1, <1>8 DEF Clicked, SetActiveTab, OpenForm, CloseForm, handleSubmit, handleDelete,
     handleToggleStatus, OpenAssignments, CloseAssignments, handleAssign, handleRemove, tables
<1>9. ASSUME NEW i \in Slots, read_case(i) \/ read_user(i) PROVE KeysUnique'
  BY <1>1, <1>9 DEF read_case, read_user, UserRead, tables
<1>10. CASE UNCHANGED vars
  BY <1>1, <1>10 DEF vars, tables
<1> QED
  BY <1>2, <1>3, <1>4, <1>5, <1>6, <1>7, <1>8, <1>9, <1>10 DEF Next, Otherwise

LEMMA ConsoleKept ==
  ASSUME ConsoleInv, IInv, [Next]_vars
  PROVE  ConsoleInv'
<1>1. /\ TypeInv /\ KeysUnique /\ TabInv /\ ModalInv /\ IdsGiven
      /\ Waits(calls, tab) /\ BoxWaits(calls, modal, tab)
  BY DEF ConsoleInv, IInv, TabInv, ModalInv
<1>2. KeysUnique'
  BY <1>1, KeysKept
<1>3. CASE Clicked
  BY <1>1, <1>2, <1>3, ClickTypes, ClickTab, ClickModal DEF ConsoleInv, Clicked
<1>4. ASSUME NEW i \in Slots, List(i) PROVE ConsoleInv'
  <2>1. Boxed(calls, i) => calls[i].tab
    BY <1>1 DEF Waits
  <2> QED
    BY <1>1, <1>2, <1>4, <2>1, ListFacts, ListTab, ListModal DEF ConsoleInv
<1>5. ASSUME NEW i \in Slots, Refused(i) \/ Answered(i) PROVE ConsoleInv'
  BY <1>1, <1>2, <1>5, DeliveredTypes, DeliverTab, DeliverModal DEF ConsoleInv
<1>6. ASSUME NEW i \in Slots,
             \/ create_user(i) \/ delete_user(i) \/ create_case(i) \/ update_case_status(i)
             \/ create_assignment(i) \/ delete_assignment(i)
      PROVE  ConsoleInv'
  <2>1. Boxed(calls, i) => calls[i].tab
    BY <1>1 DEF Waits
  <2> QED
    BY <1>1, <1>2, <1>6, <2>1, ServiceTypes, ServiceTab, ServiceModal DEF ConsoleInv
<1>7. ASSUME \/ UNCHANGED vars
             \/ \E i \in Slots : read_case(i) \/ read_user(i)
      PROVE  ConsoleInv'
  <2>1. UNCHANGED <<users, cases, assignments, made, known, tab, modal, calls>>
    BY <1>7, ChecksAdvance DEF vars, tables, client
  <2>2. TypeInv'
    BY <1>1, <2>1 DEF TypeInv
  <2>3. TabInv'
    BY <1>1, <2>1 DEF TabInv
  <2>4. ModalInv'
    BY <1>1, <2>1 DEF ModalInv
  <2> QED
    BY <1>2, <2>2, <2>3, <2>4 DEF ConsoleInv
<1> QED
  BY <1>3, <1>4, <1>5, <1>6, <1>7 DEF Next, Otherwise

\* No call is under way: nothing is on its way that would explain a difference.
LEMMA QuietMatches == ConsoleInv => ConsoleMatchesTables
<1> SUFFICES ASSUME ConsoleInv, Quiet
             PROVE  /\ ~tab.loading /\ ~tab.saving
                    /\ tab.error \/ tab.raced
                         \/ tab.rows = (IF tab.name = "users" THEN users ELSE cases)
                    /\ modal # NoAnswer =>
                         /\ ~modal.loading /\ ~modal.saving
                         /\ \/ ~modal.loaded \/ modal.raced
                            \/ modal.rows = {a \in assignments : a.case = modal.case.no}
  BY DEF ConsoleMatchesTables
<1>1. \A i \in Slots : calls[i] = NoAnswer
  BY DEF Quiet, Free
<1>2. \A i \in Slots : ~Boxed(calls, i) /\ \A kind : ~Live(calls, i, kind) /\ ~Done(calls, i, kind)
  BY <1>1 DEF Boxed, Live, Done
<1>3. ~tab.loading /\ ~tab.saving
  BY <1>2 DEF ConsoleInv, TabInv, Waits, ThatMany
<1>4. tab.error \/ tab.raced \/ tab.rows = (IF tab.name = "users" THEN users ELSE cases)
  <2>1. tab.name \in {"users", "cases"}
    BY DEF ConsoleInv, TypeInv, Tabs
  <2>2. tab.error \/ tab.raced \/ Shown(calls, tab, users, cases, made)
    BY DEF ConsoleInv, TabInv, Outdated
  <2>3. ASSUME Follows(calls, users, tab.rows, "createUser", "deleteUser", made)
        PROVE  tab.rows = users
    BY <1>2, <2>3 DEF Follows
  <2>4. ASSUME Mirrors(calls, cases, tab.rows)
        PROVE  tab.rows = cases
    BY <1>2, <2>4 DEF Mirrors
  <2> QED
    BY <1>3, <2>1, <2>2, <2>3, <2>4 DEF Shown
<1>5. ASSUME modal # NoAnswer
      PROVE  /\ ~modal.loading /\ ~modal.saving
             /\ \/ ~modal.loaded \/ modal.raced
                \/ modal.rows = {a \in assignments : a.case = modal.case.no}
  <2>1. BoxWaits(calls, modal, tab) /\ BoxShown(calls, modal, assignments, made)
    BY DEF ConsoleInv, ModalInv
  <2>2. ~modal.loading /\ ~modal.saving
    BY <1>2, <1>5, <2>1 DEF BoxWaits, ThatMany
  <2> QED
    BY <1>2, <1>5, <2>1, <2>2 DEF BoxShown, Follows, AssignedTo
<1> QED
  BY <1>3, <1>4, <1>5

\* ConsoleMatchesTables in every behaviour: after any sequence of changes, refusals
\* and lost answers, once no call is under way the tab and the dialogue of
\* AdminPage.tsx show what auth-service's tables hold, unless the list could not be
\* loaded or a change was made that it could not know of.
THEOREM ConsoleShowsTheTables == Spec => []ConsoleMatchesTables
<1>1. ConsoleInv /\ IInv /\ [Next]_vars => ConsoleInv'
  BY ConsoleKept
<1> QED
  BY <1>1, ConsoleStarts, QuietMatches, Inductive, PTL DEF Spec

-----------------------------------------------------------------------------
(* Assignments and roles *)

\* Nothing is read for a call that create_assignment does not serve, and the user
\* it found, if it is still there, has the role of the call.
RolesRead ==
  \A i \in Slots : checks[i].read # "nothing" =>
    /\ Asked(i, "assign")
    /\ checks[i].read = "user" =>
         \A u \in users :
           u.name = calls[i].what /\ u.id <= checks[i].account => u.role = calls[i].role

\* Call i, which create_assignment serves, is still to be served and says the same.
Stays(i) ==
  Asked(i, "assign") =>
    Asked(i, "assign")' /\ calls'[i].what = calls[i].what /\ calls'[i].role = calls[i].role

\* A new user is younger than all accounts that were read.
LEMMA RolesStay ==
  ASSUME IInv, RolesRead, AssignedRoleHolds,
         \A i \in Slots : checks'[i] = Unread \/ (checks'[i] = checks[i] /\ Stays(i)),
         \A u \in users' : u \in users \/ u.id = made + 1,
         \A a \in assignments' :
           \/ a \in assignments
           \/ \A u \in users' : a.name = u.name /\ u.id <= a.account => a.role = u.role
  PROVE  RolesRead' /\ AssignedRoleHolds'
<1>1. made \in Nat
  BY DEF IInv, IdsGiven
<1>2. ASSUME NEW i \in Slots, checks'[i].read # "nothing"
      PROVE  /\ Asked(i, "assign")'
             /\ checks'[i].read = "user" =>
                  \A u \in users' :
                    u.name = calls'[i].what /\ u.id <= checks'[i].account => u.role = calls'[i].role
  <2>1. checks'[i] = checks[i] /\ Stays(i)
    BY <1>2 DEF Unread
  <2>2. /\ Asked(i, "assign") /\ Asked(i, "assign")'
        /\ calls'[i].what = calls[i].what /\ calls'[i].role = calls[i].role
    BY <1>2, <2>1 DEF RolesRead, Stays
  <2>3. ASSUME checks'[i].read = "user", NEW u \in users',
               u.name = calls'[i].what, u.id <= checks'[i].account
        PROVE  u.role = calls'[i].role
    <3>1. checks[i].account \in Nat /\ checks[i].account <= made
      BY DEF IInv, IdsGiven
    <3>2. u \in users
      BY <1>1, <2>1, <2>3, <3>1
    <3> QED
      BY <1>2, <2>1, <2>2, <2>3, <3>2 DEF RolesRead
  <2> QED
    BY <2>2, <2>3
<1>3. ASSUME NEW a \in assignments', NEW u \in users', a.name = u.name, u.id <= a.account
      PROVE  a.role = u.role
  <2>1. CASE a \in assignments
    <3>1. a.account \in Nat /\ a.account <= made
      BY <2>1 DEF IInv, IdsGiven
    <3>2. u \in users
      BY <1>1, <1>3, <3>1
    <3> QED
      BY <1>3, <2>1, <3>2 DEF AssignedRoleHolds
  <2>2. CASE a \notin assignments
    BY <1>3, <2>2
  <2> QED
    BY <2>1, <2>2
<1> QED
  BY <1>2, <1>3 DEF RolesRead, AssignedRoleHolds

\* A call to create_assignment outlives the dialogue and the tab it was made from.
LEMMA OrphanStays ==
  ASSUME CallsOk(calls), NEW field \in {"tab", "box"}, NEW i \in Slots, Asked(i, "assign")
  PROVE  LET c == Orphaned(field)[i] IN
           /\ c # NoAnswer /\ c.kind = "assign" /\ c.answer = NoAnswer
           /\ c.what = calls[i].what /\ c.role = calls[i].role
<1> DEFINE d == [calls[i] EXCEPT ![field] = FALSE]
<1>1. calls[i] # NoAnswer /\ calls[i].kind = "assign" /\ calls[i].answer = NoAnswer
  BY DEF Asked
<1>2. calls[i] \in Calls
  BY <1>1 DEF CallsOk, WellFormed
<1>3. /\ d \in Calls /\ d.kind = "assign" /\ d.answer = NoAnswer
      /\ d.what = calls[i].what /\ d.role = calls[i].role
  <2>1. CASE field = "tab"
    BY <1>1, <1>2, <2>1 DEF Calls
  <2>2. CASE field = "box"
    BY <1>1, <1>2, <2>2 DEF Calls
  <2> QED
    BY <2>1, <2>2
<1>4. d # NoAnswer
  BY <1>3, NullAssumption
<1>5. Orphaned(field)[i] = IF ~Awaited(d) /\ (d.kind \in Reads \/ d.answer # NoAnswer)
                           THEN NoAnswer ELSE d
  BY <1>1 DEF Orphaned
<1> HIDE DEF d
<1>6. Orphaned(field)[i] = d
  BY <1>3, <1>5 DEF Reads
<1> QED
  BY <1>3, <1>4, <1>6

\* What the administrator does leaves every such call alone.
LEMMA ClicksStay ==
  ASSUME TypeInv, Clicked, NEW i \in Slots
  PROVE  Stays(i)
<1> SUFFICES ASSUME Asked(i, "assign") PROVE Stays(i)
  BY DEF Stays
<1>1. CallsOk(calls) /\ calls[i] # NoAnswer
  BY DEF TypeInv, Asked
<1>2. CASE SetActiveTab
  <2>1. PICK j \in Slots, name \in {"users", "cases"} :
          Asks(Orphaned("tab"), calls', j, name, NoAnswer, 0)
    BY <1>2, Clicks
  <2>2. Orphaned("tab")[i] # NoAnswer
    BY <1>1, OrphanStays
  <2>3. calls'[i] = Orphaned("tab")[i]
    BY <2>1, <2>2 DEF Asks, Beside
  <2> QED
    BY <1>1, <2>3, OrphanStays DEF Stays, Asked
<1>3. CASE CloseForm \/ CloseAssignments
  <2>1. calls' = Orphaned("box")
    BY <1>3 DEF CloseForm, CloseAssignments
  <2> QED
    BY <1>1, <2>1, OrphanStays DEF Stays, Asked
<1>4. CASE OpenForm
  BY <1>4 DEF OpenForm, Stays, Asked
<1>5. CASE \/ handleSubmit \/ handleDelete \/ handleToggleStatus
           \/ OpenAssignments \/ handleAssign \/ handleRemove
  <2>1. PICK j \in Slots : calls[j] = NoAnswer /\ Beside(calls, calls', j)
    BY <1>5, Clicks DEF Asks
  <2>2. calls'[i] = calls[i]
    BY <1>1, <2>1 DEF Beside
  <2> QED
    BY <2>2 DEF Stays, Asked
<1> QED
  BY <1>2, <1>3, <1>4, <1>5 DEF Clicked

\* So does an answer to another call.
LEMMA DeliveredStays ==
  ASSUME TypeInv, NEW j \in Slots, Answered(j) \/ Refused(j), NEW i \in Slots \ {j}
  PROVE  Stays(i)
<1> SUFFICES ASSUME Asked(i, "assign") PROVE Stays(i)
  BY DEF Stays
<1>1. PICK ok \in BOOLEAN, rows \in SUBSET AllRows : Deliver(j, ok, rows)
  BY Taken
<1>2. PICK es : es = (IF Closes(j, ok) THEN Orphaned("box") ELSE calls) /\ Beside(es, calls', j)
  BY <1>1, DeliveredCalls
<1>3. /\ es[i] # NoAnswer /\ es[i].kind = "assign" /\ es[i].answer = NoAnswer
      /\ es[i].what = calls[i].what /\ es[i].role = calls[i].role
  BY <1>2, OrphanStays DEF TypeInv, Asked
<1> QED
  BY <1>2, <1>3 DEF Beside, Stays, Asked

LEMMA RolesKept ==
  ASSUME ConsoleInv, IInv, RolesRead, AssignedRoleHolds, [Next]_vars
  PROVE  RolesRead' /\ AssignedRoleHolds'
<1>1. TypeInv /\ IdsGiven /\ NamesUnique /\ checks \in [Slots -> Checks]
      /\ \A i \in Slots : Boxed(calls, i) => calls[i].tab
  BY DEF ConsoleInv, IInv, IdsGiven, TabInv, Waits
<1>2. CASE Clicked /\ checks' = checks
  <2>1. UNCHANGED <<users, assignments>>
    BY <1>2 DEF Clicked, SetActiveTab, OpenForm, CloseForm, handleSubmit, handleDelete,
       handleToggleStatus, OpenAssignments, CloseAssignments, handleAssign, handleRemove, tables
  <2> QED
    BY <1>1, <1>2, <2>1, ClicksStay, RolesStay
<1>3. ASSUME NEW j \in Slots, List(j), checks' = checks
      PROVE  RolesRead' /\ AssignedRoleHolds'
  <2>1. /\ UNCHANGED <<users, assignments>> /\ calls[j].kind # "assign"
        /\ Beside(calls, calls', j)
    BY <1>1, <1>3, ListFacts DEF Reads
  <2>2. \A i \in Slots : Stays(i)
    BY <2>1 DEF Beside, Stays, Asked
  <2> QED
    BY <1>3, <2>1, <2>2, RolesStay
<1>4. ASSUME NEW j \in Slots, Answered(j), checks' = checks
      PROVE  RolesRead' /\ AssignedRoleHolds'
  <2>1. UNCHANGED <<users, assignments>>
    BY <1>4 DEF Answered, Deliver, tables
  <2>2. ~Asked(j, "assign")
    BY <1>4 DEF Answered, Asked
  <2>3. \A i \in Slots : Stays(i)
    BY <1>1, <1>4, <2>2, DeliveredStays DEF Stays
  <2> QED
    BY <1>4, <2>1, <2>3, RolesStay
<1>5. ASSUME NEW j \in Slots, Refused(j)
      PROVE  RolesRead' /\ AssignedRoleHolds'
  <2>1. UNCHANGED <<users, assignments>> /\ checks' = [checks EXCEPT ![j] = Unread]
    BY <1>5 DEF Refused, Deliver, tables
  <2>2. \A i \in Slots : checks'[i] = Unread \/ (checks'[i] = checks[i] /\ Stays(i))
    BY <1>1, <1>5, <2>1, DeliveredStays
  <2> QED
    BY <2>1, <2>2, RolesStay
<1>6. ASSUME NEW j \in Slots, checks' = checks,
             \/ create_user(j) \/ delete_user(j) \/ create_case(j) \/ update_case_status(j)
             \/ delete_assignment(j)
      PROVE  RolesRead' /\ AssignedRoleHolds'
  <2>1. /\ \A u \in users' : u \in users \/ u.id = made + 1
        /\ assignments' \subseteq assignments /\ calls[j].kind # "assign"
    BY <1>6 DEF create_user, delete_user, create_case, update_case_status, delete_assignment, Asked
  <2>2. Beside(calls, calls', j)
    BY <1>1, <1>6, ServiceTypes, ChangedFacts
  <2>3. \A i \in Slots : Stays(i)
    BY <2>1, <2>2 DEF Beside, Stays, Asked
  <2> QED
    BY <1>6, <2>1, <2>3, RolesStay
\* The new row says what the call does, and the account is the one that was read.
<1>7. ASSUME NEW j \in Slots, create_assignment(j)
      PROVE  RolesRead' /\ AssignedRoleHolds'
  <2> DEFINE new == Assignment(j)
  <2>1. /\ users' = users /\ assignments' = assignments \cup {new}
        /\ checks' = [checks EXCEPT ![j] = Unread] /\ checks[j].read = "user"
    BY <1>7 DEF create_assignment
  <2>2. /\ new.name = calls[j].what /\ new.role = calls[j].role
        /\ new.account = checks[j].account
    BY DEF Assignment
  <2> HIDE DEF new
  <2>3. \A u \in users : new.name = u.name /\ u.id <= new.account => new.role = u.role
    BY <2>1, <2>2 DEF RolesRead
  <2>4. Beside(calls, calls', j)
    BY <1>1, <1>7, ServiceTypes, ChangedFacts
  <2>5. \A i \in Slots \ {j} : Stays(i)
    BY <2>4 DEF Beside, Stays, Asked
  <2>6. \A i \in Slots : checks'[i] = Unread \/ (checks'[i] = checks[i] /\ Stays(i))
    BY <1>1, <2>1, <2>5
  <2> QED
    BY <2>1, <2>3, <2>6, RolesStay
<1>8. ASSUME NEW j \in Slots, read_case(j) \/ read_user(j)
      PROVE  RolesRead' /\ AssignedRoleHolds'
  <2>1. UNCHANGED <<users, assignments, calls>> /\ Asked(j, "assign")
    BY <1>8 DEF read_case, read_user, UserRead, tables
  <2>2. AssignedRoleHolds'
    BY <2>1 DEF AssignedRoleHolds
  <2>3. \A i \in Slots \ {j} : checks'[i] = checks[i]
    BY <1>1, <1>8 DEF read_case, read_user, UserRead
  \* There is no other user of that name.
  <2>4. checks'[j].read = "user" =>
          \A u \in users :
            u.name = calls[j].what /\ u.id <= checks'[j].account => u.role = calls[j].role
    <3>1. CASE read_case(j)
      BY <1>1, <3>1 DEF read_case, Checks
    <3>2. CASE read_user(j)
      BY <3>2, <1>1 DEF read_user, NamesUnique
    <3> QED
      BY <1>8, <3>1, <3>2
  <2> QED
    BY <2>1, <2>2, <2>3, <2>4 DEF RolesRead, Asked
<1>9. CASE UNCHANGED vars
  BY <1>9 DEF vars, tables, RolesRead, AssignedRoleHolds, Asked
<1> QED
  BY <1>2, <1>3, <1>4, <1>5, <1>6, <1>7, <1>8, <1>9 DEF Next, Otherwise

\* AssignedRoleHolds in every behaviour: whatever the page was showing, and whatever
\* users were deleted and made between the reads of create_assignment and its insert
\* (auth-service/routers/admin.py), an assignment has the role of the account that was
\* read, as long as that is there.
THEOREM AssignedRoles == Spec => []AssignedRoleHolds
<1>1. Init => RolesRead /\ AssignedRoleHolds
  BY DEF Init, RolesRead, AssignedRoleHolds, Unread
<1>2. ConsoleInv /\ IInv /\ [Next]_vars => ConsoleInv'
  BY ConsoleKept
<1>3. ConsoleInv /\ IInv /\ RolesRead /\ AssignedRoleHolds /\ [Next]_vars =>
        RolesRead' /\ AssignedRoleHolds'
  BY RolesKept
<1> QED
  BY <1>1, <1>2, <1>3, ConsoleStarts, Inductive, PTL DEF Spec
=============================================================================
