---------------------------- MODULE AdminConsole ----------------------------
(***************************************************************************)
(* The administration page of the web client and the auth service's admin  *)
(* interface: users, cases and who is assigned to which case.              *)
(*                                                                         *)
(* One administrator works at one mounted page.  A call goes to the auth   *)
(* service, takes effect there (or not), and its answer comes back later,  *)
(* to the component that made it or, if that is gone, to nobody.  An open  *)
(* dialogue covers the page, so nothing behind it is clicked.              *)
(*                                                                         *)
(* Every handler of the service is one transaction at READ COMMITTED, with *)
(* an await before each query.  What most of them check before they write  *)
(* is checked again by the database, which has unique constraints on user  *)
(* names, case numbers and assignments: those are one step.  No constraint *)
(* covers the status of a case or the role of a user, which                *)
(* create_assignment reads first: its reads are steps of their own.        *)
(***************************************************************************)
EXTENDS Naturals, FiniteSets

CONSTANTS
  Names,        \* user names, the administrators' own left out
  Roles,        \* roles that can be given
  Cases,        \* well-formed case numbers
  NoAnswer,     \* null
  Slots,        \* bound: as many calls under way at once
  MaxRows       \* bound: rows ever made; then no more are asked for

ASSUME ConsoleAssumption == IsFiniteSet(Slots) /\ Cardinality(Slots) > 1 /\ MaxRows \in Nat

Reads == {"users", "known", "cases", "assignments"}

\* The rows of the three tables, calls to the service and what it answers, and
\* the AssignmentsModal once it is mounted.  account is history: the user that
\* create_assignment found when it read the users.
UserRows == [id : Nat, name : Names, role : Roles]
CaseRows == [no : Cases, status : {"OPEN", "CLOSED"}]
AssignmentRows == [id : Nat, case : Cases, name : Names, role : Roles, account : Nat]

Answers == [ok : BOOLEAN, rows : SUBSET (UserRows \cup CaseRows \cup AssignmentRows)]

Calls ==
  [kind : Reads \cup {"createUser", "deleteUser", "createCase", "toggle", "assign", "unassign"},
   on : Cases \cup {NoAnswer}, what : Names \cup {"OPEN", "CLOSED", NoAnswer},
   role : Roles \cup {NoAnswer}, id : Nat, tab : BOOLEAN, box : BOOLEAN,
   answer : Answers \cup {NoAnswer}]

Modals ==
  [case : CaseRows, rows : SUBSET AssignmentRows, loading : BOOLEAN, loaded : BOOLEAN,
   saving : BOOLEAN, raced : BOOLEAN]

\* How far create_assignment has come.
Checks == [read : {"nothing", "case", "user"}, account : Nat]
Unread == [read |-> "nothing", account |-> 0]

\* null is none of these.
ASSUME NullAssumption ==
  NoAnswer \notin Answers /\ NoAnswer \notin Calls /\ NoAnswer \notin Modals

VARIABLES
  users,        \* table users: records id, name, role; ids grow with time
  cases,        \* table cases: records no, status
  assignments,  \* table case_assignments: records id, case, name, role (and account)
  known,        \* AdminPage.users, loaded once
  tab,          \* UsersTab or CasesTab, with its dialogue for a new row
  modal,        \* AssignmentsModal
  calls,        \* per slot, a call under way
  checks,       \* per slot, what create_assignment has read for it
  made          \* ids given to rows

tables == <<users, cases, assignments, made>>
client == <<known, tab, modal>>
vars == <<tables, client, calls, checks>>

Free == {i \in Slots : calls[i] = NoAnswer}
Quiet == Free = Slots

\* what: the user name or the new status.  tab, box: the tab and the dialogue
\* it was made from, if any, are still mounted.
NewCall(kind, on, what, role, id) ==
  [kind |-> kind, on |-> on, what |-> what, role |-> role, id |-> id, tab |-> TRUE,
   box |-> kind \in {"createUser", "createCase", "assignments", "assign", "unassign"},
   answer |-> NoAnswer]

Load(kind, on) == NewCall(kind, on, NoAnswer, NoAnswer, 0)

SendFrom(cs, call) == \E i \in Slots : cs[i] = NoAnswer /\ calls' = [cs EXCEPT ![i] = call]

Send(call) == SendFrom(calls, call)

\* Does anybody take the answer?  Lists are asked for and assignments made by
\* what shows them; a new row is announced to the tab, though its dialogue is gone.
Awaited(call) ==
  CASE call.kind = "known" -> TRUE
    [] call.kind \in {"assignments", "assign", "unassign"} -> call.box
    [] OTHER -> call.tab

\* The component is unmounted: no answer reaches it, and what it only wanted to
\* read, or has been answered, does not matter any more.
Orphaned(field) ==
  [i \in Slots |->
     IF calls[i] = NoAnswer THEN NoAnswer
     ELSE LET call == [calls[i] EXCEPT ![field] = FALSE] IN
          IF ~Awaited(call) /\ (call.kind \in Reads \/ call.answer # NoAnswer)
          THEN NoAnswer ELSE call]

(***************************************************************************)
(* Mounting.  raced: a row was changed while the list was being loaded, or *)
(* by a call of a component that is gone, or by a call whose answer is     *)
(* lost; the list cannot know of it.                                       *)
(***************************************************************************)
MountedTab(name) ==
  [name |-> name, rows |-> {}, loading |-> TRUE, error |-> FALSE,
   form |-> FALSE, saving |-> FALSE, raced |-> FALSE]

MountedModal(c) ==
  [case |-> c, rows |-> {}, loading |-> TRUE, loaded |-> FALSE,
   saving |-> FALSE, raced |-> FALSE]

\* One user and one case are there, and the page is mounted:
\* AdminPage and its UsersTab both ask for the users.
Init ==
  /\ \E n \in Names, r \in Roles, c \in Cases, s \in {"OPEN", "CLOSED"} :
       /\ users = {[id |-> 1, name |-> n, role |-> r]}
       /\ cases = {[no |-> c, status |-> s]}
  /\ assignments = {} /\ made = 1
  /\ known = {} /\ tab = MountedTab("users") /\ modal = NoAnswer
  /\ \E i, j \in Slots :
       /\ i # j
       /\ calls = [k \in Slots |-> IF k = i THEN Load("users", NoAnswer)
                                  ELSE IF k = j THEN Load("known", NoAnswer) ELSE NoAnswer]
  /\ checks = [i \in Slots |-> Unread]

\* An open dialogue covers the page.
Clickable == ~tab.form /\ modal = NoAnswer

\* The other tab's component is unmounted, and this one loads its list.
SetActiveTab ==
  /\ Clickable
  /\ LET name == IF tab.name = "users" THEN "cases" ELSE "users" IN
       /\ SendFrom(Orphaned("tab"), Load(name, NoAnswer))
       /\ tab' = MountedTab(name)
  /\ UNCHANGED <<tables, known, modal>>

(***************************************************************************)
(* AddUserModal and AddCaseModal.  The cross and the backdrop close them   *)
(* while their call is under way, too.                                     *)
(***************************************************************************)
OpenForm ==
  /\ Clickable
  /\ tab' = [tab EXCEPT !.form = TRUE]
  /\ UNCHANGED <<tables, known, modal, calls>>

CloseForm ==
  /\ tab.form
  /\ tab' = [tab EXCEPT !.form = FALSE, !.saving = FALSE]
  /\ calls' = Orphaned("box")
  /\ UNCHANGED <<tables, known, modal>>

handleSubmit ==
  /\ tab.form /\ ~tab.saving /\ made < MaxRows
  /\ \/ /\ tab.name = "users"
        /\ \E n \in Names, r \in Roles : Send(NewCall("createUser", NoAnswer, n, r, 0))
     \/ /\ tab.name = "cases"
        /\ \E c \in Cases : Send(NewCall("createCase", c, NoAnswer, NoAnswer, 0))
  /\ tab' = [tab EXCEPT !.saving = TRUE]
  /\ UNCHANGED <<tables, known, modal>>

(***************************************************************************)
(* UsersTab and CasesTab.                                                  *)
(***************************************************************************)
handleDelete ==
  /\ tab.name = "users" /\ Clickable
  /\ \E u \in tab.rows : Send(NewCall("deleteUser", NoAnswer, NoAnswer, NoAnswer, u.id))
  /\ UNCHANGED <<tables, client>>

Toggling(c) == \E i \in Slots \ Free : calls[i].kind = "toggle" /\ calls[i].on = c

\* The new status is the other one of what the row shows; the entry of the menu
\* is not disabled while a change is under way.
handleToggleStatus ==
  /\ tab.name = "cases" /\ Clickable
  /\ \E c \in tab.rows :
       /\ Send(NewCall("toggle", c.no, IF c.status = "OPEN" THEN "CLOSED" ELSE "OPEN", NoAnswer, 0))
       /\ tab' = [tab EXCEPT !.raced = @ \/ Toggling(c.no)]
  /\ UNCHANGED <<tables, known, modal>>

(***************************************************************************)
(* AssignmentsModal.  Its case is the row as it was when it was opened.    *)
(***************************************************************************)
OpenAssignments ==
  /\ tab.name = "cases" /\ Clickable
  /\ \E c \in tab.rows :
       /\ modal' = MountedModal(c)
       /\ Send(Load("assignments", c.no))
  /\ UNCHANGED <<tables, known, tab>>

CloseAssignments ==
  /\ modal # NoAnswer /\ modal' = NoAnswer
  /\ calls' = Orphaned("box")
  /\ UNCHANGED <<tables, known, tab>>

\* The form offers the users that were there when the page was mounted, each
\* with the role it had then.
handleAssign ==
  /\ modal # NoAnswer /\ ~modal.saving /\ modal.case.status # "CLOSED" /\ made < MaxRows
  /\ \E u \in known : Send(NewCall("assign", modal.case.no, u.name, u.role, 0))
  /\ modal' = [modal EXCEPT !.saving = TRUE]
  /\ UNCHANGED <<tables, known, tab>>

handleRemove ==
  /\ modal # NoAnswer
  /\ \E a \in modal.rows :
       Send(NewCall("unassign", modal.case.no, NoAnswer, NoAnswer, a.id))
  /\ UNCHANGED <<tables, client>>

(***************************************************************************)
(* The auth service.                                                       *)
(***************************************************************************)
Asked(i, kind) == calls[i] # NoAnswer /\ calls[i].kind = kind /\ calls[i].answer = NoAnswer

Reply(i, ok, rows) ==
  calls' = [calls EXCEPT ![i] = IF Awaited(@) THEN [@ EXCEPT !.answer = [ok |-> ok, rows |-> rows]]
                                ELSE NoAnswer]

\* What is answered after a commit; or the answer is lost.
Changed(i, rows) ==
  \E lost \in BOOLEAN :
    /\ Reply(i, ~lost, IF lost THEN {} ELSE rows)
    /\ tab' = [tab EXCEPT !.raced = @ \/ lost \/ tab.loading \/ ~calls[i].tab]
    /\ modal' = IF modal = NoAnswer THEN modal
                ELSE [modal EXCEPT !.raced = @ \/ lost \/ modal.loading \/ ~calls[i].box]

List(i) ==
  /\ \/ \E kind \in {"users", "known"} : Asked(i, kind) /\ Reply(i, TRUE, users)
     \/ Asked(i, "cases") /\ Reply(i, TRUE, cases)
     \/ Asked(i, "assignments") /\ Reply(i, TRUE, {a \in assignments : a.case = calls[i].on})
  /\ UNCHANGED <<tables, client>>

create_user(i) ==
  LET user == [id |-> made + 1, name |-> calls[i].what, role |-> calls[i].role] IN
  /\ Asked(i, "createUser") /\ made < MaxRows
  /\ ~ \E u \in users : u.name = user.name
  /\ users' = users \cup {user} /\ made' = made + 1
  /\ Changed(i, {user})
  /\ UNCHANGED <<cases, assignments, known>>

\* The user's assignments, which hold names, stay behind.
delete_user(i) ==
  /\ Asked(i, "deleteUser")
  /\ \E u \in users : u.id = calls[i].id /\ users' = users \ {u}
  /\ Changed(i, {})
  /\ UNCHANGED <<cases, assignments, made, known>>

create_case(i) ==
  LET case == [no |-> calls[i].on, status |-> "OPEN"] IN
  /\ Asked(i, "createCase") /\ made < MaxRows
  /\ ~ \E c \in cases : c.no = case.no
  /\ cases' = cases \cup {case} /\ made' = made + 1
  /\ Changed(i, {case})
  /\ UNCHANGED <<users, assignments, known>>

update_case_status(i) ==
  /\ Asked(i, "toggle")
  /\ \E c \in cases :
       /\ c.no = calls[i].on
       /\ cases' = (cases \ {c}) \cup {[c EXCEPT !.status = calls[i].what]}
       /\ Changed(i, {[c EXCEPT !.status = calls[i].what]})
  /\ UNCHANGED <<users, assignments, made, known>>

\* create_assignment reads the case, then the user, and then inserts.
read_case(i) ==
  /\ Asked(i, "assign") /\ checks[i].read = "nothing" /\ made < MaxRows
  /\ \E c \in cases : c.no = calls[i].on /\ c.status # "CLOSED"
  /\ checks' = [checks EXCEPT ![i].read = "case"]
  /\ UNCHANGED <<tables, client, calls>>

UserRead(i, u) ==
  /\ checks' = [checks EXCEPT ![i] = [read |-> "user", account |-> u.id]]
  /\ UNCHANGED <<tables, client, calls>>

\* Mutant: the role is taken from the form.
read_user_RoleTrusted(i) ==
  /\ Asked(i, "assign") /\ checks[i].read = "case" /\ made < MaxRows
  /\ \E u \in users : u.name = calls[i].what /\ UserRead(i, u)

read_user(i) ==
  /\ Asked(i, "assign") /\ checks[i].read = "case" /\ made < MaxRows
  /\ \E u \in users : u.name = calls[i].what /\ u.role = calls[i].role /\ UserRead(i, u)

Assignment(i) ==
  [id |-> made + 1, case |-> calls[i].on, name |-> calls[i].what, role |-> calls[i].role,
   account |-> checks[i].account]

\* uq_case_assignment
Unassigned(a) == ~ \E b \in assignments : b.case = a.case /\ b.name = a.name

\* Neither the case's status nor the user is looked at again.
create_assignment(i) ==
  /\ Asked(i, "assign") /\ checks[i].read = "user"
  /\ made < MaxRows /\ Unassigned(Assignment(i))
  /\ assignments' = assignments \cup {Assignment(i)} /\ made' = made + 1
  /\ checks' = [checks EXCEPT ![i] = Unread]
  /\ Changed(i, {Assignment(i)})
  /\ UNCHANGED <<users, cases, known>>

delete_assignment(i) ==
  /\ Asked(i, "unassign")
  /\ \E a \in assignments :
       a.id = calls[i].id /\ a.case = calls[i].on /\ assignments' = assignments \ {a}
  /\ Changed(i, {})
  /\ UNCHANGED <<users, cases, made, known>>

(***************************************************************************)
(* Answers.                                                                *)
(***************************************************************************)
\* Mutant: the updated case is added beside the row it replaces.
Replaced_Added(rows, new) == rows \cup new

Replaced(rows, new) == {r \in rows : \A n \in new : n.no # r.no} \cup new

\* What an answer does to the tab that asked, or whose dialogue asked.  A new row
\* closes whichever dialogue is open by now.
TabAnswered(call, ok, rows) ==
  LET closed == [tab EXCEPT !.form = FALSE, !.saving = FALSE, !.rows = @ \cup rows] IN
  CASE call.kind \in {"users", "cases"} ->
         [tab EXCEPT !.loading = FALSE, !.error = ~ok, !.rows = IF ok THEN rows ELSE @]
    [] call.kind \in {"createUser", "createCase"} ->
         IF ok THEN closed
         ELSE [tab EXCEPT !.saving = @ /\ ~call.box]
    [] call.kind = "deleteUser" -> [tab EXCEPT !.rows = {r \in @ : ~ok \/ r.id # call.id}]
    [] call.kind = "toggle" -> [tab EXCEPT !.rows = IF ok THEN Replaced(@, rows) ELSE @]
    [] OTHER -> tab

ModalAnswered(call, ok, rows) ==
  CASE call.kind = "assignments" ->
         [modal EXCEPT !.loading = FALSE, !.loaded = ok, !.rows = IF ok THEN rows ELSE @]
    [] call.kind = "assign" -> [modal EXCEPT !.saving = FALSE, !.rows = @ \cup rows]
    [] call.kind = "unassign" -> [modal EXCEPT !.rows = {r \in @ : ~ok \/ r.id # call.id}]
    [] OTHER -> modal

Deliver(i, ok, rows) ==
  LET call == calls[i] IN
  /\ known' = IF call.kind = "known" /\ ok THEN rows ELSE known
  /\ tab' = IF call.tab THEN TabAnswered(call, ok, rows) ELSE tab
  /\ modal' = IF modal # NoAnswer /\ call.box THEN ModalAnswered(call, ok, rows) ELSE modal
  /\ LET closes == ok /\ tab.form /\ call.kind \in {"createUser", "createCase"} IN
       calls' = [IF closes THEN Orphaned("box") ELSE calls EXCEPT ![i] = NoAnswer]
  /\ UNCHANGED tables

Answered(i) ==
  /\ calls[i] # NoAnswer /\ calls[i].answer # NoAnswer
  /\ Deliver(i, calls[i].answer.ok, calls[i].answer.rows)

\* 4xx, a failure before the commit, or no answer; it changes no table, so when
\* it was decided does not matter.
Refused(i) ==
  /\ calls[i] # NoAnswer /\ calls[i].answer = NoAnswer
  /\ checks' = [checks EXCEPT ![i] = Unread]
  /\ Deliver(i, FALSE, {})

Clicked ==
  \/ SetActiveTab \/ OpenForm \/ CloseForm \/ handleSubmit
  \/ handleDelete \/ handleToggleStatus
  \/ OpenAssignments \/ CloseAssignments \/ handleAssign \/ handleRemove

\* Everything but create_assignment and the end of its call.
Otherwise(i) ==
  \/ List(i) \/ Answered(i)
  \/ create_user(i) \/ delete_user(i) \/ create_case(i) \/ update_case_status(i)
  \/ delete_assignment(i)

Next ==
  \/ UNCHANGED checks /\ (Clicked \/ \E i \in Slots : Otherwise(i))
  \/ \E i \in Slots : read_case(i) \/ read_user(i) \/ create_assignment(i) \/ Refused(i)

Spec == Init /\ [][Next]_vars

(***************************************************************************)
(* Properties.                                                             *)
(***************************************************************************)
\* Once no call is under way nothing turns or stays disabled, and the tab and
\* the dialogue show exactly what the tables hold, after any sequence of
\* additions, deletions, changes and refusals, unless the list failed to load
\* or a change was made that it could not know of.
ConsoleMatchesTables ==
  Quiet =>
    /\ ~tab.loading /\ ~tab.saving
    /\ tab.error \/ tab.raced \/ tab.rows = (IF tab.name = "users" THEN users ELSE cases)
    /\ modal # NoAnswer =>
         /\ ~modal.loading /\ ~modal.saving
         /\ \/ ~modal.loaded \/ modal.raced
            \/ modal.rows = {a \in assignments : a.case = modal.case.no}

\* An assignment carries the role of its user's account, although the dialogue
\* offers the users, with their roles, as they were when the page was opened:
\* of the account that create_assignment found, or of one of that name before it.
\* (If it is deleted and an account of the same name is made, before the insert or
\* after it, the new one may have another role; admin.py:243-261.)
AssignedRoleHolds ==
  \A a \in assignments, u \in users :
    a.name = u.name /\ u.id <= a.account => a.role = u.role
=============================================================================
