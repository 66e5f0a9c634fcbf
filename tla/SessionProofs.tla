--------------------------- MODULE SessionProofs ---------------------------
(***************************************************************************)
(* Theorems about the session of the web client, for every set of tabs,    *)
(* every set of roles that sign in and every bound: type correctness, that *)
(* guards and pages ask only for what the gateway grants, why a good token *)
(* is ever removed, and that no link of the application leads to the 403   *)
(* page.                                                                   *)
(***************************************************************************)
EXTENDS Session, FiniteSetTheorems, TLAPS

-----------------------------------------------------------------------------
(* Facts about the operators *)

\* Wherever the router sends a tab is a path of the route table.
LEMMA TargetIsPath ==
    ASSUME NEW t \in Tabs, tab[t].at \in Paths
    PROVE  Target(t) \in Paths
BY DEF Target, RoleHome, LoginRedirect, ProtectedRoute, Paths

\* Links lead to paths, effects and buttons make known requests.
LEMMA LinksArePaths ==
    ASSUME NEW p \in Paths, NEW r, NEW q \in Links(p, r)
    PROVE  q \in Paths
<1>1. NavLinks(r) \subseteq Paths
    BY DEF NavLinks, Paths
<1>2. /\ DashboardCaseLinks(r) \subseteq Paths
      /\ QuickActions(r) \subseteq Paths
      /\ ListLinks(r) \subseteq Paths
      /\ DetailLinks(r) \subseteq Paths
    BY DEF DashboardCaseLinks, QuickActions, ListLinks, DetailLinks, Paths
<1> QED
    BY <1>1, <1>2 DEF Links, Paths

LEMMA EffectsAreKinds ==
    ASSUME NEW p \in Paths, NEW r
    PROVE  /\ Effects(p, r) \subseteq Kinds
           /\ Buttons(p, r) \subseteq Kinds
           /\ DashboardEffect(r) \subseteq Kinds
<1>1. DashboardEffect(r) \subseteq Kinds
    BY DEF DashboardEffect, Kinds
<1>2. Effects(p, r) \subseteq Kinds
    BY <1>1 DEF Effects, Kinds
<1>3. Buttons(p, r) \subseteq Kinds
    BY DEF Buttons, Kinds
<1> QED
    BY <1>1, <1>2, <1>3

\* The three tables fit: what a page of a guarded route asks for, on behalf of
\* a role the guard admits, is authorised, with the two known exceptions.
LEMMA TablesFit ==
    ASSUME NEW p \in Paths, NEW r \in Roles,
           ShellOf(p) # "public" => r \in allowedRoles(ShellOf(p)),
           NEW k \in Effects(p, r) \cup Buttons(p, r)
    PROVE  \/ r \in is_authorized(k)
           \/ k = "GET /custody"
           \/ k = "GET /evidence?case" /\ r = "admin"
<1>1. CASE k \in Effects(p, r)
    BY <1>1 DEF Effects, DashboardEffect, ShellOf, allowedRoles, is_authorized, Roles, Paths
<1>2. CASE k \in Buttons(p, r)
    BY <1>2 DEF Buttons, ShellOf, allowedRoles, is_authorized, Roles, Paths
<1> QED
    BY <1>1, <1>2

\* A request carries the stored token and the types of its sender.
LEMMA RequestTyped ==
    ASSUME NEW t \in Tabs, NEW k \in Kinds, fc_token \in StoredTokens,
           NEW guard, NEW seen
    PROVE  Request(t, k, guard, seen) \in RequestTypes
BY DEF Request, RequestTypes

LEMMA UnmountedTyped ==
    ASSUME NEW t \in Tabs, NEW requests, requests \subseteq RequestTypes
    PROVE  Unmounted(t, requests) \subseteq RequestTypes
BY DEF Unmounted, RequestTypes

LEMMA FreshTyped ==
    ASSUME NEW p \in Paths
    PROVE  Fresh(p) \in TabTypes
BY DEF Fresh, TabTypes, StoredTokens

LEMMA RerenderedTyped ==
    ASSUME NEW t \in Tabs, TypeOK
    PROVE  Rerendered(t) \in [Tabs -> TabTypes]
<1>1. LoginRedirect \in Paths
    BY DEF LoginRedirect, Paths
<1>2. [tab EXCEPT ![t].at = LoginRedirect, ![t].phase = "routing", ![t].link = NoToken]
        \in [Tabs -> TabTypes]
    <2>1. tab[t] \in TabTypes
        BY DEF TypeOK
    <2>2. [tab[t] EXCEPT !.at = LoginRedirect, !.phase = "routing", !.link = NoToken] \in TabTypes
        BY <1>1, <2>1 DEF TabTypes, StoredTokens
    <2>3. [tab EXCEPT ![t].at = LoginRedirect, ![t].phase = "routing", ![t].link = NoToken]
            = [tab EXCEPT ![t] = [tab[t] EXCEPT !.at = LoginRedirect, !.phase = "routing",
                                                !.link = NoToken]]
        OBVIOUS
    <2> QED
        BY <2>2, <2>3 DEF TypeOK
<1>3. [tab EXCEPT ![t].seen = fc_token] \in [Tabs -> TabTypes]
    BY DEF TypeOK, TabTypes
<1> QED
    BY <1>2, <1>3 DEF Rerendered

\* Numbers of tokens, and the tokens a login can issue.
LEMMA IssuedToken ==
    ASSUME TypeOK, logins < MaxLogins, NEW role \in LoginRoles
    PROVE  /\ logins + 1 \in 0..MaxLogins
           /\ [no |-> logins + 1, role |-> role] \in Tokens
           /\ [no |-> logins + 1, role |-> role] # NoToken
BY SessionAssumption DEF TypeOK, Tokens

\* What an answer other than a 401 does, request by request.
Again(t, r) ==
    IF r.live /\ tab[t].phase = "shown" /\ tab[t].at = "/"
         /\ RoleIn(fc_token) # RoleIn(tab[t].seen)
    THEN DashboardEffect(RoleIn(fc_token)) ELSE {}

AnsweredBy(t, r) ==
    /\ tab' \in {Rerendered(t), tab}
    /\ sent' = (sent \ {r}) \cup {Request(t, k, tab[t].guard, fc_token) : k \in Again(t, r)}
    /\ UNCHANGED <<fc_token, logins, expired>>

LEMMA AnsweredPick ==
    ASSUME NEW t \in Tabs, Answered(t)
    PROVE  \E r \in InFlight(t) : AnsweredBy(t, r)
BY DEF Answered, AnsweredBy, Again

-----------------------------------------------------------------------------
(* Type correctness *)

\* Stored token, tabs and requests keep their types (useAuth.ts, App.tsx, client.ts).
THEOREM Typing == Spec => []TypeOK
<1>1. Init => TypeOK
    <2> SUFFICES ASSUME Init PROVE TypeOK
        OBVIOUS
    <2>1. Fresh("/") \in TabTypes
        BY FreshTyped DEF Paths
    <2> QED
        BY <2>1, SessionAssumption DEF Init, TypeOK, StoredTokens
<1>2. TypeOK /\ [Next]_vars => TypeOK'
    <2> SUFFICES ASSUME TypeOK, [Next]_vars PROVE TypeOK'
        OBVIOUS
    <2> USE DEF TypeOK
    <2>1. CASE UNCHANGED vars
        BY <2>1 DEF vars
    <2>2. CASE Elsewhere
        BY <2>2, IssuedToken DEF Elsewhere, StoredTokens
    <2>3. CASE Expire
        BY <2>3, SessionAssumption DEF Expire
    <2>4. ASSUME NEW t \in Tabs, Redirect(t) PROVE TypeOK'
        BY <2>4, TargetIsPath DEF Redirect, TabTypes
    <2>5. ASSUME NEW t \in Tabs, Mount(t) PROVE TypeOK'
        <3> DEFINE p == tab[t].at
                   guard == IF ShellOf(p) = tab[t].shell THEN tab[t].guard
                            ELSE IF ShellOf(p) = "public" THEN NoToken ELSE fc_token
        <3>1. p \in Paths /\ guard \in StoredTokens
            BY DEF TabTypes, StoredTokens
        <3>2. ShellOf(p) \in Shells \cup {"public"}
            BY DEF ShellOf, Shells
        <3>3. tab' \in [Tabs -> TabTypes]
            <4>1. tab' = [tab EXCEPT ![t] = [tab[t] EXCEPT !.phase = "shown", !.shell = ShellOf(p),
                                        !.guard = guard, !.seen = fc_token, !.link = NoToken]]
                BY <2>5 DEF Mount
            <4>2. [tab[t] EXCEPT !.phase = "shown", !.shell = ShellOf(p), !.guard = guard,
                                 !.seen = fc_token, !.link = NoToken] \in TabTypes
                BY <3>1, <3>2 DEF TabTypes, StoredTokens
            <4> QED
                BY <4>1, <4>2
        <3>4. \A k \in Effects(p, RoleIn(fc_token)) :
                 Request(t, k, guard, fc_token) \in RequestTypes
            BY <3>1, EffectsAreKinds, RequestTyped
        <3>5. sent' = sent \cup {Request(t, k, guard, fc_token) : k \in Effects(p, RoleIn(fc_token))}
            BY <2>5 DEF Mount
        <3>6. sent' \subseteq RequestTypes
            BY <3>4, <3>5
        <3> QED
            BY <2>5, <3>3, <3>6 DEF Mount
    <2>6. ASSUME NEW t \in Tabs, FollowLink(t) PROVE TypeOK'
        BY <2>6, LinksArePaths, UnmountedTyped DEF FollowLink, TabTypes
    <2>7. ASSUME NEW t \in Tabs, OpenUrl(t) PROVE TypeOK'
        BY <2>7, FreshTyped DEF OpenUrl, LoadDocument
    <2>8. ASSUME NEW t \in Tabs, Reload(t) PROVE TypeOK'
        BY <2>8, FreshTyped DEF Reload, LoadDocument, Paths
    <2>9. ASSUME NEW t \in Tabs, Rerender(t) PROVE TypeOK'
        BY <2>9, RerenderedTyped DEF Rerender
    <2>10. ASSUME NEW t \in Tabs, Press(t) PROVE TypeOK'
        <3>1. PICK k \in Buttons(tab[t].at, RoleIn(tab[t].seen)) :
                 sent' = sent \cup {Request(t, k, tab[t].guard, tab[t].seen)}
            BY <2>10 DEF Press
        <3>2. k \in Kinds
            BY <3>1, EffectsAreKinds DEF TabTypes
        <3> QED
            BY <2>10, <3>1, <3>2, RequestTyped, RerenderedTyped DEF Press
    <2>11. ASSUME NEW t \in Tabs, SubmitLogin(t) PROVE TypeOK'
        <3>1. "POST /auth/login" \in Kinds
            BY DEF Kinds
        <3> QED
            BY <2>11, <3>1, RequestTyped, RerenderedTyped DEF SubmitLogin
    <2>12. ASSUME NEW t \in Tabs, LoginAnswered(t) PROVE TypeOK'
        <3>1. PICK r \in InFlight(t), role \in LoginRoles :
                 /\ logins < MaxLogins
                 /\ logins' = logins + 1
                 /\ fc_token' = [no |-> logins + 1, role |-> role]
                 /\ IF tab[t].phase = "leaving" \/ tab[t].at = "/"
                    THEN tab' = tab /\ sent' = sent \ {r}
                    ELSE /\ tab' = [tab EXCEPT ![t].at = "/", ![t].phase = "routing",
                                               ![t].link = NoToken]
                         /\ sent' = Unmounted(t, sent \ {r})
                 /\ UNCHANGED expired
            BY <2>12 DEF LoginAnswered
        <3>2. sent' \subseteq RequestTypes
            BY <3>1, UnmountedTyped
        <3>3. tab' \in [Tabs -> TabTypes]
            BY <3>1 DEF TabTypes, Paths, StoredTokens
        <3> QED
            BY <3>1, <3>2, <3>3, IssuedToken DEF StoredTokens
    <2>13. ASSUME NEW t \in Tabs, Rejected(t) PROVE TypeOK'
        <3>1. /\ tab' = [tab EXCEPT ![t].phase = "leaving"]
              /\ fc_token' = NoToken
              /\ sent' \subseteq sent
              /\ UNCHANGED <<logins, expired>>
            BY <2>13 DEF Rejected
        <3> QED
            BY <3>1 DEF TabTypes, StoredTokens
    <2>14. ASSUME NEW t \in Tabs, Answered(t) PROVE TypeOK'
        <3>1. PICK r \in InFlight(t) : AnsweredBy(t, r)
            BY <2>14, AnsweredPick
        <3>2. \A k \in Again(t, r) : Request(t, k, tab[t].guard, fc_token) \in RequestTypes
            BY EffectsAreKinds, RequestTyped DEF TabTypes, Again
        <3> QED
            BY <3>1, <3>2, RerenderedTyped DEF AnsweredBy
    <2>15. ASSUME NEW t \in Tabs, SignOut(t) PROVE TypeOK'
        BY <2>15 DEF SignOut, TabTypes, StoredTokens
    <2> QED
        BY <2>1, <2>2, <2>3, <2>4, <2>5, <2>6, <2>7, <2>8, <2>9, <2>10, <2>11, <2>12, <2>13,
           <2>14, <2>15 DEF Next
<1> QED
    BY <1>1, <1>2, PTL DEF Spec

-----------------------------------------------------------------------------
(* Guards, pages and gateway *)

\* A guard that stands has admitted the token it read, and a page at rest
\* stands under the guard of its own path.
GuardInv ==
    \A t \in Tabs :
        /\ tab[t].shell \in Shells =>
             tab[t].guard \in Tokens /\ tab[t].guard.role \in allowedRoles(tab[t].shell)
        /\ tab[t].phase = "shown" => tab[t].shell = ShellOf(tab[t].at)

\* What ForbiddenOnlyAfterSwitch asks of one request.
Granted(r) ==
    r.as_shown /\ r.by # NoToken =>
        \/ r.by.role \in is_authorized(r.kind)
        \/ r.kind = "GET /custody"
        \/ r.kind = "GET /evidence?case" /\ r.by.role = "admin"

\* A page asks only for what its guard's role is granted (App.tsx, rbac.py).
LEMMA PageRequestGranted ==
    ASSUME NEW t \in Tabs, NEW p \in Paths, NEW guard, NEW seen,
           fc_token \in StoredTokens,
           NEW k \in Effects(p, RoleIn(seen)) \cup Buttons(p, RoleIn(seen)),
           ShellOf(p) \in Shells /\ guard \in Tokens =>
               guard.role \in allowedRoles(ShellOf(p))
    PROVE  Granted(Request(t, k, guard, seen))
<1> DEFINE r == Request(t, k, guard, seen)
<1> SUFFICES ASSUME r.as_shown, r.by # NoToken
             PROVE  \/ r.by.role \in is_authorized(r.kind)
                    \/ r.kind = "GET /custody"
                    \/ r.kind = "GET /evidence?case" /\ r.by.role = "admin"
    BY DEF Granted
<1>1. guard = fc_token /\ seen = fc_token /\ r.by = fc_token /\ r.kind = k
    BY DEF Request
<1>2. fc_token \in Tokens /\ RoleIn(seen) = fc_token.role /\ fc_token.role \in Roles
    BY <1>1 DEF StoredTokens, RoleIn, Tokens
<1>3. ShellOf(p) \in Shells \cup {"public"}
    BY DEF ShellOf, Shells
<1>4. k \in Effects(p, fc_token.role) \cup Buttons(p, fc_token.role)
    BY <1>2
<1>5. ShellOf(p) # "public" => fc_token.role \in allowedRoles(ShellOf(p))
    BY <1>1, <1>2, <1>3
<1>6. \/ fc_token.role \in is_authorized(k)
      \/ k = "GET /custody"
      \/ k = "GET /evidence?case" /\ fc_token.role = "admin"
    <2> HIDE DEF r
    <2> QED
        BY <1>2, <1>4, <1>5, TablesFit
<1> QED
    BY <1>1, <1>6

\* The guard that admits a path's tokens admits their role (ProtectedRoute.tsx:8-18).
LEMMA GuardAdmits ==
    ASSUME NEW t \in Tabs, TypeOK, Target(t) = tab[t].at, ShellOf(tab[t].at) \in Shells,
           ShellOf(tab[t].at) # tab[t].shell
    PROVE  fc_token \in Tokens /\ fc_token.role \in allowedRoles(ShellOf(tab[t].at))
<1> DEFINE p == tab[t].at
<1>1. p \notin {"*", "/login", "/unauthorized"} /\ ShellOf(p) # "public"
    BY DEF ShellOf, Shells
<1>2. ProtectedRoute(p) = p
    BY <1>1 DEF Target
<1>3. isAuthenticated /\ RoleIn(fc_token) \in allowedRoles(ShellOf(p))
    <2>1. isAuthenticated
        BY <1>1, <1>2 DEF ProtectedRoute
    <2>2. CASE p = "/admin/users"
        BY <2>1, <2>2, <1>2 DEF ProtectedRoute, ShellOf, allowedRoles, RoleIn, isAuthenticated, Valid
    <2>3. CASE p # "/admin/users"
        BY <2>1, <2>3, <1>1, <1>2 DEF ProtectedRoute
    <2> QED
        BY <2>1, <2>2, <2>3
<1> QED
    BY <1>3 DEF isAuthenticated, Valid, RoleIn, TypeOK, StoredTokens

\* No request that guard, page and storage agree on is refused by the gateway,
\* save the two known ones (App.tsx, the pages, auth-service rbac.py).
THEOREM Forbidden == Spec => []ForbiddenOnlyAfterSwitch
<1>1. Init => GuardInv /\ ForbiddenOnlyAfterSwitch
    BY DEF Init, GuardInv, ForbiddenOnlyAfterSwitch, Fresh, Shells
<1>2. TypeOK /\ GuardInv /\ ForbiddenOnlyAfterSwitch /\ [Next]_vars
        => GuardInv' /\ ForbiddenOnlyAfterSwitch'
    <2> SUFFICES ASSUME TypeOK, GuardInv, ForbiddenOnlyAfterSwitch, [Next]_vars
                 PROVE  GuardInv' /\ ForbiddenOnlyAfterSwitch'
        OBVIOUS
    <2>0. \A r \in sent : Granted(r)
        BY DEF ForbiddenOnlyAfterSwitch, Granted
    <2>1. ASSUME \A r \in sent' : Granted(r) PROVE ForbiddenOnlyAfterSwitch'
        BY <2>1 DEF ForbiddenOnlyAfterSwitch, Granted
    <2>2. ASSUME NEW t \in Tabs
          PROVE  \A r \in Unmounted(t, sent) : Granted(r)
        BY <2>0 DEF Unmounted, Granted, TypeOK, RequestTypes
    <2>3. ASSUME NEW t \in Tabs
          PROVE  \A s \in Tabs : /\ Rerendered(t)[s].shell = tab[s].shell
                                 /\ Rerendered(t)[s].guard = tab[s].guard
                                 /\ Rerendered(t)[s].phase = "shown" =>
                                      tab[s].phase = "shown" /\ Rerendered(t)[s].at = tab[s].at
        BY DEF Rerendered, TypeOK, TabTypes
    <2>4. ASSUME NEW t \in Tabs, tab' = Rerendered(t) PROVE GuardInv'
        BY <2>3, <2>4, RerenderedTyped DEF GuardInv
    <2>5. CASE UNCHANGED vars
        BY <2>5 DEF vars, GuardInv, ForbiddenOnlyAfterSwitch
    <2>6. CASE Elsewhere \/ Expire
        BY <2>6 DEF Elsewhere, Expire, GuardInv, ForbiddenOnlyAfterSwitch
    <2>7. ASSUME NEW t \in Tabs, Redirect(t) PROVE GuardInv' /\ ForbiddenOnlyAfterSwitch'
        BY <2>7 DEF Redirect, GuardInv, ForbiddenOnlyAfterSwitch, TypeOK, TabTypes, Shells
    <2>8. ASSUME NEW t \in Tabs, Mount(t) PROVE GuardInv' /\ ForbiddenOnlyAfterSwitch'
        <3> DEFINE p == tab[t].at
                   guard == IF ShellOf(p) = tab[t].shell THEN tab[t].guard
                            ELSE IF ShellOf(p) = "public" THEN NoToken ELSE fc_token
        <3>1. p \in Paths /\ ShellOf(p) \in Shells \cup {"public"} /\ Target(t) = p
            BY <2>8 DEF Mount, TypeOK, TabTypes, ShellOf, Shells
        <3>2. ShellOf(p) \in Shells => guard \in Tokens /\ guard.role \in allowedRoles(ShellOf(p))
            <4>1. CASE ShellOf(p) = tab[t].shell
                BY <4>1 DEF GuardInv
            <4>2. CASE ShellOf(p) # tab[t].shell
                BY <4>2, <3>1, GuardAdmits DEF Shells
            <4> QED
                BY <4>1, <4>2
        <3>3. GuardInv'
            <4>1. tab' = [tab EXCEPT ![t] = [tab[t] EXCEPT !.phase = "shown", !.shell = ShellOf(p),
                                        !.guard = guard, !.seen = fc_token, !.link = NoToken]]
                BY <2>8 DEF Mount
            <4>2. /\ tab'[t].shell = ShellOf(p) /\ tab'[t].guard = guard /\ tab'[t].at = p
                  /\ \A s \in Tabs \ {t} : tab'[s] = tab[s]
                BY <4>1 DEF TypeOK, TabTypes
            <4> QED
                BY <4>2, <3>2 DEF GuardInv
        <3>4. \A k \in Effects(p, RoleIn(fc_token)) : Granted(Request(t, k, guard, fc_token))
            BY <3>1, <3>2, PageRequestGranted DEF TypeOK
        <3>5. sent' = sent \cup {Request(t, k, guard, fc_token) : k \in Effects(p, RoleIn(fc_token))}
            BY <2>8 DEF Mount
        <3> QED
            BY <3>3, <3>4, <3>5, <2>0, <2>1
    <2>9. ASSUME NEW t \in Tabs, FollowLink(t) PROVE GuardInv' /\ ForbiddenOnlyAfterSwitch'
        <3>1. GuardInv'
            BY <2>9 DEF FollowLink, GuardInv, TypeOK, TabTypes
        <3> QED
            BY <2>9, <3>1, <2>1, <2>2 DEF FollowLink
    <2>10. ASSUME NEW t \in Tabs, NEW p, LoadDocument(t, p)
           PROVE  GuardInv' /\ ForbiddenOnlyAfterSwitch'
        BY <2>10 DEF LoadDocument, Fresh, GuardInv, ForbiddenOnlyAfterSwitch, TypeOK, Shells
    <2>11. ASSUME NEW t \in Tabs, OpenUrl(t) \/ Reload(t)
           PROVE  GuardInv' /\ ForbiddenOnlyAfterSwitch'
        BY <2>10, <2>11 DEF OpenUrl, Reload
    <2>12. ASSUME NEW t \in Tabs, Rerender(t) PROVE GuardInv' /\ ForbiddenOnlyAfterSwitch'
        BY <2>12, <2>4 DEF Rerender, ForbiddenOnlyAfterSwitch
    <2>13. ASSUME NEW t \in Tabs, Press(t) PROVE GuardInv' /\ ForbiddenOnlyAfterSwitch'
        <3>1. PICK k \in Buttons(tab[t].at, RoleIn(tab[t].seen)) :
                 sent' = sent \cup {Request(t, k, tab[t].guard, tab[t].seen)}
            BY <2>13 DEF Press
        <3>2. Granted(Request(t, k, tab[t].guard, tab[t].seen))
            <4>1. tab[t].at \in Paths /\ fc_token \in StoredTokens
                BY DEF TypeOK, TabTypes
            <4>2. ShellOf(tab[t].at) \in Shells =>
                      tab[t].guard.role \in allowedRoles(ShellOf(tab[t].at))
                BY <2>13 DEF Press, GuardInv
            <4> QED
                BY <3>1, <4>1, <4>2, PageRequestGranted
        <3> QED
            BY <2>13, <3>1, <3>2, <2>0, <2>1, <2>4 DEF Press
    <2>14. ASSUME NEW t \in Tabs, SubmitLogin(t) PROVE GuardInv' /\ ForbiddenOnlyAfterSwitch'
        <3>1. Granted(Request(t, "POST /auth/login", tab[t].guard, tab[t].seen))
            BY DEF Granted, Request, is_authorized, TypeOK, StoredTokens, Tokens
        <3> QED
            BY <2>14, <3>1, <2>0, <2>1, <2>4 DEF SubmitLogin
    <2>15. ASSUME NEW t \in Tabs, LoginAnswered(t) PROVE GuardInv' /\ ForbiddenOnlyAfterSwitch'
        <3>1. PICK r \in InFlight(t) :
                 IF tab[t].phase = "leaving" \/ tab[t].at = "/"
                 THEN tab' = tab /\ sent' = sent \ {r}
                 ELSE /\ tab' = [tab EXCEPT ![t].at = "/", ![t].phase = "routing",
                                            ![t].link = NoToken]
                      /\ sent' = Unmounted(t, sent \ {r})
            BY <2>15 DEF LoginAnswered
        <3>2. GuardInv'
            BY <3>1 DEF GuardInv, TypeOK, TabTypes
        <3>3. \A q \in sent' : Granted(q)
            <4>1. Unmounted(t, sent \ {r}) \subseteq Unmounted(t, sent)
                BY DEF Unmounted
            <4> QED
                BY <3>1, <4>1, <2>0, <2>2
        <3> QED
            BY <3>2, <3>3, <2>1
    <2>16. ASSUME NEW t \in Tabs, Rejected(t) \/ SignOut(t)
           PROVE  GuardInv' /\ ForbiddenOnlyAfterSwitch'
        <3>1. tab' = [tab EXCEPT ![t].phase = "leaving"] /\ sent' \subseteq sent
            BY <2>16 DEF Rejected, SignOut
        <3>2. GuardInv'
            BY <3>1 DEF GuardInv, TypeOK, TabTypes
        <3> QED
            BY <3>1, <3>2 DEF ForbiddenOnlyAfterSwitch
    <2>17. ASSUME NEW t \in Tabs, Answered(t) PROVE GuardInv' /\ ForbiddenOnlyAfterSwitch'
        <3>1. PICK r \in InFlight(t) : AnsweredBy(t, r)
            BY <2>17, AnsweredPick
        <3>2. GuardInv'
            BY <3>1, <2>4 DEF AnsweredBy, GuardInv
        <3>3. ASSUME NEW k \in Again(t, r) PROVE Granted(Request(t, k, tab[t].guard, fc_token))
            <4>1. k \in Effects("/", RoleIn(fc_token)) /\ "/" \in Paths
                BY <3>3 DEF Again, Effects, Paths
            <4>2. tab[t].guard \in Tokens => tab[t].guard.role \in allowedRoles(ShellOf("/"))
                BY DEF allowedRoles, ShellOf, Tokens
            <4>3. fc_token \in StoredTokens
                BY DEF TypeOK
            <4> QED
                BY <4>1, <4>2, <4>3, PageRequestGranted
        <3> QED
            BY <3>1, <3>2, <3>3, <2>0, <2>1 DEF AnsweredBy
    <2> QED
        BY <2>5, <2>6, <2>7, <2>8, <2>9, <2>11, <2>12, <2>13, <2>14, <2>15, <2>16, <2>17 DEF Next
<1> QED
    BY <1>1, <1>2, Typing, PTL DEF Spec

-----------------------------------------------------------------------------
(* Why a good token goes away *)

\* The answer to a request made with a good stored token never removes that
\* token (client.ts:17-28).
THEOREM EndsForCause == Spec => SessionEndsForCause
<1> DEFINE Cause == Valid(fc_token) /\ fc_token' = NoToken =>
                        \A r \in sent \ sent' : r.kind = "POST /auth/login" \/ r.by # fc_token
<1>1. TypeOK /\ [Next]_vars => [Cause]_vars
    <2> SUFFICES ASSUME TypeOK, Next, Valid(fc_token), fc_token' = NoToken,
                        NEW r \in sent \ sent'
                 PROVE  r.kind = "POST /auth/login" \/ r.by # fc_token
        OBVIOUS
    <2>1. fc_token # NoToken
        BY DEF Valid
    <2>2. ~Elsewhere /\ ~Expire
        BY <2>1 DEF Elsewhere, Expire
    <2>3. ASSUME NEW t \in Tabs, Rejected(t)
          PROVE  r.kind = "POST /auth/login" \/ r.by # fc_token
        BY <2>3 DEF Rejected
    <2>4. ASSUME NEW t \in Tabs, SignOut(t) PROVE FALSE
        BY <2>4 DEF SignOut
    <2>5. ASSUME NEW t \in Tabs, LoginAnswered(t) PROVE FALSE
        BY <2>5, IssuedToken DEF LoginAnswered
    <2>6. ASSUME NEW t \in Tabs,
                 \/ Redirect(t) \/ Mount(t) \/ FollowLink(t) \/ OpenUrl(t) \/ Reload(t)
                 \/ Rerender(t) \/ Press(t) \/ SubmitLogin(t) \/ Answered(t)
          PROVE  FALSE
        BY <2>1, <2>6 DEF Redirect, Mount, FollowLink, OpenUrl, Reload, LoadDocument, Rerender,
           Press, SubmitLogin, Answered
    <2> QED
        BY <2>2, <2>3, <2>4, <2>5, <2>6 DEF Next
<1>2. [][TypeOK /\ [Next]_vars => [Cause]_vars]_vars
    BY <1>1, PTL
<1> QED
    BY <1>1, Typing, PTL DEF Spec, SessionEndsForCause

-----------------------------------------------------------------------------
(* Where links lead *)

\* The route table admits role r to path p, or takes an administrator home.
Welcome(r, p) == ShellOf(p) # "public" => r = "admin" \/ r \in allowedRoles(ShellOf(p))

\* Navigation, cards and rows offer a role only where it is welcome, whatever
\* page they are on (NavBar.tsx, the pages, App.tsx).
LEMMA LinksWelcome ==
    ASSUME NEW p \in Paths, NEW r \in Roles, NEW q \in Links(p, r)
    PROVE  Welcome(r, q)
<1>1. q \in NavLinks(r) => Welcome(r, q)
    BY DEF NavLinks, Welcome, ShellOf, allowedRoles, Roles
<1>2. q \in DashboardCaseLinks(r) \cup QuickActions(r) => Welcome(r, q)
    BY DEF DashboardCaseLinks, QuickActions, Welcome, ShellOf, allowedRoles, Roles
<1>3. q \in ListLinks(r) \cup DetailLinks(r) \cup {"/", "/artifacts/:id"} => Welcome(r, q)
    BY DEF ListLinks, DetailLinks, Welcome, ShellOf, allowedRoles, Roles
<1> QED
    BY <1>1, <1>2, <1>3 DEF Links, Paths

\* Tokens are numbered, so that one that was replaced never comes back; a tab
\* on its way along a link drawn for the stored token goes where its role is
\* welcome.
Issued(token) == token # NoToken => token.no <= logins

LinkInv ==
    /\ Issued(fc_token)
    /\ \A t \in Tabs : Issued(tab[t].seen) /\ Issued(tab[t].link)
    /\ \A t \in Tabs :
         tab[t].phase = "routing" /\ tab[t].link # NoToken /\ tab[t].link = fc_token =>
             Welcome(fc_token.role, tab[t].at)

\* A redirect takes the stored token where it is welcome, too.
LEMMA TargetWelcome ==
    ASSUME NEW t \in Tabs, fc_token \in Tokens, Welcome(fc_token.role, tab[t].at)
    PROVE  /\ Welcome(fc_token.role, Target(t))
           /\ Target(t) = "/unauthorized" => tab[t].at = "/unauthorized"
<1> DEFINE p == tab[t].at
<1>1. Welcome(fc_token.role, "/") /\ Welcome(fc_token.role, "/login")
    BY DEF Welcome, ShellOf, allowedRoles, Tokens
<1>2. fc_token # NoToken /\ RoleIn(fc_token) = fc_token.role
    BY SessionAssumption DEF RoleIn
<1>3. CASE Target(t) = p
    BY <1>3
<1>4. CASE Target(t) \in {"/", "/login"}
    BY <1>1, <1>4
<1>5. CASE Target(t) # p /\ Target(t) \notin {"/", "/login"}
    <2>1. ShellOf(p) # "public" /\ Target(t) = ProtectedRoute(p)
        BY <1>5 DEF Target, RoleHome, LoginRedirect
    <2>2. Target(t) = "/admin/users" /\ fc_token.role = "admin"
        BY <1>2, <1>5, <2>1 DEF ProtectedRoute, Welcome
    <2> QED
        BY <2>2 DEF Welcome
<1> QED
    BY <1>3, <1>4, <1>5

\* What another rendering of a tab leaves of LinkInv's business.
LEMMA RerenderedLink ==
    ASSUME TypeOK, LinkInv, NEW t \in Tabs, tab' = Rerendered(t), UNCHANGED <<fc_token, logins>>
    PROVE  LinkInv'
<1>1. ASSUME NEW s \in Tabs
      PROVE  /\ tab'[s].seen \in {tab[s].seen, fc_token}
             /\ tab'[s].link \in {tab[s].link, NoToken}
             /\ tab'[s].link # NoToken => tab'[s].at = tab[s].at /\ tab'[s].phase = tab[s].phase
    <2>1. tab[s] \in TabTypes /\ tab \in [Tabs -> TabTypes]
        BY DEF TypeOK
    <2> QED
        BY <2>1 DEF Rerendered, TabTypes
<1> QED
    BY <1>1 DEF LinkInv, Issued

\* A step that stores a new token, or none, and lets a tab keep its links.
LEMMA TokenReplaced ==
    ASSUME TypeOK, LinkInv,
           \/ fc_token' = NoToken /\ UNCHANGED logins
           \/ \E role : fc_token' = [no |-> logins + 1, role |-> role] /\ logins' = logins + 1,
           \A s \in Tabs : tab'[s].seen = tab[s].seen /\ tab'[s].link \in {tab[s].link, NoToken}
    PROVE  LinkInv'
<1>1. logins \in Nat /\ logins' \in Nat /\ logins <= logins'
    BY SessionAssumption DEF TypeOK
<1>2. fc_token' # NoToken => fc_token'.no = logins + 1 /\ logins' = logins + 1
    OBVIOUS
<1>3. ASSUME NEW s \in Tabs
      PROVE  /\ tab[s].seen # NoToken => tab[s].seen.no \in Nat /\ tab[s].seen.no <= logins
             /\ tab[s].link # NoToken => tab[s].link.no \in Nat /\ tab[s].link.no <= logins
    BY DEF TypeOK, TabTypes, StoredTokens, Tokens, LinkInv, Issued
<1>4. Issued(fc_token)'
    BY <1>1, <1>2 DEF Issued
<1>5. ASSUME NEW s \in Tabs
      PROVE  /\ Issued(tab[s].seen)' /\ Issued(tab[s].link)'
             /\ tab'[s].link # NoToken => tab'[s].link # fc_token'
    <2>1. Issued(tab[s].seen)' /\ Issued(tab[s].link)'
        BY <1>1, <1>3 DEF Issued
    <2>2. ASSUME tab'[s].link # NoToken, tab'[s].link = fc_token' PROVE FALSE
        <3>1. tab'[s].link = tab[s].link
            BY <2>2
        <3>2. tab[s].link.no = logins + 1
            BY <1>2, <2>2, <3>1
        <3> QED
            BY <1>1, <1>3, <2>2, <3>1, <3>2
    <2> QED
        BY <2>1, <2>2
<1> QED
    BY <1>4, <1>5 DEF LinkInv

LEMMA NextLinkInv ==
    ASSUME TypeOK, LinkInv, [Next]_vars
    PROVE  LinkInv'
<1>0. tab \in [Tabs -> TabTypes] /\ \A s \in Tabs : tab[s] \in TabTypes
    BY DEF TypeOK
<1>1. CASE UNCHANGED <<fc_token, logins, tab>>
    BY <1>1 DEF LinkInv, Issued
<1>2. CASE Elsewhere
    BY <1>2, TokenReplaced DEF Elsewhere
<1>3. ASSUME NEW t \in Tabs, Redirect(t) PROVE LinkInv'
    <2>1. /\ tab[t].phase = "routing" /\ UNCHANGED <<fc_token, logins>>
          /\ tab'[t].at = Target(t)
          /\ \A s \in Tabs : /\ tab'[s].seen = tab[s].seen /\ tab'[s].link = tab[s].link
                             /\ tab'[s].phase = tab[s].phase
                             /\ s # t => tab'[s].at = tab[s].at
        BY <1>0, <1>3 DEF Redirect, TabTypes
    <2>2. ASSUME tab[t].link # NoToken, tab[t].link = fc_token
          PROVE  Welcome(fc_token.role, Target(t))
        <3>1. fc_token \in Tokens
            BY <2>2 DEF TypeOK, StoredTokens
        <3>2. Welcome(fc_token.role, tab[t].at)
            BY <2>1, <2>2 DEF LinkInv
        <3> QED
            BY <3>1, <3>2, TargetWelcome
    <2> QED
        BY <2>1, <2>2 DEF LinkInv, Issued
<1>4. ASSUME NEW t \in Tabs, Mount(t) PROVE LinkInv'
    <2>1. /\ UNCHANGED <<fc_token, logins>>
          /\ tab'[t].phase = "shown" /\ tab'[t].seen = fc_token /\ tab'[t].link = NoToken
          /\ \A s \in Tabs \ {t} : tab'[s] = tab[s]
        BY <1>0, <1>4 DEF Mount, TabTypes
    <2> QED
        BY <2>1 DEF LinkInv, Issued
<1>5. ASSUME NEW t \in Tabs, FollowLink(t) PROVE LinkInv'
    <2>1. PICK p \in Links(tab[t].at, RoleIn(tab[t].seen)) :
             tab' = [tab EXCEPT ![t].at = p, ![t].phase = "routing", ![t].link = tab[t].seen]
        BY <1>5 DEF FollowLink
    <2>2. /\ tab'[t].at = p /\ tab'[t].link = tab[t].seen /\ tab'[t].seen = tab[t].seen
          /\ \A s \in Tabs \ {t} : tab'[s] = tab[s]
          /\ UNCHANGED <<fc_token, logins>>
        BY <1>0, <1>5, <2>1 DEF FollowLink, TabTypes
    <2>3. ASSUME tab[t].seen # NoToken, tab[t].seen = fc_token
          PROVE  Welcome(fc_token.role, p)
        <3>1. fc_token \in Tokens /\ fc_token.role \in Roles /\ RoleIn(tab[t].seen) = fc_token.role
            BY <2>3 DEF TypeOK, StoredTokens, Tokens, RoleIn
        <3>2. tab[t].at \in Paths
            BY <1>0 DEF TabTypes
        <3> QED
            BY <2>1, <3>1, <3>2, LinksWelcome
    <2> QED
        BY <2>2, <2>3 DEF LinkInv, Issued
<1>6. ASSUME NEW t \in Tabs, NEW p, LoadDocument(t, p) PROVE LinkInv'
    <2>1. /\ tab'[t].link = NoToken /\ tab'[t].seen = NoToken
          /\ \A s \in Tabs \ {t} : tab'[s] = tab[s]
          /\ UNCHANGED <<fc_token, logins>>
        BY <1>0, <1>6 DEF LoadDocument, Fresh
    <2> QED
        BY <2>1 DEF LinkInv, Issued
<1>7. ASSUME NEW t \in Tabs, Rerender(t) \/ Press(t) \/ SubmitLogin(t) PROVE LinkInv'
    BY <1>7, RerenderedLink DEF Rerender, Press, SubmitLogin
<1>8. ASSUME NEW t \in Tabs, LoginAnswered(t) PROVE LinkInv'
    <2>1. /\ logins' = logins + 1
          /\ \E role \in LoginRoles : fc_token' = [no |-> logins + 1, role |-> role]
          /\ tab' \in {tab, [tab EXCEPT ![t].at = "/", ![t].phase = "routing", ![t].link = NoToken]}
        BY <1>8 DEF LoginAnswered
    <2>2. \A s \in Tabs : tab'[s].seen = tab[s].seen /\ tab'[s].link \in {tab[s].link, NoToken}
        BY <1>0, <2>1 DEF TabTypes
    <2> QED
        BY <2>1, <2>2, TokenReplaced
<1>9. ASSUME NEW t \in Tabs, Rejected(t) \/ SignOut(t) PROVE LinkInv'
    <2>1. /\ fc_token' = NoToken /\ UNCHANGED logins
          /\ tab' = [tab EXCEPT ![t].phase = "leaving"]
        BY <1>9 DEF Rejected, SignOut
    <2>2. \A s \in Tabs : tab'[s].seen = tab[s].seen /\ tab'[s].link = tab[s].link
        BY <1>0, <2>1 DEF TabTypes
    <2> QED
        BY <2>1, <2>2, TokenReplaced
<1>10. ASSUME NEW t \in Tabs, Answered(t) PROVE LinkInv'
    <2>1. tab' \in {Rerendered(t), tab} /\ UNCHANGED <<fc_token, logins>>
        BY <1>10, AnsweredPick DEF AnsweredBy
    <2>2. CASE tab' = tab
        BY <2>1, <2>2, <1>1
    <2>3. CASE tab' = Rerendered(t)
        BY <2>1, <2>3, RerenderedLink
    <2> QED
        BY <2>1, <2>2, <2>3
<1> QED
    BY <1>1, <1>2, <1>3, <1>4, <1>5, <1>6, <1>7, <1>8, <1>9, <1>10
       DEF Next, Expire, OpenUrl, Reload, vars

\* Nobody comes to the 403 page along a link drawn for the token that is still
\* stored (NavBar.tsx, the pages' links, App.tsx, ProtectedRoute.tsx:8-18).
THEOREM LinksAreWelcome == Spec => UnauthorizedOnlyByUrl
<1> DEFINE Way == \A t \in Tabs :
                     /\ tab[t].phase = "routing" /\ tab[t].at # "/unauthorized"
                     /\ tab'[t].at = "/unauthorized"
                     => tab[t].link = NoToken \/ tab[t].link # fc_token
<1>1. Init => LinkInv
    BY DEF Init, LinkInv, Issued, Fresh
<1>2. TypeOK /\ LinkInv /\ [Next]_vars => LinkInv'
    BY NextLinkInv
<1>3. TypeOK /\ LinkInv /\ [Next]_vars => [Way]_vars
    <2> SUFFICES ASSUME TypeOK, LinkInv, Next, NEW t \in Tabs,
                        tab[t].phase = "routing", tab[t].at # "/unauthorized",
                        tab'[t].at = "/unauthorized",
                        tab[t].link # NoToken, tab[t].link = fc_token
                 PROVE  FALSE
        OBVIOUS
    <2>0. tab \in [Tabs -> TabTypes] /\ \A s \in Tabs : tab[s] \in TabTypes
        BY DEF TypeOK
    <2>1. fc_token \in Tokens /\ Welcome(fc_token.role, tab[t].at)
        BY DEF LinkInv, TypeOK, StoredTokens
    <2>2. Target(t) # "/unauthorized"
        BY <2>1, TargetWelcome
    <2>3. ASSUME NEW s \in Tabs, SignOut(s) \/ Rejected(s) PROVE FALSE
        <3>1. tab' = [tab EXCEPT ![s].phase = "leaving"]
            BY <2>3 DEF SignOut, Rejected
        <3> QED
            BY <2>0, <3>1 DEF TabTypes
    <2>4. ASSUME NEW s \in Tabs, Redirect(s) PROVE FALSE
        BY <2>0, <2>2, <2>4 DEF Redirect, TabTypes
    <2>5. ASSUME NEW s \in Tabs, Mount(s) PROVE FALSE
        BY <2>0, <2>5 DEF Mount, TabTypes
    <2>6. ASSUME NEW s \in Tabs, FollowLink(s) PROVE FALSE
        BY <2>0, <2>6 DEF FollowLink, TabTypes
    <2>7. ASSUME NEW s \in Tabs, OpenUrl(s) \/ Reload(s) PROVE FALSE
        BY <2>0, <2>7 DEF OpenUrl, Reload, LoadDocument, TabTypes
    <2>8. ASSUME NEW s \in Tabs, tab' \in {tab, Rerendered(s)} PROVE FALSE
        BY <2>0, <2>8 DEF Rerendered, LoginRedirect, TabTypes
    <2>9. ASSUME NEW s \in Tabs, LoginAnswered(s) PROVE FALSE
        <3>1. tab' \in {tab, [tab EXCEPT ![s].at = "/", ![s].phase = "routing", ![s].link = NoToken]}
            BY <2>9 DEF LoginAnswered
        <3> QED
            BY <2>0, <3>1 DEF TabTypes
    <2>10. ASSUME NEW s \in Tabs, Rerender(s) \/ Press(s) \/ SubmitLogin(s) \/ Answered(s)
           PROVE  FALSE
        BY <2>8, <2>10, AnsweredPick DEF Rerender, Press, SubmitLogin, AnsweredBy
    <2>11. CASE Elsewhere \/ Expire
        BY <2>11 DEF Elsewhere, Expire
    <2> QED
        BY <2>3, <2>4, <2>5, <2>6, <2>7, <2>9, <2>10, <2>11 DEF Next
<1> QED
    BY <1>1, <1>2, <1>3, Typing, PTL DEF Spec, UnauthorizedOnlyByUrl
=============================================================================
