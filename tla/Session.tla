------------------------------ MODULE Session ------------------------------
(***************************************************************************)
(* The session of the web client (src/forensic-ui): several browser tabs   *)
(* share one stored token, every tab runs its own router, guards, pages    *)
(* and axios interceptors, and the gateway decides request by request.     *)
(* Pages are known by their path and by the requests they make; what they  *)
(* do with the answers is in the page modules.                             *)
(***************************************************************************)
EXTENDS Naturals, FiniteSets

CONSTANTS
  Tabs,         \* the browser tabs followed in full; Elsewhere stands for the others
  LoginRoles,   \* roles of the accounts people sign in with
  NoToken,      \* what getToken returns when nothing is stored
  MaxLogins,    \* bound: tokens issued
  MaxInFlight   \* bound: requests of one tab awaiting an answer

Roles == {"investigator", "forensic_analyst", "legal_reviewer", "admin"}
Tokens == [no : 1..MaxLogins, role : Roles]

Paths == {"*", "/login", "/unauthorized", "/", "/cases/:caseId",
          "/artifacts/upload", "/artifacts", "/artifacts/:id", "/ledger",
          "/reports/:artifactId", "/admin/users"}

ASSUME SessionAssumption ==
  /\ LoginRoles \subseteq Roles
  /\ MaxLogins \in Nat
  /\ NoToken \notin Tokens

VARIABLES
  fc_token,   \* localStorage['fc_token']
  logins,     \* tokens issued by POST /auth/login
  expired,    \* tokens up to this number are past their exp (all last 8 hours)
  tab,        \* what each tab displays, see TabTypes
  sent        \* requests awaiting an answer, see RequestTypes

vars == <<fc_token, logins, expired, tab, sent>>

(***************************************************************************)
(* hooks/useAuth.ts: every call reads the stored token anew.               *)
(***************************************************************************)
Valid(token) == token # NoToken /\ token.no > expired

isAuthenticated == Valid(fc_token)

\* getRole: the role of an expired token is still a role.
RoleIn(token) == IF token = NoToken THEN "none" ELSE token.role

(***************************************************************************)
(* The route table of App.tsx.  Paths under one <Route element> share one  *)
(* ProtectedRoute element: React keeps it, and does not run it again, when *)
(* the location moves between them.                                        *)
(***************************************************************************)
Shells == {"everyone", "collectors", "readers", "ledger", "reports", "admin"}

ShellOf(p) ==
  CASE p \in {"/", "/cases/:caseId"}            -> "everyone"
    [] p = "/artifacts/upload"                  -> "collectors"
    [] p \in {"/artifacts", "/artifacts/:id"}   -> "readers"
    [] p = "/ledger"                            -> "ledger"
    [] p = "/reports/:artifactId"               -> "reports"
    [] p = "/admin/users"                       -> "admin"
    [] OTHER                                    -> "public"

\* Mutant: the artifact routes admit administrators as well.
allowedRoles_AdminReads(shell) ==
  CASE shell \in {"everyone", "readers"} -> Roles
    [] shell = "collectors"              -> {"investigator", "forensic_analyst"}
    [] shell \in {"ledger", "reports"}   -> {"legal_reviewer"}
    [] OTHER                             -> {"admin"}

allowedRoles(shell) ==
  CASE shell = "everyone"                -> Roles
    [] shell = "collectors"              -> {"investigator", "forensic_analyst"}
    [] shell = "readers"                 -> Roles \ {"admin"}
    [] shell \in {"ledger", "reports"}   -> {"legal_reviewer"}
    [] OTHER                             -> {"admin"}

\* Where the guard of path p lets the stored token go.
ProtectedRoute(p) ==
  IF ~isAuthenticated THEN "/login"
  ELSE IF RoleIn(fc_token) \in allowedRoles(ShellOf(p)) THEN p
  ELSE IF RoleIn(fc_token) = "admin" THEN "/admin/users"
  ELSE "/unauthorized"

RoleHome == IF isAuthenticated THEN "/" ELSE "/login"

\* Mutant: the login page asks for a role instead of a good token.
LoginRedirect_AnyRole == IF RoleIn(fc_token) # "none" THEN "/" ELSE "/login"

LoginRedirect == IF isAuthenticated THEN "/" ELSE "/login"

\* What rendering tab t at its present location leads to.
Target(t) ==
  LET p == tab[t].at IN
  IF p = "*" THEN RoleHome
  ELSE IF p = "/login" THEN LoginRedirect
  ELSE IF ShellOf(p) \in {"public", tab[t].shell} THEN p
  ELSE ProtectedRoute(p)

(***************************************************************************)
(* The links a page offers to a user of role r.                            *)
(***************************************************************************)
\* Mutant: the analyst's navigation lists the ledger.
NavLinks_AnalystLedger(r) ==
  {p \in {"/", "/artifacts/upload", "/artifacts", "/ledger", "/admin/users"} :
     \/ p = "/"                 /\ r \in Roles
     \/ p = "/artifacts/upload" /\ r \in {"investigator", "forensic_analyst"}
     \/ p = "/artifacts"        /\ r \in {"investigator", "forensic_analyst", "legal_reviewer"}
     \/ p = "/ledger"           /\ r \in {"forensic_analyst", "legal_reviewer"}
     \/ p = "/admin/users"      /\ r = "admin"}

NavLinks(r) ==
  {p \in {"/", "/artifacts/upload", "/artifacts", "/ledger", "/admin/users"} :
     \/ p = "/"                 /\ r \in Roles
     \/ p = "/artifacts/upload" /\ r \in {"investigator", "forensic_analyst"}
     \/ p = "/artifacts"        /\ r \in {"investigator", "forensic_analyst", "legal_reviewer"}
     \/ p = "/ledger"           /\ r = "legal_reviewer"
     \/ p = "/admin/users"      /\ r = "admin"}

DashboardCaseLinks(r) == IF r = "admin" THEN {} ELSE {"/cases/:caseId"}

QuickActions(r) ==
  {p \in {"/admin/users", "/artifacts/upload", "/artifacts"} :
     \/ p = "/admin/users"      /\ r = "admin"
     \/ p = "/artifacts/upload" /\ r \in {"investigator", "forensic_analyst"}
     \/ p = "/artifacts"        /\ r # "admin"}

ListLinks(r) == {"/artifacts/:id"} \cup
  (IF r \in {"investigator", "forensic_analyst"} THEN {"/artifacts/upload"} ELSE {})

DetailLinks(r) == {"/artifacts"} \cup
  (IF r = "legal_reviewer" THEN {"/reports/:artifactId"} ELSE {})

\* Layout shows the navigation of the stored role around every page.
Links(p, r) ==
  CASE p = "/login"               -> {}
    [] p = "/unauthorized"        -> {"/"}
    [] p = "/"                    -> NavLinks(r) \cup DashboardCaseLinks(r) \cup QuickActions(r)
    [] p = "/cases/:caseId"       -> NavLinks(r) \cup {"/", "/artifacts/:id"}
    [] p = "/artifacts"           -> NavLinks(r) \cup ListLinks(r)
    [] p = "/artifacts/:id"       -> NavLinks(r) \cup DetailLinks(r)
    [] p = "/reports/:artifactId" -> NavLinks(r) \cup {"/artifacts/:id"}
    [] OTHER                      -> NavLinks(r)

(***************************************************************************)
(* The requests of the pages, and who the gateway lets through.            *)
(***************************************************************************)
Kinds == {"POST /auth/login", "GET /cases", "GET /evidence", "GET /evidence?case",
          "GET /evidence/:id", "GET /evidence/:id/download", "POST /evidence",
          "POST /evidence/:id/verify", "GET /custody", "GET /ledger",
          "GET /reports", "POST /reports", "GET /admin", "WRITE /admin"}

\* The effects that run when page p is mounted, or when [role] changes.
DashboardEffect(r) == IF r = "admin" THEN {"GET /admin"} ELSE {"GET /cases", "GET /evidence"}

Effects(p, r) ==
  CASE p = "/"                    -> DashboardEffect(r)
    [] p = "/cases/:caseId"       -> {"GET /evidence?case"}
    [] p = "/artifacts"           -> {"GET /evidence"}
    [] p = "/artifacts/:id"       -> {"GET /evidence/:id", "GET /custody"}
    [] p = "/artifacts/upload"    -> {"GET /cases"}
    [] p = "/ledger"              -> {"GET /cases"}
    [] p = "/reports/:artifactId" -> {"GET /reports"}
    [] p = "/admin/users"         -> {"GET /admin"}
    [] OTHER                      -> {}

\* The requests behind the buttons of page p, rendered for role r.
Buttons(p, r) ==
  CASE p = "/artifacts/upload"    -> {"POST /evidence"}
    [] p = "/artifacts/:id"       -> {"POST /evidence/:id/verify"} \cup
         (IF r = "forensic_analyst" THEN {"GET /evidence/:id/download"} ELSE {})
    [] p = "/ledger"              -> {"GET /ledger"}
    [] p = "/reports/:artifactId" -> {"GET /reports", "POST /reports"}
    [] p = "/admin/users"         -> {"GET /admin", "WRITE /admin"}
    [] OTHER                      -> {}

\* is_authorized of the auth service; /auth/login is behind no check.
is_authorized(k) ==
  CASE k = "POST /auth/login"                             -> Roles
    [] k \in {"POST /evidence", "GET /evidence/:id/download"} ->
         {"investigator", "forensic_analyst"}
    [] k \in {"GET /custody", "GET /ledger", "GET /reports", "POST /reports"} ->
         {"legal_reviewer"}
    [] k \in {"GET /admin", "WRITE /admin"}               -> {"admin"}
    [] OTHER                                              -> Roles \ {"admin"}

\* The request interceptor attaches the token stored at that moment.
\* as_shown: the guard and the page both saw that token.
Request(t, k, guard, seen) ==
  [tab |-> t, kind |-> k, by |-> fc_token, live |-> TRUE,
   as_shown |-> guard = fc_token /\ seen = fc_token]

InFlight(t) == {r \in sent : r.tab = t}

\* The page of tab t is unmounted: its answers no longer reach a page.
Unmounted(t, requests) ==
  {IF r.tab = t THEN [r EXCEPT !.live = FALSE] ELSE r : r \in requests}

(***************************************************************************)
(* Types.  at: location; phase: "routing" until the router comes to rest,  *)
(* "leaving" once window.location.href is set; shell: the ProtectedRoute   *)
(* mounted; guard, seen: the token it and the page last read; link: on the *)
(* way to a page, the token whose rendering showed the link followed.      *)
(***************************************************************************)
StoredTokens == Tokens \cup {NoToken}

TabTypes == [at : Paths,
             phase : {"routing", "shown", "leaving"},
             shell : Shells \cup {"public", "nothing"},
             guard : StoredTokens, seen : StoredTokens, link : StoredTokens]

RequestTypes == [tab : Tabs, kind : Kinds, by : StoredTokens, live : BOOLEAN,
                 as_shown : BOOLEAN]

\* A document of its own: nothing of the previous one survives.
Fresh(p) == [at |-> p, phase |-> "routing", shell |-> "nothing",
             guard |-> NoToken, seen |-> NoToken, link |-> NoToken]

Init ==
  /\ fc_token = NoToken /\ logins = 0 /\ expired = 0
  /\ tab = [t \in Tabs |-> Fresh("/")]
  /\ sent = {}

(***************************************************************************)
(* Routing.                                                                *)
(***************************************************************************)
\* A guard or a page renders <Navigate>, which leaves nothing to be kept.
Redirect(t) ==
  /\ tab[t].phase = "routing"
  /\ Target(t) # tab[t].at
  /\ tab' = [tab EXCEPT ![t].at = Target(t), ![t].shell = "nothing"]
  /\ UNCHANGED <<fc_token, logins, expired, sent>>

\* The page is mounted and its effects run.
Mount(t) ==
  LET p == tab[t].at
      guard == IF ShellOf(p) = tab[t].shell THEN tab[t].guard
               ELSE IF ShellOf(p) = "public" THEN NoToken ELSE fc_token
  IN
  /\ tab[t].phase = "routing"
  /\ Target(t) = p
  /\ tab' = [tab EXCEPT ![t].phase = "shown", ![t].shell = ShellOf(p),
                        ![t].guard = guard, ![t].seen = fc_token, ![t].link = NoToken]
  /\ sent' = sent \cup {Request(t, k, guard, fc_token) : k \in Effects(p, RoleIn(fc_token))}
  /\ UNCHANGED <<fc_token, logins, expired>>

\* The user follows a link of the page as it was last rendered.
FollowLink(t) ==
  /\ tab[t].phase = "shown"
  /\ Cardinality(InFlight(t)) <= MaxInFlight
  /\ \E p \in Links(tab[t].at, RoleIn(tab[t].seen)) \ {tab[t].at} :
       tab' = [tab EXCEPT ![t].at = p, ![t].phase = "routing", ![t].link = tab[t].seen]
  /\ sent' = Unmounted(t, sent)
  /\ UNCHANGED <<fc_token, logins, expired>>

LoadDocument(t, p) ==
  /\ tab' = [tab EXCEPT ![t] = Fresh(p)]
  /\ sent' = sent \ InFlight(t)
  /\ UNCHANGED <<fc_token, logins, expired>>

OpenUrl(t) ==
  tab[t].phase = "shown" /\ \E p \in Paths : LoadDocument(t, p)

Reload(t) == tab[t].phase = "leaving" /\ LoadDocument(t, "/login")

\* The page renders again: it reads the token, and the login page may go home.
Rerendered(t) ==
  IF tab[t].at = "/login" /\ isAuthenticated
  THEN [tab EXCEPT ![t].at = LoginRedirect, ![t].phase = "routing", ![t].link = NoToken]
  ELSE [tab EXCEPT ![t].seen = fc_token]

\* Typing or choosing something; two pages have nothing to type or choose.
Rerender(t) ==
  /\ tab[t].phase = "shown"
  /\ tab[t].at \notin {"/", "/unauthorized"}
  /\ tab' = Rerendered(t)
  /\ UNCHANGED <<fc_token, logins, expired, sent>>

(***************************************************************************)
(* Requests.                                                               *)
(***************************************************************************)
Press(t) ==
  /\ tab[t].phase = "shown"
  /\ Cardinality(InFlight(t)) < MaxInFlight
  /\ \E k \in Buttons(tab[t].at, RoleIn(tab[t].seen)) :
       sent' = sent \cup {Request(t, k, tab[t].guard, tab[t].seen)}
  /\ tab' = Rerendered(t)
  /\ UNCHANGED <<fc_token, logins, expired>>

\* handleSubmit of LoginPage: the button is disabled while loading.
SubmitLogin(t) ==
  /\ tab[t].phase = "shown"
  /\ tab[t].at = "/login"
  /\ ~ \E r \in InFlight(t) : r.kind = "POST /auth/login" /\ r.live
  /\ Cardinality(InFlight(t)) < MaxInFlight
  /\ sent' = sent \cup {Request(t, "POST /auth/login", tab[t].guard, tab[t].seen)}
  /\ tab' = Rerendered(t)
  /\ UNCHANGED <<fc_token, logins, expired>>

\* login() stores the token, then the page navigates home, mounted or not.
LoginAnswered(t) ==
  \E r \in InFlight(t), role \in LoginRoles :
    /\ r.kind = "POST /auth/login"
    /\ logins < MaxLogins
    /\ logins' = logins + 1
    /\ fc_token' = [no |-> logins + 1, role |-> role]
    /\ IF tab[t].phase = "leaving" \/ tab[t].at = "/"
       THEN tab' = tab /\ sent' = sent \ {r}
       ELSE /\ tab' = [tab EXCEPT ![t].at = "/", ![t].phase = "routing", ![t].link = NoToken]
            /\ sent' = Unmounted(t, sent \ {r})
    /\ UNCHANGED expired

\* Mutant: the interceptor treats a 403 like a 401.
Rejected_On403(t) ==
  \E r \in InFlight(t) :
    /\ ~(r.kind # "POST /auth/login" /\ Valid(r.by) /\ r.by.role \in is_authorized(r.kind))
    /\ sent' = sent \ {r}
    /\ fc_token' = NoToken
    /\ tab' = [tab EXCEPT ![t].phase = "leaving"]
    /\ UNCHANGED <<logins, expired>>

\* The response interceptor: a 401 removes whatever token is stored.
Rejected(t) ==
  \E r \in InFlight(t) :
    /\ r.kind = "POST /auth/login" \/ ~Valid(r.by)
    /\ sent' = sent \ {r}
    /\ fc_token' = NoToken
    /\ tab' = [tab EXCEPT ![t].phase = "leaving"]
    /\ UNCHANGED <<logins, expired>>

\* Any other answer, or none at all: a mounted page renders again, and the
\* dashboard's effect runs again if the role it reads is another one.
Answered(t) ==
  \E r \in InFlight(t) :
    LET renders == r.live /\ tab[t].phase = "shown"
        again == IF renders /\ tab[t].at = "/" /\ RoleIn(fc_token) # RoleIn(tab[t].seen)
                 THEN DashboardEffect(RoleIn(fc_token)) ELSE {}
    IN
    /\ r.kind = "POST /auth/login" \/ Valid(r.by)
    /\ tab' = IF renders THEN Rerendered(t) ELSE tab
    /\ sent' = (sent \ {r}) \cup {Request(t, k, tab[t].guard, fc_token) : k \in again}
    /\ UNCHANGED <<fc_token, logins, expired>>

\* logout of useAuth, on every page with a Layout.
SignOut(t) ==
  /\ tab[t].phase = "shown"
  /\ tab[t].at \notin {"/login", "/unauthorized"}
  /\ fc_token' = NoToken
  /\ tab' = [tab EXCEPT ![t].phase = "leaving"]
  /\ UNCHANGED <<logins, expired, sent>>

\* A tab that is not followed signs in, signs out or has its token rejected.
Elsewhere ==
  /\ \/ /\ logins < MaxLogins
        /\ logins' = logins + 1
        /\ \E role \in LoginRoles : fc_token' = [no |-> logins + 1, role |-> role]
     \/ fc_token # NoToken /\ fc_token' = NoToken /\ UNCHANGED logins
  /\ UNCHANGED <<expired, tab, sent>>

Expire ==
  /\ expired < logins
  /\ expired' = expired + 1
  /\ UNCHANGED <<fc_token, logins, tab, sent>>

Next ==
  \/ Elsewhere \/ Expire
  \/ \E t \in Tabs :
       \/ Redirect(t) \/ Mount(t) \/ FollowLink(t) \/ OpenUrl(t) \/ Reload(t)
       \/ Rerender(t) \/ Press(t) \/ SubmitLogin(t) \/ LoginAnswered(t)
       \/ Rejected(t) \/ Answered(t) \/ SignOut(t)

Spec == Init /\ [][Next]_vars

\* A browser tab finishes what it has begun to render or to load.
FairSpec ==
  /\ Spec
  /\ \A t \in Tabs : WF_vars(Redirect(t)) /\ WF_vars(Mount(t)) /\ WF_vars(Reload(t))

(***************************************************************************)
(* Properties.                                                             *)
(***************************************************************************)
\* The variables hold what localStorage, the router and axios can hold.
TypeOK ==
  /\ fc_token \in StoredTokens
  /\ logins \in 0..MaxLogins
  /\ expired \in 0..MaxLogins
  /\ tab \in [Tabs -> TabTypes]
  /\ sent \subseteq RequestTypes

\* A request made while guard, page and localStorage agree on one token is one
\* the gateway authorises: the route table, the role tests of the pages and
\* the auth service's rules, kept in three places, fit together.  Two pages are
\* known to ask for more: the artifact page asks for the custody timeline
\* whoever looks, and an administrator who opens a case's URL is let in by the
\* route table and refused by the gateway.
ForbiddenOnlyAfterSwitch ==
  \A r \in sent :
    r.as_shown /\ r.by # NoToken =>
      \/ r.by.role \in is_authorized(r.kind)
      \/ r.kind = "GET /custody"
      \/ r.kind = "GET /evidence?case" /\ r.by.role = "admin"

\* Nobody is sent to the 403 page by a link of the application: a link leads
\* there only if another tab changed the session after the link was drawn.
UnauthorizedOnlyByUrl ==
  [][ \A t \in Tabs :
        /\ tab[t].phase = "routing" /\ tab[t].at # "/unauthorized"
        /\ tab'[t].at = "/unauthorized"
        => tab[t].link = NoToken \/ tab[t].link # fc_token ]_vars

\* A stored token that is still good goes away by Sign out, by a failed login,
\* or by the late rejection of a request made with another token, never by the
\* answer to a request made with it.
SessionEndsForCause ==
  [][ Valid(fc_token) /\ fc_token' = NoToken =>
        \A r \in sent \ sent' : r.kind = "POST /auth/login" \/ r.by # fc_token ]_vars

\* Guards, home redirects and the login page never send a tab round in circles.
EveryRouteSettles ==
  \A t \in Tabs : tab[t].phase # "shown" ~> tab[t].phase = "shown"
=============================================================================
