------------------------------ MODULE Session ------------------------------
(***************************************************************************)
(* Who is signed in in the web interface: the token in local storage       *)
(* (services/auth.ts), which all tabs share, the guards of the router,     *)
(* and the requests that the middleware of the server admits.  A guard     *)
(* reads the token up to three times; between any two steps another tab    *)
(* may sign in or out, or the token may expire.                            *)
(***************************************************************************)
EXTENDS Integers

CONSTANTS
  Tabs, Teams, None,
  Life,      \* how long the server makes a token valid
  Buffer,    \* what the browser takes off that
  Skews,     \* the browser's clock minus the server's
  MaxTime,   \* bound: the server's clock
  MaxUses    \* bound: logins, logouts and navigations

Roles == Teams \cup {"admin", "observer"}
Token == [role : Roles, exp : 0..(MaxTime + Life)]

SessionAssumption ==
  /\ None \notin Token /\ None \notin Roles
  /\ Teams \cap {"admin", "observer"} = {}
  /\ Life \in Nat /\ Buffer \in Nat /\ MaxTime \in Nat /\ MaxUses \in Nat
  /\ Skews \subseteq Int

VARIABLES
  now, skew,   \* the server's clock, and what the browser adds to it
  creds,       \* the token in local storage
  page,        \* tab -> its path
  step,        \* tab -> route, admin, observer (a guard runs), shown, leaving
  loaded,      \* tab -> the team whose settings the page shows
  request,     \* tab -> its request on the way, see Request
  uses,
  signedIn     \* history: tab -> who was signed in since its page's guard began

tabVars == <<page, step, loaded>>
vars == <<now, skew, creds, tabVars, request, uses, signedIn>>

PageNames == {"login", "home", "settings", "admin", "scores", "observer"}
PagesOf(role) == CASE role = "admin"    -> {"admin", "scores"}
                   [] role = "observer" -> {"observer"}
                   [] OTHER             -> {"home", "settings"}

Home(role) == CASE role = "admin"    -> "admin"
                [] role = "observer" -> "observer"
                [] OTHER             -> "home"

(* A request keeps the token it was sent with; "here" is whether the page  *)
(* that sent it is still mounted.                                          *)
Answers == {"none", "ok", "missing", "expired", "forbidden"}
Request == [kind : {"login", "checks", "load", "save", "cron"},
            token : Token \cup {None}, sent : 0..MaxTime,
            answer : Answers, here : BOOLEAN]

(* isTokenExpired, negated *)
Live(c) == c # None /\ now + skew < c.exp - Buffer

(* getCredentials returns the token if it is live and removes it if not. *)
getCredentials == creds' = IF Live(creds) THEN creds ELSE None

Use == uses < MaxUses /\ uses' = uses + 1
Go(t, p) == page' = [page EXCEPT ![t] = p] /\ step' = [step EXCEPT ![t] = "route"]
Stay(t, s) == step' = [step EXCEPT ![t] = s] /\ UNCHANGED page

-----------------------------------------------------------------------------
(* The guards of the router *)

(* PublicRoute *)
RouteLogin(t) ==
  /\ step[t] = "route" /\ page[t] = "login"
  /\ getCredentials
  /\ IF Live(creds) THEN Go(t, "home") ELSE Stay(t, "shown")
  /\ UNCHANGED <<now, skew, loaded, request, uses>>

(* ProtectedRoute: isAuthenticated, then isAdmin, then isObserver *)
RouteAuth(t) ==
  /\ step[t] = "route" /\ page[t] # "login"
  /\ getCredentials
  /\ IF Live(creds) THEN Stay(t, "admin") ELSE Go(t, "login")
  /\ UNCHANGED <<now, skew, loaded, request, uses>>

(* Mutant: teams are not sent away from the other roles' pages. *)
Land_TeamsAnywhere(t, role) ==
  IF page[t] \in PagesOf(role) \/ role = "team"
  THEN Stay(t, "shown") ELSE Go(t, Home(role))

Land(t, role) ==
  IF page[t] \in PagesOf(role) THEN Stay(t, "shown") ELSE Go(t, Home(role))

RouteAdmin(t) ==
  /\ step[t] = "admin"
  /\ getCredentials
  /\ IF Live(creds) /\ creds.role = "admin"
     THEN Land(t, "admin") ELSE Stay(t, "observer")
  /\ UNCHANGED <<now, skew, loaded, request, uses>>

RouteObserver(t) ==
  /\ step[t] = "observer"
  /\ getCredentials
  /\ Land(t, IF Live(creds) /\ creds.role = "observer" THEN "observer" ELSE "team")
  /\ UNCHANGED <<now, skew, loaded, request, uses>>

Route(t) == RouteLogin(t) \/ RouteAuth(t) \/ RouteAdmin(t) \/ RouteObserver(t)

Leaves(t) ==
  /\ loaded' = [loaded EXCEPT ![t] = None]
  /\ request' = IF request[t] = None THEN request
                ELSE [request EXCEPT ![t].here = FALSE]

(* A link, or an address typed in. *)
Navigate(t, p) ==
  /\ Use /\ step[t] = "shown"
  /\ Go(t, p) /\ Leaves(t)
  /\ UNCHANGED <<now, skew, creds>>

-----------------------------------------------------------------------------
(* Requests *)

Sends(t, kind, token, answer) ==
  request' = [request EXCEPT ![t] =
    [kind |-> kind, token |-> token, sent |-> now, answer |-> answer,
     here |-> TRUE]]

(* The account is right: the server signs a token. *)
StartLogin(t, role) ==
  /\ Use /\ step[t] = "shown" /\ page[t] = "login" /\ request[t] = None
  /\ Sends(t, "login", [role |-> role, exp |-> now + Life], "ok")
  /\ UNCHANGED <<now, skew, creds, tabVars>>

(* The answer is stored whatever the tab or another one has done since. *)
LoginDone(t) ==
  /\ request[t] # None /\ request[t].kind = "login"
  /\ creds' = request[t].token
  /\ request' = [request EXCEPT ![t] = None]
  /\ Go(t, "home")
  /\ loaded' = [loaded EXCEPT ![t] = None]
  /\ UNCHANGED <<now, skew, uses>>

(* The page a request belongs to. *)
Of(kind, t) == CASE kind = "load" -> page[t] = "settings" /\ loaded[t] = None
                 [] kind = "save" -> page[t] = "settings" /\ loaded[t] # None
                 [] kind = "cron" -> page[t] = "admin"
                 [] OTHER         -> page[t] # "login"

(* The functions of services/api.ts; only getChecks goes without a token. *)
Ask(t, kind) ==
  /\ step[t] = "shown" /\ request[t] = None /\ Of(kind, t)
  /\ getCredentials
  /\ IF Live(creds) \/ kind = "checks" THEN Sends(t, kind, creds', "none")
                                       ELSE UNCHANGED request
  /\ UNCHANGED <<now, skew, tabVars, uses>>

(* RequireAuth and RequireAdminAuth.  A token is good up to its last second. *)
Verdict(r) == CASE r.token = None                               -> "missing"
                [] r.token # None /\ now > r.token.exp          -> "expired"
                [] r.kind = "cron" /\ r.token.role # "admin"    -> "forbidden"
                [] OTHER                                        -> "ok"

authenticate(t) ==
  /\ request[t] # None /\ request[t].answer = "none"
  /\ request' = [request EXCEPT ![t].answer = Verdict(request[t])]
  /\ UNCHANGED <<now, skew, creds, tabVars, uses>>

(* The answer arrives; a page that is gone ignores it. *)
Answered(t) ==
  /\ request[t] # None /\ request[t].answer # "none" /\ request[t].kind # "login"
  /\ request' = [request EXCEPT ![t] = None]
  /\ loaded' = IF request[t].kind = "load" /\ request[t].answer = "ok"
                    /\ request[t].here
               THEN [loaded EXCEPT ![t] = request[t].token.role] ELSE loaded
  /\ UNCHANGED <<now, skew, creds, page, step, uses>>

-----------------------------------------------------------------------------
(* handleLogout awaits the store's disconnect. *)
Logout(t) ==
  /\ Use /\ step[t] = "shown" /\ page[t] # "login"
  /\ Stay(t, "leaving")
  /\ UNCHANGED <<now, skew, creds, loaded, request>>

(* The token removed is the one that is there then. *)
LogoutDone(t) ==
  /\ step[t] = "leaving"
  /\ creds' = None
  /\ Go(t, "login") /\ Leaves(t)
  /\ UNCHANGED <<now, skew, uses>>

(* disconnect rejects: the rest of handleLogout does not run. *)
LogoutFails(t) ==
  /\ step[t] = "leaving"
  /\ Stay(t, "shown")
  /\ UNCHANGED <<now, skew, creds, loaded, request, uses>>

Tick ==
  /\ now < MaxTime /\ now' = now + 1
  /\ UNCHANGED <<skew, creds, tabVars, request, uses>>

-----------------------------------------------------------------------------
Step ==
  \/ \E t \in Tabs :
       \/ Route(t) \/ LoginDone(t) \/ authenticate(t) \/ Answered(t)
       \/ Logout(t) \/ LogoutDone(t) \/ LogoutFails(t)
       \/ \E p \in PageNames : Navigate(t, p)
       \/ \E r \in Roles : StartLogin(t, r)
       \/ \E kind \in {"checks", "load", "save", "cron"} : Ask(t, kind)
  \/ Tick

(* Whose token it is; None is nobody. *)
Who(c) == IF c = None THEN None ELSE c.role

GuardBegins(t) ==
  step'[t] = "route" /\ (step[t] # "route" \/ page'[t] # page[t])

Next ==
  /\ Step
  /\ signedIn' = [t \in Tabs |->
       (IF GuardBegins(t) THEN {} ELSE signedIn[t]) \cup {Who(creds')}]

Init ==
  /\ now = 0 /\ skew \in Skews /\ creds = None
  /\ page = [t \in Tabs |-> "home"] /\ step = [t \in Tabs |-> "route"]
  /\ loaded = [t \in Tabs |-> None] /\ request = [t \in Tabs |-> None]
  /\ uses = 0 /\ signedIn = [t \in Tabs |-> {None}]

Spec == Init /\ [][Next]_vars

-----------------------------------------------------------------------------
TypeOK ==
  /\ now \in 0..MaxTime /\ skew \in Skews
  /\ creds \in Token \cup {None}
  /\ page \in [Tabs -> PageNames]
  /\ step \in [Tabs -> {"route", "admin", "observer", "shown", "leaving"}]
  /\ loaded \in [Tabs -> Roles \cup {None}]
  /\ request \in [Tabs -> Request \cup {None}]
  /\ uses \in 0..MaxUses
  /\ signedIn \in [Tabs -> SUBSET (Roles \cup {None})]

(* A page is shown to no one but those it is for, however the other tabs   *)
(* sign in and out while its guard reads the token and after: since the    *)
(* guard began the admin was signed in for an admin's page, the observer   *)
(* for the observer's, and nobody for the login page, at least for a       *)
(* moment; and a team's page is not shown to one who was the admin, the    *)
(* observer or nobody all that time.  (It is to an admin whose token goes  *)
(* while the guard reads it.)  Once shown a page stays until its tab goes  *)
(* to another, whoever signs in elsewhere.                                 *)
ShownFits == \A t \in Tabs : step[t] = "shown" =>
  CASE page[t] = "login"             -> None \in signedIn[t]
    [] page[t] \in PagesOf("admin") -> "admin" \in signedIn[t]
    [] page[t] = "observer"          -> "observer" \in signedIn[t]
    [] OTHER -> \A w \in {None, "admin", "observer"} : ~(signedIn[t] \subseteq {w})

(* The settings on a page are those of a team that was signed in since its *)
(* guard began: an answer that comes late, for a page that is gone or for  *)
(* another user of the tab, is not shown on it.  They are saved with the   *)
(* token that is there then.  So they go to their own team - unless two    *)
(* were signed in in the meantime, the second one in another tab.          *)
SettingsAreOwn == \A t \in Tabs :
  LET q == request[t] IN
  /\ loaded[t] # None => loaded[t] \in signedIn[t]
  /\ q # None /\ q.kind = "save" /\ q.here =>
       q.token # None /\ {loaded[t], q.token.role} \subseteq signedIn[t]
=============================================================================
