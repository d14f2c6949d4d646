------------------------------ MODULE Accounts ------------------------------
(***************************************************************************)
(* The login accounts of the bucket "users": the commands user add, remove *)
(* and list of the CLI, the login handler that turns an account into a     *)
(* token, and the check of a token.  A command asks whether an account     *)
(* exists before it writes; a login reads the account before it compares   *)
(* the password and signs; anything can happen in between.                 *)
(***************************************************************************)
EXTENDS Naturals, FiniteSets

CONSTANTS
  Admins,     \* runs of the CLI
  Logins,     \* requests to the login handler
  Names, Teams, Passwords,
  None,       \* no account; GetUser returns it as the zero User
  Life,       \* how long a token is valid, in ticks of the clock
  MaxTime,    \* bound: the clock
  MaxTokens,  \* bound: tokens signed
  MaxJobs     \* bound: commands run

AccountsAssumption ==
  /\ None \notin [team : Teams, password : Passwords]
  /\ Admins \cap Logins = {}
  /\ Life \in Nat /\ MaxTime \in Nat /\ MaxJobs \in Nat
  /\ MaxTokens \in Nat

Account == [team : Teams, password : Passwords]
Job == [kind : {"add", "remove", "list"}, name : Names \cup {None},
        user : Account \cup {None}, force : BOOLEAN]

VARIABLES
  users,     \* the bucket: name -> its account, or None
  job,       \* admin -> the command it runs
  pc,        \* admin -> idle, exists, write, listing, done or failed
  todo,      \* admin -> the names ListUsers has still to get
  listed,    \* admin -> name -> team: what ListUsers has got
  jobs,      \* commands run
  step,      \* login -> idle or compare
  asked,     \* login -> the name and password given
  found,     \* login -> the account read, or None
  tokens,    \* the tokens signed
  clock,
  seen,      \* history: admin or login -> name -> its accounts since it began
  lastHeld,  \* history: name -> team -> last time the account was of the team
  fault      \* history: admin -> an account could not be read

adminVars == <<job, pc, todo, listed, jobs>>
loginVars == <<step, asked, found, tokens>>
vars == <<users, adminVars, loginVars, clock, seen, lastHeld, fault>>

-----------------------------------------------------------------------------
Registered == {n \in Names : users[n] # None}

(* A process that does nothing. *)
NoJob == [kind |-> "list", name |-> None, user |-> None, force |-> FALSE]
NotAsked == [name |-> None, password |-> None]
Unseen == [n \in Names |-> {}]

Watching(w) == [seen EXCEPT ![w] = [n \in Names |-> {users[n]}]]

Write(n, user) ==
  /\ users' = [users EXCEPT ![n] = user]
  /\ seen' = [w \in Admins \cup Logins |->
                [seen[w] EXCEPT ![n] = @ \cup {user}]]
  /\ lastHeld' = IF user = None THEN lastHeld
                 ELSE [lastHeld EXCEPT ![n][user.team] = clock]

Goto(a, where) == pc' = [pc EXCEPT ![a] = where]

List(a, n) ==
  listed' = [listed EXCEPT ![a] = [m \in DOMAIN @ \cup {n} |->
               IF m = n THEN users[n].team ELSE @[m]]]

(* The commands. *)

Begin(a, kind, n, u, force) ==
  /\ pc[a] = "idle" /\ jobs < MaxJobs
  /\ jobs' = jobs + 1
  /\ job' = [job EXCEPT ![a] = [kind |-> kind, name |-> n, user |-> u,
                                force |-> force]]
  /\ seen' = Watching(a)
  /\ UNCHANGED <<users, listed, loginVars, clock, lastHeld, fault>>

BeginAdd(a, n, u, force) ==
  Begin(a, "add", n, u, force) /\ Goto(a, "exists") /\ UNCHANGED todo

BeginRemove(a, n) ==
  Begin(a, "remove", n, None, FALSE) /\ Goto(a, "exists") /\ UNCHANGED todo

(* ListKeys: the accounts of one moment. *)
BeginList(a) ==
  /\ Begin(a, "list", None, None, FALSE)
  /\ Goto(a, "listing") /\ todo' = [todo EXCEPT ![a] = Registered]

At(a, kind, where) == job[a].kind = kind /\ pc[a] = where
Exists(a) == users[job[a].name] # None

(* UserExists: no user is added twice; any error ends the command. *)
AddChecks(a) ==
  /\ At(a, "add", "exists")
  /\ Exists(a) => job[a].force
  /\ Goto(a, "write")
  /\ UNCHANGED <<users, job, todo, listed, jobs, loginVars, clock, lastHeld,
                 seen, fault>>

RemoveChecks(a) ==
  /\ At(a, "remove", "exists")
  /\ Exists(a)
  /\ Goto(a, "write")
  /\ UNCHANGED <<users, job, todo, listed, jobs, loginVars, clock, lastHeld,
                 seen, fault>>

PutUser(a) ==
  /\ At(a, "add", "write")
  /\ Write(job[a].name, job[a].user) /\ Goto(a, "done")
  /\ UNCHANGED <<job, todo, listed, jobs, loginVars, clock, fault>>

DeleteUser(a) ==
  /\ At(a, "remove", "write")
  /\ Write(job[a].name, None) /\ Goto(a, "done")
  /\ UNCHANGED <<job, todo, listed, jobs, loginVars, clock, fault>>

(* The command is refused, or a request of it fails. *)
CommandFails(a) ==
  /\ pc[a] \in {"exists", "write"} /\ Goto(a, "failed")
  /\ UNCHANGED <<users, job, todo, listed, jobs, loginVars, clock, lastHeld,
                 seen, fault>>

ListEnds(a) ==
  /\ pc[a] = "listing" /\ todo[a] = {}
  /\ Goto(a, "done")
  /\ UNCHANGED <<users, job, todo, listed, jobs, loginVars, clock, seen,
                 lastHeld, fault>>

(* An account that cannot be read is left out, whatever the reason. *)
ListNext(a) ==
  /\ pc[a] = "listing"
  /\ \E n \in todo[a] :
       /\ todo' = [todo EXCEPT ![a] = @ \ {n}]
       /\ \/ users[n] # None /\ List(a, n) /\ UNCHANGED fault
          \/ users[n] = None /\ UNCHANGED <<listed, fault>>
          \/ fault' = [fault EXCEPT ![a] = TRUE] /\ UNCHANGED listed
  /\ UNCHANGED <<users, job, pc, jobs, loginVars, clock, seen, lastHeld>>

-----------------------------------------------------------------------------
(* The login handler. *)

GetUser(l, name, password) ==
  /\ step[l] = "idle" /\ Cardinality(tokens) < MaxTokens
  /\ step' = [step EXCEPT ![l] = "compare"]
  /\ asked' = [asked EXCEPT ![l] = [name |-> name, password |-> password]]
  /\ found' = [found EXCEPT ![l] = users[name]]
  /\ seen' = Watching(l)
  /\ UNCHANGED <<users, adminVars, tokens, clock, lastHeld, fault>>

(* Mutant: the account is known, and that is enough. *)
Verified_Known(l) == found[l] # None

Verified(l) == found[l] # None /\ found[l].password = asked[l].password

Token(l) == [name |-> asked[l].name, team |-> found[l].team,
             expires |-> clock + Life]

(* 200 with a token, or 401; signing may fail, and then it is 500. *)
Answer(l) ==
  /\ step[l] = "compare"
  /\ \/ Verified(l) /\ tokens' = tokens \cup {Token(l)}
     \/ UNCHANGED tokens
  /\ step' = [step EXCEPT ![l] = "idle"]
  /\ asked' = [asked EXCEPT ![l] = NotAsked]
  /\ found' = [found EXCEPT ![l] = None]
  /\ seen' = [seen EXCEPT ![l] = Unseen]
  /\ UNCHANGED <<users, adminVars, clock, lastHeld, fault>>

(* Mutant: the expiry is not looked at. *)
VerifyJWT_NoExpiry(t) == t \in tokens

(* VerifyJWT: what the middleware takes the team of a request from.  A     *)
(* token is good up to its last tick, and in it.                           *)
VerifyJWT(t) == t \in tokens /\ clock <= t.expires

(* A login takes no time compared with the life of a token. *)
Tick ==
  /\ clock < MaxTime
  /\ \A l \in Logins : step[l] = "idle"
  /\ clock' = clock + 1
  /\ lastHeld' = [n \in Names |-> [t \in Teams |->
       IF users[n] # None /\ users[n].team = t THEN clock' ELSE lastHeld[n][t]]]
  /\ UNCHANGED <<users, adminVars, loginVars, seen, fault>>

Leave(a) ==
  /\ pc[a] \in {"done", "failed"}
  /\ Goto(a, "idle")
  /\ listed' = [listed EXCEPT ![a] = << >>]
  /\ fault' = [fault EXCEPT ![a] = FALSE]
  /\ job' = [job EXCEPT ![a] = NoJob]
  /\ seen' = [seen EXCEPT ![a] = Unseen]
  /\ UNCHANGED <<users, todo, jobs, loginVars, clock, lastHeld>>

Next ==
  \/ \E a \in Admins :
       \/ \E n \in Names, u \in Account, force \in BOOLEAN :
            BeginAdd(a, n, u, force)
       \/ AddChecks(a) \/ PutUser(a)
       \/ \E n \in Names : BeginRemove(a, n)
       \/ RemoveChecks(a) \/ DeleteUser(a) \/ CommandFails(a)
       \/ BeginList(a) \/ ListNext(a) \/ ListEnds(a) \/ Leave(a)
  \/ \E l \in Logins :
       \/ \E n \in Names, p \in Passwords : GetUser(l, n, p)
       \/ Answer(l)
  \/ Tick

Init ==
  /\ users \in [Names -> Account \cup {None}]
  /\ job = [a \in Admins |-> NoJob]
  /\ pc = [a \in Admins |-> "idle"]
  /\ todo = [a \in Admins |-> {}] /\ listed = [a \in Admins |-> << >>]
  /\ jobs = 0
  /\ step = [l \in Logins |-> "idle"]
  /\ asked = [l \in Logins |-> NotAsked]
  /\ found = [l \in Logins |-> None]
  /\ tokens = {} /\ clock = 0
  /\ seen = [w \in Admins \cup Logins |-> Unseen]
  /\ lastHeld = [n \in Names |-> [t \in Teams |-> 0]]
  /\ fault = [a \in Admins |-> FALSE]

Spec == Init /\ [][Next]_vars

-----------------------------------------------------------------------------
(* Every account in the bucket is complete, and a login only compares with *)
(* an account that name had. *)
TypeOK ==
  /\ users \in [Names -> Account \cup {None}]
  /\ job \in [Admins -> Job]
  /\ pc \in [Admins -> {"idle", "exists", "write", "listing", "done", "failed"}]
  /\ step \in [Logins -> {"idle", "compare"}]
  /\ found \in [Logins -> Account \cup {None}]
  /\ clock \in 0..MaxTime /\ jobs \in 0..MaxJobs
  /\ \A a \in Admins :
       DOMAIN listed[a] \subseteq Names /\ todo[a] \subseteq Names

(* Without --force a user is only written over one that was added after    *)
(* this command began; remove is refused unless there was such a user.     *)
AddOverwritesOnlyNewer == \A a \in Admins :
  pc[a] = "write" =>
    CASE job[a].kind = "add" ->
           job[a].force \/ None \in seen[a][job[a].name]
      [] OTHER -> seen[a][job[a].name] # {None}

(* A token is signed for a team only if the account had that team and the  *)
(* given password at some moment of the login.                             *)
SignsWhatIsEarned ==
  \A l \in Logins : \A t \in tokens' \ tokens : step[l] # step'[l] =>
    [team |-> t.team, password |-> asked[l].password] \in seen[l][t.name]
TokenIsEarned == [][SignsWhatIsEarned]_vars

(* A user who was removed or moved to another team is locked out of the    *)
(* old one when the last token expires: no token is accepted more than     *)
(* Life after the account last had the team.                               *)
RemovedIsLockedOut == \A t \in tokens :
  VerifyJWT(t) => clock <= lastHeld[t.name][t.team] + Life

(* If every account could be read, the listing has the accounts that were  *)
(* there all the time, none that never was, each under a team it had.      *)
ListIsCurrent == \A a \in Admins :
  pc[a] = "done" /\ job[a].kind = "list" /\ ~fault[a] =>
    \A n \in Names :
      IF n \in DOMAIN listed[a]
      THEN \E u \in seen[a][n] : u # None /\ u.team = listed[a][n]
      ELSE None \in seen[a][n]
=============================================================================
