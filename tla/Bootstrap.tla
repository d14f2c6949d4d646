----------------------------- MODULE Bootstrap -----------------------------
(***************************************************************************)
(* The start of a deployment (docker-compose.yaml): the setup container    *)
(* runs the commands of startup.sh, among them initialize, on a NATS server*)
(* that may still be starting; when it has completed, the agent is started *)
(* with some credentials and connects, opens its watchers and subscribes.  *)
(* A request may fail at any step, perhaps when only its answer is lost,   *)
(* and the agent may be killed.                                            *)
(***************************************************************************)
EXTENDS Naturals, Sequences, FiniteSets

CONSTANTS
  Teams, None,
  Retries,              \* attempts of SetupConnection in the setup's commands
  AgentRetries,         \* and in the agent
  MaxFaults, MaxRuns    \* bounds: failed requests; starts of the containers

VARIABLES
  up,         \* the NATS server answers
  made,       \* what has been created there
  admin,      \* the password of the account admin, or None
  told,       \* the passwords an operator can know
  setup,      \* new, running, completed or failed
  todo,       \* the commands and steps left of startup.sh
  tries,      \* attempts to connect of the command that runs
  agent,      \* idle, dial, bucket, watch, running or ended
  agentTries,
  watchers,   \* the agent's watchers, each with a consumer on the server
  subscribed,
  orphans,    \* consumers on the server that are no agent's any more
  excused,    \* history: how many of them there may be, see NoWatcherLeft
  teams, cred,\* --teams, and the index of the agent's credentials
  faults, runs

setupVars == <<made, admin, told, setup, todo, tries>>
consumers == <<watchers, orphans, excused>>
agentVars == <<agent, agentTries, consumers, subscribed>>
vars == <<up, setupVars, agentVars, teams, cred, faults, runs>>

Rights == INSTANCE Credentials
  WITH client <- [kind |-> "agent", teams |-> teams], token <- cred,
       CheckNames <- {<<"dns">>}, request <- None, accepted <- TRUE

BootstrapAssumption ==
  /\ Retries \in Nat \ {0} /\ AgentRetries \in Nat \ {0}
  /\ MaxFaults \in Nat /\ MaxRuns \in Nat
  /\ None \notin 0..MaxRuns
  /\ Rights!CredentialsAssumption

-----------------------------------------------------------------------------
(* The setup container *)

SetupConnection == <<"dial", "settings?">>
Add == SetupConnection \o <<"users?", "exists", "put">>

Initialize ==
  <<"connect", "settings", "users", "stream", "consumer">> \o Add

(* nats init, user add admin --force, checks import, nats auth *)
Script ==
  << [name |-> "init", steps |-> Initialize], [name |-> "add", steps |-> Add],
     [name |-> "import", steps |-> SetupConnection \o <<"checks">>],
     [name |-> "auth", steps |-> <<"sign">>] >>

Objects == {"settings", "users", "stream", "consumer", "checks"}
Needs(s) ==
  CASE s = "settings?" -> {"settings"} [] s = "users?" -> {"users"}
    [] s = "consumer" -> {"stream"} [] OTHER -> {}

Command == Head(todo)
Step == Head(Command.steps)
At(s) == setup = "running" /\ Step = s

(* A new uuid for every run of initialize; "admin" in the script. *)
Password == IF Command.name = "init" THEN runs ELSE 0

(* An account admin that is there already stops neither initialize, which  *)
(* overwrites it, nor the script's add, which has --force.                 *)
Possible == Needs(Step) \subseteq made

(* The script goes on after a command, whatever its exit code. *)
NextCommand == todo' = Tail(todo) /\ tries' = 0 /\ UNCHANGED setup

WithoutStep == [todo EXCEPT ![1].steps = Tail(@)]

NextStep ==
  IF Len(Command.steps) = 1 THEN NextCommand
  ELSE todo' = WithoutStep /\ tries' = 0 /\ UNCHANGED setup

SetupStarts ==
  /\ runs < MaxRuns /\ setup # "running"
  /\ runs' = runs + 1 /\ setup' = "running" /\ todo' = Script /\ tries' = 0
  /\ UNCHANGED <<up, made, admin, told, agentVars, teams, cred, faults>>

(* A step is done; what exists already is left as it is. *)
StepDone ==
  /\ setup = "running" /\ Step \notin {"put", "sign"}
  /\ up /\ Possible
  /\ made' = made \cup ({Step} \cap Objects)
  /\ NextStep
  /\ UNCHANGED <<up, admin, told, agentVars, teams, cred, faults, runs>>

(* initialize prints the password once Add has returned. *)
Put ==
  /\ At("put")
  /\ admin' = Password /\ told' = told \cup {Password}
  /\ NextStep
  /\ UNCHANGED <<up, made, agentVars, teams, cred, faults, runs>>

(* Without a server initialize gives up at once, the others try again. *)
NoServer ==
  /\ setup = "running" /\ ~up /\ Step \in {"connect", "dial"}
  /\ IF Step = "dial" /\ tries + 1 < Retries
     THEN tries' = tries + 1 /\ UNCHANGED <<setup, todo>>
     ELSE NextCommand
  /\ UNCHANGED <<up, made, admin, told, agentVars, teams, cred, faults, runs>>

Refused ==
  /\ setup = "running" /\ up /\ ~Possible
  /\ NextCommand
  /\ UNCHANGED <<up, made, admin, told, agentVars, teams, cred, faults, runs>>

Fault == faults < MaxFaults /\ faults' = faults + 1

(* A request fails, perhaps when only its answer is lost. *)
CommandFails ==
  /\ setup = "running" /\ up /\ Step # "sign" /\ Fault
  /\ \/ Step # "put" /\ UNCHANGED admin
     \/ Step = "put" /\ admin' \in {admin, Password}
  /\ \/ Step \notin Objects /\ UNCHANGED made
     \/ Step \in Objects /\ Needs(Step) \subseteq made /\ made' \in {made, made \cup {Step}}
  /\ NextCommand
  /\ UNCHANGED <<up, told, agentVars, teams, cred, runs>>

(* The last command decides; it reads a file and does not ask the server.  *)
Sign ==
  /\ At("sign") /\ setup' \in {"completed", "failed"}
  /\ UNCHANGED <<up, made, admin, told, todo, tries, agentVars, teams, cred,
                 faults, runs>>

ServerUp ==
  /\ ~up /\ up' = TRUE
  /\ UNCHANGED <<setupVars, agentVars, teams, cred, faults, runs>>

-----------------------------------------------------------------------------
(* The agent *)

AgentStarts ==
  /\ runs < MaxRuns /\ setup = "completed" /\ agent \in {"idle", "ended"}
  /\ runs' = runs + 1 /\ agent' = "dial" /\ agentTries' = 0
  /\ UNCHANGED <<up, setupVars, consumers, subscribed, teams, cred, faults>>

natsConnect ==
  /\ agent = "dial"
  /\ IF up THEN agent' = "bucket" /\ UNCHANGED agentTries
     ELSE /\ agentTries' = agentTries + 1
          /\ agent' = IF agentTries' = AgentRetries THEN "ended" ELSE agent
  /\ UNCHANGED <<up, setupVars, consumers, subscribed, teams, cred, faults,
                 runs>>

Granted(r) == Rights!Grants(Rights!createAgentCredentials(cred), r)
Answered(r) == Granted(Rights!Inbox(Rights!inboxPrefix(teams))) /\ Granted(r)

keyValueConnect ==
  /\ agent = "bucket"
  /\ \/ UNCHANGED faults
        /\ agent' = IF "settings" \in made /\ Answered(Rights!BucketInfo)
                    THEN "watch" ELSE "ended"
     \/ Fault /\ agent' = "ended"
  /\ UNCHANGED <<up, setupVars, agentTries, consumers, subscribed, teams,
                 cred, runs>>

(* One watcher after the other, the checks first. *)
NextKey(k) ==
  /\ k \in Rights!watchList(teams) \ watchers
  /\ k # <<"check", "*">> => <<"check", "*">> \in watchers

KVWatcher(k) ==
  /\ agent = "watch" /\ NextKey(k) /\ Answered(Rights!Watch(k))
  /\ watchers' = watchers \cup {k}
  /\ UNCHANGED <<up, setupVars, agent, agentTries, subscribed, orphans,
                 excused, teams, cred, faults, runs>>

(* Every watcher is stopped, which removes its consumer.  An error of Stop *)
(* is not handled: of the failed ones, some consumers are left.  Before, n *)
(* requests failed, the last of which left one more or not.                *)
StopAll(n, more) ==
  \E failed \in 0..Cardinality(watchers), left \in 0..Cardinality(watchers) :
    /\ IF Answered(Rights!Unwatch) THEN left <= failed
       ELSE failed = 0 /\ left = Cardinality(watchers)
    /\ faults + n + failed <= MaxFaults
    /\ faults' = faults + n + failed /\ excused' = excused + n + failed
    /\ orphans' = orphans + more + left
    /\ watchers' = {}

(* Mutant: Close stops the watchers, but they are not in its list yet. *)
KVWatcherFails_Leaks(k) ==
  /\ agent = "watch" /\ NextKey(k)
  /\ ~Answered(Rights!Watch(k)) /\ UNCHANGED <<faults, excused>>
  /\ orphans' = orphans + Cardinality(watchers)
  /\ watchers' = {} /\ agent' = "ended"
  /\ UNCHANGED <<up, setupVars, agentTries, subscribed, teams, cred, runs>>

(* The watch is refused, or the request fails, perhaps when its consumer   *)
(* has been created: those opened before are stopped.                      *)
KVWatcherFails(k) ==
  /\ agent = "watch" /\ NextKey(k) /\ agent' = "ended"
  /\ IF Answered(Rights!Watch(k)) THEN \E more \in 0..1 : StopAll(1, more)
     ELSE StopAll(0, 0)
  /\ UNCHANGED <<up, setupVars, agentTries, subscribed, teams, cred, runs>>

SubjectSubscribe ==
  /\ agent = "watch" /\ watchers = Rights!watchList(teams)
  /\ subscribed' = TRUE /\ agent' = "running"
  /\ UNCHANGED <<up, setupVars, agentTries, consumers, teams, cred, faults,
                 runs>>

(* It cannot subscribe: Close. *)
SubscribeFails ==
  /\ agent = "watch" /\ watchers = Rights!watchList(teams)
  /\ agent' = "ended" /\ StopAll(1, 0)
  /\ UNCHANGED <<up, setupVars, agentTries, subscribed, teams, cred, runs>>

(* A signal, or a watcher that closes: Close. *)
AgentStops ==
  /\ agent = "running"
  /\ agent' = "ended" /\ StopAll(0, 0) /\ subscribed' = FALSE
  /\ UNCHANGED <<up, setupVars, agentTries, teams, cred, runs>>

(* External.  It is killed, perhaps while a watch is on its way. *)
AgentKilled ==
  /\ agent \notin {"idle", "ended"}
  /\ agent' = "ended" /\ watchers' = {} /\ subscribed' = FALSE
  /\ \E more \in IF agent = "watch" THEN 0..1 ELSE {0} :
       /\ orphans' = orphans + Cardinality(watchers) + more
       /\ excused' = excused + Cardinality(watchers) + more
  /\ UNCHANGED <<up, setupVars, agentTries, teams, cred, faults, runs>>

(* External.  JetStream removes an ephemeral consumer nobody listens to. *)
Expire ==
  /\ orphans > 0 /\ orphans' = orphans - 1
  /\ UNCHANGED <<up, setupVars, agent, agentTries, watchers, subscribed,
                 excused, teams, cred, faults, runs>>

SetupSteps == StepDone \/ Put \/ NoServer \/ Refused \/ Sign

AgentSteps ==
  \/ natsConnect \/ keyValueConnect \/ SubjectSubscribe
  \/ \E k \in Rights!watchList(teams) : KVWatcher(k) \/ KVWatcherFails(k)

Next ==
  \/ ServerUp \/ SetupStarts \/ SetupSteps \/ CommandFails
  \/ AgentStarts \/ AgentSteps \/ SubscribeFails \/ AgentStops \/ AgentKilled
  \/ Expire

Init ==
  /\ up = FALSE /\ made = {} /\ admin = None /\ told = {0}
  /\ setup = "new" /\ todo = Script /\ tries = 0
  /\ agent = "idle" /\ agentTries = 0 /\ watchers = {} /\ subscribed = FALSE
  /\ orphans = 0 /\ excused = 0
  /\ teams \in (SUBSET Teams) \ {{}} /\ cred \in Teams \cup {"*"}
  /\ faults = 0 /\ runs = 0

Spec == Init /\ [][Next]_vars /\ WF_vars(SetupSteps) /\ WF_vars(AgentSteps)

-----------------------------------------------------------------------------
TypeOK ==
  /\ up \in BOOLEAN /\ made \subseteq Objects
  /\ admin \in 0..MaxRuns \cup {None} /\ told \subseteq 0..MaxRuns
  /\ setup \in {"new", "running", "completed", "failed"} /\ Len(todo) \in 1..4
  /\ tries \in 0..(Retries - 1) /\ agentTries \in 0..AgentRetries
  /\ agent \in {"idle", "dial", "bucket", "watch", "running", "ended"}
  /\ watchers \subseteq Rights!watchList(teams) /\ subscribed \in BOOLEAN
  /\ orphans \in Nat /\ excused \in Nat
  /\ teams \subseteq Teams /\ cred \in Teams \cup {"*"}
  /\ faults \in 0..MaxFaults /\ runs \in 0..MaxRuns

(* One failure of any request leaves the administrator with a password     *)
(* that somebody knows, once the setup has ended: the uuid of initialize is*)
(* printed only if its Add has succeeded, and the script then sets another.*)
AdminIsKnown ==
  setup # "running" /\ faults <= 1 /\ admin # None => admin \in told

(* An agent that runs can do its work for every one of its teams: it has   *)
(* their settings and NATS takes their results and answers.  With the      *)
(* credentials of another team, or of one of several, it does not start.   *)
RunningAgentFits ==
  subscribed =>
    /\ watchers = Rights!watchList(teams)
    /\ \A r \in Rights!AgentRequests(teams) : Granted(r)

(* An agent that does not run has no watcher open, at whichever of them it *)
(* failed, and its end leaves on the server at most one consumer for each  *)
(* of its own requests to watch, to stop or to subscribe that failed.  One *)
(* that is killed leaves what it had; JetStream removes what is left.      *)
NoWatcherLeft ==
  /\ agent \in {"idle", "ended"} => watchers = {} /\ ~subscribed
  /\ orphans <= excused

(* The attempts to connect are bounded: the setup comes to its end and an  *)
(* agent runs or gives up, even if no server ever answers.                 *)
StartUpEnds ==
  /\ setup = "running" ~> setup # "running"
  /\ agent = "dial" ~> agent \in {"running", "ended"}
=============================================================================
