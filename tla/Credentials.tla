---------------------------- MODULE Credentials ----------------------------
(***************************************************************************)
(* What the signed tokens permit and what their holders ask of NATS: the   *)
(* agents (nats auth and cmd/agent) and the pages of the web interface     *)
(* (applyPermissions and services/nats.ts).  A subject is a sequence of    *)
(* tokens; "*" in a pattern stands for one, ">" for one or more.           *)
(***************************************************************************)
EXTENDS Naturals, Sequences

CONSTANTS
  Teams,       \* numbers of the teams, as written in a subject
  CheckNames,  \* names of checks, as tokens: a name may have dots
  None

VARIABLES
  client,    \* who asks
  token,     \* the permissions of its token, and for what index
  request,   \* its last request, or None
  accepted   \* NATS has accepted it

vars == <<client, token, request, accepted>>

(* External.  Also whether a pattern covers a subscription.                *)
Matches(pattern, subject) ==
  LET n == Len(pattern)
      Same(upTo) == \A i \in 1..upTo : pattern[i] \in {"*", subject[i]}
  IN IF pattern[n] = ">" THEN Len(subject) >= n /\ Same(n - 1)
     ELSE Len(subject) = n /\ Same(n) /\ subject[n] # ">"

Pub(subject) == [op |-> "pub", subject |-> subject]
Sub(subject) == [op |-> "sub", subject |-> subject]

Grants(permissions, r) ==
  \E p \in permissions : p.op = r.op /\ Matches(p.subject, r.subject)

-----------------------------------------------------------------------------
(* Agents *)

(* A key of the bucket has two tokens. *)
SettingsKV(consumer, key) ==
  <<"CONSUMER.CREATE", "KV_settings", consumer, "$KV", "settings",
    key[1], key[2]>>

(* Mutant: the rule of the standalone agent is for every agent. *)
ConsumerRule_Wide(index) == <<"CONSUMER.CREATE", "KV_settings", "*", ">">>

ConsumerRule(index) ==
  IF index = "*" THEN <<"CONSUMER.CREATE", "KV_settings", "*", ">">>
  ELSE SettingsKV("*", <<index, "settings">>)

(* For the team index, or for any with "*". *)
createAgentCredentials(index) ==
  {Pub(ConsumerRule(index)), Pub(SettingsKV("*", <<"check", "*">>)),
   Pub(<<"results", index, ">">>), Pub(<<"STREAM.INFO", "KV_settings">>),
   Pub(<<"CONSUMER.DELETE", "KV_settings", "*">>),
   Sub(<<"events", "score", ">">>), Sub(<<"_INBOX", index, ">">>)}

(* The agent's replies. *)
inboxPrefix(teams) ==
  IF \E n \in teams : teams = {n} THEN CHOOSE n \in teams : TRUE ELSE "0"

Inbox(prefix) == Sub(<<"_INBOX", prefix, "id", "*">>)
BucketInfo == Pub(<<"STREAM.INFO", "KV_settings">>)
Watch(key) == Pub(SettingsKV("id", key))
Unwatch == Pub(<<"CONSUMER.DELETE", "KV_settings", "id">>)
Triggers == Sub(<<"events", "score", ">">>)
Result(n, check, suffix) == Pub(<<"results", n>> \o check \o <<suffix>>)

watchList(teams) == {<<"check", "*">>} \cup {<<n, "settings">> : n \in teams}

(* What an agent with these teams asks from its start to its end. *)
AgentRequests(teams) ==
  {Inbox(inboxPrefix(teams)), BucketInfo, Unwatch, Triggers}
    \cup {Watch(k) : k \in watchList(teams)}
    \cup {Result(n, c, x) : n \in teams, c \in CheckNames, x \in {"0", "1"}}

-----------------------------------------------------------------------------
(* Pages *)

teamSubject(team) ==
  IF team = "observer" THEN <<"results", ">">> ELSE <<"results", team, ">">>

(* A consumer of all results, or of those of a team. *)
ResultsConsumer(consumer, team) ==
  IF team = "observer"
  THEN <<"CONSUMER.CREATE", "results", consumer, "results", ">">>
  ELSE <<"CONSUMER.CREATE", "results", consumer, "results", team, ">">>

applyPermissions(team) ==
  IF team = "admin" THEN {Pub(<<">">>), Sub(<<">">>)}
  ELSE {Pub(<<"_INBOX", ">">>), Pub(<<"API.INFO">>), Pub(<<"STREAM.NAMES">>),
        Pub(<<"STREAM.INFO", "results">>),
        Pub(ResultsConsumer("*", team)),
        Pub(<<"CONSUMER.MSG.NEXT", "results", "*">>),
        Pub(<<"CONSUMER.DELETE", "results", "*">>),
        Pub(<<"ACK", "results", ">">>),
        Sub(teamSubject(team)), Sub(<<"_INBOX", team, ">">>)}

Consume(team) == Pub(ResultsConsumer("id", team))

(* NATS authorises these by the stream and the name of the consumer ("id", *)
(* as any other name) alone.                                               *)
Fetch == Pub(<<"CONSUMER.MSG.NEXT", "results", "id">>)
Remove == Pub(<<"CONSUMER.DELETE", "results", "id">>)
Acknowledge == Pub(<<"ACK", "results", "id", "1">>)

(* What the store of a page asks: connect, with the subject of its user;   *)
(* subscribeToStream, for the results of all teams, of an admin's pages.   *)
StoreRequests(team) ==
  {Sub(<<"_INBOX", team, "uuid", "id", "*">>), Pub(<<"API.INFO">>),
   Pub(<<"STREAM.NAMES">>), Consume(team), Fetch, Remove}
    \cup IF team = "admin" THEN {Consume("observer")} ELSE {}

CredentialsAssumption ==
  /\ Teams \cap {"*", ">", "check", "admin", "observer"} = {}
  /\ Teams \in SUBSET STRING /\ CheckNames \in SUBSET Seq(STRING)
  /\ None \notin AgentRequests(Teams)

-----------------------------------------------------------------------------
Agents == [kind : {"agent"}, teams : (SUBSET Teams) \ {{}}]
Users == Teams \cup {"admin", "observer"}
Pages == [kind : {"page"}, teams : {{u} : u \in Users}]

Requests ==
  IF client.kind = "agent" THEN AgentRequests(client.teams)
  ELSE StoreRequests(CHOOSE u \in client.teams : TRUE)

Permissions ==
  IF client.kind = "agent" THEN createAgentCredentials(token)
  ELSE applyPermissions(token)

Ask(r) ==
  /\ request' = r /\ accepted' = Grants(Permissions, r)
  /\ UNCHANGED <<client, token>>

Next == \E r \in Requests : Ask(r)

(* An agent may be given any agent's credentials; a page has its user's.   *)
Init ==
  /\ client \in Agents \cup Pages
  /\ token \in IF client.kind = "agent" THEN Teams \cup {"*"} ELSE client.teams
  /\ request = None /\ accepted = TRUE

Spec == Init /\ [][Next]_vars

-----------------------------------------------------------------------------
(* A token made for its holder is enough for all the holder does: an agent *)
(* with the standalone token, or with the token of its only team, and every*)
(* page; else a watch, a result or a reply would be dropped in silence.    *)
NothingNeededIsRefused ==
  client.kind = "page" \/ token = "*" \/ client.teams = {token} => accepted

(* Of what the agent or the page of another team asks, or could, a team's  *)
(* token permits what names no team, and nothing else, whatever teams the  *)
(* agent was started with.  "Scope consumer creation to this team's own    *)
(* settings key only": no watch of the other's settings, no result         *)
(* published for it, no consumer of its results, no subscription to them   *)
(* or to its replies.  But what acts on an existing consumer names none:   *)
(* to remove one of the bucket (the agent), to fetch from, to remove and to*)
(* acknowledge for one of the stream (the page) is permitted for every     *)
(* name, also another team's consumer and the sink's; only the names, which*)
(* clients pick at random, keep the teams apart there.                     *)
OthersOnlyByConsumer ==
  token \in Teams => \A n \in Teams \ {token} :
    IF client.kind = "agent"
    THEN {r \in AgentRequests({n}) : Grants(Permissions, r)}
           = {BucketInfo, Triggers, Watch(<<"check", "*">>), Unwatch}
    ELSE {r \in StoreRequests(n) \cup {Sub(teamSubject(n)), Acknowledge} :
            Grants(Permissions, r)}
           = {Pub(<<"API.INFO">>), Pub(<<"STREAM.NAMES">>),
              Fetch, Remove, Acknowledge}
=============================================================================
