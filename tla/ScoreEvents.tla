---------------------------- MODULE ScoreEvents ----------------------------
(***************************************************************************)
(* How agents score: the subscription of HandleScoreEvent to               *)
(* events.score.>, its goroutine per team (runTeamCheck) and the results   *)
(* they publish.  MonitorSettings changes the cached checks and team       *)
(* attributes meanwhile; here it may do so at any moment (SettingsSync     *)
(* says to what).  A definition or a set of attributes is its revision, 0  *)
(* when there is none.                                                     *)
(***************************************************************************)
EXTENDS Naturals, Sequences, FiniteSets, Functions

CONSTANTS
  Agents,      \* the agent processes
  Teams,       \* the teams
  TeamsOf,     \* the teams each agent scores (its --teams)
  Checks,      \* the names of checks
  MaxEvents,   \* bound: triggers published
  MaxRev,      \* bound: revisions of a check
  MaxAttrs,    \* bound: revisions of a team's attributes
  MaxPending,  \* triggers the client library queues for a subscription
  MaxStops     \* bound: times an agent stops

ASSUME ScoreAssumption ==
  /\ TeamsOf \in [Agents -> SUBSET Teams]
  /\ MaxEvents \in Nat /\ MaxRev \in Nat /\ MaxAttrs \in Nat
  /\ MaxStops \in Nat
  /\ MaxPending \in Nat \ {0}

(* No team is scored by two agents. *)
Disjoint ==
  \A a, b \in Agents : a # b => TeamsOf[a] \cap TeamsOf[b] = {}

VARIABLES
  event,       \* triggers published so far
  subscribed,  \* the agent's subscription is open
  checks,      \* Settings.Checks of each agent
  attributes,  \* Settings.Teams[t].Attributes of each agent
  pending,     \* triggers in the subscription's queue
  current,     \* the event whose handler is running, 0 if none
  routines,    \* the goroutines: runTeamCheck calls in progress
  results,     \* what was published on results.>
  stops        \* history: times an agent stopped

settings == <<checks, attributes>>
handler == <<pending, current, routines>>
vars == <<event, subscribed, settings, handler, results, stops>>

Of(a) == {g \in routines : g.agent = a}

Replace(g, h) == routines' = (routines \ {g}) \cup {h}

-----------------------------------------------------------------------------
(* The scheduler of the server publishes a trigger.  Core NATS: an agent   *)
(* that is not subscribed, or whose queue is full, never sees it.          *)
Trigger(c) ==
  /\ event < MaxEvents
  /\ event' = event + 1
  /\ pending' = [a \in Agents |->
                   IF subscribed[a] /\ Len(pending[a]) < MaxPending
                   THEN Append(pending[a], [id |-> event', check |-> c])
                   ELSE pending[a]]
  /\ UNCHANGED <<subscribed, settings, current, routines, results, stops>>

(* agent.Run subscribes before MonitorSettings has loaded anything. *)
Subscribe(a) ==
  /\ ~subscribed[a]
  /\ subscribed' = [subscribed EXCEPT ![a] = TRUE]
  /\ UNCHANGED <<event, settings, handler, results, stops>>

(* The agent exits: queue, handler, goroutines and settings are gone. *)
Stop(a) ==
  /\ subscribed[a] /\ stops < MaxStops
  /\ stops' = stops + 1
  /\ subscribed' = [subscribed EXCEPT ![a] = FALSE]
  /\ checks' = [checks EXCEPT ![a] = [c \in Checks |-> 0]]
  /\ attributes' = [attributes EXCEPT ![a] = [t \in Teams |-> 0]]
  /\ pending' = [pending EXCEPT ![a] = <<>>]
  /\ current' = [current EXCEPT ![a] = 0]
  /\ routines' = routines \ Of(a)
  /\ UNCHANGED <<event, results>>

(* MonitorSettings loads, replaces or drops a check, or a team's settings. *)
SetCheck(a, c, r) ==
  /\ subscribed[a] /\ r # checks[a][c]
  /\ checks' = [checks EXCEPT ![a][c] = r]
  /\ UNCHANGED <<event, subscribed, attributes, handler, results, stops>>

SetAttributes(a, t, r) ==
  /\ subscribed[a] /\ t \in TeamsOf[a] /\ r # attributes[a][t]
  /\ attributes' = [attributes EXCEPT ![a][t] = r]
  /\ UNCHANGED <<event, subscribed, checks, handler, results, stops>>

-----------------------------------------------------------------------------
(***************************************************************************)
(* HandleScoreEvent, called for one message after the other                *)
(***************************************************************************)

Ready(a) == current[a] = 0 /\ pending[a] # <<>>

(* The check is not loaded: the event is dropped. *)
UnknownCheck(a) ==
  /\ Ready(a)
  /\ checks[a][Head(pending[a]).check] = 0
  /\ pending' = [pending EXCEPT ![a] = Tail(@)]
  /\ UNCHANGED <<event, subscribed, settings, current, routines, results,
                 stops>>

(* A goroutine for each team is given the definition that was looked up. *)
FanOut(a) ==
  /\ Ready(a)
  /\ LET e == Head(pending[a])
         rev == checks[a][e.check]
     IN  /\ rev # 0
         /\ current' = [current EXCEPT ![a] = e.id]
         /\ routines' = routines \cup
              [agent : {a}, event : {e.id}, check : {e.check}, rev : {rev},
               team : TeamsOf[a], step : {"copy"}, from : {{}}]
  /\ pending' = [pending EXCEPT ![a] = Tail(@)]
  /\ UNCHANGED <<event, subscribed, settings, results, stops>>

(* Mutant: the handler does not wait for its goroutines. *)
HandlerReturns_NoWait(a) ==
  /\ current[a] # 0
  /\ current' = [current EXCEPT ![a] = 0]
  /\ UNCHANGED <<event, subscribed, settings, pending, routines, results,
                 stops>>

(* wg.Wait: the handler returns when every goroutine has. *)
HandlerReturns(a) ==
  /\ current[a] # 0 /\ Of(a) = {}
  /\ current' = [current EXCEPT ![a] = 0]
  /\ UNCHANGED <<event, subscribed, settings, pending, routines, results,
                 stops>>

-----------------------------------------------------------------------------
(***************************************************************************)
(* runTeamCheck                                                            *)
(***************************************************************************)

(* Mutant: the definition is looked up again when the goroutine runs. *)
CopyDefinition_Reread(g) ==
  /\ g.step = "copy"
  /\ Replace(g, [g EXCEPT !.step = "override",
                          !.rev = checks[g.agent][g.check]])
  /\ UNCHANGED <<event, subscribed, settings, pending, current, results,
                 stops>>

(* The marshalled definition is unmarshalled into a struct of its own. *)
CopyDefinition(g) ==
  /\ g.step = "copy"
  /\ Replace(g, [g EXCEPT !.step = "override"])
  /\ UNCHANGED <<event, subscribed, settings, pending, current, results,
                 stops>>

(* Mutant: all goroutines of an event work on one struct. *)
ApplyOverrides_Shared(g) ==
  /\ g.step = "override"
  /\ LET read == {<<g.team, attributes[g.agent][g.team]>>}
     IN  routines' =
           {IF h = g THEN [h EXCEPT !.step = "run", !.from = @ \cup read]
            ELSE IF h.agent = g.agent /\ h.event = g.event
                 THEN [h EXCEPT !.from = @ \cup read]
                 ELSE h : h \in routines}
  /\ UNCHANGED <<event, subscribed, settings, pending, current, results,
                 stops>>

(* The team's attributes are read, and the allowed ones override fields. *)
ApplyOverrides(g) ==
  /\ g.step = "override"
  /\ LET read == {<<g.team, attributes[g.agent][g.team]>>}
     IN  Replace(g, [g EXCEPT !.step = "run", !.from = read])
  /\ UNCHANGED <<event, subscribed, settings, pending, current, results,
                 stops>>

(* checker.Run, however long it takes and whatever it finds (external). *)
RunCheck(g) ==
  /\ g.step = "run"
  /\ Replace(g, [g EXCEPT !.step = "publish"])
  /\ UNCHANGED <<event, subscribed, settings, pending, current, results,
                 stops>>

(* Mutant: js.Publish is retried once when its answer is late. *)
PublishResult_Retry(g) ==
  /\ g.step = "publish"
  /\ \/ routines' = routines \ {g}
     \/ UNCHANGED routines
  /\ results' = Append(results, g)
  /\ UNCHANGED <<event, subscribed, settings, pending, current, stops>>

(* The result is published once; a failure is logged and the result lost. *)
PublishResult(g) ==
  /\ g.step = "publish"
  /\ routines' = routines \ {g}
  /\ results' = Append(results, g)
  /\ UNCHANGED <<event, subscribed, settings, pending, current, stops>>

(* Mutant: a goroutine that cannot publish never reports it is done. *)
PublishFails_NeverDone(g) ==
  /\ g.step = "publish"
  /\ Replace(g, [g EXCEPT !.step = "done"])
  /\ UNCHANGED <<event, subscribed, settings, pending, current, results,
                 stops>>

PublishFails(g) ==
  /\ g.step = "publish"
  /\ routines' = routines \ {g}
  /\ UNCHANGED <<event, subscribed, settings, pending, current, results,
                 stops>>

RunTeamCheck(g) ==
  \/ CopyDefinition(g) \/ ApplyOverrides(g)
  \/ RunCheck(g)
  \/ PublishResult(g) \/ PublishFails(g)

-----------------------------------------------------------------------------
Init ==
  /\ event = 0
  /\ subscribed = [a \in Agents |-> FALSE]
  /\ checks = [a \in Agents |-> [c \in Checks |-> 0]]
  /\ attributes = [a \in Agents |-> [t \in Teams |-> 0]]
  /\ pending = [a \in Agents |-> <<>>]
  /\ current = [a \in Agents |-> 0]
  /\ routines = {} /\ results = <<>> /\ stops = 0

Handle(a) == UnknownCheck(a) \/ FanOut(a) \/ HandlerReturns(a)

Next ==
  \/ \E c \in Checks : Trigger(c)
  \/ \E a \in Agents : Subscribe(a) \/ Stop(a) \/ Handle(a)
  \/ \E a \in Agents, c \in Checks, r \in 0..MaxRev : SetCheck(a, c, r)
  \/ \E a \in Agents, t \in Teams, r \in 0..MaxAttrs : SetAttributes(a, t, r)
  \/ \E g \in routines : RunTeamCheck(g)

Spec == Init /\ [][Next]_vars

(* The client library calls the handler for the next message, goroutines   *)
(* are scheduled, and every check ends (checker.Run is given the context   *)
(* and is assumed to have a timeout).                                      *)
Fairness ==
  \A a \in Agents :
    /\ WF_vars(Handle(a))
    /\ \A t \in Teams :
         WF_vars(\E g \in Of(a) : g.team = t /\ RunTeamCheck(g))

FairSpec == Spec /\ Fairness

-----------------------------------------------------------------------------
Routine ==
  [agent : Agents, event : 1..MaxEvents, check : Checks, rev : 1..MaxRev,
   team : Teams, step : {"copy", "override", "run", "publish"},
   from : SUBSET (Teams \X (0..MaxAttrs))]

TypeOK ==
  /\ event \in 0..MaxEvents
  /\ subscribed \in [Agents -> BOOLEAN]
  /\ checks \in [Agents -> [Checks -> 0..MaxRev]]
  /\ attributes \in [Agents -> [Teams -> 0..MaxAttrs]]
  /\ pending \in [Agents -> Seq([id : 1..MaxEvents, check : Checks])]
  /\ current \in [Agents -> 0..MaxEvents]
  /\ routines \subseteq Routine
  /\ results \in Seq(Routine)
  /\ stops \in 0..MaxStops

(* A trigger yields at most one result for a team, provided that no two    *)
(* agents score the same team.                                             *)
OneResultPerTrigger ==
  Disjoint =>
    \A i, j \in DOMAIN results :
      results[i].event = results[j].event /\ results[i].team = results[j].team
        => i = j

(* The results of a team appear on the stream in the order of the triggers *)
(* - what the web interface relies on when it lets the last message win -  *)
(* because the handler of an event waits for its goroutines.               *)
ResultsInTriggerOrder ==
  Disjoint =>
    \A i, j \in DOMAIN results :
      i < j /\ results[i].team = results[j].team
        => results[i].event <= results[j].event

(* All the teams of a round are scored with one definition of the check,   *)
(* even when the check is replaced while the round is running.             *)
OneDefinitionPerRound ==
  \A i, j \in DOMAIN results :
    results[i].event = results[j].event /\ results[i].agent = results[j].agent
      => results[i].rev = results[j].rev

(* A team's check runs with the attributes of that team and no other, read *)
(* once: the goroutines of a round do not share the definition struct.     *)
NoOverrideLeaks ==
  \A i \in DOMAIN results :
    \E r \in 0..MaxAttrs : results[i].from = {<<results[i].team, r>>}

(* Every trigger an agent has queued is dealt with, in spite of goroutines *)
(* that fail and settings that change, unless the agent stops.             *)
TriggersAreHandled ==
  \A a \in Agents, n \in 1..MaxEvents :
    (\E i \in DOMAIN pending[a] : pending[a][i].id = n)
      ~> \/ ~subscribed[a]
         \/ current[a] # n /\ ~\E i \in DOMAIN pending[a] : pending[a][i].id = n
=============================================================================
