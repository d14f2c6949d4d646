--------------------------- MODULE ProcessProofs ----------------------------
(***************************************************************************)
(* The two processes: the rounds of an agent, for any number of agents,    *)
(* teams, checks and triggers, and the life of `server start`, for any     *)
(* number of attempts to connect.                                          *)
(***************************************************************************)
EXTENDS ScoreEvents, ServerLifecycle, SequenceFacts

-----------------------------------------------------------------------------
(* The agent: what is published for a trigger and in what order.  The      *)
(* handler of an agent has one trigger in hand at a time, older than all   *)
(* those in its queue and not older than any it has published for.         *)

Message == [id : 1..MaxEvents, check : Checks]

(* The trigger in hand is older than those queued, which are in order. *)
QueueInv ==
  \A a \in Agents :
    /\ current[a] <= event
    /\ \A i \in DOMAIN pending[a] :
         current[a] < pending[a][i].id /\ pending[a][i].id <= event
    /\ \A i, j \in DOMAIN pending[a] :
         i < j => pending[a][i].id < pending[a][j].id

(* The goroutines of an agent work on the trigger in hand, with one        *)
(* definition, one for each of its teams.                                  *)
RoutineInv ==
  \A g \in routines :
    /\ g.event = current[g.agent]
    /\ g.team \in TeamsOf[g.agent]
    /\ g.step \in {"run", "publish"} =>
         \E r \in 0..MaxAttrs : g.from = {<<g.team, r>>}
    /\ \A h \in routines :
         h.agent = g.agent => h.rev = g.rev /\ (h.team = g.team => h = g)

(* No result is newer than the trigger in hand, or as new as one queued;   *)
(* a team that has its result has no goroutine left.                       *)
ResultInv ==
  \A i \in DOMAIN results :
    LET r == results[i] IN
    /\ r.team \in TeamsOf[r.agent]
    /\ r.event <= event
    /\ \A k \in DOMAIN pending[r.agent] : r.event < pending[r.agent][k].id
    /\ current[r.agent] # 0 => r.event <= current[r.agent]
    /\ \A g \in routines :
         g.agent = r.agent /\ g.event = r.event => g.rev = r.rev /\ g.team # r.team

(* Of two results of an agent. *)
PairInv ==
  \A i, j \in DOMAIN results :
    results[i].agent = results[j].agent =>
      /\ results[i].event = results[j].event =>
           /\ results[i].rev = results[j].rev
           /\ results[i].team = results[j].team => i = j
      /\ i < j => results[i].event <= results[j].event

ScoreInv ==
  /\ TypeOK /\ QueueInv /\ RoutineInv /\ ResultInv /\ PairInv
  /\ NoOverrideLeaks

-----------------------------------------------------------------------------
LEMMA InitScoreInv == ScoreAssumption /\ Init => ScoreInv
<1> SUFFICES ASSUME ScoreAssumption, Init PROVE ScoreInv
  OBVIOUS
<1>1. DOMAIN results = {} /\ \A a \in Agents : DOMAIN pending[a] = {}
  BY DEF Init
<1>2. TypeOK
  BY EmptySeq DEF Init, TypeOK, ScoreAssumption
<1>3. QueueInv
  BY <1>1 DEF Init, QueueInv
<1> QED
  BY <1>1, <1>2, <1>3
  DEF Init, ScoreInv, RoutineInv, ResultInv, PairInv, NoOverrideLeaks

(* A trigger is newer than all that is queued, in hand or published. *)
LEMMA TriggerKeeps ==
  ASSUME ScoreAssumption, ScoreInv, NEW c \in Checks, Trigger(c)
  PROVE  ScoreInv'
<1> DEFINE msg == [id |-> event + 1, check |-> c]
<1>1. /\ event \in Nat /\ event' = event + 1 /\ event' \in 1..MaxEvents
      /\ msg \in Message
  BY DEF ScoreInv, TypeOK, Trigger, ScoreAssumption, Message
<1>2. ASSUME NEW a \in Agents
      PROVE  /\ pending[a] \in Seq(Message) /\ Len(pending[a]) \in Nat
             /\ DOMAIN pending[a] = 1..Len(pending[a])
  BY LenProperties DEF ScoreInv, TypeOK, Message
<1>3. ASSUME NEW a \in Agents
      PROVE  /\ pending'[a] \in Seq(Message)
             /\ \A k \in DOMAIN pending'[a] :
                  \/ k \in DOMAIN pending[a] /\ pending'[a][k] = pending[a][k]
                  \/ k = Len(pending[a]) + 1 /\ pending'[a][k] = msg
  <2>1. pending'[a] = pending[a] \/ pending'[a] = Append(pending[a], msg)
    BY <1>1 DEF Trigger
  <2>2. CASE pending'[a] = pending[a]
    BY <2>2, <1>2
  <2>3. CASE pending'[a] = Append(pending[a], msg)
    BY <2>3, <1>1, <1>2, AppendProperties, LenProperties
  <2> QED
    BY <2>1, <2>2, <2>3
<1>4. UNCHANGED <<subscribed, checks, attributes, current, routines, results,
                  stops>>
  BY DEF Trigger, settings
<1>5. TypeOK'
  <2>1. pending' \in [Agents -> Seq(Message)]
    <3>1. pending' = [a \in Agents |-> pending'[a]]
      BY DEF Trigger
    <3> QED
      BY <3>1, <1>3
  <2>2. event' \in 0..MaxEvents
    BY <1>1 DEF ScoreAssumption
  <2> QED
    BY <2>1, <2>2, <1>4, ZenonT(60) DEF ScoreInv, TypeOK, Message, Routine
<1>6. QueueInv'
  <2> SUFFICES ASSUME NEW a \in Agents
               PROVE  /\ current[a] <= event'
                      /\ \A i \in DOMAIN pending'[a] :
                           current[a] < pending'[a][i].id /\ pending'[a][i].id <= event'
                      /\ \A i, j \in DOMAIN pending'[a] :
                           i < j => pending'[a][i].id < pending'[a][j].id
    BY <1>4 DEF QueueInv
  <2>1. /\ current[a] \in Nat /\ current[a] <= event
        /\ \A i \in DOMAIN pending[a] :
             /\ pending[a][i].id \in Nat
             /\ current[a] < pending[a][i].id /\ pending[a][i].id <= event
        /\ \A i, j \in DOMAIN pending[a] :
             i < j => pending[a][i].id < pending[a][j].id
    <3>1. \A i \in DOMAIN pending[a] : pending[a][i] \in Message
      BY <1>2
    <3> QED
      BY <3>1 DEF ScoreInv, TypeOK, QueueInv, Message
  <2>2. msg.id = event + 1
    OBVIOUS
  <2>3. Len(pending[a]) \in Nat /\ DOMAIN pending[a] = 1..Len(pending[a])
    BY <1>2
  <2>4. \A k \in DOMAIN pending'[a] :
          \/ k \in DOMAIN pending[a] /\ pending'[a][k].id = pending[a][k].id
          \/ k = Len(pending[a]) + 1 /\ pending'[a][k].id = event + 1
    BY <1>3, <2>2
  <2>5. \A k \in DOMAIN pending'[a] :
          current[a] < pending'[a][k].id /\ pending'[a][k].id <= event'
    BY <2>1, <2>4, <1>1
  <2>6. ASSUME NEW i \in DOMAIN pending'[a], NEW j \in DOMAIN pending'[a], i < j
        PROVE  pending'[a][i].id < pending'[a][j].id
    BY <2>1, <2>3, <2>4, <2>6, <1>1
  <2> QED
    BY <2>1, <2>5, <2>6, <1>1
<1>7. ResultInv'
  <2>1. \A i \in DOMAIN results :
          results[i] \in Routine /\ results[i].agent \in Agents /\ results[i].event \in Nat
    <3>1. results \in Seq(Routine)
      BY DEF ScoreInv, TypeOK
    <3>2. \A i \in DOMAIN results : results[i] \in Routine
      BY <3>1
    <3> QED
      BY <3>2 DEF Routine
  <2> SUFFICES ASSUME NEW i \in DOMAIN results
               PROVE  /\ results[i].event <= event'
                      /\ \A k \in DOMAIN pending'[results[i].agent] :
                           results[i].event < pending'[results[i].agent][k].id
    BY <1>4 DEF ScoreInv, ResultInv
  <2>2. /\ results[i].event <= event
        /\ \A k \in DOMAIN pending[results[i].agent] :
             results[i].event < pending[results[i].agent][k].id
    BY DEF ScoreInv, ResultInv
  <2>3. msg.id = event + 1
    OBVIOUS
  <2> HIDE DEF msg
  <2> QED
    BY <2>1, <2>2, <2>3, <1>1, <1>3
<1> QED
  BY <1>4, <1>5, <1>6, <1>7
  DEF ScoreInv, RoutineInv, PairInv, NoOverrideLeaks

-----------------------------------------------------------------------------
(* What the types say of the elements. *)
LEMMA Elements ==
  ASSUME ScoreInv
  PROVE  /\ results \in Seq(Routine) /\ Len(results) \in Nat
         /\ DOMAIN results = 1..Len(results)
         /\ \A i \in DOMAIN results :
              /\ results[i] \in Routine
              /\ results[i].agent \in Agents /\ results[i].event \in Nat \ {0}
         /\ \A a \in Agents :
              /\ pending[a] \in Seq(Message) /\ Len(pending[a]) \in Nat
              /\ DOMAIN pending[a] = 1..Len(pending[a])
              /\ \A k \in DOMAIN pending[a] :
                   pending[a][k] \in Message /\ pending[a][k].id \in Nat \ {0}
         /\ \A g \in routines :
              g \in Routine /\ g.agent \in Agents /\ g.event \in Nat \ {0}
<1>1. /\ results \in Seq(Routine) /\ routines \subseteq Routine
      /\ \A a \in Agents : pending[a] \in Seq(Message)
  BY DEF ScoreInv, TypeOK, Message
<1>2. \A i \in DOMAIN results : results[i] \in Routine
  BY <1>1
<1>3. ASSUME NEW a \in Agents, NEW k \in DOMAIN pending[a]
      PROVE  pending[a][k] \in Message
  BY <1>1
<1>4. \A a \in Agents : \A k \in DOMAIN pending[a] :
        pending[a][k] \in Message /\ pending[a][k].id \in Nat \ {0}
  BY <1>3 DEF Message
<1>5. \A g \in Routine : g.agent \in Agents /\ g.event \in Nat \ {0}
  BY DEF Routine
<1> QED
  BY <1>1, <1>2, <1>4, <1>5, LenProperties

(* The settings and the subscription are not in the argument. *)
LEMMA SettingsKeep ==
  ASSUME ScoreAssumption, ScoreInv, NEW a \in Agents,
         \/ Subscribe(a)
         \/ \E c \in Checks, r \in 0..MaxRev : SetCheck(a, c, r)
         \/ \E t \in Teams, r \in 0..MaxAttrs : SetAttributes(a, t, r)
  PROVE  ScoreInv'
<1>1. UNCHANGED <<event, pending, current, routines, results, stops>>
  BY DEF Subscribe, SetCheck, SetAttributes, handler
<1>2. subscribed' \in [Agents -> BOOLEAN]
  BY ZenonT(60) DEF Subscribe, SetCheck, SetAttributes, ScoreInv, TypeOK
<1>3. checks' \in [Agents -> [Checks -> 0..MaxRev]]
  <2>1. checks \in [Agents -> [Checks -> 0..MaxRev]]
    BY DEF ScoreInv, TypeOK
  <2>2. ASSUME NEW c \in Checks, NEW r \in 0..MaxRev, SetCheck(a, c, r)
        PROVE  checks' \in [Agents -> [Checks -> 0..MaxRev]]
    BY <2>1, <2>2 DEF SetCheck
  <2>3. CASE UNCHANGED checks
    BY <2>1, <2>3
  <2> QED
    BY <2>2, <2>3 DEF Subscribe, SetAttributes, settings
<1>4. attributes' \in [Agents -> [Teams -> 0..MaxAttrs]]
  BY DEF Subscribe, SetCheck, SetAttributes, settings, ScoreInv, TypeOK
<1>5. TypeOK'
  BY <1>1, <1>2, <1>3, <1>4, ZenonT(60) DEF ScoreInv, TypeOK, Routine
<1> QED
  BY <1>1, <1>5
  DEF ScoreInv, QueueInv, RoutineInv, ResultInv, PairInv, NoOverrideLeaks

(* An agent that stops takes queue, trigger and goroutines with it. *)
LEMMA StopKeeps ==
  ASSUME ScoreAssumption, ScoreInv, NEW a \in Agents, Stop(a)
  PROVE  ScoreInv'
<1>1. /\ UNCHANGED <<event,
                     results>> /\ routines' = {g \in routines : g.agent # a}
      /\ pending'[a] = <<>> /\ current'[a] = 0
      /\ \A b \in Agents \ {a} : pending'[b] = pending[b] /\ current'[b] = current[b]
  BY DEF Stop, Of, ScoreInv, TypeOK
<1>2. TypeOK'
  <2>1. subscribed' \in [Agents -> BOOLEAN]
    BY ZenonT(60) DEF Stop, ScoreInv, TypeOK
  <2>2. /\ checks' \in [Agents -> [Checks -> 0..MaxRev]]
        /\ attributes' \in [Agents -> [Teams -> 0..MaxAttrs]]
    BY DEF Stop, ScoreInv, TypeOK, ScoreAssumption
  <2>3. pending' \in [Agents -> Seq(Message)]
    <3>1. <<>> \in Seq(Message)
      BY EmptySeq
    <3> QED
      BY <3>1 DEF Stop, ScoreInv, TypeOK, Message
  <2>4. current' \in [Agents -> 0..MaxEvents] /\ stops' \in 0..MaxStops
    BY DEF Stop, ScoreInv, TypeOK, ScoreAssumption
  <2>5. routines' \subseteq Routine
    BY <1>1 DEF ScoreInv, TypeOK
  <2> QED
    BY <1>1, <2>1, <2>2, <2>3, <2>4, <2>5, ZenonT(60)
    DEF ScoreInv, TypeOK, Message, Routine
<1>3. DOMAIN pending'[a] = {} /\ event \in Nat
  BY <1>1 DEF ScoreInv, TypeOK
<1>4. QueueInv'
  BY <1>1, <1>3 DEF ScoreInv, QueueInv
<1>5. RoutineInv'
  BY <1>1, Elements DEF ScoreInv, RoutineInv
<1>6. ResultInv'
  BY <1>1, <1>3, Elements, ZenonT(60) DEF ScoreInv, ResultInv
<1> QED
  BY <1>1, <1>2, <1>4, <1>5, <1>6 DEF ScoreInv, PairInv, NoOverrideLeaks

(* Taking the first trigger of a queue. *)
LEMMA Dequeue ==
  ASSUME ScoreInv, NEW a \in Agents, pending[a] # <<>>,
         pending' = [pending EXCEPT ![a] = Tail(@)]
  PROVE  /\ pending' \in [Agents -> Seq(Message)]
         /\ 1 \in DOMAIN pending[a] /\ Head(pending[a]) = pending[a][1]
         /\ \A k \in DOMAIN pending'[a] :
              k \in Nat \ {0} /\ k + 1 \in DOMAIN pending[a]
                /\ pending'[a][k] = pending[a][k + 1]
         /\ \A b \in Agents \ {a} : pending'[b] = pending[b]
<1>1. pending[a] \in Seq(Message) /\ pending \in [Agents -> Seq(Message)]
  BY DEF ScoreInv, TypeOK, Message
<1>2. /\ Tail(pending[a]) \in Seq(Message)
      /\ Len(Tail(pending[a])) = Len(pending[a]) - 1
      /\ \A i \in 1..Len(Tail(pending[a])) : Tail(pending[a])[i] = pending[a][i + 1]
  BY <1>1, HeadTailProperties
<1>3. Len(pending[a]) \in Nat \ {0}
  BY <1>1, EmptySeq
<1>4. /\ pending'[a] = Tail(pending[a])
      /\ \A b \in Agents \ {a} : pending'[b] = pending[b]
  BY <1>1
<1>5. /\ DOMAIN pending[a] = 1..Len(pending[a])
      /\ DOMAIN Tail(pending[a]) = 1..Len(Tail(pending[a]))
  BY <1>1, <1>2, LenProperties
<1>6. Head(pending[a]) = pending[a][1]
  BY <1>1
<1>7. pending' \in [Agents -> Seq(Message)]
  BY <1>1, <1>2
<1> QED
  BY <1>2, <1>3, <1>4, <1>5, <1>6, <1>7

(* The check is not loaded: its trigger is dropped. *)
LEMMA UnknownCheckKeeps ==
  ASSUME ScoreAssumption, ScoreInv, NEW a \in Agents, UnknownCheck(a)
  PROVE  ScoreInv'
<1>1. /\ UNCHANGED <<event, subscribed, checks, attributes, current,
                     routines, results, stops>>
      /\ pending[a] # <<>> /\ pending' = [pending EXCEPT ![a] = Tail(@)]
  BY DEF UnknownCheck, Ready, settings
<1>2. /\ pending' \in [Agents -> Seq(Message)]
      /\ \A k \in DOMAIN pending'[a] :
           k \in Nat \ {0} /\ k + 1 \in DOMAIN pending[a]
             /\ pending'[a][k] = pending[a][k + 1]
      /\ \A b \in Agents \ {a} : pending'[b] = pending[b]
  BY <1>1, Dequeue
<1>3. TypeOK'
  BY <1>1, <1>2, ZenonT(60) DEF ScoreInv, TypeOK, Routine, Message
<1>4. QueueInv'
  BY <1>1, <1>2 DEF ScoreInv, QueueInv
<1>5. ResultInv'
  BY <1>1, <1>2, Elements DEF ScoreInv, ResultInv
<1> QED
  BY <1>1, <1>3, <1>4, <1>5 DEF ScoreInv, RoutineInv, PairInv, NoOverrideLeaks

(* The goroutines of a round start for a trigger that is newer than all    *)
(* the agent has published for.                                            *)
LEMMA FanOutKeeps ==
  ASSUME ScoreAssumption, ScoreInv, NEW a \in Agents, FanOut(a)
  PROVE  ScoreInv'
<1> DEFINE e == pending[a][1]
           rev == checks[a][e.check]
           started == [agent : {a}, event : {e.id}, check : {e.check}, rev : {rev},
                       team : TeamsOf[a], step : {"copy"}, from : {{}}]
<1>1. /\ UNCHANGED <<event, subscribed, checks, attributes, results, stops>>
      /\ pending[a] # <<>> /\ pending' = [pending EXCEPT ![a] = Tail(@)]
      /\ current[a] = 0
  BY DEF FanOut, Ready, settings
<1>2. /\ pending' \in [Agents -> Seq(Message)]
      /\ 1 \in DOMAIN pending[a] /\ Head(pending[a]) = e
      /\ \A k \in DOMAIN pending'[a] :
           k \in Nat \ {0} /\ k + 1 \in DOMAIN pending[a]
             /\ pending'[a][k] = pending[a][k + 1]
      /\ \A b \in Agents \ {a} : pending'[b] = pending[b]
  BY <1>1, Dequeue
<1>3. /\ rev # 0 /\ current' = [current EXCEPT ![a] = e.id]
      /\ routines' = routines \cup started
  BY <1>2 DEF FanOut
<1>4. e \in Message /\ e.id \in 1..MaxEvents /\ e.id \in Nat \ {0} /\ e.check \in Checks
  BY <1>2, Elements DEF Message
<1>5. rev \in 1..MaxRev /\ TeamsOf[a] \subseteq Teams
  BY <1>3, <1>4 DEF ScoreInv, TypeOK, ScoreAssumption
<1>6. \A g \in started :
        /\ g \in Routine /\ g.agent = a /\ g.event = e.id /\ g.check = e.check
        /\ g.rev = rev /\ g.team \in TeamsOf[a] /\ g.step = "copy" /\ g.from = {}
  BY <1>4, <1>5 DEF Routine
<1>7. \A g, h \in started : g.team = h.team => g = h
  OBVIOUS
<1>8. \A g \in routines : g.agent # a
  BY <1>1, Elements DEF ScoreInv, RoutineInv
<1>9. current'[a] = e.id /\ \A b \in Agents \ {a} : current'[b] = current[b]
  BY <1>3 DEF ScoreInv, TypeOK
<1> HIDE DEF started, rev, e
<1>10. TypeOK'
  <2>1. routines' \subseteq Routine
    BY <1>3, <1>6 DEF ScoreInv, TypeOK
  <2>2. current' \in [Agents -> 0..MaxEvents]
    BY <1>3, <1>4 DEF ScoreInv, TypeOK, ScoreAssumption
  <2> QED
    BY <1>1, <1>2, <2>1, <2>2, ZenonT(60) DEF ScoreInv, TypeOK, Routine, Message
<1>11. \A k \in DOMAIN pending'[a] : e.id < pending'[a][k].id /\ pending'[a][k].id <= event
  BY <1>2, Elements DEF ScoreInv, QueueInv, e
<1>12. QueueInv'
  <2>1. e.id <= event
    BY <1>2 DEF ScoreInv, QueueInv, e
  <2> QED
    BY <1>1, <1>2, <1>9, <1>11, <2>1 DEF ScoreInv, QueueInv
<1>13. RoutineInv'
  <2> SUFFICES ASSUME NEW g \in routines'
               PROVE  /\ g.event = current'[g.agent]
                      /\ g.team \in TeamsOf[g.agent]
                      /\ g.step \in {"run", "publish"} =>
                           \E r \in 0..MaxAttrs : g.from = {<<g.team, r>>}
                      /\ \A h \in routines' :
                           h.agent = g.agent => h.rev = g.rev /\ (h.team = g.team => h = g)
    BY DEF RoutineInv
  <2>1. CASE g \in started
    BY <2>1, <1>3, <1>6, <1>7, <1>8, <1>9
  <2>2. CASE g \in routines
    BY <2>2, <1>3, <1>6, <1>8, <1>9, Elements DEF ScoreInv, RoutineInv
  <2> QED
    BY <2>1, <2>2, <1>3
<1>14. ResultInv'
  <2> SUFFICES ASSUME NEW i \in DOMAIN results
               PROVE  /\ \A k \in DOMAIN pending'[results[i].agent] :
                           results[i].event < pending'[results[i].agent][k].id
                      /\ current'[results[i].agent] # 0 =>
                           results[i].event <= current'[results[i].agent]
                      /\ \A g \in routines' :
                           g.agent = results[i].agent /\ g.event = results[i].event =>
                             g.rev = results[i].rev /\ g.team # results[i].team
    BY <1>1, ZenonT(60) DEF ScoreInv, ResultInv
  <2>1. results[i].agent \in Agents /\ results[i].event \in Nat
    BY Elements
  <2>2. CASE results[i].agent = a
    <3>1. results[i].event < e.id
      BY <2>2, <1>2 DEF ScoreInv, ResultInv, e
    <3>2. \A k \in DOMAIN pending'[a] : results[i].event < pending'[a][k].id
      BY <2>2, <1>2, ZenonT(60) DEF ScoreInv, ResultInv
    <3>3. results[i].event <= current'[a]
      BY <3>1, <2>1, <1>4, <1>9
    <3>4. ASSUME NEW g \in routines', g.agent = a
          PROVE  g.event # results[i].event
      <4>1. g \in started
        BY <3>4, <1>3, <1>8
      <4> QED
        BY <4>1, <3>1, <2>1, <1>4, <1>6
    <3>5. \A k \in DOMAIN pending'[results[i].agent] :
            results[i].event < pending'[results[i].agent][k].id
      BY <3>2, <2>2
    <3>6. results[i].event <= current'[results[i].agent]
      BY <3>3, <2>2
    <3>7. \A g \in routines' :
            g.agent = results[i].agent => g.event # results[i].event
      BY <3>4, <2>2
    <3> QED
      BY <3>5, <3>6, <3>7
  <2>3. CASE results[i].agent # a
    <3>1. /\ pending'[results[i].agent] = pending[results[i].agent]
          /\ current'[results[i].agent] = current[results[i].agent]
      BY <2>1, <2>3, <1>2, <1>9
    <3>2. \A g \in routines' : g.agent = results[i].agent => g \in routines
      BY <2>3, <1>3, <1>6
    <3> QED
      BY <3>1, <3>2 DEF ScoreInv, ResultInv
  <2> QED
    BY <2>2, <2>3
<1> QED
  BY <1>1, <1>10, <1>12, <1>13, <1>14 DEF ScoreInv, PairInv, NoOverrideLeaks

(* The handler returns when no goroutine is left. *)
LEMMA HandlerReturnsKeeps ==
  ASSUME ScoreAssumption, ScoreInv, NEW a \in Agents, HandlerReturns(a)
  PROVE  ScoreInv'
<1>1. /\ UNCHANGED <<event, subscribed, checks, attributes, pending,
                     routines, results, stops>>
      /\ \A g \in routines : g.agent # a
      /\ current' = [current EXCEPT ![a] = 0]
  BY DEF HandlerReturns, settings, Of
<1>2. current'[a] = 0 /\ \A b \in Agents \ {a} : current'[b] = current[b]
  BY <1>1 DEF ScoreInv, TypeOK
<1>3. TypeOK'
  <2>1. current' \in [Agents -> 0..MaxEvents]
    BY <1>1 DEF ScoreInv, TypeOK, ScoreAssumption
  <2> QED
    BY <1>1, <2>1, ZenonT(60) DEF ScoreInv, TypeOK, Routine
<1>4. QueueInv'
  <2>1. event \in Nat
    BY DEF ScoreInv, TypeOK
  <2> QED
    BY <1>1, <1>2, <2>1, Elements DEF ScoreInv, QueueInv
<1>5. RoutineInv'
  BY <1>1, <1>2, Elements DEF ScoreInv, RoutineInv
<1>6. ResultInv'
  <2> SUFFICES ASSUME NEW i \in DOMAIN results, current'[results[i].agent] # 0
               PROVE  results[i].event <= current'[results[i].agent]
    BY <1>1 DEF ScoreInv, ResultInv
  <2> QED
    BY <1>2, Elements DEF ScoreInv, ResultInv
<1> QED
  BY <1>1, <1>3, <1>4, <1>5, <1>6 DEF ScoreInv, PairInv, NoOverrideLeaks

(* A goroutine goes on: only its step and what it has read change. *)
LEMMA RoutineGoesOn ==
  ASSUME ScoreAssumption, ScoreInv, NEW g \in routines, NEW h \in Routine,
         h.agent = g.agent, h.event = g.event, h.rev = g.rev, h.team = g.team,
         h.step \in {"run", "publish"} =>
           \E r \in 0..MaxAttrs : h.from = {<<h.team, r>>},
         Replace(g, h),
         UNCHANGED <<event, subscribed, settings, pending, current, results,
                     stops>>
  PROVE  ScoreInv'
<1>1. /\ UNCHANGED <<event, subscribed, checks, attributes, pending, current,
                     results, stops>>
      /\ routines' = (routines \ {g}) \cup {h}
  BY DEF Replace, settings
<1>2. TypeOK'
  <2>1. routines' \subseteq Routine
    BY <1>1 DEF ScoreInv, TypeOK
  <2> QED
    BY <1>1, <2>1, ZenonT(60) DEF ScoreInv, TypeOK, Routine
<1>3. RoutineInv'
  <2> SUFFICES ASSUME NEW f \in routines'
               PROVE  /\ f.event = current[f.agent]
                      /\ f.team \in TeamsOf[f.agent]
                      /\ f.step \in {"run", "publish"} =>
                           \E r \in 0..MaxAttrs : f.from = {<<f.team, r>>}
                      /\ \A k \in routines' :
                           k.agent = f.agent => k.rev = f.rev /\ (k.team = f.team => k = f)
    BY <1>1 DEF RoutineInv
  <2>1. CASE f = h
    BY <2>1, <1>1 DEF ScoreInv, RoutineInv
  <2>2. CASE f \in routines \ {g}
    BY <2>2, <1>1 DEF ScoreInv, RoutineInv
  <2> QED
    BY <2>1, <2>2, <1>1
<1>4. ResultInv'
  BY <1>1 DEF ScoreInv, ResultInv
<1> QED
  BY <1>1, <1>2, <1>3, <1>4 DEF ScoreInv, QueueInv, PairInv, NoOverrideLeaks

(* A result is the newest of its agent, and the first of its team. *)
LEMMA PublishResultKeeps ==
  ASSUME ScoreAssumption, ScoreInv, NEW g \in routines, PublishResult(g)
  PROVE  ScoreInv'
<1> DEFINE n == Len(results) + 1
<1>1. /\ UNCHANGED <<event, subscribed, checks, attributes, pending, current,
                     stops>>
      /\ routines' = routines \ {g} /\ results' = Append(results, g)
      /\ g.step = "publish"
  BY DEF PublishResult, settings
<1>2. /\ g \in Routine /\ g.agent \in Agents /\ g.event \in Nat \ {0}
      /\ g.event = current[g.agent]
  BY Elements DEF ScoreInv, RoutineInv
<1>3. /\ results' \in Seq(Routine) /\ n \in Nat
      /\ DOMAIN results' = DOMAIN results \cup {n} /\ n \notin DOMAIN results
      /\ results'[n] = g
      /\ \A i \in DOMAIN results : results'[i] = results[i] /\ i \in Nat /\ i < n
  <2>1. /\ results \in Seq(Routine) /\ Len(results) \in Nat
        /\ DOMAIN results = 1..Len(results)
    BY Elements
  <2>2. /\ results' \in Seq(Routine) /\ Len(results') = n /\ results'[n] = g
        /\ \A i \in 1..Len(results) : results'[i] = results[i]
    BY <2>1, <1>1, <1>2, AppendProperties
  <2>3. DOMAIN results' = 1..n
    BY <2>2, LenProperties
  <2> QED
    BY <2>1, <2>2, <2>3
<1> HIDE DEF n
<1>4. ASSUME NEW i \in DOMAIN results, results[i].agent = g.agent
      PROVE  /\ results[i].event <= g.event /\ results[i].event \in Nat
             /\ results[i].event = g.event =>
                  results[i].rev = g.rev /\ results[i].team # g.team
  BY <1>2, <1>4, Elements DEF ScoreInv, ResultInv
<1>5. TypeOK'
  <2>1. routines' \subseteq Routine
    BY <1>1 DEF ScoreInv, TypeOK
  <2> QED
    BY <1>1, <1>3, <2>1, ZenonT(60) DEF ScoreInv, TypeOK, Routine
<1>6. RoutineInv'
  BY <1>1 DEF ScoreInv, RoutineInv
<1>7. ResultInv'
  <2>1. /\ g.team \in TeamsOf[g.agent] /\ g.event <= event /\ g.event <= current[g.agent]
        /\ \A k \in DOMAIN pending[g.agent] : g.event < pending[g.agent][k].id
    BY <1>2 DEF ScoreInv, RoutineInv, QueueInv
  <2>2. \A h \in routines' : h.agent = g.agent => h.rev = g.rev /\ h.team # g.team
    BY <1>1 DEF ScoreInv, RoutineInv
  <2>3. ASSUME NEW i \in DOMAIN results
        PROVE  LET r == results[i] IN
               /\ r.team \in TeamsOf[r.agent]
               /\ r.event <= event
               /\ \A k \in DOMAIN pending[r.agent] : r.event < pending[r.agent][k].id
               /\ current[r.agent] # 0 => r.event <= current[r.agent]
               /\ \A h \in routines' :
                    h.agent = r.agent /\ h.event = r.event => h.rev = r.rev /\ h.team # r.team
    BY <1>1 DEF ScoreInv, ResultInv
  <2>4. ASSUME NEW i \in DOMAIN results', NEW r, r = results'[i]
        PROVE  /\ r.team \in TeamsOf[r.agent]
               /\ r.event <= event
               /\ \A k \in DOMAIN pending[r.agent] : r.event < pending[r.agent][k].id
               /\ current[r.agent] # 0 => r.event <= current[r.agent]
               /\ \A h \in routines' :
                    h.agent = r.agent /\ h.event = r.event => h.rev = r.rev /\ h.team # r.team
    <3>1. CASE i \in DOMAIN results
      BY <3>1, <2>3, <2>4, <1>3
    <3>2. CASE r = g
      BY <3>2, <2>1, <2>2
    <3> QED
      BY <3>1, <3>2, <2>4, <1>3
  <2> QED
    BY <2>4, <1>1, ZenonT(60) DEF ResultInv
<1>8. PairInv'
  <2> SUFFICES ASSUME NEW i \in DOMAIN results', NEW j \in DOMAIN results',
                      results'[i].agent = results'[j].agent
               PROVE  /\ results'[i].event = results'[j].event =>
                           /\ results'[i].rev = results'[j].rev
                           /\ results'[i].team = results'[j].team => i = j
                      /\ i < j => results'[i].event <= results'[j].event
    BY DEF PairInv
  <2>1. CASE i # n /\ j # n
    BY <2>1, <1>3 DEF ScoreInv, PairInv
  <2>2. CASE i = n /\ j # n
    BY <2>2, <1>2, <1>3, <1>4
  <2>3. CASE i # n /\ j = n
    BY <2>3, <1>2, <1>3, <1>4
  <2>4. CASE i = n /\ j = n
    BY <2>4, <1>2, <1>3
  <2> QED
    BY <2>1, <2>2, <2>3, <2>4
<1>9. NoOverrideLeaks'
  <2>1. \E r \in 0..MaxAttrs : g.from = {<<g.team, r>>}
    BY <1>1 DEF ScoreInv, RoutineInv
  <2> QED
    BY <2>1, <1>3 DEF ScoreInv, NoOverrideLeaks
<1> QED
  BY <1>1, <1>5, <1>6, <1>7, <1>8, <1>9 DEF ScoreInv, QueueInv

LEMMA RunTeamCheckKeeps ==
  ASSUME ScoreAssumption, ScoreInv, NEW g \in routines, RunTeamCheck(g)
  PROVE  ScoreInv'
<1>1. g \in Routine
  BY Elements
<1>2. CASE CopyDefinition(g)
  <2>1. [g EXCEPT !.step = "override"] \in Routine
    BY <1>1 DEF Routine
  <2> QED
    BY <2>1, <1>1, <1>2, RoutineGoesOn DEF CopyDefinition, Routine
<1>3. CASE ApplyOverrides(g)
  <2> DEFINE r == attributes[g.agent][g.team]
             h == [g EXCEPT !.step = "run", !.from = {<<g.team, r>>}]
  <2>1. r \in 0..MaxAttrs
    BY <1>1 DEF ScoreInv, TypeOK, Routine
  <2>2. /\ h \in Routine /\ h.agent = g.agent /\ h.event = g.event
        /\ h.rev = g.rev /\ h.team = g.team /\ h.from = {<<h.team, r>>}
    <3>1. {<<g.team, r>>} \in SUBSET (Teams \X (0..MaxAttrs))
      BY <2>1, <1>1 DEF Routine
    <3> HIDE DEF r
    <3> QED
      BY <3>1, <1>1 DEF Routine
  <2>3. /\ Replace(g, h)
        /\ UNCHANGED <<event, subscribed, settings, pending, current,
                       results, stops>>
    BY <1>3 DEF ApplyOverrides
  <2> HIDE DEF h, r
  <2> QED
    BY <2>1, <2>2, <2>3, RoutineGoesOn
<1>4. CASE RunCheck(g)
  <2> DEFINE h == [g EXCEPT !.step = "publish"]
  <2>1. /\ h \in Routine /\ h.agent = g.agent /\ h.event = g.event
        /\ h.rev = g.rev /\ h.team = g.team /\ h.from = g.from
    BY <1>1 DEF Routine
  <2>2. /\ Replace(g, h)
        /\ UNCHANGED <<event, subscribed, settings, pending, current,
                       results, stops>>
        /\ \E r \in 0..MaxAttrs : g.from = {<<g.team, r>>}
    BY <1>4 DEF RunCheck, ScoreInv, RoutineInv
  <2> HIDE DEF h
  <2> QED
    BY <2>1, <2>2, RoutineGoesOn
<1>5. CASE PublishResult(g)
  BY <1>5, PublishResultKeeps
<1>6. CASE PublishFails(g)
  <2>1. /\ UNCHANGED <<event, subscribed, checks, attributes, pending,
                       current, results, stops>>
        /\ routines' = routines \ {g}
    BY <1>6 DEF PublishFails, settings
  <2>2. TypeOK'
    <3>1. routines' \subseteq Routine
      BY <2>1 DEF ScoreInv, TypeOK
    <3> QED
      BY <2>1, <3>1, ZenonT(60) DEF ScoreInv, TypeOK, Routine
  <2>3. RoutineInv'
    BY <2>1 DEF ScoreInv, RoutineInv
  <2>4. ResultInv'
    BY <2>1 DEF ScoreInv, ResultInv
  <2> QED
    BY <2>1, <2>2, <2>3, <2>4 DEF ScoreInv, QueueInv, PairInv, NoOverrideLeaks
<1> QED
  BY <1>2, <1>3, <1>4, <1>5, <1>6 DEF RunTeamCheck

LEMMA StutterKeeps == ASSUME ScoreInv, UNCHANGED vars PROVE ScoreInv'
<1>1. UNCHANGED <<event, subscribed, checks, attributes, pending, current,
                  routines,
                  results, stops>>
  BY DEF vars, settings, handler
<1>2. TypeOK'
  BY <1>1, ZenonT(60) DEF ScoreInv, TypeOK, Routine
<1> QED
  BY <1>1, <1>2
  DEF ScoreInv, QueueInv, RoutineInv, ResultInv, PairInv, NoOverrideLeaks

-----------------------------------------------------------------------------
(* The inductive invariant, for any agents, teams and bounds. *)
THEOREM ScoreInvariant == Spec => []ScoreInv
<1>1. ASSUME ScoreInv, [Next]_vars PROVE ScoreInv'
  <2>1. CASE \E c \in Checks : Trigger(c)
    BY <2>1, <1>1, ScoreAssumption, TriggerKeeps
  <2>2. CASE \E a \in Agents : Subscribe(a) \/ Stop(a) \/ Handle(a)
    BY <2>2, <1>1, ScoreAssumption, SettingsKeep, StopKeeps,
      UnknownCheckKeeps, FanOutKeeps,
       HandlerReturnsKeeps DEF Handle
  <2>3. CASE \E a \in Agents, c \in Checks, r \in 0..MaxRev : SetCheck(a, c, r)
    BY <2>3, <1>1, ScoreAssumption, SettingsKeep
  <2>4. CASE \E a \in Agents, t \in Teams, r \in 0..MaxAttrs : SetAttributes(a, t, r)
    BY <2>4, <1>1, ScoreAssumption, SettingsKeep
  <2>5. CASE \E g \in routines : RunTeamCheck(g)
    BY <2>5, <1>1, ScoreAssumption, RunTeamCheckKeeps
  <2>6. CASE UNCHANGED vars
    BY <2>6, <1>1, StutterKeeps
  <2> QED
    BY <1>1, <2>1, <2>2, <2>3, <2>4, <2>5, <2>6 DEF Next
<1>2. ScoreInv /\ [Next]_vars => ScoreInv'
  BY <1>1
<1>3. Init => ScoreInv
  BY ScoreAssumption, InitScoreInv
<1> QED
  BY <1>2, <1>3, PTL DEF Spec

(* The types of the state of all agents. *)
THEOREM ScoreTypes == Spec => []TypeOK
BY ScoreInvariant, PTL DEF ScoreInv

(* A trigger yields at most one result for a team: runTeamCheck publishes  *)
(* once, and the handler of an agent never has a trigger in hand twice.    *)
THEOREM NoSecondResult == Spec => []OneResultPerTrigger
<1>1. ScoreInv => OneResultPerTrigger
  <2> SUFFICES ASSUME ScoreInv, Disjoint, NEW i \in DOMAIN results, NEW j \in DOMAIN results,
                      results[i].event = results[j].event, results[i].team = results[j].team
               PROVE  i = j
    BY DEF OneResultPerTrigger
  <2>1. results[i].agent = results[j].agent
    BY Elements DEF Disjoint, ScoreInv, ResultInv
  <2> QED
    BY <2>1 DEF ScoreInv, PairInv
<1> QED
  BY <1>1, ScoreInvariant, PTL

(* The results of a team come in the order of the triggers, because the    *)
(* handler waits for its goroutines.                                       *)
THEOREM InTriggerOrder == Spec => []ResultsInTriggerOrder
<1>1. ScoreInv => ResultsInTriggerOrder
  <2> SUFFICES ASSUME ScoreInv, Disjoint, NEW i \in DOMAIN results, NEW j \in DOMAIN results,
                      i < j, results[i].team = results[j].team
               PROVE  results[i].event <= results[j].event
    BY DEF ResultsInTriggerOrder
  <2>1. results[i].agent = results[j].agent
    BY Elements DEF Disjoint, ScoreInv, ResultInv
  <2> QED
    BY <2>1 DEF ScoreInv, PairInv
<1> QED
  BY <1>1, ScoreInvariant, PTL

(* All teams of an agent are scored with one definition for a trigger,     *)
(* however often MonitorSettings replaces it.                              *)
THEOREM OneDefinition == Spec => []OneDefinitionPerRound
<1>1. ScoreInv => OneDefinitionPerRound
  BY DEF ScoreInv, PairInv, OneDefinitionPerRound
<1> QED
  BY <1>1, ScoreInvariant, PTL

(* A team's check runs with the overrides of that team alone. *)
THEOREM OverridesStayWithTeam == Spec => []NoOverrideLeaks
BY ScoreInvariant, PTL DEF ScoreInv

-----------------------------------------------------------------------------
(* The server.  The argument is that of a reader of Server: up to the      *)
(* select, whatever is open has its Close among the deferred calls; from   *)
(* then on a resource goes no later than its deferred call.                *)

Resources == {"scheduler", "nats", "cancel", "db", "watcher"}
Ended == pc \in {"unwind", "returned"}

(* What is open is closed by a deferred call, but for the connection while *)
(* the settings bucket is opened.                                          *)
DeferInv ==
  /\ defers \in Seq(Resources)
  /\ \A r \in open : r \in Range(defers) \/ (r = "nats" /\ at = 5)
  /\ at <= 5 => "nats" \notin Range(defers)
  /\ at = 5 => "nats" \in open
  /\ pc = "returned" => defers = <<>>

(* A consumer that runs is told to stop now or by a deferred call, and its *)
(* answer is sent as it ends.                                              *)
ConsumerInv ==
  /\ pc # "start" /\ ~Ended => at = 9
  /\ at >= 7 /\ ~Ended => "cancel" \in Range(defers)
  /\ consumer \in {"fetch", "insert"} => cancelled \/ "cancel" \in Range(defers)
  /\ ~withDB \/ (pc = "start" /\ at <= 7) => consumer = "none"
  /\ consumerErrCh # <<>> => consumer = "done"

(* Before the deferred calls only CloseDB closes the database, after the   *)
(* consumer has answered; and without a failure Server gets past the       *)
(* select only by shutting the web server down.                            *)
DrainInv ==
  /\ pc \in {"close_db", "done"} => consumer \in {"none", "done"}
  /\ ~Ended => ~cutOff
  /\ orderly /\ Ended /\ result # "error" =>
       ~cutOff /\ consumer \in {"none", "done"}
  /\ pc = "start" => conns = "closed"
  /\ orderly /\ pc \notin {"select", "stop_watcher", "stop_http"} =>
       conns = "closed"

LifecycleInv == ServerTypeOK /\ DeferInv /\ ConsumerInv /\ DrainInv

-----------------------------------------------------------------------------
(* The steps by their numbers. *)
LEMMA StepNumbers ==
  /\ DOMAIN StartUp = 1..9
  /\ \A n \in 1..9 :
       /\ StartUp[n] = "scheduler" <=> n = 2
       /\ StartUp[n] = "connect" <=> n = 4
       /\ StartUp[n] = "bucket" <=> n = 5
       /\ StartUp[n] = "users" <=> n = 6
       /\ StartUp[n] = "db" <=> n = 7
       /\ StartUp[n] = "watch" <=> n = 8
       /\ StartUp[n] = "serve" <=> n = 9
BY DEF StartUp

(* A call is deferred in front of those deferred before. *)
LEMMA RangeOfDeferred ==
  ASSUME NEW S, NEW s \in Seq(S), NEW r \in S
  PROVE  /\ <<r>> \o s \in Seq(S)
         /\ Range(<<r>> \o s) = {r} \cup Range(s)
<1>1. <<r>> \in Seq(S) /\ Len(<<r>>) = 1 /\ <<r>>[1] = r
  OBVIOUS
<1>2. /\ <<r>> \o s \in Seq(S)
      /\ Len(<<r>> \o s) = 1 + Len(s)
      /\ \A i \in 1..1 + Len(s) :
           (<<r>> \o s)[i] = IF i <= 1 THEN <<r>>[i] ELSE s[i - 1]
  BY <1>1, ConcatProperties
<1>3. Range(s) = {s[i] : i \in 1..Len(s)} /\ Len(s) \in Nat
  BY RangeEquality, LenProperties
<1>4. Range(<<r>> \o s) = {(<<r>> \o s)[i] : i \in 1..1 + Len(s)}
  BY <1>2, RangeEquality
<1>5. ASSUME NEW i \in 1..1 + Len(s)
      PROVE  (<<r>> \o s)[i] \in {r} \cup Range(s)
  <2>1. CASE i = 1
    BY <2>1, <1>1, <1>2
  <2>2. CASE i # 1
    BY <2>2, <1>2, <1>3, SMTT(60)
  <2> QED BY <2>1, <2>2
<1>6. ASSUME NEW i \in 1..Len(s)
      PROVE  s[i] \in Range(<<r>> \o s)
  <2>1. i + 1 \in 1..1 + Len(s) /\ (<<r>> \o s)[i + 1] = s[i]
    BY <1>2, <1>3
  <2> QED BY <2>1, <1>4
<1>7. r \in Range(<<r>> \o s)
  <2>1. 1 \in 1..1 + Len(s) /\ (<<r>> \o s)[1] = r
    BY <1>1, <1>2, <1>3
  <2> QED BY <2>1, <1>4
<1> QED
  BY <1>2, <1>3, <1>4, <1>5, <1>6, <1>7

-----------------------------------------------------------------------------
LEMMA InitLifecycle ==
  ASSUME LifecycleAssumption, ServerInit
  PROVE  LifecycleInv
<1>1. Range(defers) = {} /\ defers \in Seq(Resources)
  BY RangeOfEmpty DEF ServerInit
<1>2. attempts \in 0..(Retries - 1) /\ at \in DOMAIN StartUp
  BY StepNumbers DEF LifecycleAssumption, ServerInit
<1>3. ServerTypeOK
  BY <1>1, <1>2, ZenonT(60) DEF ServerInit, ServerTypeOK
<1>4. DeferInv
  BY <1>1 DEF ServerInit, DeferInv
<1>5. ConsumerInv
  BY DEF ServerInit, ConsumerInv, Ended
<1>6. DrainInv
  BY DEF ServerInit, DrainInv, Ended
<1> QED
  BY <1>3, <1>4, <1>5, <1>6 DEF LifecycleInv

-----------------------------------------------------------------------------
(* Steps that only move Server or a goroutine. *)
LEMMA QuietStep ==
  ASSUME LifecycleAssumption, LifecycleInv,
         UNCHANGED <<at, attempts, defers, open>>,
         ServerTypeOK', ConsumerInv', DrainInv',
         pc' = "returned" => pc = "returned"
  PROVE  LifecycleInv'
BY DEF LifecycleInv, DeferInv

(* The consumer begins or ends a transaction. *)
LEMMA InsertsKeeps ==
  ASSUME LifecycleAssumption, LifecycleInv, ConsumerInserts
  PROVE  LifecycleInv'
<1>. ServerTypeOK /\ DeferInv /\ ConsumerInv /\ DrainInv
  BY DEF LifecycleInv
<1>1. ServerTypeOK'
  <2>1. consumer' \in {"none", "fetch", "insert", "done"}
    BY DEF ConsumerInserts
  <2>2. UNCHANGED <<withDB, pc, at, attempts, defers, result, open, cancelled,
                    consumerErrCh, http, serverErrCh, conns, stop, orderly, cutOff>>
    BY DEF ConsumerInserts, main, web, history
  <2>3. /\ withDB' \in BOOLEAN /\ cancelled' \in BOOLEAN
        /\ orderly' \in BOOLEAN /\ cutOff' \in BOOLEAN
    BY <2>2, ZenonT(60) DEF ServerTypeOK
  <2> QED
    BY <2>1, <2>2, <2>3 DEF ServerTypeOK
<1>2. ConsumerInv'
  BY DEF ServerTypeOK, ConsumerInv, DeferInv, Ended, ConsumerInserts, main,
    web,
         history
<1>3. DrainInv'
  BY DEF ServerTypeOK, ConsumerInv, DrainInv, Ended, ConsumerInserts, main,
    web,
         history
<1> QED
  BY <1>1, <1>2, <1>3, QuietStep DEF ConsumerInserts, main, web, history

(* The consumer ends with an error. *)
LEMMA FailsKeeps ==
  ASSUME LifecycleAssumption, LifecycleInv, ConsumerFails
  PROVE  LifecycleInv'
<1>. ServerTypeOK /\ DeferInv /\ ConsumerInv /\ DrainInv
  BY DEF LifecycleInv
<1>1. ServerTypeOK'
  <2>1. /\ consumer' = "done"
        /\ \A ch \in {consumerErrCh', serverErrCh'} :
             ch \in {<<>>, <<"nil">>, <<"error">>}
    BY DEF ServerTypeOK, ConsumerFails, ConsumerReturns, web
  <2>2. UNCHANGED <<withDB, pc, at, attempts, defers, result, open, cancelled,
                    http, conns, stop, orderly, cutOff>>
    BY DEF ConsumerFails, main, web, history
  <2>3. /\ withDB' \in BOOLEAN /\ cancelled' \in BOOLEAN
        /\ orderly' \in BOOLEAN /\ cutOff' \in BOOLEAN
    BY <2>2, ZenonT(60) DEF ServerTypeOK
  <2> QED
    BY <2>1, <2>2, <2>3 DEF ServerTypeOK
<1>2. ConsumerInv'
  BY DEF ServerTypeOK, ConsumerInv, DeferInv, Ended, ConsumerFails,
    ConsumerReturns,
         main, web, history
<1>3. DrainInv'
  BY DEF ServerTypeOK, ConsumerInv, DrainInv, Ended, ConsumerFails,
    ConsumerReturns,
         main, web, history
<1> QED
  BY <1>1, <1>2, <1>3, QuietStep
  DEF ConsumerFails, ConsumerReturns, main, web, history

(* The consumer ends because it was told to. *)
LEMMA StopsKeeps ==
  ASSUME LifecycleAssumption, LifecycleInv, ConsumerStops
  PROVE  LifecycleInv'
<1>. ServerTypeOK /\ DeferInv /\ ConsumerInv /\ DrainInv
  BY DEF LifecycleInv
<1>1. ServerTypeOK'
  <2>1. /\ consumer' = "done"
        /\ \A ch \in {consumerErrCh', serverErrCh'} :
             ch \in {<<>>, <<"nil">>, <<"error">>}
    BY DEF ServerTypeOK, ConsumerStops, ConsumerReturns, web
  <2>2. UNCHANGED <<withDB, pc, at, attempts, defers, result, open, cancelled,
                    http, conns, stop, orderly, cutOff>>
    BY DEF ConsumerStops, main, web, history
  <2>3. /\ withDB' \in BOOLEAN /\ cancelled' \in BOOLEAN
        /\ orderly' \in BOOLEAN /\ cutOff' \in BOOLEAN
    BY <2>2, ZenonT(60) DEF ServerTypeOK
  <2> QED
    BY <2>1, <2>2, <2>3 DEF ServerTypeOK
<1>2. ConsumerInv'
  BY DEF ServerTypeOK, ConsumerInv, DeferInv, Ended, ConsumerStops,
    ConsumerReturns,
         main, web, history
<1>3. DrainInv'
  BY DEF ServerTypeOK, ConsumerInv, DrainInv, Ended, ConsumerStops,
    ConsumerReturns,
         main, web, history
<1> QED
  BY <1>1, <1>2, <1>3, QuietStep
  DEF ConsumerStops, ConsumerReturns, main, web, history

(* The web server ends. *)
LEMMA ServingKeeps ==
  ASSUME LifecycleAssumption, LifecycleInv, ServingFails
  PROVE  LifecycleInv'
<1>. ServerTypeOK /\ DeferInv /\ ConsumerInv /\ DrainInv
  BY DEF LifecycleInv
<1>1. ServerTypeOK'
  <2>1. \A ch \in {consumerErrCh', serverErrCh'} :
          ch \in {<<>>, <<"nil">>, <<"error">>}
    BY DEF ServerTypeOK, ServingFails, sinkVars
  <2>2. http' \in {"none", "serving", "done"} /\ conns' \in {"closed", "open"}
    BY DEF ServerTypeOK, ServingFails
  <2>3. UNCHANGED <<withDB, pc, at, attempts, defers, result, open, consumer,
                    cancelled, stop, orderly, cutOff>>
    BY DEF ServingFails, main, sinkVars, history
  <2>4. /\ withDB' \in BOOLEAN /\ cancelled' \in BOOLEAN
        /\ orderly' \in BOOLEAN /\ cutOff' \in BOOLEAN
    BY <2>3, ZenonT(60) DEF ServerTypeOK
  <2> QED
    BY <2>1, <2>2, <2>3, <2>4 DEF ServerTypeOK
<1>2. ConsumerInv'
  BY DEF ServerTypeOK, ConsumerInv, DeferInv, Ended, ServingFails, main,
    history,
         sinkVars
<1>3. DrainInv'
  BY DEF ServerTypeOK, ConsumerInv, DrainInv, Ended, ServingFails, main,
    history,
         sinkVars
<1> QED
  BY <1>1, <1>2, <1>3, QuietStep DEF ServingFails, main, history, sinkVars

(* Server returns with the web server. *)
LEMMA SelectServerKeeps ==
  ASSUME LifecycleAssumption, LifecycleInv, SelectServer
  PROVE  LifecycleInv'
<1>. ServerTypeOK /\ DeferInv /\ ConsumerInv /\ DrainInv
  BY DEF LifecycleInv
<1>1. ServerTypeOK'
  <2>1. result' \in {"none", "nil", "error"}
    BY DEF ServerTypeOK, SelectServer, ReturnWith
  <2>2. \A ch \in {consumerErrCh', serverErrCh'} :
          ch \in {<<>>, <<"nil">>, <<"error">>}
    BY DEF ServerTypeOK, SelectServer, sinkVars, web
  <2> QED
    BY <2>1, <2>2, ZenonT(60) DEF ServerTypeOK, SelectServer, ReturnWith,
      sinkVars, web
<1>2. ConsumerInv'
  BY DEF ServerTypeOK, ConsumerInv, DeferInv, Ended, SelectServer, ReturnWith,
         sinkVars
<1>3. DrainInv'
  BY DEF ServerTypeOK, ConsumerInv, DrainInv, Ended, SelectServer, ReturnWith,
         sinkVars
<1> QED
  BY <1>1, <1>2, <1>3, QuietStep DEF SelectServer, ReturnWith, sinkVars

(* Server returns with the consumer. *)
LEMMA SelectConsumerKeeps ==
  ASSUME LifecycleAssumption, LifecycleInv, SelectConsumer
  PROVE  LifecycleInv'
<1>. ServerTypeOK /\ DeferInv /\ ConsumerInv /\ DrainInv
  BY DEF LifecycleInv
<1>1. ServerTypeOK'
  <2>1. result' \in {"none", "nil", "error"}
    BY DEF ServerTypeOK, SelectConsumer, ReturnWith
  <2>2. \A ch \in {consumerErrCh', serverErrCh'} :
          ch \in {<<>>, <<"nil">>, <<"error">>}
    BY DEF ServerTypeOK, SelectConsumer, sinkVars, web
  <2> QED
    BY <2>1, <2>2, ZenonT(60) DEF ServerTypeOK, SelectConsumer, ReturnWith,
      sinkVars, web
<1>2. ConsumerInv'
  BY DEF ServerTypeOK, ConsumerInv, DeferInv, Ended, SelectConsumer,
    ReturnWith, web
<1>3. DrainInv'
  BY DEF ServerTypeOK, ConsumerInv, DrainInv, Ended, SelectConsumer,
    ReturnWith, web
<1> QED
  BY <1>1, <1>2, <1>3, QuietStep DEF SelectConsumer, ReturnWith, web

(* The orderly shutdown begins. *)
LEMMA SelectStopKeeps ==
  ASSUME LifecycleAssumption, LifecycleInv, SelectStop
  PROVE  LifecycleInv'
<1>. ServerTypeOK /\ DeferInv /\ ConsumerInv /\ DrainInv
  BY DEF LifecycleInv
<1>1. ServerTypeOK'
  BY ZenonT(60) DEF ServerTypeOK, SelectStop, web, history, sinkVars
<1>2. ConsumerInv'
  BY DEF ServerTypeOK, ConsumerInv, DeferInv, Ended, SelectStop, web, history,
         sinkVars
<1>3. DrainInv'
  BY DEF ServerTypeOK, ConsumerInv, DrainInv, Ended, SelectStop, web, history,
         sinkVars
<1> QED
  BY <1>1, <1>2, <1>3, QuietStep DEF SelectStop, web, history, sinkVars

(* The web server is shut down. *)
LEMMA StopHTTPKeeps ==
  ASSUME LifecycleAssumption, LifecycleInv, StopHTTP
  PROVE  LifecycleInv'
<1>. ServerTypeOK /\ DeferInv /\ ConsumerInv /\ DrainInv
  BY DEF LifecycleInv
<1>1. ServerTypeOK'
  BY ZenonT(60) DEF ServerTypeOK, StopHTTP, ShutdownHTTP, history, sinkVars
<1>2. ConsumerInv'
  BY DEF ServerTypeOK, ConsumerInv, DeferInv, Ended, StopHTTP, ShutdownHTTP, history,
    sinkVars
<1>3. DrainInv'
  BY DEF ServerTypeOK, ConsumerInv, DrainInv, Ended, StopHTTP, ShutdownHTTP, history,
    sinkVars
<1> QED
  BY <1>1, <1>2, <1>3, QuietStep DEF StopHTTP, ShutdownHTTP, history, sinkVars

(* A step of the shutdown fails. *)
LEMMA StopFailsKeeps ==
  ASSUME LifecycleAssumption, LifecycleInv, StopFails
  PROVE  LifecycleInv'
<1>. ServerTypeOK /\ DeferInv /\ ConsumerInv /\ DrainInv
  BY DEF LifecycleInv
<1>1. ServerTypeOK'
  BY ZenonT(60) DEF ServerTypeOK, StopFails, ShutdownHTTP, ReturnWith, web, sinkVars
<1>2. ConsumerInv'
  BY DEF ServerTypeOK, ConsumerInv, DeferInv, Ended, StopFails, ShutdownHTTP, ReturnWith,
    web,
         sinkVars
<1>3. DrainInv'
  BY DEF ServerTypeOK, ConsumerInv, DrainInv, Ended, StopFails, ShutdownHTTP, ReturnWith,
    web,
         sinkVars
<1> QED
  BY <1>1, <1>2, <1>3, QuietStep DEF StopFails, ShutdownHTTP, ReturnWith, web, sinkVars

(* The consumer is told to stop. *)
LEMMA CancelKeeps ==
  ASSUME LifecycleAssumption, LifecycleInv, CancelConsumer
  PROVE  LifecycleInv'
<1>. ServerTypeOK /\ DeferInv /\ ConsumerInv /\ DrainInv
  BY DEF LifecycleInv
<1>1. ServerTypeOK'
  BY ZenonT(60) DEF ServerTypeOK, CancelConsumer, web, history
<1>2. ConsumerInv'
  BY DEF ServerTypeOK, ConsumerInv, DeferInv, Ended, CancelConsumer, web,
    history
<1>3. DrainInv'
  BY DEF ServerTypeOK, ConsumerInv, DrainInv, Ended, CancelConsumer, web,
    history
<1> QED
  BY <1>1, <1>2, <1>3, QuietStep DEF CancelConsumer, web, history

(* The consumer has answered. *)
LEMMA WaitKeeps ==
  ASSUME LifecycleAssumption, LifecycleInv, WaitConsumer
  PROVE  LifecycleInv'
<1>. ServerTypeOK /\ DeferInv /\ ConsumerInv /\ DrainInv
  BY DEF LifecycleInv
<1>1. ServerTypeOK'
  BY ZenonT(60) DEF ServerTypeOK, WaitConsumer, web, history
<1>2. ConsumerInv'
  BY DEF ServerTypeOK, ConsumerInv, DeferInv, Ended, WaitConsumer, web, history
<1>3. DrainInv'
  BY DEF ServerTypeOK, ConsumerInv, DrainInv, Ended, WaitConsumer, web, history
<1> QED
  BY <1>1, <1>2, <1>3, QuietStep DEF WaitConsumer, web, history

(* Server returns after an orderly shutdown. *)
LEMMA StoppedKeeps ==
  ASSUME LifecycleAssumption, LifecycleInv, ServerStopped
  PROVE  LifecycleInv'
<1>. ServerTypeOK /\ DeferInv /\ ConsumerInv /\ DrainInv
  BY DEF LifecycleInv
<1>1. ServerTypeOK'
  BY ZenonT(60) DEF ServerTypeOK, ServerStopped, ReturnWith, web, history, sinkVars
<1>2. ConsumerInv'
  BY DEF ServerTypeOK, ConsumerInv, DeferInv, Ended, ServerStopped,
    ReturnWith, web,
         history, sinkVars
<1>3. DrainInv'
  BY DEF ServerTypeOK, ConsumerInv, DrainInv, Ended, ServerStopped,
    ReturnWith, web,
         history, sinkVars
<1> QED
  BY <1>1, <1>2, <1>3, QuietStep
  DEF ServerStopped, ReturnWith, web, history, sinkVars
-----------------------------------------------------------------------------
(* The watcher of the settings is stopped. *)
LEMMA StopWatcherKeeps ==
  ASSUME LifecycleAssumption, LifecycleInv, StopWatcher
  PROVE  LifecycleInv'
<1>. ServerTypeOK /\ DeferInv /\ ConsumerInv /\ DrainInv
  BY DEF LifecycleInv
<1>1. ServerTypeOK'
  BY ZenonT(60) DEF ServerTypeOK, StopWatcher, sinkVars, web, history
<1>2. DeferInv'
  BY DEF DeferInv, ConsumerInv, Ended, StopWatcher
<1>3. ConsumerInv'
  BY DEF ServerTypeOK, ConsumerInv, DeferInv, Ended, StopWatcher, web, history,
         sinkVars
<1>4. DrainInv'
  BY DEF ServerTypeOK, ConsumerInv, DrainInv, Ended, StopWatcher, web, history,
         sinkVars
<1> QED
  BY <1>1, <1>2, <1>3, <1>4 DEF LifecycleInv

(* The database is closed. *)
LEMMA CloseDBKeeps ==
  ASSUME LifecycleAssumption, LifecycleInv, CloseDB
  PROVE  LifecycleInv'
<1>. ServerTypeOK /\ DeferInv /\ ConsumerInv /\ DrainInv
  BY DEF LifecycleInv
<1>1. ServerTypeOK'
  BY ZenonT(60) DEF ServerTypeOK, CloseDB, Close, sinkVars, web
<1>2. DeferInv'
  BY DEF DeferInv, ConsumerInv, Ended, CloseDB, Close
<1>3. ConsumerInv'
  BY DEF ServerTypeOK, ConsumerInv, DeferInv, Ended, CloseDB, Close, web,
    sinkVars
<1>4. DrainInv'
  BY DEF ServerTypeOK, ConsumerInv, DrainInv, Ended, CloseDB, Close, web,
    sinkVars
<1> QED
  BY <1>1, <1>2, <1>3, <1>4 DEF LifecycleInv

(* Server returns. *)
LEMMA ReturnKeeps ==
  ASSUME LifecycleAssumption, LifecycleInv, Return
  PROVE  LifecycleInv'
<1>. ServerTypeOK /\ DeferInv /\ ConsumerInv /\ DrainInv
  BY DEF LifecycleInv
<1>1. ServerTypeOK'
  BY ZenonT(60) DEF ServerTypeOK, Return, sinkVars, web, history
<1>2. DeferInv'
  BY DEF DeferInv, Return
<1>3. ConsumerInv'
  BY DEF ServerTypeOK, ConsumerInv, DeferInv, Ended, Return, web, history,
    sinkVars
<1>4. DrainInv'
  BY DEF ServerTypeOK, ConsumerInv, DrainInv, Ended, Return, web, history,
    sinkVars
<1> QED
  BY <1>1, <1>2, <1>3, <1>4 DEF LifecycleInv

(* A signal, or the end of the caller's context. *)
LEMMA RequestStopKeeps ==
  ASSUME LifecycleAssumption, LifecycleInv,
         NEW why \in {"signal", "context"}, RequestStop(why)
  PROVE  LifecycleInv'
<1>. ServerTypeOK /\ DeferInv /\ ConsumerInv /\ DrainInv
  BY DEF LifecycleInv
<1>1. ServerTypeOK'
  BY ZenonT(60) DEF ServerTypeOK, RequestStop, main, web, history
<1>2. DeferInv'
  BY DEF DeferInv, RequestStop, main
<1>3. ConsumerInv'
  BY DEF ServerTypeOK, ConsumerInv, DeferInv, Ended, RequestStop, main, web,
    history
<1>4. DrainInv'
  BY DEF ServerTypeOK, ConsumerInv, DrainInv, Ended, RequestStop, main, web,
    history
<1> QED
  BY <1>1, <1>2, <1>3, <1>4 DEF LifecycleInv

(* There is no database to open. *)
LEMMA SkipDBKeeps ==
  ASSUME LifecycleAssumption, LifecycleInv, SkipDB
  PROVE  LifecycleInv'
<1>. ServerTypeOK /\ DeferInv /\ ConsumerInv /\ DrainInv
  BY DEF LifecycleInv
<1>1. ServerTypeOK'
  <2>1. at' \in DOMAIN StartUp
    BY StepNumbers DEF ServerTypeOK, SkipDB, Proceed, Step
  <2>2. pc' \in {"start", "select"} /\ UNCHANGED result
    BY DEF SkipDB, Proceed
  <2>3. UNCHANGED <<withDB, attempts, open, defers, consumer, cancelled,
                    consumerErrCh, http, serverErrCh, conns, stop, orderly,
                    cutOff>>
    BY DEF SkipDB, sinkVars, web, history
  <2>4. /\ withDB' \in BOOLEAN /\ cancelled' \in BOOLEAN
        /\ orderly' \in BOOLEAN /\ cutOff' \in BOOLEAN
    BY <2>3, ZenonT(60) DEF ServerTypeOK
  <2> QED
    BY <2>1, <2>2, <2>3, <2>4 DEF ServerTypeOK
<1>2. DeferInv'
  BY StepNumbers
  DEF ServerTypeOK, DeferInv, SkipDB, Proceed, Skipped, Starting, Step
<1>3. ConsumerInv'
  BY StepNumbers
  DEF ServerTypeOK, ConsumerInv, DeferInv, Ended, SkipDB, Proceed, Skipped,
         Starting, Step, web, history, sinkVars
<1>4. DrainInv'
  BY DEF ServerTypeOK, ConsumerInv, DrainInv, Ended, SkipDB, Proceed, Skipped,
         Starting, Step, web, history, sinkVars
<1> QED
  BY <1>1, <1>2, <1>3, <1>4 DEF LifecycleInv

(* Another attempt to connect. *)
LEMMA ConnectAgainKeeps ==
  ASSUME LifecycleAssumption, LifecycleInv, ConnectAgain
  PROVE  LifecycleInv'
<1>. ServerTypeOK /\ DeferInv /\ ConsumerInv /\ DrainInv
  BY DEF LifecycleInv
<1>1. ServerTypeOK'
  <2>1. attempts' \in 0..(Retries - 1)
    BY DEF ServerTypeOK, ConnectAgain, LifecycleAssumption
  <2>2. UNCHANGED <<withDB, pc, at, open, defers, result, consumer, cancelled,
                    consumerErrCh, http, serverErrCh, conns, stop, orderly, cutOff>>
    BY DEF ConnectAgain, sinkVars, web, history
  <2>3. /\ withDB' \in BOOLEAN /\ cancelled' \in BOOLEAN
        /\ orderly' \in BOOLEAN /\ cutOff' \in BOOLEAN
    BY <2>2, ZenonT(60) DEF ServerTypeOK
  <2> QED
    BY <2>1, <2>2, <2>3 DEF ServerTypeOK
<1>2. DeferInv'
  BY DEF DeferInv, ConnectAgain
<1>3. ConsumerInv'
  BY DEF ServerTypeOK, ConsumerInv, DeferInv, Ended, ConnectAgain, web,
    history,
         sinkVars
<1>4. DrainInv'
  BY DEF ServerTypeOK, ConsumerInv, DrainInv, Ended, ConnectAgain, web,
    history,
         sinkVars
<1> QED
  BY <1>1, <1>2, <1>3, <1>4 DEF LifecycleInv

(* A step of the start-up fails. *)
LEMMA StepFailsKeeps ==
  ASSUME LifecycleAssumption, LifecycleInv, StepFails
  PROVE  LifecycleInv'
<1>. ServerTypeOK /\ DeferInv /\ ConsumerInv /\ DrainInv
  BY DEF LifecycleInv
<1>1. ServerTypeOK'
  BY ZenonT(60) DEF ServerTypeOK, StepFails, ReturnWith, sinkVars, web, history
<1>2. DeferInv'
  BY DEF DeferInv, StepFails, ReturnWith
<1>3. ConsumerInv'
  BY DEF ServerTypeOK, ConsumerInv, DeferInv, Ended, StepFails, ReturnWith,
         Starting, Step, web, history, sinkVars
<1>4. DrainInv'
  BY DEF ServerTypeOK, ConsumerInv, DrainInv, Ended, StepFails, ReturnWith,
         Starting, Step, web, history, sinkVars
<1> QED
  BY <1>1, <1>2, <1>3, <1>4 DEF LifecycleInv

(* A step of the start-up that succeeds: what it adds to the deferred      *)
(* calls and to what is open, by its number.                               *)
LEMMA Pushes ==
  ASSUME LifecycleInv, StepSucceeds
  PROVE  /\ defers' \in Seq(Resources)
         /\ Range(defers') = Range(defers) \cup
              (CASE at = 2 -> {"scheduler"} [] at = 5 -> {"nats"}
                 [] at = 6 -> {"cancel"} [] at = 7 -> {"db"}
                 [] at = 8 -> {"watcher"} [] OTHER -> {})
<1>. at \in 1..9 /\ defers \in Seq(Resources) /\ defers' = Defers \o defers
  BY StepNumbers DEF LifecycleInv, ServerTypeOK, DeferInv, StepSucceeds
<1>1. ASSUME NEW r \in Resources, Defers = <<r>>
      PROVE  /\ defers' \in Seq(Resources)
             /\ Range(defers') = Range(defers) \cup {r}
  BY <1>1, RangeOfDeferred
<1>2. CASE at = 2
  <2>1. Defers = <<"scheduler">> BY <1>2, StepNumbers DEF Defers, Step
  <2> QED BY <2>1, <1>1, <1>2 DEF Resources
<1>3. CASE at = 5
  <2>1. Defers = <<"nats">> BY <1>3, StepNumbers DEF Defers, Step
  <2> QED BY <2>1, <1>1, <1>3 DEF Resources
<1>4. CASE at = 6
  <2>1. Defers = <<"cancel">> BY <1>4, StepNumbers DEF Defers, Step
  <2> QED BY <2>1, <1>1, <1>4 DEF Resources
<1>5. CASE at = 7
  <2>1. Defers = <<"db">> BY <1>5, StepNumbers DEF Defers, Step
  <2> QED BY <2>1, <1>1, <1>5 DEF Resources
<1>6. CASE at = 8
  <2>1. Defers = <<"watcher">> BY <1>6, StepNumbers DEF Defers, Step
  <2> QED BY <2>1, <1>1, <1>6 DEF Resources
<1>7. CASE at \notin {2, 5, 6, 7, 8}
  <2>1. Defers = <<>> BY <1>7, StepNumbers DEF Defers, Step
  <2>2. defers' = defers BY <2>1, ConcatEmptySeq
  <2> QED BY <2>2, <1>7
<1> QED
  BY <1>2, <1>3, <1>4, <1>5, <1>6, <1>7

(* A step of the start-up succeeds. *)
LEMMA StepSucceedsKeeps ==
  ASSUME LifecycleAssumption, LifecycleInv, StepSucceeds
  PROVE  LifecycleInv'
<1>. ServerTypeOK /\ DeferInv /\ ConsumerInv /\ DrainInv
  BY DEF LifecycleInv
<1>1. at \in 1..9 /\ at' = (IF at = 9 THEN 9 ELSE at + 1)
  BY StepNumbers DEF ServerTypeOK, StepSucceeds, Proceed, Step
<1>2. pc = "start" /\ pc' = IF at = 9 THEN "select" ELSE "start"
  BY StepNumbers, <1>1 DEF StepSucceeds, Starting, Proceed, Step
<1>3. open' = open \cup (CASE at = 2 -> {"scheduler"} [] at = 4 -> {"nats"}
                           [] at = 7 -> {"db"} [] at = 8 -> {"watcher"}
                           [] OTHER -> {})
  BY StepNumbers, <1>1 DEF StepSucceeds, Opens, Step
<1>4. consumer' = IF at = 7 THEN "fetch" ELSE consumer
  BY StepNumbers, <1>1 DEF StepSucceeds, Step
<1>5. at = 7 => withDB
  BY StepNumbers DEF StepSucceeds, Skipped, Step
<1>6. ServerTypeOK'
  <2>1. at' \in DOMAIN StartUp
    BY <1>1, StepNumbers
  <2>2. /\ pc' \in {"start", "select"}
        /\ consumer' \in {"none", "fetch", "insert", "done"}
        /\ http' \in {"none", "serving", "done"}
        /\ conns' \in {"closed", "open"}
    BY <1>2, <1>4 DEF ServerTypeOK, StepSucceeds
  <2>3. open' \subseteq {"scheduler", "nats", "db", "watcher"}
    BY <1>1, <1>3 DEF ServerTypeOK
  <2>4. Range(defers')
          \subseteq {"scheduler", "nats", "cancel", "db", "watcher"}
    BY Pushes, RangeOfSeq DEF Resources
  <2> QED
    BY <2>1, <2>2, <2>3, <2>4, ZenonT(60)
    DEF ServerTypeOK, StepSucceeds, Proceed, history
<1>7. DeferInv'
  BY <1>1, <1>2, <1>3, Pushes DEF DeferInv
<1>8. ConsumerInv'
  <2>1. UNCHANGED <<withDB, cancelled, consumerErrCh>>
    BY DEF StepSucceeds
  <2>2. consumerErrCh # <<>> /\ at = 7 => FALSE
    BY <1>2 DEF ConsumerInv
  <2> QED
    BY <1>1, <1>2, <1>4, <1>5, <2>1, <2>2, Pushes DEF ConsumerInv, Ended
<1>9. DrainInv'
  <2>1. pc' = "start" => conns' = conns
    BY <1>1, <1>2, StepNumbers DEF StepSucceeds, Step
  <2> QED
    BY <1>2, <2>1 DEF DrainInv, Ended, StepSucceeds, history
<1> QED
  BY <1>6, <1>7, <1>8, <1>9 DEF LifecycleInv

(* A deferred call. *)
LEMMA UnwindKeeps ==
  ASSUME LifecycleAssumption, LifecycleInv, Unwind
  PROVE  LifecycleInv'
<1>. ServerTypeOK /\ DeferInv /\ ConsumerInv /\ DrainInv
  BY DEF LifecycleInv
<1>1. /\ pc = "unwind" /\ UNCHANGED <<pc, at>>
      /\ defers \in Seq(Resources) /\ defers # <<>> /\ defers' = Tail(defers)
  BY DEF Unwind, DeferInv
<1>2. /\ defers' \in Seq(Resources)
      /\ Range(defers) = {Head(defers)} \cup Range(defers')
  BY <1>1, RangeOfHeadTail, RangeOfTail
<1>3. CASE Head(defers) = "cancel"
  <2>1. cancelled' = TRUE /\ UNCHANGED <<open, cutOff>>
    BY <1>3 DEF Unwind
  <2>2. ServerTypeOK'
    BY <1>1, <1>2, <2>1, ZenonT(60) DEF ServerTypeOK, Unwind, web
  <2>3. DeferInv'
    BY <1>1, <1>2, <1>3, <2>1 DEF ServerTypeOK, DeferInv
  <2>4. ConsumerInv'
    BY <1>1, <2>1 DEF ConsumerInv, Ended, Unwind
  <2>5. DrainInv'
    BY <1>1, <2>1 DEF DrainInv, Ended, Unwind, web
  <2> QED
    BY <2>2, <2>3, <2>4, <2>5 DEF LifecycleInv
<1>4. CASE Head(defers) # "cancel"
  <2>1. Close(Head(defers)) /\ UNCHANGED cancelled
    BY <1>4 DEF Unwind
  <2>2. ServerTypeOK'
    BY <1>1, <1>2, <2>1, ZenonT(60) DEF ServerTypeOK, Unwind, Close, web
  <2>3. DeferInv'
    BY <1>1, <1>2, <2>1 DEF DeferInv, Close
  <2>4. ConsumerInv'
    BY <1>1, <1>2, <1>4, <2>1 DEF ConsumerInv, Ended, Unwind
  <2>5. DrainInv'
    BY <1>1, <2>1 DEF DrainInv, Ended, Unwind, Close, web
  <2> QED
    BY <2>2, <2>3, <2>4, <2>5 DEF LifecycleInv
<1> QED
  BY <1>3, <1>4

-----------------------------------------------------------------------------
(* The inductive invariant, for any number of attempts. *)
THEOREM LifecycleInvariant == ServerSpec => []LifecycleInv
<1>1. ASSUME LifecycleInv, [ServerNext]_serverVars PROVE LifecycleInv'
  <2>. LifecycleAssumption
    BY LifecycleAssumption
  <2>1. CASE ServerStep
    BY <1>1, <2>1, StepSucceedsKeeps, SkipDBKeeps, ConnectAgainKeeps,
       StepFailsKeeps, SelectServerKeeps, SelectConsumerKeeps, SelectStopKeeps,
       StopWatcherKeeps, StopHTTPKeeps, StopFailsKeeps, CancelKeeps, WaitKeeps,
       CloseDBKeeps, StoppedKeeps, UnwindKeeps, ReturnKeeps
    DEF ServerStep, Shutdown
  <2>2. CASE ConsumerInserts \/ ConsumerFails \/ ConsumerStops \/ ServingFails
    BY <1>1, <2>2, InsertsKeeps, FailsKeeps, StopsKeeps, ServingKeeps
  <2>3. CASE \E why \in {"signal", "context"} : RequestStop(why)
    BY <1>1, <2>3, RequestStopKeeps
  <2>4. CASE UNCHANGED serverVars
    <3>. ServerTypeOK /\ DeferInv /\ ConsumerInv /\ DrainInv
      BY <1>1 DEF LifecycleInv
    <3>1. ServerTypeOK'
      <4>1. UNCHANGED <<withDB, pc, at, attempts, defers, result, open,
                        consumer, cancelled, consumerErrCh, http, serverErrCh, conns,
                        stop, orderly, cutOff>>
        BY <2>4 DEF serverVars, main, sinkVars, web, history
      <4>2. /\ withDB' \in BOOLEAN /\ cancelled' \in BOOLEAN
            /\ orderly' \in BOOLEAN /\ cutOff' \in BOOLEAN
        BY <4>1, ZenonT(60) DEF ServerTypeOK
      <4> QED
        BY <4>1, <4>2 DEF ServerTypeOK
    <3>2. DeferInv' /\ ConsumerInv' /\ DrainInv'
      BY <2>4 DEF DeferInv, ConsumerInv, DrainInv, Ended, serverVars, main,
                  sinkVars, web, history
    <3> QED
      BY <3>1, <3>2 DEF LifecycleInv
  <2> QED
    BY <1>1, <2>1, <2>2, <2>3, <2>4 DEF ServerNext
<1>2. ServerInit => LifecycleInv
  BY InitLifecycle, LifecycleAssumption
<1> QED
  BY <1>1, <1>2, PTL DEF ServerSpec

(* The types of the state of the server. *)
THEOREM LifecycleTypes == ServerSpec => []ServerTypeOK
BY LifecycleInvariant, PTL DEF LifecycleInv

(* Server returns with nothing of what it defers a Close for open, but the *)
(* connection to NATS it could not use; with its consumer told to stop,    *)
(* whichever step failed; and with the web server still up only when the   *)
(* shutdown was not an orderly one.                                        *)
THEOREM ReturnLeavesNothingOpen == ServerSpec => []NothingLeftOpen
<1>1. LifecycleInv => NothingLeftOpen
  <2> SUFFICES ASSUME LifecycleInv, pc = "returned"
               PROVE  /\ open = IF Step = "bucket" THEN {"nats"} ELSE {}
                      /\ consumer \in {"fetch", "insert"} => cancelled
                      /\ conns = "open" => ~orderly
    BY DEF NothingLeftOpen
  <2>1. at \in 1..9 /\ (Step = "bucket" <=> at = 5)
    BY StepNumbers DEF LifecycleInv, ServerTypeOK, Step
  <2>2. Range(defers) = {}
    BY RangeOfEmpty DEF LifecycleInv, DeferInv
  <2> QED
    BY <2>1, <2>2 DEF LifecycleInv, DeferInv, ConsumerInv, DrainInv
<1> QED
  BY <1>1, LifecycleInvariant, PTL

(* After an orderly shutdown the consumer has ended, and the database was  *)
(* not closed under its transaction.                                       *)
THEOREM OrderlyStopWaits == ServerSpec => []OrderlyStopDrains
<1>1. LifecycleInv => OrderlyStopDrains
  BY DEF LifecycleInv, DrainInv, Ended, OrderlyStopDrains
<1> QED
  BY <1>1, LifecycleInvariant, PTL
=============================================================================
