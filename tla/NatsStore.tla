----------------------------- MODULE NatsStore -----------------------------
(***************************************************************************)
(* The NATS store of the web interface (services/nats.ts) and the views    *)
(* that use it.  JavaScript runs one callback at a time, but connect,      *)
(* disconnect and subscribeToStream await the network: several calls may   *)
(* be in progress, and each reads the module's variables again after an    *)
(* await.  A call in progress is a slot; a step of it runs from one await  *)
(* to the next.  A connection or a consumer is named by the order of its   *)
(* creation, 0 stands for null, and a message for its stream sequence.     *)
(***************************************************************************)
EXTENDS Naturals, Sequences, FiniteSets, Functions

CONSTANTS
  Cells,        \* the team and check pairs
  Jwts,         \* the tokens the login page may store
  CellsOf,      \* the cells the automatic subscription of a token selects
  Overseers,    \* the tokens whose views subscribe on their own
  Limit,        \* messages the buffer keeps
  Slots,        \* bound: calls in progress at the same time, one in each
  Outcomes,     \* what a check ends with, the last token of a subject
  Results,      \* what may be published: team and check, and an outcome
  MaxMessages,  \* bound: results published
  MaxConns,     \* bound: connections opened
  MaxConsumers, \* bound: consumers created
  MaxUses       \* bound: what the user does (mount, log in or out, clear)

None == "none"

ASSUME StoreAssumption ==
  /\ None \notin Jwts
  /\ CellsOf \in [Jwts -> SUBSET Cells]
  /\ Overseers \subseteq Jwts
  /\ Limit \in Nat \ {0}
  /\ Results \subseteq [cell : Cells, outcome : Outcomes]
  /\ MaxMessages \in Nat /\ MaxConns \in Nat /\ MaxConsumers \in Nat
  /\ MaxUses \in Nat

VARIABLES
  stream,            \* the results published, [cell, outcome]
  creds,             \* the token in local storage
  view,              \* the mounted view
  effect,            \* the view's effect on `status` is due
  conns,             \* connections: the token and whether it is open
  connection,        \* the module's variable, and the ones that follow
  connectedJwt,
  jetstream,
  consumers,         \* ordered consumers
  consumerMessages,
  status,            \* of the store, as `messages`
  messages,
  slots,             \* the calls in progress
  uses,              \* history: what the user has done
  overlapped         \* history: a call began while another was in progress

page == <<creds, view, effect>>
handles == <<conns, connection, connectedJwt, jetstream>>
feed == <<consumers, consumerMessages, messages>>
vars == <<stream, page, handles, feed, status, slots, uses, overlapped>>

Idle == [step |-> "idle", jwt |-> None, conn |-> 0, cells |-> {},
         last |-> FALSE, then |-> "end"]

Free(i) == slots[i] = Idle
At(i, step) == slots[i].step = step
Become(i, r) == slots' = [slots EXCEPT ![i] = r]
Return(i) == Become(i, Idle)
Use == uses < MaxUses /\ uses' = uses + 1

IsOpen(c) == c # 0 /\ conns[c].state = "open"

-----------------------------------------------------------------------------
(***************************************************************************)
(* The stream and its ordered consumers (external)                         *)
(***************************************************************************)

Publish(m) ==
  /\ Len(stream) < MaxMessages
  /\ stream' = Append(stream, m)
  /\ UNCHANGED <<page, handles, feed, status, slots, uses>>

(* deliver_policy LastPerSubject: the subject ends with the outcome. *)
IsLast(s, n) == \A q \in (s + 1)..n : stream[q] # stream[s]

Selected(k) ==
  {s \in (consumers[k].cursor + 1)..Len(stream) :
     /\ stream[s].cell \in consumers[k].cells
     /\ consumers[k].last => s > consumers[k].start
                             \/ IsLast(s, consumers[k].start)}

Active(k) == ~consumers[k].stopped /\ conns[consumers[k].conn].state # "closed"

(* Mutant: the check for a message with the same id is left out. *)
AddMessage_Always(s) == Append(messages, s)

(* Messages are deduplicated by their sequence number. *)
AddMessage(s) == IF s \in Range(messages) THEN messages ELSE Append(messages, s)

(* Mutant: the buffer keeps its first messages, not its last. *)
Newest_Oldest(q) == SubSeq(q, 1, IF Len(q) > Limit THEN Limit ELSE Len(q))

Newest(q) == SubSeq(q, IF Len(q) > Limit THEN Len(q) - Limit + 1 ELSE 1, Len(q))

(* The for-await loop of subscribeToStream. *)
Receive(k) ==
  /\ Active(k)
  /\ \E s \in Selected(k) :
       /\ \A q \in Selected(k) : s <= q
       /\ consumers' = [consumers EXCEPT ![k].cursor = s]
       /\ messages' = Newest(AddMessage(s))
  /\ UNCHANGED <<stream, page, handles, consumerMessages, status, slots, uses>>

Stopped(k) == IF k = 0 THEN consumers ELSE [consumers EXCEPT ![k].stopped = TRUE]

-----------------------------------------------------------------------------
(***************************************************************************)
(* connect                                                                 *)
(***************************************************************************)

(* Mutant: the buffer is not emptied for a new connection. *)
BeginDial_KeepMessages(i, jwt) ==
  /\ status' = "connecting"
  /\ UNCHANGED messages
  /\ Become(i, [Idle EXCEPT !.step = "dial", !.jwt = jwt])

(* The first part, or the rest after another user's connection was closed. *)
BeginDial(i, jwt) ==
  /\ status' = "connecting"
  /\ messages' = <<>>
  /\ Become(i, [Idle EXCEPT !.step = "dial", !.jwt = jwt])

(* The first part of disconnect: a connection that drains already rejects  *)
(* the second drain.                                                       *)
BeginDrain(i, then) ==
  /\ consumers' = Stopped(consumerMessages)
  /\ consumerMessages' = 0
  /\ \/ /\ IsOpen(connection)
        /\ conns' = [conns EXCEPT ![connection].state = "draining"]
        /\ Become(i, [Idle EXCEPT !.step = "drain", !.conn = connection,
                                  !.jwt = creds, !.then = then])
     \/ /\ ~IsOpen(connection)
        /\ UNCHANGED <<conns, slots>>

Connect(i) ==
  /\ Free(i)
  /\ \/ /\ connection # 0 /\ connectedJwt = creds
        /\ UNCHANGED <<handles, feed, status, slots>>
     \/ /\ connection # 0 /\ connectedJwt # creds
        /\ BeginDrain(i, "connect")
        /\ UNCHANGED <<connection, connectedJwt, jetstream, messages, status>>
     \/ /\ connection = 0
        /\ BeginDial(i, creds)
        /\ UNCHANGED <<handles, consumers, consumerMessages>>

(* The connection is up: the store's variables are set and the token's own *)
(* results subscribed to, up to the first await.                           *)
DialDone(i) ==
  /\ At(i, "dial") /\ Len(conns) < MaxConns
  /\ conns' = Append(conns, [jwt |-> slots[i].jwt, state |-> "open"])
  /\ connection' = Len(conns')
  /\ jetstream' = Len(conns')
  /\ connectedJwt' = slots[i].jwt
  /\ status' = "connected"
  /\ effect' = TRUE
  /\ consumers' = Stopped(consumerMessages)
  /\ Become(i, [Idle EXCEPT !.step = "find", !.conn = Len(conns'),
                            !.cells = CellsOf[slots[i].jwt],
                            !.then = "connect"])
  /\ UNCHANGED <<stream, creds, view, consumerMessages, messages, uses>>

DialFails(i) ==
  /\ At(i, "dial")
  /\ status' = "error"
  /\ Return(i)
  /\ UNCHANGED <<stream, page, handles, feed, uses>>

-----------------------------------------------------------------------------
(***************************************************************************)
(* disconnect, and the handler of closed()                                 *)
(***************************************************************************)

(* Mutant: the handler leaves the token of the closed connection. *)
ForgetConnection_KeepJwt ==
  /\ connection' = 0 /\ jetstream' = 0
  /\ UNCHANGED connectedJwt

ForgetConnection ==
  /\ connection' = 0 /\ jetstream' = 0
  /\ connectedJwt' = None

(* drain() closes the connection, the handler of closed() runs, and the    *)
(* caller goes on: connect dials, logout clears the token.                 *)
DrainDone(i) ==
  /\ At(i, "drain")
  /\ conns' = [conns EXCEPT ![slots[i].conn].state = "closed"]
  /\ ForgetConnection
  /\ IF slots[i].then = "connect"
     THEN BeginDial(i, slots[i].jwt)
     ELSE status' = "disconnected" /\ Return(i) /\ UNCHANGED messages
  /\ creds' = IF slots[i].then = "logout" THEN None ELSE creds
  /\ UNCHANGED <<stream, view, effect, consumers, consumerMessages, uses>>

(* The server or the network closes a connection for good.  The handler    *)
(* forgets the module's connection, whether or not it is this one.         *)
Lost(c) ==
  /\ Use /\ IsOpen(c)
  /\ conns' = [conns EXCEPT ![c].state = "closed"]
  /\ ForgetConnection
  /\ status' = "disconnected"
  /\ UNCHANGED <<stream, page, feed, slots>>

(* redirectToLogin: the token expired or was refused.  The page is loaded  *)
(* anew, all of the state but the stream is gone.                          *)
Redirect ==
  /\ Use
  /\ creds # None
  /\ creds' = None /\ view' = None /\ effect' = FALSE
  /\ conns' = [c \in DOMAIN conns |-> [conns[c] EXCEPT !.state = "closed"]]
  /\ ForgetConnection
  /\ consumers' = [k \in DOMAIN consumers |->
                     [consumers[k] EXCEPT !.stopped = TRUE]]
  /\ consumerMessages' = 0
  /\ status' = "disconnected" /\ messages' = <<>>
  /\ slots' = [i \in Slots |-> Idle]
  /\ UNCHANGED stream

-----------------------------------------------------------------------------
(***************************************************************************)
(* subscribeToStream, after its first await                                *)
(***************************************************************************)

(* streams.find has answered; `jetstream` is read now, not before. *)
FindDone(i) ==
  /\ At(i, "find") /\ IsOpen(slots[i].conn)
  /\ jetstream # 0
  /\ Become(i, [slots[i] EXCEPT !.step = "consume", !.conn = jetstream])
  /\ UNCHANGED <<stream, page, handles, feed, status, uses>>

(* The consumer started last replaces the one in consumerMessages, which   *)
(* another call may have started in the meantime and which goes on.        *)
ConsumeDone(i) ==
  /\ At(i, "consume") /\ IsOpen(slots[i].conn)
  /\ Len(consumers) < MaxConsumers
  /\ consumers' = Append(consumers,
       [conn |-> slots[i].conn, cells |-> slots[i].cells,
        last |-> slots[i].last, start |-> Len(stream), cursor |-> 0,
        stopped |-> FALSE])
  /\ consumerMessages' = Len(consumers')
  /\ Return(i)
  /\ UNCHANGED <<stream, page, handles, messages, status, uses>>

(* A request fails; within connect this is an error of the connection. *)
SubscribeFails(i) ==
  /\ At(i, "find") \/ At(i, "consume")
  /\ status' = IF slots[i].then = "connect" THEN "error" ELSE status
  /\ Return(i)
  /\ UNCHANGED <<stream, page, handles, feed, uses>>

-----------------------------------------------------------------------------
(***************************************************************************)
(* The views                                                               *)
(***************************************************************************)

(* A view is mounted and calls connect.  "own": the dashboard and health   *)
(* views; "admin" and "overview": those of an overseer.                    *)
Mount(v, i) ==
  /\ Use /\ creds # None
  /\ v \in IF creds \in Overseers THEN {"admin", "overview"} ELSE {"own"}
  /\ view' = v /\ effect' = TRUE
  /\ Connect(i)
  /\ UNCHANGED <<stream, creds>>

(* The effect of an overseer's view when the status is "connected": the    *)
(* overview clears the buffer first and wants the last results only.       *)
Subscribe(i) ==
  /\ Free(i) /\ effect /\ status = "connected"
  /\ view \in {"admin", "overview"}
  /\ connection # 0 /\ jetstream # 0
  /\ effect' = FALSE
  /\ messages' = IF view = "overview" THEN <<>> ELSE messages
  /\ consumers' = Stopped(consumerMessages)
  /\ Become(i, [Idle EXCEPT !.step = "find", !.conn = connection,
                            !.cells = Cells, !.last = (view = "overview")])
  /\ UNCHANGED <<stream, creds, view, handles, consumerMessages, status, uses>>

ClearMessages ==
  /\ Use /\ view = "own"
  /\ messages' = <<>>
  /\ UNCHANGED <<stream, page, handles, consumers, consumerMessages, status,
                 slots>>

(* Logout and the Disconnect button; nothing happens without a connection, *)
(* but logout clears the token all the same.                               *)
Disconnect(i, then) ==
  /\ Use /\ Free(i) /\ creds # None
  /\ \/ /\ connection # 0
        /\ BeginDrain(i, then)
        /\ UNCHANGED creds
     \/ /\ connection = 0 /\ then = "logout"
        /\ creds' = None
        /\ UNCHANGED <<conns, consumers, consumerMessages, slots>>
  /\ UNCHANGED <<stream, view, effect, connection, connectedJwt, jetstream,
                 messages, status>>

(* A login, in this tab or in another one. *)
Login(j) ==
  /\ Use /\ j # creds
  /\ creds' = j
  /\ UNCHANGED <<stream, view, effect, handles, feed, status, slots>>

-----------------------------------------------------------------------------
Init ==
  /\ stream = <<>>
  /\ creds \in Jwts \cup {None} /\ view = None /\ effect = FALSE
  /\ conns = <<>> /\ connection = 0 /\ connectedJwt = None /\ jetstream = 0
  /\ consumers = <<>> /\ consumerMessages = 0
  /\ status = "disconnected" /\ messages = <<>>
  /\ slots = [i \in Slots |-> Idle]
  /\ uses = 0 /\ overlapped = FALSE

Resume(i) ==
  \/ DialDone(i) \/ DialFails(i) \/ DrainDone(i)
  \/ FindDone(i) \/ ConsumeDone(i) \/ SubscribeFails(i)

(* The views call the store ... *)
Calls ==
  \/ \E i \in Slots : Subscribe(i)
  \/ \E i \in Slots, v \in {"own", "admin", "overview"} : Mount(v, i)
  \/ \E i \in Slots, then \in {"end", "logout"} : Disconnect(i, then)

(* ... and everything else goes on. *)
GoesOn ==
  \/ \E m \in Results : Publish(m)
  \/ \E k \in DOMAIN consumers : Receive(k)
  \/ \E c \in DOMAIN conns : Lost(c)
  \/ \E i \in Slots : Resume(i)
  \/ \E j \in Jwts : Login(j)
  \/ Redirect \/ ClearMessages

Next ==
  \/ Calls /\ overlapped' = (overlapped \/ \E i \in Slots : ~Free(i))
  \/ GoesOn /\ UNCHANGED overlapped

Spec == Init /\ [][Next]_vars

-----------------------------------------------------------------------------
Call == [step : {"idle", "drain", "dial", "find", "consume"},
         jwt : Jwts \cup {None}, conn : 0..MaxConns, cells : SUBSET Cells,
         last : BOOLEAN, then : {"end", "connect", "logout"}]

TypeOK ==
  /\ stream \in Seq(Results)
  /\ creds \in Jwts \cup {None}
  /\ view \in {None, "own", "admin", "overview"} /\ effect \in BOOLEAN
  /\ conns \in Seq([jwt : Jwts, state : {"open", "draining", "closed"}])
  /\ connection \in 0..Len(conns) /\ jetstream \in 0..Len(conns)
  /\ connectedJwt \in Jwts \cup {None}
  /\ consumerMessages \in 0..Len(consumers)
  /\ status \in {"disconnected", "connecting", "connected", "error"}
  /\ messages \in Seq(1..Len(stream))
  /\ slots \in [Slots -> Call]
  /\ \A i \in Slots : At(i, "find") \/ At(i, "consume") => slots[i].conn # 0
  /\ uses \in 0..MaxUses /\ overlapped \in BOOLEAN

(* However calls overlap, the module's variables belong together: the      *)
(* JetStream handle and the token are those of the connection ("JWT the    *)
(* live connection was authenticated with, so we can detect a user         *)
(* switch"), the connection is not a closed one, and the status shown does *)
(* not contradict it.                                                      *)
HandlesAgree ==
  /\ jetstream = connection
  /\ connectedJwt = IF connection = 0 THEN None ELSE conns[connection].jwt
  /\ connection # 0 => conns[connection].state # "closed"
  /\ status = "connected" => connection # 0
  /\ status = "disconnected" => connection = 0

(* The page's handles of its connection and consumer fit what NATS has of  *)
(* them.                                                                   *)
HandlesFit == TypeOK /\ HandlesAgree

(* No result is in the buffer twice, though a resubscription replays the   *)
(* stream and several consumers may feed the buffer at once.               *)
NoDuplicates ==
  \A i, j \in DOMAIN messages : messages[i] = messages[j] => i = j

(* After a change of user the buffer holds nothing that the connected      *)
(* token's subscription does not select, as long as each call of the store *)
(* had ended before the next began.                                        *)
OnlyOwnResults ==
  ~overlapped /\ connection # 0 /\ connectedJwt \notin Overseers =>
    \A i \in DOMAIN messages : stream[messages[i]].cell \in CellsOf[connectedJwt]

(* Everything that the last consumer of the page gets has been received.   *)
Quiet ==
  /\ \A i \in Slots : Free(i)
  /\ connection # 0 /\ consumerMessages # 0 /\ Active(consumerMessages)
  /\ Selected(consumerMessages) = {}

(* The views that look at the order of the messages, the overview once it  *)
(* has subscribed.                                                         *)
InOrder == view = "own" \/ (view = "overview" /\ ~effect)

(* "Last message in buffer wins per team+check": when everything has been  *)
(* received, the last message of a team and check in the buffer is the     *)
(* last one in the stream, again if no two calls overlapped: two consumers *)
(* may feed the buffer otherwise.  In the admin's other view it need not   *)
(* be: that one keeps the overview's messages and adds older ones.         *)
LatestIsLast ==
  ~overlapped /\ Quiet /\ InOrder =>
    \A i \in DOMAIN messages :
      \/ \E j \in (i + 1)..Len(messages) :
           stream[messages[j]].cell = stream[messages[i]].cell
      \/ \A s \in (messages[i] + 1)..Len(stream) :
           stream[s].cell # stream[messages[i]].cell
=============================================================================
