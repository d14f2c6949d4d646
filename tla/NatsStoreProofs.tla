-------------------------- MODULE NatsStoreProofs ---------------------------
(***************************************************************************)
(* The NATS store of a page, for any users, teams, sizes of the buffer and *)
(* number of calls in progress.  The argument has two layers.  The first   *)
(* holds whatever overlaps: what belongs to the connection, and a buffer   *)
(* without duplicates.  The second is about a page whose calls have not    *)
(* overlapped so far: it has one connection that is not closed and one     *)
(* consumer that is not stopped, so that the buffer is filled from one     *)
(* source, which fits who is connected.                                    *)
(***************************************************************************)
EXTENDS NatsStore, SequenceFacts

Conn == [jwt : Jwts, state : {"open", "draining", "closed"}]
Consumer == [conn : Nat, cells : SUBSET Cells, last : BOOLEAN, start : Nat,
             cursor : Nat, stopped : BOOLEAN]

(* What refers to a connection, a consumer or a message refers to one that *)
(* there is, and a call that will dial has a token.                        *)
ConnsInv ==
  /\ conns \in Seq(Conn) /\ Len(conns) <= MaxConns
  /\ connection \in 0..Len(conns) /\ jetstream \in 0..Len(conns)
  /\ connectedJwt \in Jwts \cup {None}
  /\ status \in {"disconnected", "connecting", "connected", "error"}

FeedInv ==
  /\ consumers \in Seq(Consumer)
  /\ \A k \in DOMAIN consumers : /\ consumers[k].conn \in 1..Len(conns)
                                 /\ consumers[k].start <= Len(stream)
                                 /\ consumers[k].cursor <= Len(stream)
  /\ consumerMessages \in 0..Len(consumers)
  /\ stream \in Seq(Results)
  /\ messages \in Seq(1..Len(stream))

SlotsInv ==
  /\ slots \in [Slots -> Call]
  /\ \A i \in Slots :
       /\ slots[i].conn \in 0..Len(conns)
       /\ At(i, "drain") \/ At(i, "find") \/ At(i, "consume")
            => slots[i].conn # 0
       /\ At(i, "drain") \/ At(i, "dial") => slots[i].jwt \in Jwts

PageInv ==
  /\ creds \in Jwts \cup {None}
  /\ view \in {None, "own", "admin", "overview"} /\ effect \in BOOLEAN
  /\ uses \in 0..MaxUses /\ overlapped \in BOOLEAN

Core == ConnsInv /\ FeedInv /\ SlotsInv /\ HandlesAgree /\ NoDuplicates

StoreInv == Core /\ PageInv

-----------------------------------------------------------------------------
(* Sequences of the store: what a change of one does. *)

LEMMA ConnChange ==
  ASSUME ConnsInv, NEW c \in 1..Len(conns),
         NEW st \in {"open", "draining", "closed"},
         conns' = [conns EXCEPT ![c].state = st]
  PROVE  /\ conns' \in Seq(Conn) /\ Len(conns') = Len(conns)
         /\ \A d \in 1..Len(conns) :
              /\ conns'[d].jwt = conns[d].jwt
              /\ conns'[d].state = IF d = c THEN st ELSE conns[d].state
<1>1. conns \in Seq(Conn) /\ Len(conns) \in Nat
      /\ \A d \in 1..Len(conns) : conns[d] \in Conn
  BY ElementOfSeq, LenProperties DEF ConnsInv
<1> DEFINE e == [conns[c] EXCEPT !.state = st]
<1>2. e \in Conn /\ e.jwt = conns[c].jwt /\ e.state = st
  BY <1>1 DEF Conn
<1>3. conns' = [conns EXCEPT ![c] = e]
  OBVIOUS
<1> HIDE DEF e
<1> QED
  BY <1>1, <1>2, <1>3, ExceptSeq

LEMMA ConnAdded ==
  ASSUME ConnsInv, NEW e \in Conn, conns' = Append(conns, e)
  PROVE  /\ conns' \in Seq(Conn) /\ Len(conns') = Len(conns) + 1
         /\ Len(conns) \in Nat
         /\ \A d \in 1..Len(conns) : conns'[d] = conns[d]
         /\ conns'[Len(conns) + 1] = e
BY AppendProperties, LenProperties DEF ConnsInv

LEMMA SlotChange ==
  ASSUME SlotsInv, NEW i \in Slots, NEW r \in Call, Become(i, r)
  PROVE  /\ slots' \in [Slots -> Call]
         /\ slots'[i] = r
         /\ \A j \in Slots : j # i => slots'[j] = slots[j]
BY DEF SlotsInv, Become

(* Stopping a consumer changes nothing else of the consumers. *)
LEMMA StoppedConsumers ==
  ASSUME FeedInv, NEW k \in 0..Len(consumers)
  PROVE  /\ Stopped(k) \in Seq(Consumer)
         /\ Len(Stopped(k)) = Len(consumers)
         /\ DOMAIN Stopped(k) = DOMAIN consumers
         /\ DOMAIN consumers = 1..Len(consumers)
         /\ \A l \in 1..Len(consumers) :
              /\ Stopped(k)[l].conn = consumers[l].conn
              /\ Stopped(k)[l].cells = consumers[l].cells
              /\ Stopped(k)[l].last = consumers[l].last
              /\ Stopped(k)[l].start = consumers[l].start
              /\ Stopped(k)[l].cursor = consumers[l].cursor
              /\ (Stopped(k)[l].stopped <=> consumers[l].stopped \/ l = k)
<1>1. /\ consumers \in Seq(Consumer) /\ Len(consumers) \in Nat
      /\ DOMAIN consumers = 1..Len(consumers)
      /\ \A l \in 1..Len(consumers) : consumers[l] \in Consumer
  BY ElementOfSeq, LenProperties DEF FeedInv
<1>2. CASE k = 0
  BY <1>1, <1>2 DEF Stopped
<1>3. CASE k # 0
  <2> DEFINE e == [consumers[k] EXCEPT !.stopped = TRUE]
  <2>1. k \in 1..Len(consumers)
    BY <1>1, <1>3
  <2>2. /\ e \in Consumer
        /\ e.conn = consumers[k].conn /\ e.cells = consumers[k].cells
        /\ e.last = consumers[k].last /\ e.start = consumers[k].start
        /\ e.cursor = consumers[k].cursor /\ e.stopped = TRUE
    BY <1>1, <2>1 DEF Consumer
  <2>3. Stopped(k) = [consumers EXCEPT ![k] = e]
    BY <1>3 DEF Stopped
  <2> HIDE DEF e
  <2>4. /\ Stopped(k) \in Seq(Consumer)
        /\ Len(Stopped(k)) = Len(consumers)
        /\ \A l \in 1..Len(consumers) :
             Stopped(k)[l] = IF l = k THEN e ELSE consumers[l]
    BY <1>1, <2>1, <2>2, <2>3, ExceptSeq
  <2>5. DOMAIN Stopped(k) = 1..Len(consumers)
    BY <2>4, LenProperties
  <2>6. \A l \in 1..Len(consumers) : consumers[l].stopped \in BOOLEAN
    BY <1>1 DEF Consumer
  <2> QED
    BY <1>1, <2>2, <2>4, <2>5, <2>6
<1> QED
  BY <1>2, <1>3

(* The connections may change as long as there are no fewer. *)
LEMMA FeedStopped ==
  ASSUME ConnsInv, FeedInv, conns' \in Seq(Conn), Len(conns') >= Len(conns),
         consumers' = Stopped(consumerMessages),
         consumerMessages' \in {0, consumerMessages},
         UNCHANGED stream, messages' = messages \/ messages' = <<>>
  PROVE  FeedInv'
<1>1. messages' \in Seq(1..Len(stream'))
  BY EmptySeq DEF FeedInv
<1>2. Len(conns) \in Nat /\ Len(conns') \in Nat /\ Len(consumers) \in Nat
  BY LenProperties DEF ConnsInv, FeedInv
<1>3. /\ consumers' \in Seq(Consumer) /\ Len(consumers') = Len(consumers)
      /\ DOMAIN consumers' = DOMAIN consumers
      /\ \A k \in DOMAIN consumers :
           /\ consumers'[k].conn = consumers[k].conn
           /\ consumers'[k].start = consumers[k].start
           /\ consumers'[k].cursor = consumers[k].cursor
  BY StoppedConsumers DEF FeedInv
<1>4. consumerMessages' \in 0..Len(consumers')
  BY <1>2, <1>3 DEF FeedInv
<1> QED
  BY <1>1, <1>2, <1>3, <1>4, SMTT(60) DEF FeedInv

(* The buffer keeps the end of what it had. *)
LEMMA NewestIsEnd ==
  ASSUME StoreAssumption, NEW S, NEW q \in Seq(S)
  PROVE  \E d \in 0..Len(q) :
           /\ Newest(q) \in Seq(S) /\ Len(Newest(q)) = Len(q) - d
           /\ \A i \in 1..Len(q) - d : Newest(q)[i] = q[i + d]
<1>1. Limit \in Nat \ {0} /\ Len(q) \in Nat /\ \A i \in 1..Len(q) : q[i] \in S
  BY LenProperties, ElementOfSeq DEF StoreAssumption
<1> DEFINE d == IF Len(q) > Limit THEN Len(q) - Limit ELSE 0
<1>2. d \in 0..Len(q) /\ Newest(q) = SubSeq(q, d + 1, Len(q))
  BY <1>1 DEF Newest
<1> HIDE DEF d
<1>3. \A i \in (d + 1)..Len(q) : q[i] \in S
  BY <1>1, <1>2
<1>4. /\ SubSeq(q, d + 1, Len(q)) \in Seq(S)
      /\ Len(SubSeq(q, d + 1, Len(q))) =
           IF d + 1 <= Len(q) THEN Len(q) - (d + 1) + 1 ELSE 0
      /\ \A i \in 1..Len(q) - (d + 1) + 1 :
           SubSeq(q, d + 1, Len(q))[i] = q[(d + 1) + i - 1]
  BY <1>1, <1>2, <1>3, SubSeqProperties
<1>5. /\ Len(Newest(q)) = Len(q) - d
      /\ \A i \in 1..Len(q) - d : Newest(q)[i] = q[i + d]
  BY <1>1, <1>2, <1>4
<1> QED
  BY <1>2, <1>4, <1>5

(* A message is received: it is the last one, or was there already. *)
LEMMA MessageAdded ==
  ASSUME FeedInv, NEW s \in 1..Len(stream)
  PROVE  /\ AddMessage(s) \in Seq(1..Len(stream))
         /\ \/ s \in Range(messages) /\ AddMessage(s) = messages
            \/ /\ Len(AddMessage(s)) = Len(messages) + 1
               /\ AddMessage(s)[Len(messages) + 1] = s
               /\ \A i \in 1..Len(messages) :
                    AddMessage(s)[i] = messages[i] /\ messages[i] # s
<1>1. messages \in Seq(1..Len(stream)) /\ Len(messages) \in Nat
      /\ Range(messages) = {messages[i] : i \in 1..Len(messages)}
  BY LenProperties, RangeEquality DEF FeedInv
<1>2. CASE s \in Range(messages)
  BY <1>1, <1>2 DEF AddMessage
<1>3. CASE s \notin Range(messages)
  <2>1. AddMessage(s) = Append(messages, s)
    BY <1>3 DEF AddMessage
  <2>2. \A i \in 1..Len(messages) : messages[i] # s
    BY <1>1, <1>3
  <2> QED
    BY <1>1, <2>1, <2>2, AppendProperties
<1> QED
  BY <1>2, <1>3

LEMMA NewestIsDistinct ==
  ASSUME StoreAssumption, NEW S, NEW q \in Seq(S),
         \A i, j \in 1..Len(q) : q[i] = q[j] => i = j
  PROVE  /\ Newest(q) \in Seq(S)
         /\ \A i, j \in DOMAIN Newest(q) : Newest(q)[i] = Newest(q)[j] => i = j
<1>1. Len(q) \in Nat
  BY LenProperties
<1>2. PICK d \in 0..Len(q) :
        /\ Newest(q) \in Seq(S) /\ Len(Newest(q)) = Len(q) - d
        /\ \A i \in 1..Len(q) - d : Newest(q)[i] = q[i + d]
  BY NewestIsEnd
<1>3. DOMAIN Newest(q) = 1..Len(q) - d
  BY <1>2, LenProperties
<1>4. ASSUME NEW i \in 1..Len(q) - d, NEW j \in 1..Len(q) - d,
             Newest(q)[i] = Newest(q)[j]
      PROVE  i = j
  <2>1. i + d \in 1..Len(q) /\ j + d \in 1..Len(q)
    BY <1>1
  <2>2. q[i + d] = q[j + d]
    BY <1>2, <1>4
  <2>3. i + d = j + d
    BY <2>1, <2>2
  <2> QED
    BY <1>1, <2>3
<1> QED
  BY <1>2, <1>3, <1>4

LEMMA ReceivedOnce ==
  ASSUME StoreAssumption, FeedInv, NoDuplicates, NEW s \in 1..Len(stream),
         messages' = Newest(AddMessage(s)), UNCHANGED stream
  PROVE  messages' \in Seq(1..Len(stream)) /\ NoDuplicates'
<1>1. /\ AddMessage(s) \in Seq(1..Len(stream))
      /\ Len(messages) \in Nat /\ DOMAIN messages = 1..Len(messages)
  BY MessageAdded, LenProperties DEF FeedInv
<1>2. \A i, j \in 1..Len(messages) : messages[i] = messages[j] => i = j
  BY <1>1 DEF NoDuplicates
<1>3. \A i, j \in 1..Len(AddMessage(s)) :
        AddMessage(s)[i] = AddMessage(s)[j] => i = j
  <2>1. CASE AddMessage(s) = messages
    BY <1>2, <2>1
  <2>2. CASE /\ Len(AddMessage(s)) = Len(messages) + 1
             /\ AddMessage(s)[Len(messages) + 1] = s
             /\ \A i \in 1..Len(messages) :
                  AddMessage(s)[i] = messages[i] /\ messages[i] # s
    BY <1>1, <1>2, <2>2, SMTT(60)
  <2> QED
    BY <2>1, <2>2, MessageAdded
<1> QED
  BY <1>1, <1>3, NewestIsDistinct DEF NoDuplicates

(* A call goes on to something that fits. *)
LEMMA SlotsKept ==
  ASSUME ConnsInv, SlotsInv, NEW i \in Slots, NEW r \in Call, Become(i, r),
         Len(conns') \in Nat, Len(conns') >= Len(conns),
         r.conn \in 0..Len(conns'),
         r.step \in {"drain", "find", "consume"} => r.conn # 0,
         r.step \in {"drain", "dial"} => r.jwt \in Jwts
  PROVE  SlotsInv'
<1>1. Len(conns) \in Nat
  BY LenProperties DEF ConnsInv
<1>2. /\ slots' \in [Slots -> Call] /\ slots'[i] = r
      /\ \A j \in Slots : j # i => slots'[j] = slots[j]
  BY SlotChange
<1> QED
  BY <1>1, <1>2 DEF SlotsInv, At

(* There is a place for every call in progress, and no call has none. *)
LEMMA IdleIsCall == StoreAssumption => Idle \in Call
BY DEF StoreAssumption, Idle, Call

-----------------------------------------------------------------------------
(* The parts that calls are made of. *)

LEMMA DialKeeps ==
  ASSUME StoreAssumption, ConnsInv, FeedInv, SlotsInv, NEW i \in Slots,
         NEW jwt \in Jwts, BeginDial(i, jwt),
         UNCHANGED <<stream, conns, connection, connectedJwt, jetstream,
                     consumers, consumerMessages>>,
         jetstream = connection, connection = 0, connectedJwt = None
  PROVE  Core'
<1>1. Len(conns) \in Nat /\ UNCHANGED conns
  BY LenProperties DEF ConnsInv
<1>2. SlotsInv'
  <2> DEFINE r == [Idle EXCEPT !.step = "dial", !.jwt = jwt]
  <2>1. /\ r \in Call /\ r.conn = 0 /\ r.step = "dial" /\ r.jwt = jwt
    BY IdleIsCall DEF Idle, Call
  <2>2. Become(i, r)
    BY DEF BeginDial
  <2> HIDE DEF r
  <2> QED
    BY <1>1, <2>1, <2>2, SlotsKept
<1>3. FeedInv' /\ NoDuplicates'
  <2>1. messages' = <<>> /\ DOMAIN messages' = {}
    BY DEF BeginDial
  <2> QED
    BY <2>1, EmptySeq DEF FeedInv, NoDuplicates
<1>4. ConnsInv' /\ HandlesAgree'
  BY DEF ConnsInv, HandlesAgree, BeginDial
<1> QED
  BY <1>2, <1>3, <1>4 DEF Core

LEMMA DrainKeeps ==
  ASSUME StoreAssumption, Core, NEW i \in Slots, NEW then \in {"end", "connect", "logout"},
         connection # 0, creds \in Jwts, BeginDrain(i, then),
         UNCHANGED <<stream, connection, connectedJwt, jetstream, messages,
                     status>>
  PROVE  Core'
<1>1. /\ Len(conns) \in Nat /\ connection \in 1..Len(conns)
      /\ ConnsInv /\ FeedInv /\ SlotsInv /\ HandlesAgree /\ NoDuplicates
  BY LenProperties DEF Core, ConnsInv
<1>2. NoDuplicates'
  BY <1>1 DEF NoDuplicates
<1>3. CASE ~IsOpen(connection)
  <2>1. UNCHANGED <<conns, slots>>
    BY <1>3 DEF BeginDrain
  <2>2. FeedInv'
    BY <1>1, <2>1, FeedStopped DEF BeginDrain, ConnsInv, FeedInv
  <2>3. ConnsInv' /\ HandlesAgree' /\ SlotsInv'
    BY <1>1, <2>1 DEF ConnsInv, HandlesAgree, SlotsInv, At
  <2> QED
    BY <1>2, <2>2, <2>3 DEF Core
<1>4. CASE IsOpen(connection)
  <2> DEFINE r == [Idle EXCEPT !.step = "drain", !.conn = connection,
                               !.jwt = creds, !.then = then]
  <2>1. conns' = [conns EXCEPT ![connection].state = "draining"] /\ Become(i, r)
    BY <1>4 DEF BeginDrain
  <2>2. /\ conns' \in Seq(Conn) /\ Len(conns') = Len(conns)
        /\ \A d \in 1..Len(conns) :
             /\ conns'[d].jwt = conns[d].jwt
             /\ conns'[d].state = IF d = connection THEN "draining"
                                  ELSE conns[d].state
    BY <1>1, <2>1, ConnChange
  <2>3. /\ r \in Call /\ r.conn = connection /\ r.step = "drain"
        /\ r.jwt = creds
    <3>1. connection \in 0..MaxConns
      BY <1>1 DEF ConnsInv, StoreAssumption
    <3> QED
      BY <3>1 DEF Idle, Call
  <2> HIDE DEF r
  <2>4. SlotsInv'
    BY <1>1, <2>1, <2>2, <2>3, SlotsKept
  <2>5. FeedInv'
    BY <1>1, <2>2, FeedStopped DEF BeginDrain, FeedInv
  <2>6. ConnsInv' /\ HandlesAgree'
    BY <1>1, <2>2 DEF ConnsInv, HandlesAgree
  <2> QED
    BY <1>2, <2>4, <2>5, <2>6 DEF Core
<1> QED
  BY <1>3, <1>4

LEMMA ConnectKeeps ==
  ASSUME StoreAssumption, Core, NEW i \in Slots, creds \in Jwts, Connect(i),
         UNCHANGED stream
  PROVE  Core'
<1>1. ConnsInv /\ FeedInv /\ SlotsInv /\ HandlesAgree /\ NoDuplicates
  BY DEF Core
<1>2. CASE /\ connection # 0 /\ connectedJwt = creds
           /\ UNCHANGED <<handles, feed, status, slots>>
  BY <1>1, <1>2 DEF Core, ConnsInv, FeedInv, SlotsInv, HandlesAgree,
                    NoDuplicates, handles, feed, At
<1>3. CASE /\ connection # 0 /\ connectedJwt # creds
           /\ BeginDrain(i, "connect")
           /\ UNCHANGED <<connection, connectedJwt, jetstream, messages,
                          status>>
  BY <1>3, DrainKeeps
<1>4. CASE /\ connection = 0
           /\ BeginDial(i, creds)
           /\ UNCHANGED <<handles, consumers, consumerMessages>>
  BY <1>1, <1>4, DialKeeps DEF handles, HandlesAgree
<1> QED
  BY <1>2, <1>3, <1>4 DEF Connect
-----------------------------------------------------------------------------
(* Every step of the first layer. *)

LEMMA CoreStutters ==
  ASSUME Core, UNCHANGED <<stream, handles, feed, status, slots>>
  PROVE  Core'
BY DEF Core, ConnsInv, FeedInv, SlotsInv, HandlesAgree, NoDuplicates, handles,
       feed, At

(* The page loses its connection: what a call in progress holds stays. *)
LEMMA ForgetKeeps ==
  ASSUME ConnsInv, HandlesAgree, NEW c \in 1..Len(conns),
         conns' = [conns EXCEPT ![c].state = "closed"], ForgetConnection,
         status' \in {"disconnected", "connecting"}
  PROVE  ConnsInv' /\ HandlesAgree' /\ Len(conns') = Len(conns)
<1>1. conns' \in Seq(Conn) /\ Len(conns') = Len(conns) /\ Len(conns) \in Nat
  BY ConnChange, LenProperties DEF ConnsInv
<1> QED
  BY <1>1 DEF ConnsInv, HandlesAgree, ForgetConnection

LEMMA FeedUnchanged ==
  ASSUME ConnsInv, FeedInv, Len(conns') \in Nat, Len(conns') >= Len(conns),
         UNCHANGED <<stream, consumers, consumerMessages>>,
         messages' = messages \/ messages' = <<>>
  PROVE  FeedInv'
<1>1. messages' \in Seq(1..Len(stream'))
  BY EmptySeq DEF FeedInv
<1>2. Len(conns) \in Nat
  BY LenProperties DEF ConnsInv
<1> QED
  BY <1>1, <1>2 DEF FeedInv

LEMMA SlotsUnchanged ==
  ASSUME ConnsInv, SlotsInv, Len(conns') \in Nat, Len(conns') >= Len(conns),
         UNCHANGED slots
  PROVE  SlotsInv'
BY LenProperties DEF ConnsInv, SlotsInv, At

LEMMA BufferUnchanged ==
  ASSUME NoDuplicates, messages' = messages \/ messages' = <<>>
  PROVE  NoDuplicates'
<1>1. DOMAIN <<>> = {}
  OBVIOUS
<1> QED BY <1>1 DEF NoDuplicates

LEMMA PublishKeeps ==
  ASSUME Core, NEW m \in Results, Publish(m)
  PROVE  Core'
<1>1. /\ stream \in Seq(Results) /\ Len(stream) \in Nat
      /\ messages \in Seq(1..Len(stream))
  BY LenProperties DEF Core, FeedInv
<1>2. stream' \in Seq(Results) /\ Len(stream') = Len(stream) + 1
  BY <1>1, AppendProperties DEF Publish
<1>3. messages \in Seq(1..Len(stream'))
  <2>1. 1..Len(stream) \subseteq 1..Len(stream')
    BY <1>1, <1>2
  <2> QED
    BY <1>1, <2>1, SeqMonotonic
<1>4. FeedInv'
  <2>1. \A k \in DOMAIN consumers : consumers[k] \in Consumer
    BY ElementOfSeq, LenProperties DEF Core, FeedInv
  <2> QED
    BY <1>1, <1>2, <1>3, <2>1, SMTT(60) DEF Core, FeedInv, Publish, handles,
      feed, Consumer
<1> QED
  BY <1>4 DEF Core, ConnsInv, SlotsInv, HandlesAgree, NoDuplicates, Publish,
              handles, feed, At

(* A consumer hands a message on: its cursor moves, nothing else of it. *)
LEMMA CursorChange ==
  ASSUME FeedInv, NEW k \in DOMAIN consumers, NEW s \in Nat,
         consumers' = [consumers EXCEPT ![k].cursor = s]
  PROVE  /\ consumers' \in Seq(Consumer)
         /\ Len(consumers') = Len(consumers)
         /\ DOMAIN consumers' = DOMAIN consumers
         /\ DOMAIN consumers = 1..Len(consumers)
         /\ \A l \in DOMAIN consumers :
              /\ consumers'[l].conn = consumers[l].conn
              /\ consumers'[l].cells = consumers[l].cells
              /\ consumers'[l].last = consumers[l].last
              /\ consumers'[l].start = consumers[l].start
              /\ consumers'[l].stopped = consumers[l].stopped
              /\ consumers'[l].cursor = IF l = k THEN s ELSE consumers[l].cursor
<1>1. /\ consumers \in Seq(Consumer) /\ Len(consumers) \in Nat
      /\ DOMAIN consumers = 1..Len(consumers)
      /\ \A l \in 1..Len(consumers) : consumers[l] \in Consumer
  BY ElementOfSeq, LenProperties DEF FeedInv
<1> DEFINE e == [consumers[k] EXCEPT !.cursor = s]
<1>2. /\ e \in Consumer /\ e.cursor = s
      /\ e.conn = consumers[k].conn /\ e.cells = consumers[k].cells
      /\ e.last = consumers[k].last /\ e.start = consumers[k].start
      /\ e.stopped = consumers[k].stopped
  BY <1>1 DEF Consumer
<1>3. consumers' = [consumers EXCEPT ![k] = e]
  OBVIOUS
<1> HIDE DEF e
<1>4. /\ consumers' \in Seq(Consumer) /\ Len(consumers') = Len(consumers)
      /\ \A l \in 1..Len(consumers) :
           consumers'[l] = IF l = k THEN e ELSE consumers[l]
  BY <1>1, <1>2, <1>3, ExceptSeq
<1>5. DOMAIN consumers' = 1..Len(consumers)
  BY <1>4, LenProperties
<1> QED
  BY <1>1, <1>2, <1>4, <1>5

(* What a consumer selects is in the stream, past its cursor. *)
LEMMA SelectedFits ==
  ASSUME FeedInv, NEW k \in DOMAIN consumers, NEW s \in Selected(k)
  PROVE  /\ s \in 1..Len(stream) /\ consumers[k].cursor < s
         /\ stream[s].cell \in consumers[k].cells
         /\ consumers[k] \in Consumer
<1>1. consumers[k] \in Consumer /\ Len(stream) \in Nat
  BY ElementOfSeq, LenProperties DEF FeedInv
<1> QED
  BY <1>1 DEF Selected, Consumer

LEMMA ReceiveKeeps ==
  ASSUME StoreAssumption, Core, NEW k \in DOMAIN consumers, Receive(k)
  PROVE  Core'
<1>1. ConnsInv /\ FeedInv /\ SlotsInv /\ HandlesAgree /\ NoDuplicates
  BY DEF Core
<1>2. PICK s \in Selected(k) :
        /\ consumers' = [consumers EXCEPT ![k].cursor = s]
        /\ messages' = Newest(AddMessage(s))
  BY DEF Receive
<1>3. s \in 1..Len(stream)
  BY <1>1, <1>2, SelectedFits
<1>4. /\ UNCHANGED <<stream, conns, connection, connectedJwt, jetstream,
                     consumerMessages, status, slots>>
  BY DEF Receive, handles
<1>5. messages' \in Seq(1..Len(stream)) /\ NoDuplicates'
  BY <1>1, <1>2, <1>3, <1>4, ReceivedOnce
<1>6. /\ consumers' \in Seq(Consumer) /\ Len(consumers') = Len(consumers)
      /\ DOMAIN consumers' = DOMAIN consumers
      /\ \A l \in DOMAIN consumers :
           /\ consumers'[l].conn = consumers[l].conn
           /\ consumers'[l].start = consumers[l].start
           /\ consumers'[l].cursor = IF l = k THEN s ELSE consumers[l].cursor
  <2>1. s \in Nat
    BY <1>3
  <2> QED
    BY <1>1, <1>2, <2>1, CursorChange, ZenonT(60)
<1>7. FeedInv'
  <2>1. \A l \in DOMAIN consumers' :
          /\ consumers'[l].conn \in 1..Len(conns')
          /\ consumers'[l].start <= Len(stream')
          /\ consumers'[l].cursor <= Len(stream')
    <3>1. /\ Len(stream) \in Nat /\ Len(stream') = Len(stream)
          /\ Len(conns') = Len(conns)
          /\ \A l \in DOMAIN consumers :
               /\ consumers[l].conn \in 1..Len(conns)
               /\ consumers[l].start <= Len(stream)
               /\ consumers[l].cursor <= Len(stream)
      BY <1>1, <1>4, LenProperties DEF FeedInv
    <3> QED
      BY <1>3, <1>6, <3>1
  <2>2. consumerMessages' \in 0..Len(consumers')
    BY <1>1, <1>4, <1>6 DEF FeedInv
  <2> QED
    BY <1>1, <1>4, <1>5, <1>6, <2>1, <2>2 DEF FeedInv
<1> QED
  BY <1>1, <1>4, <1>5, <1>7 DEF Core, ConnsInv, SlotsInv, HandlesAgree, At

LEMMA DialDoneKeeps ==
  ASSUME StoreAssumption, Core, NEW i \in Slots, DialDone(i)
  PROVE  Core'
<1>1. ConnsInv /\ FeedInv /\ SlotsInv /\ HandlesAgree /\ NoDuplicates
  BY DEF Core
<1>2. slots[i].jwt \in Jwts /\ CellsOf[slots[i].jwt] \subseteq Cells
  BY <1>1 DEF SlotsInv, DialDone, StoreAssumption
<1> DEFINE c == [jwt |-> slots[i].jwt, state |-> "open"]
<1>3. c \in Conn /\ c.jwt = slots[i].jwt /\ c.state = "open"
      /\ conns' = Append(conns, c)
  BY <1>2 DEF Conn, DialDone
<1> HIDE DEF c
<1>4. /\ conns' \in Seq(Conn) /\ Len(conns') = Len(conns) + 1
      /\ Len(conns) \in Nat /\ conns'[Len(conns) + 1] = c
  BY <1>1, <1>3, ConnAdded
<1>5. Len(conns') <= MaxConns
  BY <1>4 DEF DialDone, StoreAssumption
<1>6. ConnsInv' /\ HandlesAgree'
  BY <1>1, <1>2, <1>3, <1>4, <1>5 DEF ConnsInv, HandlesAgree, DialDone
<1>7. FeedInv'
  BY <1>1, <1>4, FeedStopped DEF DialDone
<1>8. SlotsInv'
  <2> DEFINE r == [Idle EXCEPT !.step = "find", !.conn = Len(conns'),
                               !.cells = CellsOf[slots[i].jwt],
                               !.then = "connect"]
  <2>1. Become(i, r)
    BY DEF DialDone
  <2>2. Len(conns') \in 0..MaxConns
    BY <1>4, <1>5 DEF StoreAssumption
  <2>3. r \in Call /\ r.step = "find" /\ r.conn = Len(conns')
    BY <1>2, <2>2 DEF Idle, Call
  <2> HIDE DEF r
  <2> QED
    BY <1>1, <1>4, <2>1, <2>3, SlotsKept
<1>9. NoDuplicates'
  BY <1>1, BufferUnchanged DEF DialDone
<1> QED
  BY <1>6, <1>7, <1>8, <1>9 DEF Core

LEMMA DrainDoneKeeps ==
  ASSUME StoreAssumption, Core, NEW i \in Slots, DrainDone(i)
  PROVE  Core'
<1>1. ConnsInv /\ FeedInv /\ SlotsInv /\ HandlesAgree /\ NoDuplicates
  BY DEF Core
<1>2. Len(conns) \in Nat
  BY <1>1, LenProperties DEF ConnsInv
<1>3. slots[i].conn \in 1..Len(conns) /\ slots[i].jwt \in Jwts
  BY <1>1, <1>2 DEF SlotsInv, DrainDone
<1>4. status' \in {"disconnected", "connecting"}
      /\ (messages' = messages \/ messages' = <<>>)
  BY DEF DrainDone, BeginDial
<1>5. ConnsInv' /\ HandlesAgree' /\ Len(conns') = Len(conns)
  BY <1>1, <1>3, <1>4, ForgetKeeps DEF DrainDone
<1>6. FeedInv' /\ NoDuplicates'
  BY <1>1, <1>2, <1>4, <1>5, FeedUnchanged, BufferUnchanged DEF DrainDone
<1>7. SlotsInv'
  <2>1. CASE slots[i].then = "connect"
    <3> DEFINE r == [Idle EXCEPT !.step = "dial", !.jwt = slots[i].jwt]
    <3>1. r \in Call /\ r.conn = 0 /\ r.step = "dial" /\ r.jwt = slots[i].jwt
      BY <1>3, IdleIsCall DEF Idle, Call
    <3>2. Become(i, r)
      BY <2>1 DEF DrainDone, BeginDial
    <3> HIDE DEF r
    <3> QED
      BY <1>1, <1>2, <1>3, <1>5, <3>1, <3>2, SlotsKept
  <2>2. CASE slots[i].then # "connect"
    <3>1. Become(i, Idle) /\ Idle.conn = 0 /\ Idle.step = "idle"
      BY <2>2 DEF DrainDone, Return, Idle
    <3> QED
      BY <1>1, <1>2, <1>5, <3>1, IdleIsCall, SlotsKept
  <2> QED
    BY <2>1, <2>2
<1> QED
  BY <1>5, <1>6, <1>7 DEF Core

LEMMA LostKeeps ==
  ASSUME Core, NEW c \in DOMAIN conns, Lost(c)
  PROVE  Core'
<1>1. ConnsInv /\ FeedInv /\ SlotsInv /\ HandlesAgree /\ NoDuplicates
  BY DEF Core
<1>2. Len(conns) \in Nat /\ c \in 1..Len(conns)
  BY <1>1, LenProperties DEF ConnsInv
<1>3. ConnsInv' /\ HandlesAgree' /\ Len(conns') = Len(conns)
  BY <1>1, <1>2, ForgetKeeps DEF Lost
<1>4. FeedInv' /\ NoDuplicates'
  BY <1>1, <1>2, <1>3, FeedUnchanged, BufferUnchanged DEF Lost, feed
<1>5. SlotsInv'
  BY <1>1, <1>2, <1>3, SlotsUnchanged DEF Lost
<1> QED
  BY <1>3, <1>4, <1>5 DEF Core

(* The page is loaded anew: all connections are closed, all consumers      *)
(* stopped.                                                                *)
LEMMA RedirectKeeps ==
  ASSUME StoreAssumption, Core, Redirect
  PROVE  Core'
<1>1. ConnsInv /\ FeedInv /\ SlotsInv /\ HandlesAgree /\ NoDuplicates
  BY DEF Core
<1>2. /\ Len(conns) \in Nat /\ DOMAIN conns = 1..Len(conns)
      /\ \A c \in 1..Len(conns) : conns[c] \in Conn
      /\ Len(consumers) \in Nat /\ DOMAIN consumers = 1..Len(consumers)
      /\ \A k \in 1..Len(consumers) : consumers[k] \in Consumer
  BY <1>1, LenProperties, ElementOfSeq DEF ConnsInv, FeedInv
<1>3. conns' \in Seq(Conn) /\ Len(conns') = Len(conns)
  <2>1. conns' = [c \in 1..Len(conns) |-> [conns[c] EXCEPT !.state = "closed"]]
    BY <1>2 DEF Redirect
  <2>2. \A c \in 1..Len(conns) : [conns[c] EXCEPT !.state = "closed"] \in Conn
    BY <1>2 DEF Conn
  <2>3. conns' \in [1..Len(conns) -> Conn]
    BY <2>1, <2>2
  <2> QED
    BY <1>2, <2>3, SeqDef
<1>4. /\ consumers' \in Seq(Consumer) /\ Len(consumers') = Len(consumers)
      /\ DOMAIN consumers' = 1..Len(consumers)
      /\ \A k \in 1..Len(consumers) :
           /\ consumers'[k].conn = consumers[k].conn
           /\ consumers'[k].start = consumers[k].start
           /\ consumers'[k].cursor = consumers[k].cursor
  <2> DEFINE e(k) == [consumers[k] EXCEPT !.stopped = TRUE]
  <2>1. consumers' = [k \in 1..Len(consumers) |-> e(k)]
    BY <1>2 DEF Redirect
  <2>2. \A k \in 1..Len(consumers) :
          /\ e(k) \in Consumer /\ e(k).conn = consumers[k].conn
          /\ e(k).start = consumers[k].start
          /\ e(k).cursor = consumers[k].cursor
    BY <1>2 DEF Consumer
  <2> HIDE DEF e
  <2>3. consumers' \in [1..Len(consumers) -> Consumer]
    BY <2>1, <2>2
  <2>4. consumers' \in Seq(Consumer) /\ Len(consumers') = Len(consumers)
    BY <1>2, <2>3, SeqDef
  <2> QED
    BY <2>1, <2>2, <2>4
<1>5. ConnsInv' /\ HandlesAgree'
  BY <1>1, <1>2, <1>3 DEF ConnsInv, HandlesAgree, Redirect, ForgetConnection
<1>6. FeedInv'
  BY <1>1, <1>2, <1>3, <1>4, EmptySeq DEF FeedInv, Redirect
<1>7. SlotsInv'
  <2>1. slots' \in [Slots -> Call] /\ \A i \in Slots : slots'[i] = Idle
    BY IdleIsCall DEF Redirect
  <2>2. Idle.conn = 0 /\ Idle.step = "idle"
    BY DEF Idle
  <2> QED
    BY <1>2, <1>3, <2>1, <2>2 DEF SlotsInv, At
<1>8. NoDuplicates'
  BY <1>1, BufferUnchanged DEF Redirect
<1> QED
  BY <1>5, <1>6, <1>7, <1>8 DEF Core

LEMMA CallEnds ==
  ASSUME StoreAssumption, ConnsInv, SlotsInv, NEW i \in Slots, Return(i),
         UNCHANGED conns
  PROVE  SlotsInv'
<1>1. Become(i, Idle) /\ Idle.conn = 0 /\ Idle.step = "idle"
  BY DEF Return, Idle
<1>2. Len(conns) \in Nat
  BY LenProperties DEF ConnsInv
<1> QED
  BY <1>1, <1>2, IdleIsCall, SlotsKept

LEMMA DialFailsKeeps ==
  ASSUME StoreAssumption, Core, NEW i \in Slots, DialFails(i)
  PROVE  Core'
<1>1. SlotsInv'
  BY CallEnds DEF Core, DialFails, handles
<1> QED
  BY <1>1 DEF Core, ConnsInv, FeedInv, HandlesAgree, NoDuplicates, DialFails,
              handles, feed

LEMMA FindDoneKeeps ==
  ASSUME StoreAssumption, Core, NEW i \in Slots, FindDone(i)
  PROVE  Core'
<1>1. /\ ConnsInv /\ SlotsInv /\ Len(conns) \in Nat /\ MaxConns \in Nat
      /\ jetstream \in 0..Len(conns) /\ Len(conns) <= MaxConns
      /\ jetstream # 0 /\ slots[i] \in Call
  BY LenProperties DEF Core, ConnsInv, SlotsInv, FindDone, StoreAssumption
<1> DEFINE r == [slots[i] EXCEPT !.step = "consume", !.conn = jetstream]
<1>2. r \in Call /\ r.step = "consume" /\ r.conn = jetstream
  <2>1. jetstream \in 0..MaxConns
    BY <1>1
  <2> QED
    BY <1>1, <2>1 DEF Call
<1>3. Become(i, r)
  BY DEF FindDone
<1> HIDE DEF r
<1>4. SlotsInv'
  BY <1>1, <1>2, <1>3, SlotsKept DEF FindDone, handles
<1> QED
  BY <1>4 DEF Core, ConnsInv, FeedInv, HandlesAgree, NoDuplicates, FindDone,
              handles, feed

(* A consumer is added. *)
LEMMA ConsumerAdded ==
  ASSUME ConnsInv, FeedInv, SlotsInv, NEW i \in Slots, ConsumeDone(i)
  PROVE  /\ consumers' \in Seq(Consumer)
         /\ Len(consumers) \in Nat /\ Len(consumers') = Len(consumers) + 1
         /\ DOMAIN consumers = 1..Len(consumers)
         /\ DOMAIN consumers' = 1..Len(consumers) + 1
         /\ \A k \in 1..Len(consumers) : consumers'[k] = consumers[k]
         /\ consumers'[Len(consumers) + 1] =
              [conn |-> slots[i].conn, cells |-> slots[i].cells,
               last |-> slots[i].last, start |-> Len(stream), cursor |-> 0,
               stopped |-> FALSE]
         /\ consumerMessages' = Len(consumers) + 1
<1>1. /\ slots[i].conn \in Nat /\ slots[i].cells \in SUBSET Cells
      /\ slots[i].last \in BOOLEAN
      /\ Len(consumers) \in Nat /\ DOMAIN consumers = 1..Len(consumers)
      /\ Len(stream) \in Nat
  BY LenProperties DEF ConnsInv, FeedInv, SlotsInv, Call
<1> DEFINE e == [conn |-> slots[i].conn, cells |-> slots[i].cells,
                 last |-> slots[i].last, start |-> Len(stream), cursor |-> 0,
                 stopped |-> FALSE]
<1>2. e \in Consumer
  BY <1>1 DEF Consumer
<1>3. consumers' = Append(consumers, e) /\ consumerMessages' = Len(consumers')
  BY DEF ConsumeDone
<1>4. /\ consumers' \in Seq(Consumer) /\ Len(consumers') = Len(consumers) + 1
      /\ \A k \in 1..Len(consumers) : consumers'[k] = consumers[k]
      /\ consumers'[Len(consumers) + 1] = e
  <2> HIDE DEF e
  <2> QED BY <1>2, <1>3, AppendProperties DEF FeedInv
<1>5. DOMAIN consumers' = 1..Len(consumers) + 1
  BY <1>4, LenProperties
<1> QED
  BY <1>1, <1>3, <1>4, <1>5

LEMMA ConsumeDoneKeeps ==
  ASSUME StoreAssumption, Core, NEW i \in Slots, ConsumeDone(i)
  PROVE  Core'
<1>1. ConnsInv /\ FeedInv /\ SlotsInv /\ HandlesAgree /\ NoDuplicates
  BY DEF Core
<1>2. slots[i].conn \in 1..Len(conns)
  BY <1>1, LenProperties DEF SlotsInv, ConsumeDone, ConnsInv
<1>3. /\ UNCHANGED <<stream, messages, conns, connection, connectedJwt,
                     jetstream, status>>
      /\ Return(i)
  BY DEF ConsumeDone, handles
<1>4. Len(stream) \in Nat
  BY <1>1, LenProperties DEF FeedInv
<1>5. FeedInv'
  <2>1. /\ consumers' \in Seq(Consumer)
        /\ Len(consumers) \in Nat /\ Len(consumers') = Len(consumers) + 1
        /\ DOMAIN consumers = 1..Len(consumers)
        /\ DOMAIN consumers' = 1..Len(consumers) + 1
        /\ \A k \in 1..Len(consumers) : consumers'[k] = consumers[k]
        /\ consumers'[Len(consumers) + 1].conn = slots[i].conn
        /\ consumers'[Len(consumers) + 1].start = Len(stream)
        /\ consumers'[Len(consumers) + 1].cursor = 0
        /\ consumerMessages' = Len(consumers) + 1
    <3>1. consumers'[Len(consumers) + 1] =
            [conn |-> slots[i].conn, cells |-> slots[i].cells,
             last |-> slots[i].last, start |-> Len(stream), cursor |-> 0,
             stopped |-> FALSE]
      BY <1>1, ConsumerAdded
    <3>2. /\ consumers'[Len(consumers) + 1].conn = slots[i].conn
          /\ consumers'[Len(consumers) + 1].start = Len(stream)
          /\ consumers'[Len(consumers) + 1].cursor = 0
      BY <3>1
    <3> QED
      BY <1>1, <3>2, ConsumerAdded
  <2>2. ASSUME NEW k \in DOMAIN consumers'
        PROVE  /\ consumers'[k].conn \in 1..Len(conns)
               /\ consumers'[k].start <= Len(stream)
               /\ consumers'[k].cursor <= Len(stream)
    <3>1. CASE k \in 1..Len(consumers)
      BY <1>1, <2>1, <3>1 DEF FeedInv
    <3>2. CASE k = Len(consumers) + 1
      BY <1>2, <1>4, <2>1, <3>2
    <3> QED
      BY <2>1, <3>1, <3>2
  <2>3. consumerMessages' \in 0..Len(consumers')
    BY <2>1
  <2> QED
    BY <1>1, <1>3, <2>1, <2>2, <2>3 DEF FeedInv
<1>6. SlotsInv'
  BY <1>1, <1>3, CallEnds
<1> QED
  BY <1>1, <1>3, <1>5, <1>6 DEF Core, ConnsInv, HandlesAgree, NoDuplicates

LEMMA SubscribeFailsKeeps ==
  ASSUME StoreAssumption, Core, NEW i \in Slots, SubscribeFails(i)
  PROVE  Core'
<1>1. SlotsInv'
  BY CallEnds DEF Core, SubscribeFails, handles
<1> QED
  BY <1>1 DEF Core, ConnsInv, FeedInv, HandlesAgree, NoDuplicates,
              SubscribeFails, handles, feed

LEMMA SubscribeKeeps ==
  ASSUME StoreAssumption, Core, NEW i \in Slots, Subscribe(i)
  PROVE  Core'
<1>1. ConnsInv /\ FeedInv /\ SlotsInv /\ HandlesAgree /\ NoDuplicates
  BY DEF Core
<1>2. Len(conns) \in Nat /\ connection \in 1..Len(conns)
      /\ connection \in 0..MaxConns
  BY <1>1, LenProperties DEF ConnsInv, Subscribe, StoreAssumption
<1>3. UNCHANGED <<stream, conns, connection, connectedJwt, jetstream,
                  consumerMessages, status>>
  BY DEF Subscribe, handles
<1>4. FeedInv' /\ NoDuplicates'
  <2>1. messages' = messages \/ messages' = <<>>
    BY DEF Subscribe
  <2>2. conns' \in Seq(Conn)
    BY <1>1, <1>3 DEF ConnsInv
  <2>3. FeedInv'
    BY <1>1, <1>2, <1>3, <2>1, <2>2, FeedStopped DEF Subscribe
  <2> QED
    BY <1>1, <2>1, <2>3, BufferUnchanged
<1>5. SlotsInv'
  <2> DEFINE r == [Idle EXCEPT !.step = "find", !.conn = connection,
                               !.cells = Cells, !.last = (view = "overview")]
  <2>1. r \in Call /\ r.step = "find" /\ r.conn = connection
    BY <1>2 DEF Call, Idle
  <2>2. Become(i, r)
    BY DEF Subscribe
  <2> HIDE DEF r
  <2> QED
    BY <1>1, <1>2, <1>3, <2>1, <2>2, SlotsKept
<1> QED
  BY <1>1, <1>3, <1>4, <1>5 DEF Core, ConnsInv, HandlesAgree

LEMMA ClearKeeps ==
  ASSUME Core, ClearMessages
  PROVE  Core'
<1>1. ConnsInv /\ FeedInv /\ SlotsInv /\ HandlesAgree /\ NoDuplicates
  BY DEF Core
<1>2. FeedInv' /\ NoDuplicates' /\ SlotsInv'
  BY <1>1, LenProperties, FeedUnchanged, BufferUnchanged, SlotsUnchanged
     DEF ClearMessages, handles, ConnsInv
<1> QED
  BY <1>1, <1>2 DEF Core, ConnsInv, HandlesAgree, ClearMessages, handles

LEMMA DisconnectKeeps ==
  ASSUME StoreAssumption, Core, NEW i \in Slots, NEW then \in {"end", "logout"},
         creds \in Jwts \cup {None}, Disconnect(i, then)
  PROVE  Core'
<1>1. CASE connection # 0 /\ BeginDrain(i, then)
  BY <1>1, DrainKeeps DEF Disconnect
<1>2. CASE UNCHANGED <<conns, consumers, consumerMessages, slots>>
  BY <1>2, CoreStutters DEF Disconnect, handles, feed
<1> QED
  BY <1>1, <1>2 DEF Disconnect

LEMMA MountKeeps ==
  ASSUME StoreAssumption, Core, creds \in Jwts \cup {None}, NEW i \in Slots,
         NEW v, Mount(v, i)
  PROVE  Core'
BY ConnectKeeps DEF Mount

-----------------------------------------------------------------------------
(* The first layer is kept, whatever overlaps. *)

LEMMA StoreStarts ==
  ASSUME StoreAssumption, Init
  PROVE  StoreInv
<1>1. Idle \in Call /\ Idle.conn = 0 /\ Idle.step = "idle"
  BY IdleIsCall DEF Idle
<1>2. SlotsInv
  BY <1>1 DEF Init, SlotsInv, At
<1>3. /\ <<>> \in Seq(Conn) /\ <<>> \in Seq(Consumer) /\ <<>> \in Seq(Results)
      /\ <<>> \in Seq(1..0) /\ Len(<<>>) = 0 /\ DOMAIN <<>> = {}
  OBVIOUS
<1>4. ConnsInv /\ HandlesAgree
  BY <1>3 DEF Init, ConnsInv, HandlesAgree, StoreAssumption
<1>5. FeedInv
  BY <1>3 DEF Init, FeedInv
<1>6. NoDuplicates
  BY <1>3 DEF Init, NoDuplicates
<1>7. PageInv
  <2>1. uses \in 0..MaxUses
    BY DEF Init, StoreAssumption
  <2> QED
    BY <2>1 DEF Init, PageInv
<1> QED
  BY <1>2, <1>4, <1>5, <1>6, <1>7 DEF StoreInv, Core

LEMMA PageKept ==
  ASSUME StoreAssumption, StoreInv, [Next]_vars
  PROVE  PageInv'
<1>1. PageInv /\ MaxUses \in Nat
  BY DEF StoreInv, StoreAssumption
<1>2. CASE UNCHANGED vars
  BY <1>1, <1>2 DEF PageInv, vars, page
<1>3. CASE Next
  <2>1. overlapped' \in BOOLEAN
    BY <1>1, <1>3 DEF Next, PageInv
  <2>2. uses' \in 0..MaxUses
    <3>1. CASE Calls
      BY <1>1, <3>1 DEF PageInv, Calls, Subscribe, Mount, Disconnect, Use
    <3>2. ASSUME NEW i \in Slots, Resume(i)
          PROVE  uses' = uses
      BY <3>2 DEF Resume, DialDone, DialFails, DrainDone, FindDone,
        ConsumeDone,
         SubscribeFails
    <3>3. CASE GoesOn
      BY <1>1, <3>2, <3>3 DEF PageInv, GoesOn, Publish, Receive, Lost, Login,
         Redirect, ClearMessages, Use
    <3> QED
      BY <1>3, <3>1, <3>3 DEF Next
  <2>3. CASE Calls
    BY <1>1, <2>1, <2>2, <2>3 DEF PageInv, Calls, Subscribe, Mount, Disconnect
  <2>4. CASE GoesOn
    BY <1>1, <2>1, <2>2, <2>4, ZenonT(60) DEF PageInv, GoesOn, Resume, Publish,
       Receive, Lost, Login, Redirect, ClearMessages, DialDone, DialFails, DrainDone,
       FindDone, ConsumeDone, SubscribeFails, page
  <2> QED
    BY <1>3, <2>3, <2>4 DEF Next
<1> QED
  BY <1>2, <1>3

LEMMA CoreKept ==
  ASSUME StoreAssumption, StoreInv, [Next]_vars
  PROVE  Core'
<1>1. Core /\ creds \in Jwts \cup {None}
  BY DEF StoreInv, PageInv
<1>2. CASE UNCHANGED vars
  BY <1>1, <1>2, CoreStutters DEF vars
<1>3. CASE Calls
  BY <1>1, <1>3, SubscribeKeeps, MountKeeps, DisconnectKeeps DEF Calls
<1>4. CASE GoesOn
  <2>1. ASSUME NEW i \in Slots, Resume(i)
        PROVE  Core'
    BY <1>1, <2>1, DialDoneKeeps, DialFailsKeeps, DrainDoneKeeps,
      FindDoneKeeps,
       ConsumeDoneKeeps, SubscribeFailsKeeps DEF Resume
  <2>2. ASSUME NEW j \in Jwts, Login(j)
        PROVE  Core'
    BY <1>1, <2>2, CoreStutters DEF Login
  <2> QED
    BY <1>1, <1>4, <2>1, <2>2, PublishKeeps, ReceiveKeeps, LostKeeps,
       RedirectKeeps, ClearKeeps DEF GoesOn
<1> QED
  BY <1>2, <1>3, <1>4 DEF Next

LEMMA StoreFits ==
  ASSUME StoreAssumption, StoreInv
  PROVE  HandlesFit
<1>1. ConnsInv /\ FeedInv /\ SlotsInv /\ PageInv /\ HandlesAgree
  BY DEF StoreInv, Core
<1>2. \A i \in Slots : At(i, "find") \/ At(i, "consume") => slots[i].conn # 0
  BY <1>1 DEF SlotsInv
<1> QED
  BY <1>1, <1>2 DEF HandlesFit, TypeOK, ConnsInv, FeedInv, SlotsInv, PageInv,
    Conn

LEMMA StoreInvariant ==
  ASSUME StoreAssumption
  PROVE  Spec => []StoreInv
<1>1. Init => StoreInv
  BY StoreStarts
<1>2. StoreInv /\ [Next]_vars => StoreInv'
  BY PageKept, CoreKept DEF StoreInv
<1> QED
  BY <1>1, <1>2, PTL DEF Spec

(* The page's handles belong together at all times: the JetStream handle   *)
(* and the token are those of the connection, which is not a closed one,   *)
(* and the status shown does not contradict it, though calls overlap, the  *)
(* network closes connections and the page is loaded anew.                 *)
THEOREM HandlesFitAlways == Spec => []HandlesFit
<1>1. StoreInv => HandlesFit
  BY StoreAssumption, StoreFits
<1>2. Spec => []StoreInv
  BY StoreAssumption, StoreInvariant
<1> QED
  BY <1>1, <1>2, PTL

(* No message is in the buffer twice, however many consumers feed it.      *)
THEOREM NoDuplicatesAlways == Spec => []NoDuplicates
<1>1. StoreInv => NoDuplicates
  BY DEF StoreInv, Core
<1>2. Spec => []StoreInv
  BY StoreAssumption, StoreInvariant
<1> QED
  BY <1>1, <1>2, PTL

-----------------------------------------------------------------------------
(* The second layer: no call has begun before the one in progress ended.   *)

(* The token is one of those the mounted view is for. *)
FitsView(jwt) == view # None /\ (jwt \in Overseers <=> view # "own")

Subscribing(i) == At(i, "find") \/ At(i, "consume")

OneCall == \A i, j \in Slots : ~Free(i) /\ ~Free(j) => i = j

(* A connection that is not the page's is closed; the page's connection is *)
(* open until a call drains it, and there is none while a call dials.      *)
OneConnection ==
  /\ \A c \in 1..Len(conns) : conns[c].state # "closed" => c = connection
  /\ \A i \in Slots : At(i, "drain") => /\ slots[i].conn = connection
                                        /\ conns[connection].state = "draining"
  /\ \A i \in Slots : At(i, "dial") => connection = 0 /\ messages = <<>>
  /\ connection # 0 /\ ~IsOpen(connection) => \E i \in Slots : At(i, "drain")

OneConsumer ==
  \A k \in 1..Len(consumers) :
    Active(k) => k = consumerMessages /\ \A i \in Slots : ~Subscribing(i)

(* Who is connected, or will be, is the one the view was mounted for. *)
UserFits ==
  /\ \A i \in Slots : At(i, "dial") \/ (At(i, "drain") /\ slots[i].then = "connect")
                        => FitsView(slots[i].jwt)
  /\ connection # 0 /\ (\A i \in Slots : ~At(i, "drain")) => FitsView(connectedJwt)

(* What a team's page subscribes to and holds is the team's. *)
OwnCells ==
  connection # 0 /\ connectedJwt \notin Overseers =>
    /\ \A k \in 1..Len(consumers) :
         Active(k) => consumers[k].cells \subseteq CellsOf[connectedJwt]
    /\ \A i \in Slots :
         Subscribing(i) => slots[i].cells \subseteq CellsOf[connectedJwt]
    /\ \A i \in DOMAIN messages :
         stream[messages[i]].cell \in CellsOf[connectedJwt]

Wanted(k, s) ==
  /\ stream[s].cell \in consumers[k].cells
  /\ consumers[k].last => s > consumers[k].start \/ IsLast(s, consumers[k].start)

(* The buffer is the end of what the consumer has handed on, in order. *)
Ordered(k) ==
  /\ \A i, j \in DOMAIN messages : i < j => messages[i] < messages[j]
  /\ \A i \in DOMAIN messages :
       messages[i] <= consumers[k].cursor /\ stream[messages[i]].cell \in consumers[k].cells
  /\ \A i \in DOMAIN messages, s \in 1..consumers[k].cursor :
       messages[i] < s /\ Wanted(k, s) => \E j \in DOMAIN messages : messages[j] = s

BufferInOrder ==
  InOrder =>
    /\ \A i \in Slots : Subscribing(i) => messages = <<>>
    /\ \A k \in 1..Len(consumers) : Active(k) => Ordered(k)

Serial == /\ OneCall /\ OneConnection /\ OneConsumer
          /\ UserFits /\ OwnCells /\ BufferInOrder

AllFree == \A i \in Slots : Free(i)
NoneActive == \A k \in 1..Len(consumers) : ~Active(k)
AllClosed == \A c \in 1..Len(conns) : conns[c].state = "closed"

LEMMA IdleIsNoStep == Idle.step = "idle"
BY DEF Idle

LEMMA FreeIsIdle ==
  ASSUME NEW i \in Slots, Free(i)
  PROVE  /\ ~At(i, "drain") /\ ~At(i, "dial") /\ ~At(i, "find")
         /\ ~At(i, "consume")
BY IdleIsNoStep DEF Free, At

(* The others wait for a call to return. *)
LEMMA Alone ==
  ASSUME OneCall, NEW i \in Slots, slots[i].step # "idle"
  PROVE  \A j \in Slots : j # i => Free(j)
BY IdleIsNoStep DEF OneCall, Free

LEMMA OnlyMoves ==
  ASSUME SlotsInv, NEW i \in Slots, \A j \in Slots : j # i => Free(j),
         NEW r, Become(i, r)
  PROVE  /\ slots'[i] = r /\ OneCall'
         /\ \A j \in Slots : j # i => slots'[j] = Idle
<1>1. slots'[i] = r /\ \A j \in Slots : j # i => slots'[j] = Idle
  BY DEF SlotsInv, Become, Free
<1> QED
  BY <1>1 DEF OneCall, Free

LEMMA ClosedFeedsNothing ==
  ASSUME FeedInv, AllClosed
  PROVE  NoneActive
BY LenProperties DEF FeedInv, AllClosed, NoneActive, Active

(* Once the last consumer is stopped no consumer feeds the buffer. *)
LEMMA LastStopped ==
  ASSUME FeedInv, OneConsumer, consumers' = Stopped(consumerMessages),
         \A c \in 1..Len(conns) : conns'[c].state # "closed" => conns[c].state # "closed"
  PROVE  NoneActive'
<1>1. /\ Len(consumers') = Len(consumers)
      /\ DOMAIN consumers = 1..Len(consumers)
      /\ \A k \in 1..Len(consumers) :
           /\ consumers'[k].conn = consumers[k].conn
           /\ (consumers'[k].stopped <=> consumers[k].stopped \/ k = consumerMessages)
  BY StoppedConsumers DEF FeedInv
<1>2. ASSUME NEW k \in 1..Len(consumers), Active(k)'
      PROVE  FALSE
  <2>1. ~consumers[k].stopped /\ k # consumerMessages
    BY <1>1, <1>2 DEF Active
  <2>2. consumers[k].conn \in 1..Len(conns)
    BY <1>1 DEF FeedInv
  <2>3. conns[consumers[k].conn].state # "closed"
    BY <1>1, <1>2, <2>2 DEF Active
  <2> QED
    BY <2>1, <2>3 DEF Active, OneConsumer
<1> QED
  BY <1>1, <1>2 DEF NoneActive

LEMMA SerialStutters ==
  ASSUME Serial,
         UNCHANGED <<stream, view, effect, conns, connection, connectedJwt,
                     consumers, consumerMessages, messages, slots>>
  PROVE  Serial'
BY DEF Serial, OneCall, OneConnection, OneConsumer, UserFits, OwnCells,
   BufferInOrder, Free, At, IsOpen, Active, FitsView, Subscribing, Wanted,
   Ordered, InOrder, IsLast

(* A call other than a drain returns. *)
LEMMA ReturnIsSerial ==
  ASSUME SlotsInv, Serial, NEW i \in Slots, slots[i].step # "idle",
         ~At(i, "drain"), Return(i),
         UNCHANGED <<stream, view, effect, conns, connection, connectedJwt,
                     consumers, consumerMessages, messages>>
  PROVE  Serial'
<1>1. \A j \in Slots : j # i => Free(j)
  BY Alone DEF Serial
<1>2. /\ OneCall' /\ \A j \in Slots : slots'[j] = Idle
  BY <1>1, OnlyMoves DEF Return
<1>3. \A j \in Slots : ~At(j, "drain")
  BY <1>1, FreeIsIdle
<1>4. \A j \in Slots : slots'[j].step = "idle"
  BY <1>2, IdleIsNoStep
<1>5. OneConnection'
  BY <1>3, <1>4 DEF Serial, OneConnection, At, IsOpen
<1>6. OneConsumer' /\ UserFits'
  BY <1>3, <1>4 DEF Serial, OneConsumer, UserFits, At, Active, FitsView,
    Subscribing
<1>7. OwnCells' /\ BufferInOrder'
  BY <1>3, <1>4 DEF Serial, OwnCells, BufferInOrder, At, Active, Subscribing,
     Wanted, Ordered, InOrder, IsLast
<1> QED
  BY <1>2, <1>5, <1>6, <1>7 DEF Serial

-----------------------------------------------------------------------------
(* Every step of the second layer. *)

LEMMA PublishIsSerial ==
  ASSUME StoreInv, Serial, NEW m \in Results, Publish(m)
  PROVE  Serial'
<1>1. /\ FeedInv /\ Len(stream) \in Nat /\ stream \in Seq(Results)
      /\ Len(messages) \in Nat /\ DOMAIN messages = 1..Len(messages)
      /\ messages \in Seq(1..Len(stream))
      /\ DOMAIN consumers = 1..Len(consumers)
  BY LenProperties DEF StoreInv, Core, FeedInv
<1>2. /\ UNCHANGED <<view, effect, conns, connection, connectedJwt, consumers,
                     consumerMessages, messages, slots>>
      /\ stream' = Append(stream, m)
  BY DEF Publish, page, handles, feed
<1>3. \A s \in 1..Len(stream) : stream'[s] = stream[s]
  BY <1>1, <1>2, AppendProperties
<1>4. \A i \in DOMAIN messages : stream'[messages[i]] = stream[messages[i]]
  BY <1>1, <1>3, ElementOfSeq
<1>5. ASSUME NEW k \in 1..Len(consumers), NEW s \in 1..consumers[k].cursor
      PROVE  Wanted(k, s)' <=> Wanted(k, s)
  <2>1. /\ consumers[k] \in Consumer
        /\ consumers[k].cursor <= Len(stream) /\ consumers[k].start <= Len(stream)
    BY <1>1, ElementOfSeq DEF FeedInv
  <2>2. s \in 1..Len(stream)
        /\ (s + 1)..consumers[k].start \subseteq 1..Len(stream)
    BY <1>1, <2>1 DEF Consumer
  <2>3. stream'[s] = stream[s]
        /\ \A q \in (s + 1)..consumers[k].start : stream'[q] = stream[q]
    BY <1>3, <2>2
  <2> QED
    BY <1>2, <2>3 DEF Wanted, IsLast
<1>6. OneCall' /\ OneConnection' /\ OneConsumer' /\ UserFits'
  BY <1>2 DEF Serial, OneCall, OneConnection, OneConsumer, UserFits, Free, At,
     IsOpen, Active, FitsView, Subscribing
<1>7. OwnCells'
  BY <1>2, <1>4 DEF Serial, OwnCells, At, Active, Subscribing
<1>8. BufferInOrder'
  <2>1. \A k \in 1..Len(consumers) : Ordered(k) => Ordered(k)'
    BY <1>2, <1>4, <1>5 DEF Ordered
  <2> QED
    BY <1>2, <2>1 DEF Serial, BufferInOrder, At, Active, Subscribing, InOrder
<1> QED
  BY <1>6, <1>7, <1>8 DEF Serial

(* The next message is put at the end. *)
LEMMA ReceivedInOrder ==
  ASSUME StoreAssumption, FeedInv, NEW k \in 1..Len(consumers), Ordered(k),
         NEW s \in Selected(k), \A q \in Selected(k) : s <= q,
         consumers' = [consumers EXCEPT ![k].cursor = s],
         messages' = Newest(AddMessage(s)), UNCHANGED stream
  PROVE  Ordered(k)'
<1> DEFINE n == Len(messages)
           q == AddMessage(s)
<1>1. /\ DOMAIN consumers = 1..Len(consumers) /\ n \in Nat
      /\ DOMAIN messages = 1..n /\ Len(stream) \in Nat
      /\ \A i \in 1..n : messages[i] \in 1..Len(stream)
  BY LenProperties, ElementOfSeq DEF FeedInv
<1>2. /\ s \in 1..Len(stream) /\ consumers[k].cursor < s
      /\ stream[s].cell \in consumers[k].cells /\ consumers[k] \in Consumer
  BY <1>1, SelectedFits
<1>3. consumers[k].cursor \in Nat /\ consumers[k].cells = consumers[k].cells
  BY <1>2 DEF Consumer
<1>4. \A i \in 1..n : /\ messages[i] <= consumers[k].cursor
                      /\ stream[messages[i]].cell \in consumers[k].cells
  BY <1>1 DEF Ordered
<1>5. \A i \in 1..n : messages[i] # s
  BY <1>1, <1>2, <1>3, <1>4
<1>6. s \notin Range(messages)
  <2>1. messages \in Seq(1..Len(stream)) BY DEF FeedInv
  <2>2. Range(messages) = {messages[i] : i \in 1..n} BY <2>1, RangeEquality
  <2> QED BY <1>5, <2>2
<1>7. /\ q \in Seq(1..Len(stream)) /\ Len(q) = n + 1 /\ q[n + 1] = s
      /\ \A i \in 1..n : q[i] = messages[i]
  BY <1>2, <1>6, MessageAdded
<1> HIDE DEF q
<1>8. /\ \A i, j \in 1..n + 1 : i < j => q[i] < q[j]
      /\ \A i \in 1..n + 1 : q[i] <= s /\ stream[q[i]].cell \in consumers[k].cells
      /\ \A i \in 1..n + 1 : q[i] \in Nat
  <2>1. \A i, j \in 1..n : i < j => messages[i] < messages[j]
    BY <1>1 DEF Ordered
  <2>2. \A i \in 1..n : /\ q[i] = messages[i] /\ q[i] \in Nat /\ q[i] < s
                        /\ stream[q[i]].cell \in consumers[k].cells
    <3>1. ASSUME NEW i \in 1..n
          PROVE  /\ messages[i] \in Nat /\ messages[i] < s
                 /\ stream[messages[i]].cell \in consumers[k].cells
      <4>1. messages[i] \in 1..Len(stream) /\ messages[i] <= consumers[k].cursor
            /\ stream[messages[i]].cell \in consumers[k].cells
        BY <1>1, <1>4
      <4> QED
        BY <1>1, <1>2, <1>3, <4>1, SMTT(60)
    <3>2. \A i \in 1..n : q[i] = messages[i]
      BY <1>7
    <3> QED
      BY <3>1, <3>2
  <2>3. ASSUME NEW i \in 1..n + 1, NEW j \in 1..n + 1, i < j
        PROVE  q[i] < q[j]
    <3>1. i \in 1..n /\ (j \in 1..n \/ j = n + 1)
      BY <1>1, <2>3
    <3> QED
      BY <1>7, <2>1, <2>2, <2>3, <3>1
  <2>4. ASSUME NEW i \in 1..n + 1
        PROVE  q[i] \in Nat /\ q[i] <= s /\ stream[q[i]].cell \in consumers[k].cells
    <3>1. i \in 1..n \/ i = n + 1
      BY <1>1
    <3> QED
      BY <1>1, <1>2, <1>7, <2>2, <3>1, SMTT(60)
  <2> QED
    BY <2>3, <2>4
<1>9. ASSUME NEW i \in 1..n + 1, NEW t \in 1..s, q[i] < t, Wanted(k, t)
      PROVE  \E j \in 1..n + 1 : q[j] = t
  <2>1. CASE t <= consumers[k].cursor
    <3>1. i \in 1..n
      BY <1>1, <1>2, <1>3, <1>7, <1>9, <2>1, SMTT(60)
    <3>2. t \in 1..consumers[k].cursor /\ messages[i] < t
      BY <1>3, <1>7, <1>9, <2>1, <3>1, SMTT(60)
    <3>3. PICK j \in 1..n : messages[j] = t
      BY <1>1, <1>9, <3>1, <3>2 DEF Ordered
    <3>4. j \in 1..n + 1
      BY <1>1, <3>3
    <3>5. q[j] = t
      BY <1>7, <3>3
    <3> QED
      BY <3>4, <3>5
  <2>2. CASE t > consumers[k].cursor
    <3>1. t \in (consumers[k].cursor + 1)..Len(stream)
      BY <1>2, <1>3, <2>2, SMTT(60)
    <3>2. t \in Selected(k)
      BY <1>9, <3>1 DEF Selected, Wanted
    <3>3. t = s
      BY <1>2, <3>2
    <3>4. n + 1 \in 1..n + 1
      BY <1>1
    <3>5. q[n + 1] = t
      BY <1>7, <3>3
    <3> QED
      BY <3>4, <3>5
  <2> QED
    BY <1>3, <2>1, <2>2
<1>10. PICK d \in 0..n + 1 :
         /\ messages' \in Seq(1..Len(stream)) /\ Len(messages') = n + 1 - d
         /\ \A i \in 1..n + 1 - d : messages'[i] = q[i + d]
  <2>1. messages' = Newest(q)
    BY DEF q
  <2>2. \E d \in 0..Len(q) :
          /\ Newest(q) \in Seq(1..Len(stream)) /\ Len(Newest(q)) = Len(q) - d
          /\ \A i \in 1..Len(q) - d : Newest(q)[i] = q[i + d]
    <3>1. q \in Seq(1..Len(stream))
      BY <1>7
    <3> QED
      BY <3>1, NewestIsEnd
  <2>3. PICK d \in 0..Len(q) :
          /\ Newest(q) \in Seq(1..Len(stream)) /\ Len(Newest(q)) = Len(q) - d
          /\ \A i \in 1..Len(q) - d : Newest(q)[i] = q[i + d]
    BY <2>2
  <2>4. d \in 0..n + 1 /\ Len(messages') = n + 1 - d
    BY <1>7, <2>1, <2>3
  <2>5. ASSUME NEW i \in 1..n + 1 - d
        PROVE  messages'[i] = q[i + d]
    <3>1. Len(q) - d = n + 1 - d
      BY <1>7
    <3>2. Newest(q)[i] = q[i + d]
      BY <2>3, <3>1, ZenonT(60)
    <3> QED
      BY <2>1, <3>2, ZenonT(60)
  <2> QED
    BY <2>1, <2>3, <2>4, <2>5
<1>11. DOMAIN messages' = 1..n + 1 - d
  BY <1>10, LenProperties
<1>12. \A i \in 1..n + 1 - d : i + d \in 1..n + 1
  BY <1>1, SMTT(60)
<1>13. /\ consumers'[k].cells = consumers[k].cells
       /\ consumers'[k].last = consumers[k].last
       /\ consumers'[k].start = consumers[k].start
       /\ consumers'[k].cursor = s
  <2>1. s \in Nat /\ k \in DOMAIN consumers
    BY <1>1, <1>2
  <2>2. \A l \in DOMAIN consumers :
          /\ consumers'[l].cells = consumers[l].cells
          /\ consumers'[l].last = consumers[l].last
          /\ consumers'[l].start = consumers[l].start
          /\ consumers'[l].cursor = IF l = k THEN s ELSE consumers[l].cursor
    BY <2>1, CursorChange
  <2> QED
    BY <2>1, <2>2
<1>14. \A t : Wanted(k, t)' <=> Wanted(k, t)
  BY <1>13 DEF Wanted, IsLast
<1>15. ASSUME NEW i \in 1..n + 1 - d, NEW j \in 1..n + 1 - d, i < j
       PROVE  messages'[i] < messages'[j]
  <2>1. i + d < j + d
    BY <1>1, <1>15
  <2> QED
    BY <1>8, <1>10, <1>12, <2>1
<1>16. \A i \in 1..n + 1 - d :
         messages'[i] <= s /\ stream[messages'[i]].cell \in consumers[k].cells
  BY <1>8, <1>10, <1>12
<1>17. ASSUME NEW i \in 1..n + 1 - d, NEW t \in 1..s, messages'[i] < t,
              Wanted(k, t)
       PROVE  \E j \in 1..n + 1 - d : messages'[j] = t
  <2>1. i + d \in 1..n + 1 /\ q[i + d] < t
    BY <1>10, <1>12, <1>17
  <2>2. PICK j \in 1..n + 1 : q[j] = t
    BY <1>9, <1>17, <2>1
  <2>3. j > i + d
    <3> DEFINE e == i + d
    <3>1. e \in 1..n + 1 /\ q[e] < t /\ q[e] \in Nat /\ t \in Nat
      BY <1>8, <2>1, SMTT(60)
    <3> HIDE DEF e
    <3>2. ~(j < e)
      <4>1. j < e => q[j] < q[e]
        BY <1>8, <2>2, <3>1
      <4> QED
        BY <2>2, <3>1, <4>1, SMTT(60)
    <3>3. j # e
      BY <2>2, <3>1
    <3>4. j > e
      BY <1>1, <3>1, <3>2, <3>3, SMTT(60)
    <3> QED
      BY <3>4 DEF e
  <2>4. j - d \in 1..n + 1 - d /\ (j - d) + d = j
    BY <1>1, <2>3, SMTT(60)
  <2> QED
    BY <1>10, <2>2, <2>4
<1> QED
  BY <1>11, <1>13, <1>14, <1>15, <1>16, <1>17 DEF Ordered

LEMMA ReceiveIsSerial ==
  ASSUME StoreAssumption, StoreInv, Serial, NEW k \in DOMAIN consumers, Receive(k)
  PROVE  Serial'
<1>1. FeedInv /\ ConnsInv
  BY DEF StoreInv, Core
<1>2. PICK s \in Selected(k) :
        /\ \A q \in Selected(k) : s <= q
        /\ consumers' = [consumers EXCEPT ![k].cursor = s]
        /\ messages' = Newest(AddMessage(s))
  BY DEF Receive
<1>3. /\ UNCHANGED <<stream, view, effect, conns, connection, connectedJwt,
                     consumerMessages, slots>>
      /\ Active(k)
  BY DEF Receive, page, handles
<1>4. s \in 1..Len(stream) /\ stream[s].cell \in consumers[k].cells
  BY <1>1, <1>2, SelectedFits
<1>5. /\ Len(consumers') = Len(consumers) /\ DOMAIN consumers = 1..Len(consumers)
      /\ \A l \in 1..Len(consumers) :
           /\ consumers'[l].conn = consumers[l].conn
           /\ consumers'[l].cells = consumers[l].cells
           /\ consumers'[l].stopped = consumers[l].stopped
  <2>1. s \in Nat
    BY <1>4
  <2> QED
    BY <1>1, <1>2, <2>1, CursorChange
<1>6. \A l \in 1..Len(consumers) : Active(l)' <=> Active(l)
  BY <1>3, <1>5 DEF Active
<1>7. \A l \in 1..Len(consumers) : Active(l) => l = k
  BY <1>3, <1>5 DEF Serial, OneConsumer
<1>8. conns[consumers[k].conn].state # "closed" /\ consumers[k].conn = connection
      /\ connection # 0
  <2>1. conns[consumers[k].conn].state # "closed"
    BY <1>3 DEF Active
  <2>2. consumers[k].conn \in 1..Len(conns)
    BY <1>1 DEF FeedInv
  <2> QED
    BY <2>1, <2>2 DEF Serial, OneConnection
<1>9. \A i \in Slots : ~Subscribing(i) /\ ~At(i, "dial")
  BY <1>3, <1>5, <1>8 DEF Serial, OneConsumer, OneConnection
<1>10. OneCall' /\ OneConnection' /\ OneConsumer' /\ UserFits'
  <2>1. OneCall' /\ UserFits'
    BY <1>3 DEF Serial, OneCall, UserFits, Free, At, FitsView
  <2>2. OneConnection'
    BY <1>3, <1>9 DEF Serial, OneConnection, At, IsOpen
  <2>3. OneConsumer'
    BY <1>3, <1>5, <1>6 DEF Serial, OneConsumer, Subscribing, At
  <2> QED
    BY <2>1, <2>2, <2>3
<1>11. ASSUME connectedJwt \notin Overseers
       PROVE  \A i \in DOMAIN messages' :
                stream[messages'[i]].cell \in CellsOf[connectedJwt]
  <2> DEFINE q == AddMessage(s)
  <2>1. /\ \A i \in DOMAIN messages :
             stream[messages[i]].cell \in CellsOf[connectedJwt]
        /\ consumers[k].cells \subseteq CellsOf[connectedJwt]
    BY <1>3, <1>5, <1>8, <1>11 DEF Serial, OwnCells
  <2>2. /\ q \in Seq(1..Len(stream)) /\ Len(q) \in Nat
        /\ Len(messages) \in Nat /\ DOMAIN messages = 1..Len(messages)
    BY <1>1, <1>4, MessageAdded, LenProperties DEF FeedInv
  <2>3. \A i \in 1..Len(q) : stream[q[i]].cell \in CellsOf[connectedJwt]
    <3>1. CASE q = messages
      BY <2>1, <2>2, <3>1
    <3>2. CASE /\ Len(q) = Len(messages) + 1 /\ q[Len(messages) + 1] = s
               /\ \A i \in 1..Len(messages) : q[i] = messages[i]
      <4>1. \A i \in 1..Len(q) : i \in 1..Len(messages) \/ i = Len(messages) + 1
        BY <2>2, <3>2
      <4> QED
        BY <1>4, <2>1, <2>2, <3>2, <4>1
    <3> QED
      BY <1>1, <1>4, <3>1, <3>2, MessageAdded
  <2> HIDE DEF q
  <2>4. PICK d \in 0..Len(q) :
          /\ messages' \in Seq(1..Len(stream)) /\ Len(messages') = Len(q) - d
          /\ \A i \in 1..Len(q) - d : messages'[i] = q[i + d]
    <3>1. messages' = Newest(q)
      BY <1>2 DEF q
    <3>2. \E d \in 0..Len(q) :
            /\ Newest(q) \in Seq(1..Len(stream)) /\ Len(Newest(q)) = Len(q) - d
            /\ \A i \in 1..Len(q) - d : Newest(q)[i] = q[i + d]
      BY <2>2, NewestIsEnd
    <3> QED
      BY <3>1, <3>2
  <2>5. DOMAIN messages' = 1..Len(q) - d
    BY <2>4, LenProperties
  <2>6. \A i \in 1..Len(q) - d : i + d \in 1..Len(q)
    BY <2>2
  <2> QED
    BY <2>3, <2>4, <2>5, <2>6
<1>12. OwnCells'
  BY <1>3, <1>5, <1>6, <1>11 DEF Serial, OwnCells, Subscribing, At
<1>13. BufferInOrder'
  <2>1. InOrder => Ordered(k)'
    BY <1>1, <1>2, <1>3, <1>5, ReceivedInOrder DEF Serial, BufferInOrder
  <2> QED
    BY <1>3, <1>5, <1>6, <1>7, <1>9, <2>1 DEF BufferInOrder, Subscribing, At,
      InOrder
<1> QED
  BY <1>10, <1>12, <1>13 DEF Serial

(* Nothing feeds the buffer and no call subscribes. *)
LEMMA NothingFeeds ==
  ASSUME NoneActive', \A i \in Slots : ~Subscribing(i)'
  PROVE  OneConsumer' /\ BufferInOrder'
BY DEF NoneActive, OneConsumer, BufferInOrder

LEMMA AllClosedIsOne ==
  ASSUME AllClosed', connection' = 0, \A i \in Slots : ~At(i, "drain")',
         \A i \in Slots : At(i, "dial")' => messages' = <<>>
  PROVE  OneConnection'
BY DEF AllClosed, OneConnection

LEMMA DialDoneIsSerial ==
  ASSUME StoreAssumption, StoreInv, Serial, NEW i \in Slots, DialDone(i)
  PROVE  Serial'
<1>1. /\ ConnsInv /\ FeedInv /\ SlotsInv /\ slots[i].jwt \in Jwts
      /\ At(i, "dial") /\ slots[i].step # "idle"
  BY DEF StoreInv, Core, SlotsInv, DialDone, At
<1>2. connection = 0 /\ messages = <<>> /\ FitsView(slots[i].jwt)
  BY <1>1 DEF Serial, OneConnection, UserFits
<1>3. \A c \in 1..Len(conns) : conns[c].state = "closed"
  BY <1>2, LenProperties DEF Serial, OneConnection, ConnsInv
<1> DEFINE e == [jwt |-> slots[i].jwt, state |-> "open"]
<1>4. e \in Conn /\ e.state = "open" /\ conns' = Append(conns, e)
  BY <1>1 DEF Conn, DialDone
<1> HIDE DEF e
<1>5. /\ Len(conns') = Len(conns) + 1 /\ Len(conns) \in Nat
      /\ \A c \in 1..Len(conns) : conns'[c] = conns[c]
      /\ conns'[Len(conns) + 1] = e
  BY <1>1, <1>4, ConnAdded
<1>6. /\ connection' = Len(conns) + 1 /\ connection' # 0
      /\ UNCHANGED <<stream, view, messages>> /\ effect' = TRUE
      /\ connectedJwt' = slots[i].jwt
      /\ consumers' = Stopped(consumerMessages)
  BY <1>5 DEF DialDone
<1> DEFINE r == [Idle EXCEPT !.step = "find", !.conn = Len(conns'),
                             !.cells = CellsOf[slots[i].jwt], !.then = "connect"]
<1>7. r.step = "find" /\ r.cells = CellsOf[slots[i].jwt] /\ Become(i, r)
  BY DEF DialDone, Idle
<1> HIDE DEF r
<1>8. \A j \in Slots : j # i => Free(j)
  BY <1>1, Alone DEF Serial
<1>9. /\ OneCall' /\ slots'[i] = r
      /\ \A j \in Slots : j # i => slots'[j].step = "idle"
  BY <1>1, <1>7, <1>8, OnlyMoves, IdleIsNoStep
<1>10. NoneActive'
  <2>1. \A c \in 1..Len(conns) : conns'[c].state # "closed" => conns[c].state # "closed"
    BY <1>5
  <2> QED
    BY <1>1, <1>6, <2>1, LastStopped DEF Serial
<1>11. OneConnection'
  <2>1. \A c \in 1..Len(conns') : conns'[c].state # "closed" => c = connection'
    BY <1>3, <1>5, <1>6
  <2>2. IsOpen(connection)'
    BY <1>4, <1>5, <1>6 DEF IsOpen
  <2>3. \A j \in Slots : ~At(j, "drain")' /\ ~At(j, "dial")'
    BY <1>7, <1>9 DEF At
  <2> QED
    BY <2>1, <2>2, <2>3 DEF OneConnection
<1>12. OneConsumer'
  BY <1>10 DEF OneConsumer, NoneActive
<1>13. UserFits'
  BY <1>2, <1>6, <1>7, <1>9 DEF UserFits, FitsView, At
<1>14. OwnCells'
  <2>1. DOMAIN messages' = {}
    BY <1>2, <1>6
  <2> QED
    BY <1>6, <1>7, <1>9, <1>10, <2>1 DEF OwnCells, NoneActive, Subscribing, At
<1>15. BufferInOrder'
  BY <1>2, <1>6, <1>10 DEF BufferInOrder, NoneActive
<1> QED
  BY <1>9, <1>11, <1>12, <1>13, <1>14, <1>15 DEF Serial

LEMMA DrainDoneIsSerial ==
  ASSUME StoreAssumption, StoreInv, Serial, NEW i \in Slots, DrainDone(i)
  PROVE  Serial'
<1>1. /\ ConnsInv /\ FeedInv /\ SlotsInv /\ FeedInv'
      /\ At(i, "drain") /\ slots[i].step # "idle"
      /\ slots[i].conn \in 1..Len(conns)
  <2>1. Core /\ Core'
    BY DrainDoneKeeps DEF StoreInv
  <2>2. ConnsInv /\ FeedInv /\ SlotsInv /\ FeedInv'
    BY <2>1 DEF Core
  <2>3. At(i, "drain") /\ slots[i].conn # 0 /\ slots[i].conn \in 0..Len(conns)
    BY <2>2 DEF DrainDone, SlotsInv
  <2> QED
    BY <2>2, <2>3, LenProperties DEF At, ConnsInv
<1>2. slots[i].conn = connection
      /\ (slots[i].then = "connect" => FitsView(slots[i].jwt))
  BY <1>1 DEF Serial, OneConnection, UserFits
<1>3. AllClosed'
  <2>1. /\ Len(conns') = Len(conns)
        /\ \A c \in 1..Len(conns) :
             conns'[c].state = IF c = connection THEN "closed" ELSE conns[c].state
    BY <1>1, <1>2, ConnChange DEF DrainDone
  <2> QED
    BY <2>1 DEF AllClosed, Serial, OneConnection
<1>4. NoneActive'
  BY <1>1, <1>3, ClosedFeedsNothing DEF FeedInv, AllClosed, NoneActive, Active
<1>5. connection' = 0 /\ UNCHANGED <<view, effect>>
  BY DEF DrainDone, ForgetConnection
<1>6. \A j \in Slots : j # i => Free(j)
  BY <1>1, Alone DEF Serial
<1>7. /\ OneCall'
      /\ \A j \in Slots : ~At(j, "drain")' /\ ~Subscribing(j)'
      /\ \A j \in Slots : At(j, "dial")' => messages' = <<>> /\ FitsView(slots'[j].jwt)
  <2>1. CASE slots[i].then = "connect"
    <3> DEFINE r == [Idle EXCEPT !.step = "dial", !.jwt = slots[i].jwt]
    <3>1. /\ r.step = "dial" /\ r.jwt = slots[i].jwt /\ Become(i, r)
          /\ messages' = <<>>
      BY <2>1 DEF DrainDone, BeginDial, Idle
    <3> HIDE DEF r
    <3> QED
      BY <1>1, <1>2, <1>6, <2>1, <3>1, OnlyMoves, IdleIsNoStep DEF At,
        Subscribing
  <2>2. CASE slots[i].then # "connect"
    <3>1. Become(i, Idle)
      BY <2>2 DEF DrainDone, Return
    <3> QED
      BY <1>1, <1>6, <3>1, OnlyMoves, IdleIsNoStep DEF At, Subscribing
  <2> QED
    BY <2>1, <2>2
<1>8. OneConnection' /\ OneConsumer' /\ BufferInOrder'
  BY <1>3, <1>4, <1>5, <1>7, AllClosedIsOne, NothingFeeds
<1>9. UserFits'
  BY <1>5, <1>7 DEF UserFits, FitsView
<1>10. OwnCells'
  BY <1>5 DEF OwnCells
<1> QED
  BY <1>7, <1>8, <1>9, <1>10 DEF Serial

LEMMA LostIsSerial ==
  ASSUME StoreInv, Serial, NEW c \in DOMAIN conns, Lost(c)
  PROVE  Serial'
<1>1. /\ ConnsInv /\ FeedInv /\ Core' /\ c \in 1..Len(conns)
  BY LostKeeps, LenProperties DEF StoreInv, Core, ConnsInv
<1>2. c = connection /\ conns[c].state = "open" /\ c # 0
  BY <1>1 DEF Lost, IsOpen, Serial, OneConnection
<1>3. \A i \in Slots : ~At(i, "drain") /\ ~At(i, "dial")
  BY <1>2 DEF Serial, OneConnection
<1>4. AllClosed'
  <2>1. /\ Len(conns') = Len(conns)
        /\ \A d \in 1..Len(conns) :
             conns'[d].state = IF d = connection THEN "closed" ELSE conns[d].state
    BY <1>1, <1>2, ConnChange DEF Lost
  <2> QED
    BY <2>1 DEF AllClosed, Serial, OneConnection
<1>5. NoneActive'
  BY <1>1, <1>4, LenProperties DEF Core, FeedInv, AllClosed, NoneActive, Active
<1>6. /\ connection' = 0
      /\ UNCHANGED <<view, effect, messages, slots>>
  BY DEF Lost, ForgetConnection, page, feed
<1>7. OneCall' /\ OneConnection' /\ UserFits' /\ OwnCells'
  BY <1>3, <1>4, <1>6, AllClosedIsOne
     DEF Serial, OneCall, UserFits, OwnCells, Free, At
<1>8. OneConsumer' /\ BufferInOrder'
  BY <1>5, <1>6 DEF Serial, NoneActive, OneConsumer, BufferInOrder, InOrder,
     Subscribing, At
<1> QED
  BY <1>7, <1>8 DEF Serial

LEMMA RedirectIsSerial ==
  ASSUME StoreAssumption, StoreInv, Redirect
  PROVE  Serial'
<1>1. /\ ConnsInv /\ Core'
  BY RedirectKeeps DEF StoreInv, Core
<1>2. AllClosed'
  <2>1. DOMAIN conns' = 1..Len(conns')
    BY <1>1, LenProperties DEF Core, ConnsInv
  <2>2. DOMAIN conns' = DOMAIN conns
    BY DEF Redirect
  <2>3. \A c \in DOMAIN conns : conns'[c].state = "closed"
    <3>1. \A c \in DOMAIN conns : conns[c] \in Conn
      BY <1>1, ElementOfSeq, LenProperties DEF ConnsInv
    <3> QED
      BY <3>1 DEF Redirect, Conn
  <2> QED
    BY <2>1, <2>2, <2>3 DEF AllClosed
<1>3. NoneActive'
  BY <1>1, <1>2, LenProperties DEF Core, FeedInv, AllClosed, NoneActive, Active
<1>4. /\ connection' = 0 /\ \A i \in Slots : slots'[i] = Idle
  BY DEF Redirect, ForgetConnection
<1>5. /\ OneCall'
      /\ \A i \in Slots : ~At(i, "drain")' /\ ~At(i, "dial")' /\ ~Subscribing(i)'
  BY <1>4, IdleIsNoStep DEF OneCall, Free, At, Subscribing
<1>6. OneConnection' /\ OneConsumer' /\ BufferInOrder'
  BY <1>2, <1>3, <1>4, <1>5, AllClosedIsOne, NothingFeeds
<1>7. UserFits' /\ OwnCells'
  BY <1>4, <1>5 DEF UserFits, OwnCells
<1> QED
  BY <1>5, <1>6, <1>7 DEF Serial

LEMMA FindDoneIsSerial ==
  ASSUME StoreInv, Serial, NEW i \in Slots, FindDone(i)
  PROVE  Serial'
<1>1. /\ SlotsInv /\ Subscribing(i) /\ slots[i].step # "idle"
      /\ slots[i] \in Call
  BY DEF StoreInv, Core, SlotsInv, FindDone, At, Subscribing
<1> DEFINE r == [slots[i] EXCEPT !.step = "consume", !.conn = jetstream]
<1>2. r.step = "consume" /\ r.cells = slots[i].cells /\ Become(i, r)
  BY <1>1 DEF FindDone, Call
<1> HIDE DEF r
<1>3. \A j \in Slots : j # i => Free(j)
  BY <1>1, Alone DEF Serial
<1>4. /\ OneCall' /\ slots'[i] = r
      /\ \A j \in Slots : j # i => slots'[j].step = "idle"
  BY <1>1, <1>2, <1>3, OnlyMoves, IdleIsNoStep
<1>5. UNCHANGED <<stream, view, effect, conns, connection, connectedJwt,
                  consumers, consumerMessages, messages>>
  BY DEF FindDone, page, handles, feed
<1>6. \A j \in Slots : /\ ~At(j, "drain") /\ ~At(j, "drain")'
                       /\ ~At(j, "dial")'
                       /\ Subscribing(j)' => j = i
  BY <1>1, <1>2, <1>3, <1>4, FreeIsIdle DEF At, Subscribing
<1>7. OneConnection'
  BY <1>5, <1>6 DEF Serial, OneConnection, IsOpen
<1>8. OneConsumer'
  BY <1>1, <1>5 DEF Serial, OneConsumer, Active
<1>9. UserFits'
  BY <1>5, <1>6 DEF Serial, UserFits, FitsView
<1>10. OwnCells'
  BY <1>1, <1>2, <1>4, <1>5, <1>6 DEF Serial, OwnCells, Active
<1>11. BufferInOrder'
  BY <1>1, <1>5 DEF Serial, OneConsumer, BufferInOrder, InOrder, Active
<1> QED
  BY <1>4, <1>7, <1>8, <1>9, <1>10, <1>11 DEF Serial

LEMMA ConsumeDoneIsSerial ==
  ASSUME StoreAssumption, StoreInv, Serial, NEW i \in Slots, ConsumeDone(i)
  PROVE  Serial'
<1>1. /\ ConnsInv /\ FeedInv /\ SlotsInv
      /\ Subscribing(i) /\ slots[i].step # "idle"
  BY DEF StoreInv, Core, ConsumeDone, At, Subscribing
<1>2. slots[i].conn \in 1..Len(conns) /\ conns[slots[i].conn].state = "open"
  BY <1>1, LenProperties DEF SlotsInv, ConnsInv, ConsumeDone, IsOpen
<1>3. slots[i].conn = connection /\ connection # 0 /\ IsOpen(connection)
  BY <1>2 DEF Serial, OneConnection, IsOpen
<1>4. \A j \in Slots : j # i => Free(j)
  BY <1>1, Alone DEF Serial
<1>5. /\ OneCall' /\ \A j \in Slots : slots'[j].step = "idle"
  BY <1>1, <1>4, OnlyMoves, IdleIsNoStep DEF ConsumeDone, Return
<1>6. \A j \in Slots : /\ ~At(j, "drain") /\ ~At(j, "drain")'
                       /\ ~At(j, "dial")' /\ ~Subscribing(j)'
  BY <1>1, <1>4, <1>5, FreeIsIdle DEF At, Subscribing
<1>7. UNCHANGED <<stream, view, effect, conns, connection, connectedJwt,
                  messages>>
  BY DEF ConsumeDone, page, handles
<1> DEFINE k == Len(consumers) + 1
<1>8. /\ Len(consumers) \in Nat /\ Len(consumers') = k
      /\ \A l \in 1..Len(consumers) : consumers'[l] = consumers[l]
      /\ consumerMessages' = k
  BY <1>1, ConsumerAdded
<1>9. consumers'[k].cells = slots[i].cells /\ consumers'[k].cursor = 0
  <2>1. consumers'[k] = [conn |-> slots[i].conn, cells |-> slots[i].cells,
                         last |-> slots[i].last, start |-> Len(stream),
                         cursor |-> 0, stopped |-> FALSE]
    BY <1>1, ConsumerAdded
  <2> QED
    BY <2>1
<1>10. \A l \in 1..Len(consumers') : Active(l)' => l = k
  <2>1. \A l \in 1..Len(consumers) : ~Active(l)
    BY <1>1 DEF Serial, OneConsumer
  <2>2. \A l \in 1..Len(consumers) : Active(l)' <=> Active(l)
    BY <1>7, <1>8 DEF Active
  <2>3. \A l \in 1..Len(consumers') : l \in 1..Len(consumers) \/ l = k
    BY <1>8
  <2> QED
    BY <2>1, <2>2, <2>3
<1> HIDE DEF k
<1>11. OneConnection'
  BY <1>3, <1>6, <1>7 DEF Serial, OneConnection, IsOpen
<1>12. OneConsumer'
  BY <1>6, <1>8, <1>10 DEF OneConsumer
<1>13. UserFits'
  BY <1>6, <1>7 DEF Serial, UserFits, FitsView
<1>14. OwnCells'
  BY <1>1, <1>3, <1>6, <1>7, <1>9, <1>10 DEF Serial, OwnCells
<1>15. BufferInOrder'
  <2>1. InOrder' => messages' = <<>>
    BY <1>1, <1>7 DEF Serial, BufferInOrder, InOrder
  <2>2. messages' = <<>> => \A l : Ordered(l)'
    <3>1. DOMAIN <<>> = {}
      OBVIOUS
    <3> QED
      BY <3>1 DEF Ordered
  <2> QED
    BY <1>6, <2>1, <2>2 DEF BufferInOrder
<1> QED
  BY <1>5, <1>11, <1>12, <1>13, <1>14, <1>15 DEF Serial

LEMMA SubscribeIsSerial ==
  ASSUME StoreInv, Serial, AllFree, NEW i \in Slots, Subscribe(i)
  PROVE  Serial'
<1>1. /\ FeedInv /\ SlotsInv /\ connection # 0
      /\ view \in {"admin", "overview"}
  BY DEF StoreInv, Core, Subscribe
<1>2. /\ UNCHANGED <<stream, view, conns, connection, connectedJwt,
                     consumerMessages>>
      /\ effect' = FALSE
      /\ view = "overview" => messages' = <<>>
      /\ consumers' = Stopped(consumerMessages)
  BY DEF Subscribe, handles
<1> DEFINE r == [Idle EXCEPT !.step = "find", !.conn = connection,
                             !.cells = Cells, !.last = (view = "overview")]
<1>3. r.step = "find" /\ Become(i, r)
  BY DEF Subscribe, Idle
<1> HIDE DEF r
<1>4. /\ OneCall' /\ slots'[i] = r
      /\ \A j \in Slots : j # i => slots'[j].step = "idle"
  BY <1>1, <1>3, OnlyMoves, IdleIsNoStep DEF AllFree
<1>5. \A j \in Slots : /\ ~At(j, "drain") /\ ~At(j, "drain")' /\ ~At(j, "dial")'
  BY <1>3, <1>4, FreeIsIdle DEF AllFree, At
<1>6. NoneActive'
  BY <1>1, <1>2, LastStopped DEF Serial
<1>7. FitsView(connectedJwt)
  BY <1>1, <1>5 DEF Serial, UserFits
<1>8. OneConnection'
  BY <1>1, <1>2, <1>5 DEF Serial, OneConnection, IsOpen
<1>9. OneConsumer'
  BY <1>6 DEF OneConsumer, NoneActive
<1>10. UserFits'
  BY <1>2, <1>5, <1>7 DEF UserFits, FitsView
<1>11. OwnCells'
  BY <1>1, <1>2, <1>7 DEF OwnCells, FitsView
<1>12. BufferInOrder'
  BY <1>1, <1>2, <1>6 DEF BufferInOrder, InOrder, NoneActive
<1> QED
  BY <1>4, <1>8, <1>9, <1>10, <1>11, <1>12 DEF Serial

(* The first part of disconnect, for another user's connect or a logout. *)
LEMMA DrainIsSerial ==
  ASSUME StoreInv, Serial, AllFree, NEW i \in Slots, NEW then,
         connection # 0, BeginDrain(i, then),
         then = "connect" => FitsView(creds)',
         UNCHANGED <<stream, creds, connection, connectedJwt, messages>>
  PROVE  Serial'
<1>1. /\ ConnsInv /\ FeedInv /\ SlotsInv /\ connection \in 1..Len(conns)
  BY LenProperties DEF StoreInv, Core, ConnsInv
<1>2. IsOpen(connection)
  BY FreeIsIdle DEF AllFree, Serial, OneConnection
<1> DEFINE r == [Idle EXCEPT !.step = "drain", !.conn = connection,
                             !.jwt = creds, !.then = then]
<1>3. /\ conns' = [conns EXCEPT ![connection].state = "draining"]
      /\ r.step = "drain" /\ r.conn = connection /\ r.jwt = creds
      /\ r.then = then /\ Become(i, r)
      /\ consumers' = Stopped(consumerMessages)
  BY <1>2 DEF BeginDrain, Idle
<1> HIDE DEF r
<1>4. /\ Len(conns') = Len(conns)
      /\ \A c \in 1..Len(conns) :
           conns'[c].state = IF c = connection THEN "draining" ELSE conns[c].state
  BY <1>1, <1>3, ConnChange
<1>5. /\ OneCall' /\ slots'[i] = r
      /\ \A j \in Slots : j # i => slots'[j].step = "idle"
  BY <1>1, <1>3, OnlyMoves, IdleIsNoStep DEF AllFree
<1>6. /\ At(i, "drain")'
      /\ \A j \in Slots : /\ At(j, "drain")' => j = i
                          /\ ~At(j, "dial")' /\ ~Subscribing(j)'
  BY <1>3, <1>5 DEF At, Subscribing
<1>7. NoneActive'
  <2>1. \A c \in 1..Len(conns) : conns'[c].state # "closed" => conns[c].state # "closed"
    BY <1>2, <1>4 DEF IsOpen
  <2> QED
    BY <1>1, <1>3, <2>1, LastStopped DEF Serial
<1>8. OneConnection'
  <2>1. \A c \in 1..Len(conns') : conns'[c].state # "closed" => c = connection'
    BY <1>4 DEF Serial, OneConnection
  <2> QED
    BY <1>1, <1>3, <1>4, <1>5, <1>6, <2>1 DEF OneConnection
<1>9. UserFits'
  BY <1>3, <1>5, <1>6 DEF UserFits, FitsView
<1>10. OwnCells'
  BY <1>6, <1>7 DEF Serial, OwnCells, NoneActive
<1>11. OneConsumer' /\ BufferInOrder'
  BY <1>6, <1>7, NothingFeeds
<1> QED
  BY <1>5, <1>8, <1>9, <1>10, <1>11 DEF Serial

LEMMA DialIsSerial ==
  ASSUME StoreInv, Serial, AllFree, NEW i \in Slots, connection = 0,
         BeginDial(i, creds), FitsView(creds)',
         UNCHANGED <<creds, conns, connection, consumers>>
  PROVE  Serial'
<1>1. ConnsInv /\ FeedInv /\ SlotsInv
  BY DEF StoreInv, Core
<1>2. AllClosed
  BY <1>1, LenProperties DEF Serial, OneConnection, AllClosed, ConnsInv
<1>3. NoneActive' /\ AllClosed'
  BY <1>1, <1>2, ClosedFeedsNothing DEF NoneActive, AllClosed, Active
<1> DEFINE r == [Idle EXCEPT !.step = "dial", !.jwt = creds]
<1>4. r.step = "dial" /\ r.jwt = creds /\ Become(i, r) /\ messages' = <<>>
  BY DEF BeginDial, Idle
<1> HIDE DEF r
<1>5. /\ OneCall' /\ slots'[i] = r
      /\ \A j \in Slots : j # i => slots'[j].step = "idle"
  BY <1>1, <1>4, OnlyMoves, IdleIsNoStep DEF AllFree
<1>6. \A j \in Slots : /\ At(j, "dial")' => j = i
                       /\ ~At(j, "drain")' /\ ~Subscribing(j)'
  BY <1>4, <1>5 DEF At, Subscribing
<1>7. OneConnection' /\ OneConsumer' /\ BufferInOrder'
  BY <1>3, <1>4, <1>6, AllClosedIsOne, NothingFeeds
<1>8. UserFits' /\ OwnCells'
  BY <1>4, <1>5, <1>6 DEF UserFits, OwnCells, FitsView
<1> QED
  BY <1>5, <1>7, <1>8 DEF Serial

LEMMA MountIsSerial ==
  ASSUME StoreInv, Serial, AllFree, NEW i \in Slots, NEW v, Mount(v, i)
  PROVE  Serial'
<1>1. /\ view' = v /\ effect' = TRUE /\ UNCHANGED <<stream, creds>>
      /\ v \in {"own", "admin", "overview"}
      /\ creds \in Overseers <=> v # "own"
  BY DEF Mount
<1>2. FitsView(creds)'
  BY <1>1 DEF FitsView, None
<1>3. CASE /\ connection # 0 /\ connectedJwt = creds
           /\ UNCHANGED <<handles, feed, status, slots>>
  <2>1. UNCHANGED <<conns, connection, connectedJwt, consumers,
                    consumerMessages, messages, slots>>
    BY <1>3 DEF handles, feed
  <2>2. FitsView(connectedJwt)
    BY <1>3, FreeIsIdle DEF Serial, UserFits, AllFree
  <2>3. \A j \in Slots : ~At(j, "dial") /\ ~At(j, "drain")
    BY FreeIsIdle DEF AllFree
  <2>4. OneCall' /\ OneConnection' /\ OneConsumer' /\ OwnCells'
    BY <1>1, <2>1 DEF Serial, OneCall, OneConnection, OneConsumer, OwnCells,
       Free, At, IsOpen, Active, Subscribing
  <2>5. UserFits'
    BY <1>2, <1>3, <2>1, <2>3, <1>1 DEF UserFits, FitsView, At
  <2>6. InOrder' => InOrder
    BY <1>1, <1>3, <2>2 DEF InOrder, FitsView
  <2>7. BufferInOrder'
    BY <1>1, <2>1, <2>6 DEF Serial, BufferInOrder, At, Active, Subscribing,
       Wanted, Ordered, IsLast
  <2> QED
    BY <2>4, <2>5, <2>7 DEF Serial
<1>4. CASE /\ connection # 0 /\ BeginDrain(i, "connect")
           /\ UNCHANGED <<connection, connectedJwt, jetstream, messages,
                          status>>
  BY <1>1, <1>2, <1>4, DrainIsSerial
<1>5. CASE /\ connection = 0 /\ BeginDial(i, creds)
           /\ UNCHANGED <<handles, consumers, consumerMessages>>
  BY <1>1, <1>2, <1>5, DialIsSerial DEF handles
<1> QED
  BY <1>3, <1>4, <1>5 DEF Mount, Connect

LEMMA DisconnectIsSerial ==
  ASSUME StoreInv, Serial, AllFree, NEW i \in Slots,
         NEW then \in {"end", "logout"}, Disconnect(i, then)
  PROVE  Serial'
<1>1. /\ UNCHANGED <<stream, view, effect, connection, connectedJwt, messages>>
  BY DEF Disconnect
<1>2. CASE connection # 0 /\ BeginDrain(i, then) /\ UNCHANGED creds
  BY <1>1, <1>2, DrainIsSerial
<1>3. CASE UNCHANGED <<conns, consumers, consumerMessages, slots>>
  BY <1>1, <1>3, SerialStutters
<1> QED
  BY <1>2, <1>3 DEF Disconnect

LEMMA ClearIsSerial ==
  ASSUME Serial, ClearMessages
  PROVE  Serial'
<1>1. /\ UNCHANGED <<stream, view, effect, conns, connection, connectedJwt,
                     consumers, consumerMessages, slots>>
      /\ messages' = <<>> /\ DOMAIN messages' = {}
  BY DEF ClearMessages, page, handles
<1>2. OneCall' /\ OneConnection' /\ OneConsumer' /\ UserFits'
  BY <1>1 DEF Serial, OneCall, OneConnection, OneConsumer, UserFits, Free, At,
     IsOpen, Active, FitsView, Subscribing
<1>3. OwnCells'
  BY <1>1 DEF Serial, OwnCells, Active, Subscribing, At
<1>4. BufferInOrder'
  BY <1>1 DEF BufferInOrder, Ordered
<1> QED
  BY <1>2, <1>3, <1>4 DEF Serial

-----------------------------------------------------------------------------
SerialInv == ~overlapped => Serial

LEMMA SerialStarts ==
  ASSUME Init
  PROVE  Serial
<1>1. /\ connection = 0 /\ conns = <<>> /\ consumers = <<>>
      /\ Len(<<>>) = 0 /\ 1..0 = {}
      /\ \A i \in Slots : slots[i] = Idle
  BY DEF Init
<1>2. \A i \in Slots : ~At(i, "drain") /\ ~At(i, "dial") /\ ~Subscribing(i)
  BY <1>1, IdleIsNoStep DEF At, Subscribing
<1> QED
  BY <1>1, <1>2 DEF Serial, OneCall, OneConnection, OneConsumer, UserFits,
     OwnCells, BufferInOrder, Free

LEMMA SerialKept ==
  ASSUME StoreAssumption, StoreInv, SerialInv, [Next]_vars
  PROVE  SerialInv'
<1> SUFFICES ASSUME ~overlapped'
             PROVE  Serial'
  BY DEF SerialInv
<1>1. CASE UNCHANGED vars
  BY <1>1, SerialStutters DEF SerialInv, vars, page, handles, feed
<1>2. CASE Calls /\ overlapped' = (overlapped \/ \E i \in Slots : ~Free(i))
  <2>1. Serial /\ AllFree
    BY <1>2 DEF SerialInv, AllFree
  <2> QED
    BY <1>2, <2>1, SubscribeIsSerial, MountIsSerial,
      DisconnectIsSerial DEF Calls
<1>3. CASE GoesOn /\ UNCHANGED overlapped
  <2>1. Serial
    BY <1>3 DEF SerialInv
  <2>2. ASSUME NEW i \in Slots, DialFails(i) \/ SubscribeFails(i)
        PROVE  Serial'
    <3>1. SlotsInv /\ slots[i].step # "idle" /\ ~At(i, "drain") /\ Return(i)
      BY <2>2 DEF StoreInv, Core, DialFails, SubscribeFails, At
    <3>2. UNCHANGED <<stream, view, effect, conns, connection, connectedJwt,
                      consumers, consumerMessages, messages>>
      BY <2>2 DEF DialFails, SubscribeFails, page, handles, feed
    <3> QED
      BY <2>1, <3>1, <3>2, ReturnIsSerial
  <2>3. ASSUME NEW i \in Slots, Resume(i)
        PROVE  Serial'
    BY <2>1, <2>2, <2>3, DialDoneIsSerial, DrainDoneIsSerial, FindDoneIsSerial,
       ConsumeDoneIsSerial DEF Resume
  <2>4. ASSUME NEW j \in Jwts, Login(j)
        PROVE  Serial'
    BY <2>1, <2>4, SerialStutters DEF Login, handles, feed
  <2> QED
    BY <1>3, <2>1, <2>3, <2>4, PublishIsSerial, ReceiveIsSerial, LostIsSerial,
       RedirectIsSerial, ClearIsSerial DEF GoesOn
<1> QED
  BY <1>1, <1>2, <1>3 DEF Next

LEMMA SerialInvariant ==
  ASSUME StoreAssumption
  PROVE  Spec => []SerialInv
<1>1. Init => SerialInv
  BY SerialStarts DEF SerialInv
<1>2. StoreInv /\ SerialInv /\ [Next]_vars => SerialInv'
  BY SerialKept
<1>3. Spec => []StoreInv
  BY StoreInvariant
<1> QED
  BY <1>1, <1>2, <1>3, PTL DEF Spec

(* As long as no call began before the one in progress ended, the buffer   *)
(* of a team's page holds nothing but what the team may see, whoever used  *)
(* the page before.                                                        *)
THEOREM OnlyOwnResultsAlways == Spec => []OnlyOwnResults
<1>1. SerialInv => OnlyOwnResults
  BY DEF SerialInv, Serial, OwnCells, OnlyOwnResults
<1>2. Spec => []SerialInv
  BY StoreAssumption, SerialInvariant
<1> QED
  BY <1>1, <1>2, PTL

(* Of the messages of a subject before e the last one is the one kept.     *)
LEMMA LastAlike ==
  ASSUME NEW e \in Nat, NEW s \in 1..e
  PROVE  \E t \in s..e : stream[t] = stream[s] /\ IsLast(t, e)
<1> DEFINE A == {t \in s..e : stream[t] = stream[s]}
<1>1. s \in A /\ A \subseteq 0..e
  OBVIOUS
<1>2. PICK t \in A : \A u \in A : u <= t
  BY <1>1, LargestExists
<1>3. ASSUME NEW q \in (t + 1)..e
      PROVE  stream[q] # stream[t]
  <2>1. q \in s..e /\ ~(q <= t)
    BY <1>2
  <2>2. q \notin A
    BY <1>2, <2>1
  <2> QED
    BY <1>2, <2>1, <2>2
<1> QED
  BY <1>2, <1>3 DEF IsLast

LEMMA LatestFits ==
  ASSUME StoreInv, SerialInv
  PROVE  LatestIsLast
<1> SUFFICES ASSUME ~overlapped, Quiet, InOrder, NEW i \in DOMAIN messages,
                    NEW s \in (messages[i] + 1)..Len(stream),
                    stream[s].cell = stream[messages[i]].cell
             PROVE  \E j \in (i + 1)..Len(messages) :
                      stream[messages[j]].cell = stream[messages[i]].cell
  BY DEF LatestIsLast
<1> DEFINE k == consumerMessages
<1>1. /\ FeedInv /\ Len(messages) \in Nat /\ DOMAIN messages = 1..Len(messages)
      /\ Len(stream) \in Nat /\ messages[i] \in 1..Len(stream)
      /\ k \in 1..Len(consumers) /\ DOMAIN consumers = 1..Len(consumers)
  BY LenProperties, ElementOfSeq DEF StoreInv, Core, FeedInv, Quiet
<1>2. /\ consumers[k] \in Consumer /\ consumers[k].start <= Len(stream)
      /\ consumers[k].start \in Nat /\ consumers[k].cursor \in Nat
  <2>1. /\ \A l \in 1..Len(consumers) : consumers[l] \in Consumer
        /\ \A l \in 1..Len(consumers) : consumers[l].start <= Len(stream)
    BY <1>1, ElementOfSeq DEF FeedInv
  <2>2. consumers[k] \in Consumer /\ consumers[k].start <= Len(stream)
    BY <1>1, <2>1
  <2> QED
    BY <2>2 DEF Consumer
<1>3. Ordered(k)
  BY <1>1 DEF Quiet, SerialInv, Serial, BufferInOrder
<1>4. stream[s].cell \in consumers[k].cells
  BY <1>3 DEF Ordered
<1>5. \E t \in s..Len(stream) : stream[t].cell = stream[s].cell /\ Wanted(k, t)
  <2>1. CASE consumers[k].last => s > consumers[k].start
    BY <1>1, <1>4, <2>1 DEF Wanted
  <2>2. CASE consumers[k].last /\ s <= consumers[k].start
    <3>1. PICK t \in s..consumers[k].start :
            stream[t] = stream[s] /\ IsLast(t, consumers[k].start)
      <4>1. s \in 1..consumers[k].start
        BY <1>1, <1>2, <2>2
      <4> QED
        BY <1>2, <4>1, LastAlike
    <3>2. t \in s..Len(stream)
      BY <1>1, <1>2, <3>1
    <3>3. Wanted(k, t)
      BY <1>4, <3>1 DEF Wanted
    <3> QED
      BY <3>1, <3>2, <3>3
  <2> QED
    BY <1>1, <1>2, <2>1, <2>2
<1>6. PICK t \in s..Len(stream) : stream[t].cell = stream[s].cell /\ Wanted(k, t)
  BY <1>5
<1>7. t \in 1..consumers[k].cursor /\ messages[i] < t
  <2>1. t \in Nat /\ messages[i] < t /\ t <= Len(stream) /\ t >= 1
    BY <1>1
  <2>2. CASE t > consumers[k].cursor
    <3>1. t \in (consumers[k].cursor + 1)..Len(stream)
      BY <1>1, <1>2, <2>1, <2>2
    <3>2. t \in Selected(k)
      BY <1>6, <3>1 DEF Selected, Wanted
    <3> QED
      BY <3>2 DEF Quiet
  <2> QED
    BY <1>2, <2>1, <2>2
<1>8. PICK j \in DOMAIN messages : messages[j] = t
  BY <1>3, <1>6, <1>7 DEF Ordered
<1>9. j > i
  <2>1. messages[j] # messages[i] /\ ~(messages[j] < messages[i])
    BY <1>1, <1>7, <1>8
  <2>2. j < i => messages[j] < messages[i]
    BY <1>3 DEF Ordered
  <2> QED
    BY <1>1, <2>1, <2>2
<1>10. j \in (i + 1)..Len(messages)
  BY <1>1, <1>9
<1> QED
  BY <1>6, <1>8, <1>10

(* "Last message in buffer wins": once the page has received all, the last *)
(* message of a team and check in the buffer is the last one published.    *)
THEOREM LatestIsLastAlways == Spec => []LatestIsLast
<1>1. StoreInv /\ SerialInv => LatestIsLast
  BY LatestFits
<1>2. Spec => []StoreInv
  BY StoreAssumption, StoreInvariant
<1>3. Spec => []SerialInv
  BY StoreAssumption, SerialInvariant
<1> QED
  BY <1>1, <1>2, <1>3, PTL
=============================================================================
