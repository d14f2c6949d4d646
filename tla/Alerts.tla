------------------------------- MODULE Alerts -------------------------------
(***************************************************************************)
(* The notifications of the health page (HealthCheckView and               *)
(* services/toast.ts): a toast when a service that passed fails.  The page *)
(* sees the results through the buffer of the NATS store, which keeps the  *)
(* newest ones, outlives the page, and is filled anew from the start of    *)
(* the stream when the store connects again.                               *)
(***************************************************************************)
EXTENDS Naturals, SequencesExt

CONSTANTS
  Services,     \* team and check
  Limit,        \* messages the buffer keeps
  None,
  MaxLag,       \* how long after its check a result is published
  MaxTime, MaxResults, MaxUses   \* bounds: clock, results, what the user does

AlertsAssumption ==
  /\ None \notin BOOLEAN
  /\ Limit \in Nat \ {0} /\ MaxLag \in Nat
  /\ MaxTime \in Nat /\ MaxResults \in Nat /\ MaxUses \in Nat

VARIABLES
  now,
  stream,       \* the results published: service, passed and time
  cursor,       \* how many of them the store's consumer has delivered
  connected,
  messages,     \* the store's buffer, as sequence numbers
  loadTime,     \* when the health page was mounted, None while it is not
  processed,    \* processedCheckIdsRef
  serviceStatus,\* serviceStatusRef: service -> passed, or None
  toasts,       \* the results whose toast is shown
  announced,    \* history: result -> toasts raised for it
  cleared,      \* history: of the results delivered, how many were cleared
  missing,      \* history: how many were when the health page was mounted
  uses

store == <<cursor, connected, messages>>
refs == <<loadTime, processed, serviceStatus>>
history == <<announced, cleared, missing>>
vars == <<now, stream, store, refs, toasts, history, uses>>

Results == [service : Services, passed : BOOLEAN, time : 0..MaxTime]
Mounted == loadTime # None
Use == uses < MaxUses /\ uses' = uses + 1

Newest(q) == SubSeq(q, IF Len(q) > Limit THEN Len(q) - Limit + 1 ELSE 1, Len(q))

-----------------------------------------------------------------------------
(* The stream and the store *)

(* External.  The results of a service are published in the order of their *)
(* checks.                                                                 *)
Publish(r) ==
  /\ Len(stream) < MaxResults
  /\ r.time <= now /\ r.time + MaxLag >= now
  /\ \A s \in DOMAIN stream :
       stream[s].service = r.service => stream[s].time <= r.time
  /\ stream' = Append(stream, r)
  /\ announced' = Append(announced, 0)
  /\ UNCHANGED <<now, store, refs, toasts, cleared, missing, uses>>

Receive ==
  /\ connected /\ cursor < Len(stream)
  /\ cursor' = cursor + 1
  /\ messages' = IF Contains(messages, cursor') THEN messages
                 ELSE Newest(Append(messages, cursor'))
  /\ UNCHANGED <<now, stream, connected, refs, toasts, history, uses>>

(* The connection is closed; the messages stay. *)
Lost ==
  /\ Use /\ connected /\ connected' = FALSE
  /\ UNCHANGED <<now, stream, cursor, messages, refs, toasts, history>>

(* connect: nothing if there is a connection; otherwise the buffer is      *)
(* emptied, and a new consumer begins with the first result.  It may fail. *)
(* (Calls of connect that overlap are in NatsStore.)                       *)
Connect ==
  \/ connected /\ UNCHANGED <<store, cleared>>
  \/ /\ ~connected /\ connected' \in BOOLEAN
     /\ messages' = <<>> /\ cursor' = 0 /\ cleared' = 0

(* The dashboard's Clear: the buffer is emptied, the consumer goes on.     *)
clearMessages ==
  /\ Use /\ ~Mounted
  /\ messages' = <<>> /\ cleared' = cursor
  /\ UNCHANGED <<now, stream, cursor, connected, refs, toasts, announced,
                 missing>>

-----------------------------------------------------------------------------
(* The page *)

Place(q, s) == CHOOSE i \in DOMAIN q : q[i] = s

(* Mutant: the newest check first. *)
Precedes_Newest(q, a, b) ==
  \/ stream[a].time > stream[b].time
  \/ stream[a].time = stream[b].time /\ Place(q, a) < Place(q, b)

(* The order of allHealthChecks: by time, then as in the messages q. *)
Precedes(q, a, b) ==
  \/ stream[a].time < stream[b].time
  \/ stream[a].time = stream[b].time /\ Place(q, a) < Place(q, b)

(* How the last of some checks went, or what was known before them. *)
LatestStatus(q, checks, known) ==
  IF checks = {} THEN known
  ELSE stream[CHOOSE s \in checks :
                \A o \in checks \ {s} : Precedes(q, o, s)].passed

(* The effect on allHealthChecks, for the messages q: each check that is   *)
(* not processed yet sets the status of its service, and raises a toast if *)
(* it was after the page load, and fails though the status is that it      *)
(* passed.                                                                 *)
ProcessAll(q, done, status, load) ==
  LET new == ToSet(q) \ done
      Of(v) == {s \in new : stream[s].service = v}
      previousStatus(s) ==
        LatestStatus(q, {o \in Of(stream[s].service) : Precedes(q, o, s)},
                     status[stream[s].service])
      raised == {s \in new : /\ stream[s].time > load /\ ~stream[s].passed
                             /\ previousStatus(s) = TRUE}
  IN /\ processed' = done \cup new
     /\ serviceStatus' = [v \in Services |-> LatestStatus(q, Of(v), status[v])]
     /\ toasts' = toasts \cup raised
     /\ announced' = [s \in DOMAIN announced |->
                        IF s \in raised THEN announced[s] + 1 ELSE announced[s]]

(* It runs some time after messages were added, for one or for several. *)
Effect ==
  /\ Mounted /\ ~(ToSet(messages) \subseteq processed)
  /\ ProcessAll(messages, processed, serviceStatus, loadTime)
  /\ UNCHANGED <<now, stream, store, loadTime, cleared, missing, uses>>

(* The page begins anew, with what the buffer holds; then it connects. *)
Mount ==
  /\ Use
  /\ loadTime' = now
  /\ ProcessAll(messages, {}, [v \in Services |-> None], now)
  /\ Connect
  /\ missing' = cleared
  /\ UNCHANGED <<now, stream>>

(* The dashboard instead: it connects too. *)
Leave ==
  /\ Use
  /\ loadTime' = None /\ processed' = {}
  /\ serviceStatus' = [v \in Services |-> None]
  /\ Connect
  /\ UNCHANGED <<now, stream, toasts, announced, missing>>

(* The timer of addToast, and the close button. *)
RemoveToast(s) ==
  /\ s \in toasts
  /\ toasts' = toasts \ {s}
  /\ UNCHANGED <<now, stream, store, refs, history, uses>>

Tick ==
  /\ now < MaxTime /\ now' = now + 1
  /\ UNCHANGED <<stream, store, refs, toasts, history, uses>>

Next ==
  \/ \E r \in Results : Publish(r)
  \/ Receive \/ Lost \/ clearMessages \/ Effect \/ Mount \/ Leave \/ Tick
  \/ \E s \in toasts : RemoveToast(s)

Init ==
  /\ now = 0 /\ stream = <<>>
  /\ cursor = 0 /\ connected = FALSE /\ messages = <<>>
  /\ loadTime = None /\ processed = {} /\ serviceStatus = [v \in Services |-> None]
  /\ toasts = {} /\ announced = <<>> /\ cleared = 0 /\ missing = 0
  /\ uses = 0

Spec == Init /\ [][Next]_vars

-----------------------------------------------------------------------------
TypeOK ==
  /\ now \in 0..MaxTime /\ stream \in Seq(Results)
  /\ cursor \in 0..Len(stream) /\ connected \in BOOLEAN
  /\ messages \in Seq(1..Len(stream)) /\ Len(messages) <= Limit
  /\ loadTime \in 0..MaxTime \cup {None}
  /\ processed \subseteq 1..Len(stream)
  /\ serviceStatus \in [Services -> BOOLEAN \cup {None}]
  /\ toasts \subseteq 1..Len(stream)
  /\ announced \in Seq(Nat) /\ Len(announced) = Len(stream)
  /\ cleared \in 0..cursor /\ missing \in 0..Len(stream)
  /\ uses \in 0..MaxUses

Earlier(s) == {q \in 1..(s - 1) : stream[q].service = stream[s].service}

(* The check failed, and the previous one of its service passed. *)
Fall(s) ==
  /\ ~stream[s].passed
  /\ \E q \in Earlier(s) : stream[q].passed /\ \A p \in Earlier(s) : p <= q

(* No result raises a second toast, though the stream is replayed after a  *)
(* new connection and the page forgets, when it is left, what it has seen. *)
NoRepeatedAlert == \A s \in DOMAIN announced : announced[s] <= 1

(* The buffer had all the results of the service when the page was mounted.*)
Kept(v) == \A q \in 1..missing : stream[q].service # v

(* As long as the buffer has room for all results: once the page has seen  *)
(* them, exactly the falls since the page load were announced, however the *)
(* results were batched, delayed or replayed - of every service that the   *)
(* user has cleared no result of before.  Of the others a fall from a      *)
(* cleared result raises no toast; and if the store connects again as the  *)
(* page is mounted, it takes the cleared results, replayed, for news, and  *)
(* compares the next one with them.                                        *)
FallsAreAnnounced ==
  /\ Mounted /\ connected /\ Len(stream) <= Limit
  /\ cursor = Len(stream) /\ ToSet(messages) \subseteq processed
  => \A s \in DOMAIN stream :
       stream[s].time > loadTime /\ Kept(stream[s].service) =>
         (announced[s] > 0 <=> Fall(s))
=============================================================================
