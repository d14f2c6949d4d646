---------------------------- MODULE ResultsSink ----------------------------
(***************************************************************************)
(* The results sink of `server start --db`: sink.Consume pulls from the    *)
(* JetStream consumer "results-watcher", parses a batch, inserts the rows  *)
(* in one SQLite transaction and acknowledges them afterwards.             *)
(*                                                                         *)
(* One sink process, the JetStream consumer it is bound to (external: its  *)
(* limits are those cmd/initialize configures) and the SQLite file.  A row *)
(* is represented by its stream sequence number, the table's primary key:  *)
(* the other columns are a function of it, since a stream entry never      *)
(* changes (DenyDelete, DenyPurge).                                        *)
(***************************************************************************)
EXTENDS Naturals, Sequences, FiniteSets, Functions

CONSTANTS
  Messages,       \* what agents may publish on results.>
  Parseable,      \* the messages insertBatch can turn into a row
  MaxDeliver,     \* deliveries of one message before JetStream gives up
  MaxAckPending,  \* unacknowledged messages before new ones are held back
  FetchBatch,     \* messages one Fetch returns at most
  MaxSeq,         \* bound: messages published
  MaxFaults,      \* bound: crashes, I/O errors, lost acks and shutdowns
  MaxPowerLosses  \* bound: power losses of the host of the database

ASSUME SinkAssumption ==
  /\ Parseable \subseteq Messages
  /\ MaxDeliver \in Nat \ {0}
  /\ MaxAckPending \in Nat \ {0}
  /\ FetchBatch \in Nat \ {0}
  /\ MaxSeq \in Nat
  /\ MaxFaults \in Nat
  /\ MaxPowerLosses \in Nat

VARIABLES
  stream,      \* the "results" stream; a message's index is its sequence
  cons,        \* the consumer's state of each sequence number
  deliveries,  \* how often each sequence number has been delivered
  exists,      \* JetStream (still) has the consumer
  pc,          \* where Consume is ("down": not running)
  cancelled,   \* the context given to Consume is done
  inbox,       \* messages sent to the subscription, not yet fetched
  batch,       \* msgs: the fetched messages still to be parsed
  toAck,       \* rows and toAck (parallel in the code), by sequence number
  commits,     \* the committed transactions: the new rows of each
  synced,      \* how many of them a checkpoint has made durable
  lost,        \* history: rows that a power loss took out of the table
  faults,      \* history: faults so far
  powerLosses  \* history: power losses so far

jetstream == <<stream, cons, deliveries, exists>>
client    == <<pc, cancelled, inbox, batch, toAck>>
database  == <<commits, synced>>
history   == <<lost, faults, powerLosses>>
vars == <<jetstream, client, database, history>>

Seqs == 1..MaxSeq
Published == 1..Len(stream)

(* The rows of the table. *)
Stored == UNION Range(commits)

WellFormed(s) == s \in Published /\ stream[s] \in Parseable

(* What the client of the consumer holds in memory. *)
InHand == Range(inbox) \cup Range(batch) \cup Range(toAck)

-----------------------------------------------------------------------------
(***************************************************************************)
(* JetStream                                                               *)
(***************************************************************************)

(* Sequence numbers that count against MaxAckPending. *)
Outstanding == {s \in Seqs : cons[s] \in {"pending", "redeliver"}}

(* js.Publish of a score result: the stream grows by one. *)
Publish(m) ==
  /\ Len(stream) < MaxSeq
  /\ stream' = Append(stream, m)
  /\ cons' = [cons EXCEPT ![Len(stream) + 1] = "new"]
  /\ UNCHANGED <<deliveries, exists, client, database, history>>

(* A pull request for FetchBatch messages is outstanding: the next new     *)
(* message, or one whose acknowledgement is overdue, is sent to the        *)
(* subscription.                                                           *)
Deliver(s) ==
  /\ exists /\ pc = "fetch" /\ Len(inbox) < FetchBatch
  /\ \/ /\ cons[s] = "new"
        /\ \A t \in 1..(s - 1) : cons[t] # "new"
        /\ Cardinality(Outstanding) < MaxAckPending
     \/ cons[s] = "redeliver"
  /\ cons' = [cons EXCEPT ![s] = "pending"]
  /\ deliveries' = [deliveries EXCEPT ![s] = @ + 1]
  /\ inbox' = Append(inbox, s)
  /\ UNCHANGED <<stream, exists, pc, cancelled, batch, toAck, database,
                 history>>

(* AckWait runs out.  The sink may still be working on the message, or on  *)
(* the batch before it: the consumer cannot tell a slow client from a dead *)
(* one.  But while nothing keeps the sink from fetching, AckWait (30 s) is *)
(* longer than a Fetch (fetchWait, 5 s).                                   *)
AckExpire(s) ==
  /\ exists /\ cons[s] = "pending"
  /\ s \in Range(inbox) => pc \in {"parse", "ack"}
  /\ cons' = [cons EXCEPT ![s] = IF deliveries[s] < MaxDeliver
                                 THEN "redeliver" ELSE "exhausted"]
  /\ UNCHANGED <<stream, deliveries, exists, client, database, history>>

(* The consumer has a Name but no Durable name: JetStream deletes it when  *)
(* no pull request was waiting for some seconds, for want of a sink or     *)
(* because a transaction took long.  What it knew is forgotten (cons keeps *)
(* the last of it).                                                        *)
DeleteInactive ==
  /\ exists /\ pc # "fetch"
  /\ exists' = FALSE
  /\ UNCHANGED <<stream, cons, deliveries, client, database, history>>

(* An acknowledgement or a Term reaches the consumer; it is honoured while *)
(* the message is outstanding and ignored afterwards.                      *)
Settle(s, outcome) ==
  cons' = [cons EXCEPT ![s] =
             IF exists /\ @ \in {"pending", "redeliver"} THEN outcome ELSE @]

-----------------------------------------------------------------------------
(***************************************************************************)
(* Consume and insertBatch                                                 *)
(***************************************************************************)

Goto(from, to) == pc = from /\ pc' = to

Fault == faults < MaxFaults /\ faults' = faults + 1

(* Consume returns, or its process dies: the subscription, the fetched     *)
(* batch and the parsed rows are gone.                                     *)
Leave ==
  /\ pc' = "down"
  /\ cancelled' = FALSE
  /\ inbox' = <<>> /\ batch' = <<>> /\ toAck' = <<>>

(* server start: PullSubscribe binds to the consumer, or fails. *)
Start ==
  /\ exists
  /\ Goto("down", "loop")
  /\ UNCHANGED <<jetstream, cancelled, inbox, batch, toAck, database, history>>

(* The head of the loop: Fetch is called, or the context is done. *)
BeginFetch ==
  /\ ~cancelled
  /\ Goto("loop", "fetch")
  /\ UNCHANGED <<jetstream, cancelled, inbox, batch, toAck, database, history>>

LoopDone ==
  /\ pc = "loop" /\ cancelled
  /\ Leave
  /\ UNCHANGED <<jetstream, database, history>>

(* Fetch returns the messages that have arrived ... *)
FetchReturn ==
  /\ Goto("fetch", "parse")
  /\ \E k \in 1..Len(inbox) :
       /\ batch' = SubSeq(inbox, 1, k)
       /\ inbox' = SubSeq(inbox, k + 1, Len(inbox))
  /\ UNCHANGED <<jetstream, cancelled, toAck, database, history>>

(* Mutant: each Fetch has a subscription of its own, and what arrives too  *)
(* late for it is discarded.                                               *)
FetchTimeout_Drops ==
  /\ exists \/ cancelled
  /\ Goto("fetch", "loop")
  /\ inbox' = <<>>
  /\ UNCHANGED <<jetstream, cancelled, batch, toAck, database, history>>

(* ... or none before fetchWait, or because the context was cancelled: the *)
(* loop goes on.  A message sent just before stays in the subscription.    *)
FetchTimeout ==
  /\ exists \/ cancelled
  /\ Goto("fetch", "loop")
  /\ UNCHANGED <<jetstream, cancelled, inbox, batch, toAck, database, history>>

(* ... or another error, with which Consume returns; nobody answers the    *)
(* pull request when the consumer is gone.                                 *)
FetchError ==
  /\ pc = "fetch"
  /\ Leave
  /\ \/ Fault
     \/ ~exists /\ UNCHANGED faults
  /\ UNCHANGED <<jetstream, database, lost, powerLosses>>

(* The three checks of insertBatch: JSON, metadata, subject. *)
CanParse(s) == stream[s] \in Parseable

KeepMessage ==
  /\ pc = "parse" /\ batch # <<>>
  /\ CanParse(Head(batch))
  /\ toAck' = Append(toAck, Head(batch))
  /\ batch' = Tail(batch)
  /\ UNCHANGED <<jetstream, pc, cancelled, inbox, database, history>>

(* A message that cannot be parsed is terminated and dropped; a failure of *)
(* Term is only logged.                                                    *)
TermMessage ==
  /\ pc = "parse" /\ batch # <<>>
  /\ ~CanParse(Head(batch))
  /\ batch' = Tail(batch)
  /\ \/ Settle(Head(batch), "termed") /\ UNCHANGED faults
     \/ Fault /\ UNCHANGED cons
  /\ UNCHANGED <<stream, deliveries, exists, pc, cancelled, inbox, toAck,
                 database, lost, powerLosses>>

(* Mutant: INSERT without OR IGNORE, on a table without the primary key. *)
NewRows_NoIgnore(s) == Range(s)

(* INSERT OR IGNORE: the rows whose stream_seq is not in the table yet. *)
NewRows(s) == Range(s) \ Stored

(* Mutant: each row is a transaction of its own, and the acks follow even  *)
(* if a later one failed.                                                  *)
InsertBatch_Partial ==
  /\ pc = "parse" /\ batch = <<>> /\ toAck # <<>>
  /\ commits' = Append(commits, {Head(toAck)} \ Stored)
  /\ pc' = "ack"
  /\ UNCHANGED <<jetstream, cancelled, inbox, batch, toAck, synced, history>>

(* DB.InsertBatch: one transaction for the whole batch, then the acks. *)
InsertBatch ==
  /\ pc = "parse" /\ batch = <<>> /\ toAck # <<>>
  /\ ~cancelled
  /\ commits' = Append(commits, NewRows(toAck))
  /\ pc' = "ack"
  /\ UNCHANGED <<jetstream, cancelled, inbox, batch, toAck, synced, history>>

(* No row is left after parsing: InsertBatch and the ack loop do nothing. *)
InsertNothing ==
  /\ batch = <<>> /\ toAck = <<>>
  /\ Goto("parse", "loop")
  /\ UNCHANGED <<jetstream, cancelled, inbox, batch, toAck, database, history>>

(* Mutant: an insert error is logged like an ack error and the loop goes   *)
(* on to acknowledge.                                                      *)
InsertError_Logged ==
  /\ batch = <<>> /\ toAck # <<>>
  /\ Goto("parse", "ack")
  /\ Fault
  /\ UNCHANGED <<jetstream, cancelled, inbox, batch, toAck, database, lost,
                 powerLosses>>

(* The transaction fails: it is rolled back and Consume returns the error; *)
(* nothing is acknowledged.                                                *)
InsertError ==
  /\ pc = "parse" /\ batch = <<>> /\ toAck # <<>>
  /\ Leave /\ Fault
  /\ UNCHANGED <<jetstream, database, lost, powerLosses>>

(* The same, because the context the transaction runs under is done. *)
InsertCancelled ==
  /\ pc = "parse" /\ batch = <<>> /\ toAck # <<>>
  /\ cancelled
  /\ Leave
  /\ UNCHANGED <<jetstream, database, history>>

(* The ack loop: an ack that fails, or is lost on its way, is only logged. *)
AckMessage ==
  /\ pc = "ack" /\ toAck # <<>>
  /\ toAck' = Tail(toAck)
  /\ \/ Settle(Head(toAck), "acked") /\ UNCHANGED faults
     \/ Fault /\ UNCHANGED cons
  /\ UNCHANGED <<stream, deliveries, exists, pc, cancelled, inbox, batch,
                 database, lost, powerLosses>>

AckDone ==
  /\ toAck = <<>>
  /\ Goto("ack", "loop")
  /\ UNCHANGED <<jetstream, cancelled, inbox, batch, toAck, database, history>>

-----------------------------------------------------------------------------
(***************************************************************************)
(* The environment of the sink                                             *)
(***************************************************************************)

(* cancelConsumer: the server is shutting down. *)
Cancel ==
  /\ pc # "down" /\ ~cancelled
  /\ cancelled' = TRUE
  /\ Fault
  /\ UNCHANGED <<jetstream, pc, inbox, batch, toAck, database, lost,
                 powerLosses>>

(* The process is killed: SQLite keeps what was committed. *)
Crash ==
  /\ pc # "down"
  /\ Leave /\ Fault
  /\ UNCHANGED <<jetstream, database, lost, powerLosses>>

(* SQLite moves the write-ahead log into the database file and syncs it. *)
Checkpoint ==
  /\ synced < Len(commits)
  /\ synced' = Len(commits)
  /\ UNCHANGED <<jetstream, client, commits, history>>

(* The host loses power.  In WAL mode with synchronous=NORMAL a commit is  *)
(* not synced: the transactions after the last checkpoint may be undone.   *)
PowerLoss ==
  /\ powerLosses < MaxPowerLosses
  /\ powerLosses' = powerLosses + 1
  /\ \E k \in synced..Len(commits) : commits' = SubSeq(commits, 1, k)
  /\ lost' = (lost \cup Stored) \ Stored'
  /\ Leave
  /\ UNCHANGED <<jetstream, synced, faults>>

-----------------------------------------------------------------------------
Init ==
  /\ stream = <<>>
  /\ cons = [s \in Seqs |-> "none"]
  /\ deliveries = [s \in Seqs |-> 0] /\ exists = TRUE
  /\ pc = "down" /\ cancelled = FALSE
  /\ inbox = <<>> /\ batch = <<>> /\ toAck = <<>>
  /\ commits = <<>> /\ synced = 0
  /\ lost = {} /\ faults = 0 /\ powerLosses = 0

Next ==
  \/ \E m \in Messages : Publish(m)
  \/ \E s \in Seqs : Deliver(s) \/ AckExpire(s)
  \/ DeleteInactive
  \/ Start \/ BeginFetch \/ LoopDone
  \/ FetchReturn \/ FetchTimeout \/ FetchError
  \/ KeepMessage \/ TermMessage
  \/ InsertBatch \/ InsertNothing \/ InsertError \/ InsertCancelled
  \/ AckMessage \/ AckDone
  \/ Cancel \/ Crash \/ Checkpoint \/ PowerLoss

Spec == Init /\ [][Next]_vars

(* Every step of Consume is taken if it stays possible; a pull request is  *)
(* renewed forever, so Deliver and FetchReturn are possible again and      *)
(* again, not continuously; AckWait always runs out; the operator starts a *)
(* server that has stopped.  Nothing obliges a fault or a publication.     *)
Fairness ==
  /\ \A s \in Seqs : SF_vars(Deliver(s)) /\ SF_vars(AckExpire(s))
  /\ SF_vars(FetchReturn)
  /\ WF_vars(Start) /\ WF_vars(BeginFetch) /\ WF_vars(LoopDone)
  /\ WF_vars(FetchTimeout)
  /\ WF_vars(KeepMessage) /\ WF_vars(TermMessage)
  /\ WF_vars(InsertBatch) /\ WF_vars(InsertNothing)
  /\ WF_vars(InsertCancelled)
  /\ WF_vars(AckMessage) /\ WF_vars(AckDone)

FairSpec == Spec /\ Fairness

-----------------------------------------------------------------------------
(***************************************************************************)
(* Properties                                                              *)
(***************************************************************************)

ConsumerStates ==
  {"none", "new", "pending", "redeliver", "acked", "termed", "exhausted"}

TypeOK ==
  /\ stream \in Seq(Messages) /\ Len(stream) <= MaxSeq
  /\ cons \in [Seqs -> ConsumerStates]
  /\ deliveries \in [Seqs -> Nat] /\ exists \in BOOLEAN
  /\ pc \in {"down", "loop", "fetch", "parse", "ack"}
  /\ cancelled \in BOOLEAN
  /\ inbox \in Seq(Seqs) /\ batch \in Seq(Seqs) /\ toAck \in Seq(Seqs)
  /\ commits \in Seq(SUBSET Seqs)
  /\ synced \in 0..Len(commits)
  /\ lost \subseteq Seqs
  /\ faults \in 0..MaxFaults
  /\ powerLosses \in 0..MaxPowerLosses

(* A result is acknowledged to JetStream, and so never sent again, only    *)
(* once its row is in the table: the ack loop runs after the commit.  Only *)
(* a power loss can take such a row away.                                  *)
AckedIsStored ==
  \A s \in Seqs : cons[s] = "acked" => s \in Stored \cup lost

(* A redelivered result is not counted twice: no stream sequence number is *)
(* inserted by two transactions (sink_test: "Redelivery of the same stream *)
(* sequence should be a no-op").                                           *)
NoDoubleCount ==
  \A i, j \in DOMAIN commits : i # j => commits[i] \cap commits[j] = {}

(* Only a message that cannot be parsed is terminated, and none of those   *)
(* reaches the table or is acknowledged as if it had.                      *)
OnlyMalformedDropped ==
  \A s \in Seqs :
    /\ cons[s] = "termed" => ~WellFormed(s)
    /\ s \in Stored \/ cons[s] = "acked" => WellFormed(s)

(* JetStream gives a result up without a row in the table only after a     *)
(* fault, or when it has deleted the consumer.  Otherwise the sink may be  *)
(* slow and let AckWait run out MaxDeliver times, and still it holds the   *)
(* message and will insert it.  (It is not true that MaxDeliver faults are *)
(* needed: a late message and its redelivery can be lost by the same       *)
(* crash, or by a deletion of the consumer before they are fetched.)       *)
NoSilentLoss ==
  \A s \in Seqs :
    cons[s] = "exhausted" /\ WellFormed(s) /\ s \notin Stored
      => faults > 0 \/ powerLosses > 0 \/ ~exists \/ s \in InHand

(* Every result is stored in the end, though a power loss may undo that,   *)
(* unless the delivery limit of the consumer is used up first, or the      *)
(* consumer is deleted.                                                    *)
StoredOrExhausted ==
  \A s \in Seqs :
    WellFormed(s) ~> s \in Stored \cup lost \/ cons[s] = "exhausted" \/ ~exists

(* "Consume binds to the durable "results-watcher" pull consumer": a sink  *)
(* that is down comes back when the server is started again.               *)
SinkComesBack == pc = "down" ~> pc # "down"
=============================================================================
