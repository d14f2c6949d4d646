-------------------------- MODULE ServerLifecycle --------------------------
(***************************************************************************)
(* `server start` from its first line to its return: what Server opens,    *)
(* the goroutines it starts, the select it waits in, the orderly shutdown  *)
(* and the deferred calls, which run last in first out however it returns. *)
(* What Consume and the scheduler do in between is in ResultsSink and      *)
(* CheckScheduler.                                                         *)
(***************************************************************************)
EXTENDS Naturals, Sequences, Functions

CONSTANT Retries   \* attempts to connect to NATS

ASSUME LifecycleAssumption == Retries \in Nat \ {0}

VARIABLES
  withDB,     \* started with --db
  pc,         \* where Server is
  at,         \* the step of the start-up it has reached
  attempts,   \* failed attempts to connect
  open,       \* what is open, but for the web server
  defers,     \* the deferred calls
  result,     \* what Server returns
  consumer,   \* the goroutine of sink.Consume
  cancelled,  \* its context is done
  consumerErrCh,
  http,       \* the goroutine of the web server
  serverErrCh,
  conns,      \* its listener and its connections
  stop,       \* what asked the server to stop
  orderly,    \* history: no step of the shutdown has failed
  cutOff      \* history: the database was closed during a transaction

main == <<pc, at, attempts, defers, result>>
sinkVars == <<consumer, cancelled, consumerErrCh>>
web == <<http, serverErrCh, conns>>
history == <<orderly, cutOff>>
serverVars == <<withDB, main, open, sinkVars, web, stop, history>>

StartUp == <<"config", "scheduler", "auth", "connect", "bucket", "users",
             "db", "watch", "serve">>

-----------------------------------------------------------------------------
(***************************************************************************)
(* The start-up                                                            *)
(***************************************************************************)

Step == StartUp[at]
Starting == pc = "start"
Skipped == Step = "db" /\ ~withDB

Proceed ==
  /\ at' = IF Step = "serve" THEN at ELSE at + 1
  /\ pc' = IF Step = "serve" THEN "select" ELSE "start"
  /\ UNCHANGED result

(* Server returns: the deferred calls are next. *)
ReturnWith(r) == pc' = "unwind" /\ result' = r

(* What a successful step opens, and the call it defers.  The connection   *)
(* is opened one step before its Close is deferred.                        *)
Opens == CASE Step = "scheduler" -> {"scheduler"}
           [] Step = "connect" -> {"nats"}
           [] Step = "db" -> {"db"}
           [] Step = "watch" -> {"watcher"}
           [] OTHER -> {}

(* Mutant: the database is closed at the end of Server only. *)
Defers_NoDB == CASE Step = "scheduler" -> <<"scheduler">>
                 [] Step = "bucket" -> <<"nats">>
                 [] Step = "users" -> <<"cancel">>
                 [] Step = "watch" -> <<"watcher">>
                 [] OTHER -> <<>>

Defers == CASE Step = "scheduler" -> <<"scheduler">>
            [] Step = "bucket" -> <<"nats">>
            [] Step = "users" -> <<"cancel">>
            [] Step = "db" -> <<"db">>
            [] Step = "watch" -> <<"watcher">>
            [] OTHER -> <<>>

StepSucceeds ==
  /\ Starting /\ ~Skipped
  /\ Proceed
  /\ open' = open \cup Opens
  /\ defers' = Defers \o defers
  /\ consumer' = IF Step = "db" THEN "fetch" ELSE consumer
  /\ http' = IF Step = "serve" THEN "serving" ELSE http
  /\ conns' = IF Step = "serve" THEN "open" ELSE conns
  /\ UNCHANGED <<withDB, attempts, cancelled, consumerErrCh, serverErrCh,
                 stop, history>>

SkipDB ==
  /\ Starting /\ Skipped
  /\ Proceed
  /\ UNCHANGED <<withDB, attempts, open, defers, sinkVars, web, stop, history>>

(* natsConnect tries again ... *)
ConnectAgain ==
  /\ Starting /\ Step = "connect"
  /\ attempts + 1 < Retries
  /\ attempts' = attempts + 1
  /\ UNCHANGED <<withDB, pc, at, defers, result, open, sinkVars, web, stop,
                 history>>

(* ... and any other failure ends the start-up ("serve" cannot fail). *)
StepFails ==
  /\ Starting /\ ~Skipped
  /\ Step # "serve"
  /\ Step = "connect" => attempts + 1 = Retries
  /\ ReturnWith("error")
  /\ UNCHANGED <<withDB, at, attempts, defers, open, sinkVars, web, stop,
                 history>>

-----------------------------------------------------------------------------
(***************************************************************************)
(* The goroutines                                                          *)
(***************************************************************************)

(* Mutant: an error that ends the consumer is logged and not sent. *)
ConsumerReturns_Silent(r) ==
  /\ consumer' = "done"
  /\ consumerErrCh' = IF r = "nil" THEN <<r>> ELSE consumerErrCh

(* consumerErrCh has room for the one value that is sent. *)
ConsumerReturns(r) ==
  /\ consumer' = "done"
  /\ consumerErrCh' = <<r>>

(* A batch was fetched: its transaction begins, and ends. *)
ConsumerInserts ==
  /\ \/ consumer = "fetch" /\ consumer' = "insert"
     \/ consumer = "insert" /\ "db" \in open /\ consumer' = "fetch"
  /\ UNCHANGED <<withDB, main, open, cancelled, consumerErrCh, web, stop,
                 history>>

(* The stream, the database, or the cancelled context of a transaction. *)
ConsumerFails ==
  /\ consumer \in {"fetch", "insert"}
  /\ ConsumerReturns("error")
  /\ UNCHANGED <<withDB, main, open, cancelled, web, stop, history>>

ConsumerStops ==
  /\ consumer = "fetch" /\ cancelled
  /\ ConsumerReturns("nil")
  /\ UNCHANGED <<withDB, main, open, cancelled, web, stop, history>>

(* No port, or no more connections; the requests in progress go on. *)
ServingFails ==
  /\ http = "serving"
  /\ http' = "done" /\ serverErrCh' = <<"error">>
  /\ conns' \in {conns, "closed"}
  /\ UNCHANGED <<withDB, main, open, sinkVars, stop, history>>

-----------------------------------------------------------------------------
(***************************************************************************)
(* The select, and the orderly shutdown                                    *)
(***************************************************************************)

(* A signal, or the context given by the caller: the consumer's context is *)
(* derived from that one.  During the start-up a signal kills the process. *)
RequestStop(why) ==
  /\ pc = "select" /\ stop = "none"
  /\ stop' = why
  /\ cancelled' = (cancelled \/ why = "context")
  /\ UNCHANGED <<withDB, main, open, consumer, consumerErrCh, web, history>>

SelectServer ==
  /\ pc = "select" /\ serverErrCh # <<>>
  /\ serverErrCh' = <<>>
  /\ ReturnWith(Head(serverErrCh))
  /\ orderly' = FALSE
  /\ UNCHANGED <<withDB, at, attempts, defers, open, sinkVars, http, conns,
                 stop, cutOff>>

SelectConsumer ==
  /\ pc = "select" /\ consumerErrCh # <<>>
  /\ consumerErrCh' = <<>>
  /\ ReturnWith(Head(consumerErrCh))
  /\ orderly' = FALSE
  /\ UNCHANGED <<withDB, at, attempts, defers, open, consumer, cancelled, web,
                 stop, cutOff>>

SelectStop ==
  /\ pc = "select" /\ stop # "none"
  /\ pc' = "stop_watcher"
  /\ UNCHANGED <<withDB, at, attempts, defers, result, open, sinkVars, web,
                 stop, history>>

StopWatcher ==
  /\ pc = "stop_watcher"
  /\ pc' = "stop_http"
  /\ open' = open \ {"watcher"}
  /\ UNCHANGED <<withDB, at, attempts, defers, result, sinkVars, web, stop,
                 history>>

(* server.Shutdown: ListenAndServe returns at once, and the requests in    *)
(* progress are waited for ...                                             *)
ShutdownHTTP ==
  /\ pc = "stop_http"
  /\ http' = "done"
  /\ serverErrCh' = IF http = "serving" THEN <<"nil">> ELSE serverErrCh

StopHTTP ==
  /\ ShutdownHTTP
  /\ pc' = IF withDB THEN "stop_consumer" ELSE "done"
  /\ conns' = "closed"
  /\ UNCHANGED <<withDB, at, attempts, defers, result, open, sinkVars, stop,
                 history>>

(* ... but for no longer than 30 seconds.  Server then returns at once, as *)
(* it does when the watcher cannot be stopped, with the web server as it   *)
(* is and without waiting for the consumer.                                *)
StopFails ==
  /\ \/ pc = "stop_watcher" /\ UNCHANGED web
     \/ ShutdownHTTP /\ UNCHANGED conns
  /\ ReturnWith("error")
  /\ orderly' = FALSE
  /\ UNCHANGED <<withDB, at, attempts, defers, open, sinkVars, stop, cutOff>>

(* Mutant: the consumer's context is cancelled by the deferred call only. *)
CancelConsumer_Deferred ==
  /\ pc = "stop_consumer"
  /\ pc' = "wait_consumer"
  /\ UNCHANGED <<withDB, at, attempts, defers, result, open, consumer,
                 cancelled, consumerErrCh, web, stop, history>>

CancelConsumer ==
  /\ pc = "stop_consumer"
  /\ pc' = "wait_consumer"
  /\ cancelled' = TRUE
  /\ UNCHANGED <<withDB, at, attempts, defers, result, open, consumer,
                 consumerErrCh, web, stop, history>>

(* Mutant: the consumer is told to stop but not waited for. *)
WaitConsumer_Skip ==
  /\ pc = "wait_consumer"
  /\ pc' = "close_db"
  /\ UNCHANGED <<withDB, at, attempts, defers, result, open, sinkVars, web,
                 stop, history>>

(* An error of the consumer is only logged here. *)
WaitConsumer ==
  /\ pc = "wait_consumer" /\ consumerErrCh # <<>>
  /\ consumerErrCh' = <<>>
  /\ pc' = "close_db"
  /\ UNCHANGED <<withDB, at, attempts, defers, result, open, consumer,
                 cancelled, web, stop, history>>

Close(resource) ==
  /\ open' = open \ {resource}
  /\ cutOff' = (cutOff \/ (resource = "db" /\ consumer = "insert"))

CloseDB ==
  /\ pc = "close_db"
  /\ pc' = "done"
  /\ Close("db")
  /\ UNCHANGED <<withDB, at, attempts, defers, result, sinkVars, web, stop,
                 orderly>>

ServerStopped ==
  /\ pc = "done"
  /\ ReturnWith("nil")
  /\ UNCHANGED <<withDB, at, attempts, defers, open, sinkVars, web, stop,
                 history>>

(* The deferred calls; closing what is closed already does no harm. *)
Unwind ==
  /\ pc = "unwind" /\ defers # <<>>
  /\ defers' = Tail(defers)
  /\ IF Head(defers) = "cancel"
     THEN cancelled' = TRUE /\ UNCHANGED <<open, cutOff>>
     ELSE Close(Head(defers)) /\ UNCHANGED cancelled
  /\ UNCHANGED <<withDB, pc, at, attempts, result, consumer, consumerErrCh,
                 web, stop, orderly>>

Return ==
  /\ pc = "unwind" /\ defers = <<>>
  /\ pc' = "returned"
  /\ UNCHANGED <<withDB, at, attempts, defers, result, open, sinkVars, web,
                 stop, history>>

-----------------------------------------------------------------------------
ServerInit ==
  /\ withDB \in BOOLEAN
  /\ pc = "start" /\ at = 1 /\ attempts = 0
  /\ open = {} /\ defers = <<>> /\ result = "none"
  /\ consumer = "none" /\ cancelled = FALSE /\ consumerErrCh = <<>>
  /\ http = "none" /\ serverErrCh = <<>> /\ conns = "closed"
  /\ stop = "none" /\ orderly = TRUE /\ cutOff = FALSE

Shutdown ==
  \/ SelectStop \/ StopWatcher \/ StopHTTP \/ StopFails
  \/ CancelConsumer \/ WaitConsumer \/ CloseDB \/ ServerStopped

ServerStep ==
  \/ StepSucceeds \/ SkipDB \/ ConnectAgain \/ StepFails
  \/ SelectServer \/ SelectConsumer \/ Shutdown \/ Unwind \/ Return

ServerNext ==
  \/ ServerStep
  \/ ConsumerInserts \/ ConsumerFails \/ ConsumerStops \/ ServingFails
  \/ \E why \in {"signal", "context"} : RequestStop(why)

ServerSpec == ServerInit /\ [][ServerNext]_serverVars

(* Server runs on unless it waits, every call it makes returns (Shutdown   *)
(* within 30 seconds), a transaction ends, and Consume comes back to the   *)
(* head of its loop, where it looks at its context, after every batch.     *)
ServerFairness ==
  /\ WF_serverVars(ServerStep)
  /\ WF_serverVars(ConsumerInserts \/ ConsumerFails)
  /\ SF_serverVars(ConsumerStops)

ServerFairSpec == ServerSpec /\ ServerFairness

-----------------------------------------------------------------------------
ServerTypeOK ==
  /\ withDB \in BOOLEAN
  /\ pc \in {"start", "select", "stop_watcher", "stop_http", "stop_consumer",
             "wait_consumer", "close_db", "done", "unwind", "returned"}
  /\ at \in DOMAIN StartUp /\ attempts \in 0..(Retries - 1)
  /\ open \subseteq {"scheduler", "nats", "db", "watcher"}
  /\ Range(defers) \subseteq {"scheduler", "nats", "cancel", "db", "watcher"}
  /\ result \in {"none", "nil", "error"}
  /\ consumer \in {"none", "fetch", "insert", "done"}
  /\ cancelled \in BOOLEAN
  /\ http \in {"none", "serving", "done"}
  /\ conns \in {"closed", "open"}
  /\ \A ch \in {consumerErrCh, serverErrCh} : ch \in {<<>>, <<"nil">>, <<"error">>}
  /\ stop \in {"none", "signal", "context"}
  /\ orderly \in BOOLEAN /\ cutOff \in BOOLEAN

(* Whichever step of the start-up or of the shutdown fails, Server calls   *)
(* the Close of all it has deferred one for before it returns, and tells   *)
(* the consumer to stop.  Two things it may leave to the end of the        *)
(* process: the connection to NATS when the settings bucket cannot be      *)
(* opened, as its Close is deferred only after that; and the web server,   *)
(* listener and requests, which nothing but an orderly shutdown closes.    *)
NothingLeftOpen ==
  pc = "returned" =>
    /\ open = IF Step = "bucket" THEN {"nats"} ELSE {}
    /\ consumer \in {"fetch", "insert"} => cancelled
    /\ conns = "open" => ~orderly

(* In an orderly shutdown the consumer finishes its batch before the       *)
(* database is closed ("wait for it to drain").                            *)
OrderlyStopDrains ==
  orderly /\ pc \in {"done", "unwind", "returned"} /\ result # "error"
    => ~cutOff /\ consumer \in {"none", "done"}

(* A server that is asked to stop does: it never waits for a consumer that *)
(* does not know it should end, or whose answer was taken already.         *)
StopCompletes == stop # "none" ~> pc = "returned"

(* A server does not go on without its consumer. *)
ConsumerEndStopsServer == consumer = "done" ~> pc = "returned"
=============================================================================
