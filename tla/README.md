# nats-score in TLA+

nats-score scores a cyber defence competition. A server keeps the definitions of
the checks and the settings of the teams in NATS JetStream and triggers the
checks on a schedule; agents run them for their teams and publish the results;
a sink copies the results into SQLite; a web interface shows them. This
directory holds TLA+ models of the parts of it that are concurrent or that
survive failures, the configurations with which TLC checks them, and proofs
that TLAPS checks for every value of the constants.

All paths below are relative to the repository; `internal/` and `cmd/` are in
`server/`, `services/` and `views/` in `frontend/src/`.

Contents: 1 inventory, 2 modules, 3 runs, 4 fairness, 5 proofs, 6 findings,
7 what is not modelled, 8 plan, 9 how to run it.


## 1. Inventory of the system

```
 CLI: checks ..., user ...          web interface (browser)
        |                              |  HTTP (login, settings, start/stop)
        v                              v
 +---------------- NATS -------------------------+        +---------------------+
 | bucket "settings"  check.* , <team>.settings  |<------>| server start        |
 | bucket "users"     <name>                     |        |  monitorChecks      |
 | stream "results"   results.<team>.<check>...  |        |  gocron scheduler   |
 | core   events.score.<check>                   |        |  HTTP handlers      |
 +-----------------------------------------------+        |  sink.Consume (--db)|---> SQLite
    |  watchers      | events.score.>     ^                +---------------------+
    v                v                    | results
 +------------------------------------------+
 | agent: MonitorSettings, HandleScoreEvent |
 +------------------------------------------+
```

| Part | State | Operations | Interacts by |
|---|---|---|---|
| Results sink, `internal/sink` | the pull subscription, the fetched batch, rows and messages to acknowledge; the table | `Consume`, `insertBatch`, `DB.InsertBatch` | JetStream pull consumer `results-watcher`; one SQLite transaction per batch |
| Settings bucket, JetStream | a log of revisions per key, watchers | `Put`, `Delete`, `Purge`, `Watch` | everything below |
| Agent settings cache, `internal/settings` | `Checks`, `Teams[t].Attributes`, the start-up counter | `MonitorSettings`, `mergeWatchers`, `GetCheck`, `GetAttributes` | one watcher per pattern, merged into one channel; read by the scoring goroutines |
| Check scheduler, `cmd/server`, `internal/cron` | gocron jobs, whether scoring is started | `monitorChecks`, `AddCheckCron`, `RemoveCheckCron`, start and stop buttons | a watcher; core NATS triggers, which nobody stores |
| Scoring agent, `internal/score` | the subscription's queue, the handler that runs, a goroutine per team | `HandleScoreEvent`, `runTeamCheck`, `publishResults` | triggers, the cache, the stream |
| Server process, `cmd/server` | open resources, deferred calls, goroutines, channels | `Server` | the sink's goroutine, the web server's goroutine, signals |
| Check commands and handlers, `cmd/checks`, `internal/nats/func.go` | none of their own; the bucket | `GetChecks`, import, export, purge, remove | several requests to the bucket each |
| Team settings, `views/SettingsView.tsx`, `internal/handlers` | the page's copy of the object, requests on their way, the token in `localStorage` | load, edit, save; the handler's GET and PUT | HTTP; `<team>.settings` |
| Accounts and tokens, `cmd/user`, `internal/nats/users.go`, `internal/handlers/login.go`, `internal/auth` | bucket `users`, signed tokens | `user add`, `remove`, `list`; login; `VerifyJWT` | several requests each |
| NATS store of the web interface, `services/nats.ts` | connection, JetStream handle, token, consumer, status, message buffer | `connect`, `disconnect`, `subscribeToStream`, `clearMessages` | awaits during which other calls run; callbacks; ordered consumers |
| Attribute overrides, `internal/score` | the copy of a definition that one goroutine works on | filter by mutable fields, strip braces, `applyOverrides` | the team's attributes; the walk over a map in random order |
| Team list, `cmd/agent` | the loop over the parts of `--teams` | `ParseTeams` | its list is that of the agent |
| Check definitions, `internal/checks`, `cmd/checks`, `internal/settings` | the JSON in the bucket, as the server, the agents and the lists read it | three decoders, `validate`, `import`, `AddCheckCron` | the bucket; each reader at its own pace |
| Score queries, `cmd/query`, `sink.go` | none; the table | `Query` with its range, team and check | the table that the sink fills |
| Sign-in, `services/auth.ts`, `router.tsx`, `internal/middleware` | the token in `localStorage`, which all tabs share | login, logout, the guards of the routes, requests | HTTP; other tabs; the clocks of browser and server |
| Notifications, `views/HealthCheckView.tsx`, `services/toast.ts` | what the page has seen, the status per service, toasts | the effect over all results, timers | the buffer of the NATS store |
| Credentials, `cmd/auth`, `internal/auth` | none; signed tokens | `createAgentCredentials`, `applyPermissions` | NATS refuses what a token does not permit |
| Initialization and start, `cmd/initialize`, `internal/nats`, `cmd/agent`, `scripts/startup.sh` | what was created, connection, watchers, subscription | the commands of the setup, `SetupConnection`, `SetupKVWatcher`, `SubjectSubscribe`, `Close` | NATS, which may not be up yet |
| Command line, rendering, static files | see section 7 | | |

**What is hard here, and what makes each part correct.**

* *Sink.* The commit of a batch and its acknowledgements are separate steps, and
  JetStream redelivers whatever was not acknowledged in time. Correct: an
  acknowledged result has been committed, no result is counted twice, and no
  result is lost by slowness alone.
* *Cache.* A watcher sends a snapshot, a marker and then live updates, and an
  agent merges several; removals are skipped until every marker was seen.
  Correct: the cache holds the newest usable value of each key, and holds a
  removed one in the start-up window only.
* *Scheduler.* Jobs are in memory, one per put; bad values and purges take none
  away in a run, a restart adds those of the last revisions only, and a delete
  takes all. Correct: each check that is in the snapshot or was put since has its
  job until it is deleted, and a deleted one has none.
* *Scoring agent.* A round has a goroutine per team, and the cache changes
  under it. Correct: one result per trigger and team, in the order of the
  triggers, with one definition of the check, and the attributes of one team do
  not reach another.
* *Server.* Start-up and shutdown have many early returns. Correct: whatever
  fails, what a call was deferred for is closed and the consumer told to stop, an
  orderly stop also closes the web server and drains the consumer before the
  database is closed, and a stop always completes.
* *Calls made of several requests* (check commands, accounts, settings page).
  They see the bucket at several moments. Correct: what they answer was true at
  some moment of the call, and what they claim to have done was done.
* *Definitions on their way.* Who validates, who schedules and who runs a check
  decode its JSON each in its own way and time. Correct: what is scheduled is
  loaded, what was validated is what runs, and only the fields that a team may
  change change.
* *Queries.* The order of timestamps is not that of the stream, and bounds are cut
  to seconds. Correct: a competition scored in pieces adds up to the whole.
* *Sign-in.* A guard reads the token several times while another tab may replace
  it, and the page it lets in outlives the token. Correct: pages and settings shown
  belong to somebody who was signed in since the guard began.
* *Notifications.* The page forgets when it is left, the dashboard may clear the
  buffer, and the stream is replayed when the store connects again. Correct: no
  result is announced twice, and each fall is announced that the page could see.
* *Credentials.* NATS drops silently what a token does not permit. Correct: a
  token is enough for its holder, and of what other teams do permits only what
  names no team.
* *Start of a deployment.* Any request may fail, the script goes on, an agent may
  be killed, and containers are started again. Correct: an agent runs only if it
  can do its work, one that ends leaves a consumer on the server only where its own
  request to stop or to watch failed, and the administrator can sign in.
* *NATS store of the web interface.* Every function awaits and then uses module
  variables that other calls may have changed. Correct: the handles belong
  together, nothing is shown twice, a user sees his own results, and the newest
  result wins.

`PROJECT.json` lists the hazards one by one, each at its line and with the
properties that answer it.


## 2. Modules

Data is abstracted: a check's definition is the revision of the bucket it was
loaded from, a result is its stream sequence number, a connection or consumer
the number of its creation. Control is kept: each handler or step between two
requests or awaits is one action, with its error paths. Every unbounded counter
has a bound among the CONSTANTS, marked "bound:".

| Module | Models | Correspondence |
|---|---|---|
| `ResultsSink` | `sink.Consume`, `insertBatch`, `DB.InsertBatch`, the SQLite file, and (external) the JetStream consumer with the limits of `cmd/initialize` | `pc` is the place in the loop: `loop`, `fetch`, `parse`, `ack`. `inbox` holds what was sent to the subscription, `batch` is `msgs`, `toAck` is `rows` and `toAck`. `commits` is the sequence of transactions, `synced` how many of them a checkpoint has made durable. `cons` is what the consumer knows of each message |
| `ResultsLedger` | nothing of the code: what the sink promises | `Publish`, `Record`, `Settle`, `Lose` |
| `ResultsSinkLedger` | the refinement mapping | recorded is the table, settled is acknowledged or terminated |
| `KVWatch` | (external) the bucket and its watchers | `log`; a watcher's `start` (snapshot), `bound` (where its marker goes), `cursor`, `marked` |
| `SettingsSync` on `KVWatch` | `agent.Run`, `SetupKVWatcher`, `MonitorSettings`, `mergeWatchers` | `CreateWatcher` one watcher at a time; `HandleMarker`, `HandlePut`, `SkipBadEntry`, `HandleRemove` are the branches of the loop |
| `CheckScheduler` on `KVWatch` | `monitorChecks`, `AddCheckCron`, `RemoveCheckCron`, start and stop of scoring, restarts | a job is the revision it was added for; `triggered` is the core NATS message |
| `ScoreEvents` | `HandleScoreEvent`, `runTeamCheck`, `publishResults` | a goroutine is a record with the step it is at and what it read |
| `ServerLifecycle` | `Server` | `at` is the step of the start-up, `defers` the stack of deferred calls, the channels are sequences of at most one value; `open` is what has a Close, `conns` the listener and connections of the web server |
| `SettingsStore` | `GetChecks` and the commands import, export, purge, remove | a call is a sequence of requests, `todo` what its loop has left |
| `TeamSettings` | `SettingsView.tsx`, the handler `TeamSettings`, the token in `localStorage` | requests on their way are a set: they may overtake each other |
| `Accounts` | `user add/remove/list`, login, `VerifyJWT` | a command is a `job`, a login reads, then compares and signs |
| `NatsStore` | `services/nats.ts` and the views' effects | a slot is a call in progress, a step of it runs from one `await` to the next |
| `Overrides` | the filter and `applyOverrides` of a goroutine of `ScoreEvents` | a step takes one attribute left in the map, any one |
| `TeamList` | `ParseTeams` | the argument is a sequence of parts, `part` and `next` are the two loops; a number above `MaxTeam` is refused, as `ParseUint` does with 16 bits; the counter of a range is wider (`uint64`) and can pass it |
| `CheckIntake` | `Check.UnmarshalJSON`, the decoder of `validate`, `import`, `remove`, `GetChecks`, `AddCheckCron` | a file is what each decoder makes of it; the bucket is a sequence of writes, and each reader has a cursor. Server and agents read all revisions: this is the time after their start-up. An agent that is started after a bad value has overwritten a good one reads the last revision only, and has no check where the server still has its job |
| `ScoreQuery` on `ResultsLedger` | `cmd/query`, `DB.Query` with `filterClause` | a row has the timestamp of its result; a query is evaluated on the recorded rows |
| `Session` | `services/auth.ts`, the guards of `router.tsx`, login and logout, `RequireAuth`, `RequireAdminAuth`, the settings page's requests | a tab is at a guard, at a page or leaving; `creds` is the token in `localStorage`; `signedIn` (history) is who was signed in since the guard of a tab began; the server's clock is `now`, the browser's is off by `skew` |
| `Alerts` | the effect of `HealthCheckView`, `services/toast.ts`, and the buffer of `NatsStore` as the page sees it | `processed`, `serviceStatus` are the references of the page, lost when it is left; the buffer is not. `clearMessages` is the Clear button of the dashboard; `cleared` and `missing` (history) are how much of the stream it has taken from the buffer, and from the page when it was mounted. `LatestStatus` and `Precedes` say what the loop over the sorted results comes to |
| `Credentials` | `createAgentCredentials`, `applyPermissions`, and what agents and pages ask of NATS | subjects are sequences of tokens, patterns match as NATS matches them. `Fetch`, `Remove` and `Acknowledge` name a consumer and no team |
| `Bootstrap` with `Credentials` | `startup.sh`, `cmd/initialize`, `agent.Run` up to its loop, `SetupConnection`, `SetupKVWatcher`, `SubjectSubscribe`, `Close` | `made` is what exists on the server; each request of the setup and of the agent is a step, which may fail, and a failed watch may have created its consumer. `orphans` are consumers on the server that no agent listens to, `excused` (history) the failed requests and kills that may leave one; `AgentKilled` and `Expire` are external |
| `Commands`, `Web`, `StartUp` | nothing more: sums of modules above | see below |
| `ResultsSinkProofs`, `BucketProofs`, `ProcessProofs`, `NatsStoreProofs`, `CommandsProofs`, `WebProofs`, `StartProofs`, `SequenceFacts` | the proofs | section 5 |

`SettingsSync` and `CheckScheduler` compose with the bucket by extending
`KVWatch` (their steps are conjunctions with its steps). `ScoreEvents` does not
carry the bucket along: it lets the cache change in any way at any moment, which
is more than `SettingsSync` allows. `ScoreQuery` extends `ResultsLedger`, the
specification that `ResultsSink` is shown to implement, and so does not repeat
the sink. `Bootstrap` takes the permissions of a token from an instance of
`Credentials`. `ServerLifecycle` abstracts the sink to
"fetching" or "inserting"; `ResultsSink` abstracts the server to `Start`,
`Cancel` and `Crash`.

Where proofs are about two modules at once (`BucketProofs`: the cache and the
scheduler; `ProcessProofs`: the round and the server), the definitions of the
second that would clash with the first carry its name: `SchedulerInit`,
`ServerNext`, ...

Three modules, `Commands`, `Web` and `StartUp`, are *sums*: each instantiates
several modules that share no state, picks one of them in `Init` (the variable
`part`) and runs it as its own `Next` says, while the variables of the others stay
`None`. The reachable states of a sum
are those of its parts side by side, and a property "`part = ... => P`" is `P` of
that part and nothing more, so a sum shows what separate runs of its parts would;
fairness is that of the part, guarded in the same way. It says nothing about
interactions between the parts, and there are none in these models. Several related
properties of a part are checked as one conjunction of their named definitions
in the part's module. The assumptions on the constants of the parts, definitions
named `...Assumption`, are assumed by the sum. The sums are general, for they are
what the proofs are about; `MC*.tla` only give values to the constants. A definition whose
name ends in an underscore and a word, commented "Mutant:", is a plausible
mistake in the code, kept to show that a property would notice it; it is part of
no specification.


## 3. Runs

The times are for two workers. Each run takes every action of its modules.

| Run | Configuration | Instance | Shows |
|---|---|---|---|
| `sink` | `MCResultsSink.cfg` | two messages of two kinds (parseable or not), batches of up to two, two deliveries, two faults, one power loss; 200 000 states, 1.5 min | acknowledged implies stored (or undone by a power loss); no double count; given up without a row only after a fault or with the consumer gone; implements `ResultsLedger`; every well-formed result is stored unless JetStream gives it up or deletes the consumer |
| `sink_durable` | `MCResultsSink_durable.cfg` | one message | *violated*: a sink that is down comes back (finding 1) |
| `settings` | `MCSettingsSync.cfg` | two watchers (checks and one team), three updates of put, bad value or delete, one restart; 2 min | the newest usable value is loaded; a removed entry stays only from the start-up window; every put that is not overwritten reaches the cache |
| `settings_removed` | `MCSettingsSync_removed.cfg` | the same without restart | *violated*: a removed check is dropped (finding 2) |
| `scheduler` | `MCCheckScheduler.cfg` | two checks, three updates (put, delete, purge; a bad value or a frequency of 0 is skipped by the same action as a purge), one restart, two presses of start or stop; 1 min | a check that was put in this run, or came last before it, has its job; a deleted one has none and goes quiet |
| `scheduler_one_job` | `MCCheckScheduler_onejob.cfg` | one check | *violated*: one job per check (finding 3) |
| `score` | `MCScoreEvents.cfg` | one agent for two teams, two triggers, two revisions of a check, one of attributes, one stop | one result per trigger and team; order; one definition per round; no leaked overrides; triggers are handled |
| `lifecycle` | `MCServerLifecycle.cfg` | three attempts to connect, with and without `--db`; 2 900 states | nothing with a deferred Close is left open, nor, after an orderly stop, the web server; an orderly stop drains; a stop completes; a server does not outlive its consumer |
| `store` | `MCNatsStore.cfg` | a team and an overseer, two calls at once, two connections, two consumers, three messages, three uses, a buffer of two; 3 million states, 2 min | handles fit each other and what NATS has; no duplicates; only own results; the latest is last |
| `commands` | `MCCommands.cfg` | sum of `SettingsStore` (two callers, two checks, one team's settings, two calls), `Accounts` (two admins, one login, two names, teams and passwords, two commands, one token, two ticks), `ScoreQuery` (two teams and checks, two results, four half seconds) and `Credentials` (every agent with every credential, every page with its token); 1.8 million states, 2 min | reads of the bucket are current and fail for a reason; commands took effect; adding overwrites only newer accounts, listings are current, a removed user is locked out when the token expires; tokens are earned; score ranges and filters add up and are exact between whole seconds; a token is enough for its holder and permits of others' requests only what names no team |
| `web` | `MCWeb.cfg` | sum of `TeamSettings` (one page, two teams, two fields, two saves), `Session` (two tabs, two teams, four uses) and `Alerts` (two services, four results, a buffer of three, four uses); 2.4 million states, 1.5 min | a save keeps what was not edited; saves that a page waits for are handled in order; the page and the settings shown fit somebody signed in since its guard began; no result is announced twice, and falls are announced while the buffer has room, of services not cleared |
| `start` | `MCStart.cfg` | sum of `Bootstrap` (three starts, two failed requests, every credential and list of teams), `TeamList` (two parts, team numbers of two bits and one too large), `CheckIntake` (files with at most one part wrong, two names, one with a dot, three writes) and `Overrides` (five names: two of one field, one of none, one of a field that cannot be set; values in braces); 520 000 states, 2.5 min | somebody knows the administrator's password, a running agent fits its credentials, one that ends leaves no more consumers than requests failed; setup, agent and reading of `--teams` come to an end; the list of teams is exact or refused; scheduled implies loaded; validated is loaded as validated; only mutable fields change, all of them unless one does not fit |

**Why these bounds are enough for the interesting cases.** In `sink` a batch of
two with one bad message, a redelivery next to a new message, an expired
AckWait behind an insert that still runs, a crash between commit and
acknowledgement followed by another during the redelivery, and a power loss
after a checkpoint all occur. In `settings` three updates cover snapshot, before
the marker and live for one key, in every interleaving with the marker of the
other watcher. In `scheduler` a put, an overwriting put and a delete follow each
other on one check or are spread over two. In `score` the second trigger waits
while the first round runs and the definition changes in between; the agents
share nothing but the triggers and the stream, so one of them is enough, with
two teams. In `store` two calls meet at every await, a user switch meets a
connection that is still opening, and a reconnection replays a buffer that is
full. Of `Alerts` the buffer of three drops one of four results, so both a full
and a sufficient buffer occur, with the page left, the buffer cleared or the
connection lost at any point; a result that passed, one that failed, a clear and
another result fit in. In `Session` both tabs' guards meet a login, a logout and a change of
user in the other tab; the browser's clock is right there. In `CheckIntake` a good
version follows a bad one and a removal follows either, with each reader behind
by any number of them. In `Bootstrap` a second start meets what the first has
left, and the agent has up to three watchers, with a failure at the last of them and
of a stop that follows. In `Accounts` two ticks take a token to its last one and
beyond. `Overrides`, `TeamList` and `Credentials` enumerate their inputs; the
numbers are small because the code compares them and does nothing else with them.

`store` uses symmetry of its slots and of the two outcomes of a check, `commands`
and `web` of callers, names, teams, passwords, tabs, slots and services; runs with
a liveness property use none.

`CHECK_DEADLOCK FALSE` is given everywhere: the bounds on publications, updates
and uses let every system come to rest, and a stopped server is a final state.

**Two properties of `store` are conditional.** `OnlyOwnResults` and
`LatestIsLast` hold while each call of the store ended before the next began
(`overlapped` is false). When two calls of `subscribeToStream` overlap, the one
that finishes first leaves a consumer that nobody stops, and two consumers feed
one buffer; then an older result may come last, or a foreign one stay. `HandlesFit`
and `NoDuplicates` hold unconditionally.

**What the pages' properties leave out is what the code does.** A tab keeps its page
when another tab signs somebody else in: settings loaded for one team are then
saved with the token of the other. `ShownFits` allows for it with `signedIn`, and
excludes everything else. A result that was cleared from the buffer is compared
with no later one, or is taken for news if the store connects again: `AlertsFit` is about
services of which nothing was cleared when the page was mounted. A save that was given up may arrive after a
newer one: `SavesInOrder` is about requests that the page waits for.

**`SaveKeepsUnedited`** is about a page that has loaded the settings of the team
it saves for. A page whose load has failed, or on which Save is pressed before
the load has ended, sends an object without the fields it does not know; the
model contains that behaviour, and no property excuses it.


## 4. Fairness

Safety runs need none. The others use:

* `ResultsSink`: weak fairness of each step of `Consume` (a goroutine that can
  run is run) and of `Start` (the compose file has no restart policy: this is
  the operator, or the service manager, starting a server that is down). Strong
  fairness of `Deliver`, `AckExpire` and `FetchReturn`: they are enabled only
  while a pull request waits, which happens again and again but not
  continuously. No fairness of faults, of publications or of the deletion of
  the consumer.
* `SettingsSync`, `CheckScheduler`: the process is started again; JetStream
  delivers; `select` in the goroutines of `mergeWatchers` and in the monitor
  serves each watcher in the end, as Go's runtime does for goroutines blocked
  on a channel; a job of a started scheduler comes due, and the agents take a
  trigger.
* `ScoreEvents`: the client library calls the handler for the next message,
  goroutines are scheduled, and `checker.Run` returns; that is an assumption
  about the checks, not something the code enforces (see the hazard at
  `score.go:50`).
* `ServerLifecycle`: `Server` runs on unless it waits; `http.Server.Shutdown`
  ends within its 30 seconds; a transaction ends. `ConsumerStops` is strongly
  fair: `Consume` looks at its context between batches, again and again.

* `TeamList`: the loop runs on. `Bootstrap`: the programs of containers that have
  been started run on; neither assumes that a request succeeds or that the server
  comes up. `StartUp` states both for its parts.

`DeleteInactive` is enabled outside of `Fetch` only, although JetStream waits
some seconds: the model has no clock, and the liveness of the sink is stated
with "or the consumer is gone".


## 5. Proofs

Each theorem holds for every value of the constants that satisfies the named
assumption of its module: the bounds (`MaxSeq`, `MaxUpdates`, `MaxFaults`, ...)
are any naturals and the sets any sets, finite or not. All proofs have the same
shape: an inductive invariant, a lemma that `Init` establishes it, one lemma or
step per action that keeps it, and the theorem that names the property.

**The sink** (`ResultsSinkProofs`, assuming `SinkAssumption`). `SinkInv` is the
type invariant together with

* `HeldIsPublished`: what JetStream has delivered and what lies in a local queue
  was published (a settled number beyond the stream would be "settled" when it
  is published later);
* `KeptIsWellFormed`, `TermedIsMalformed`: what waits to be acknowledged or is
  stored could be parsed, what was terminated could not;
* `AckFollowsCommit`: while `Consume` acknowledges, what it acknowledges is in
  the table. `AckedIsStored` alone is not inductive: the step that acknowledges
  knows only its list, not that the list was committed.

From it: `SinkTypeCorrect`, `SinkAckedIsStored`, `SinkOnlyMalformedDropped`.
`SinkNoSilentLoss` rests on `OwedIsHeld`: what was delivered and is not settled
lies in a queue of `Consume`, the batch is empty whenever `Fetch` replaces it,
and only a fault cancels the context. (The property says "or the consumer is
gone" because of this proof: with three messages in one pull request and no
fault, JetStream can give up a message that waits in the subscription and then
delete the consumer before it is fetched, which no instance with batches of two
shows.) `SinkNoDoubleCount` needs a second invariant step, since it speaks of two
transactions: a commit inserts only what is not in the table yet.
`SinkImplementsLedger` shows that each step of the sink is, under the mapping of
`ResultsSinkLedger`, a step of `ResultsLedger` or a stutter: fetching, parsing,
rolling back, crashing and redelivering are invisible, a commit is `Record`, an
acknowledgement or a termination is `Settle`, a power loss is `Lose`.
`SequenceFacts` has the lemmas about what `Append`, `Tail` and `SubSeq` leave in
the range of a sequence.

**The bucket** (`BucketProofs`, assuming `KVAssumption`). What every user of a
watcher relies on: a write changes no earlier revision and is unread by all
(`UpdateKeeps`); reading adds exactly one revision to what a watcher has read,
newer than all it has read (`ReadAdvances`); the marker and the first delivery
read nothing (`MarkerKeeps`, `FirstDeliveryKeeps`). The two modules that follow
are proved from these lemmas and not from the definitions of `KVWatch`.

**The cache** (`BucketProofs`, also assuming `SyncAssumption`: the agent's
watchers are distinct and no key matches two of them, since `ParseTeams` drops
duplicate teams). `SyncInv` adds to the properties `NothingRead` (before
`MonitorSettings` runs nothing has been read, so a restart starts from nothing)
and `StartUpCountsMarkers`: the counter is the *cardinality* of the set of
watchers without a marker. This is what makes the start-up end with the last
marker; the proof counts with the theorems of the library on finite sets. Then
`SyncNewestPutIsLoaded` and `SyncStaleOnlyFromStartUp`: a read touches the cache
entry of one key of one watcher, and no other watcher can undo it because the
patterns are apart.

**The scheduler** (`BucketProofs`, also assuming `SchedulerAssumption`).
`SchedulerInv` adds `NothingWhenDown` to the properties: a server that is down
has no jobs and its watcher has read nothing, so that the jobs a restarted server
adds are those of the snapshot. `SchedulerPutIsScheduled` speaks of the bucket's log
and not of what a run has read: `ReadIsScheduled`, about the latter, is what the steps
keep, and `PutIsRead` says that a put below the watcher's cursor was read unless it
was superseded before the run began, for the snapshot has last revisions only. That
is where jobs are lost: a put, then a bad value, a frequency of 0 or a purge, then a
restart, and the check has no job. `SchedulerDeletedHasNoJobs` follows too. The counterpart, one job per check, is false
(section 6).

**The scoring round** (`ProcessProofs`, assuming `ScoreAssumption`), for any
number of agents, teams, triggers and revisions. `ScoreInv` has a part for the
queues (what waits is newer than what is in hand, and in order), one for each
goroutine (it belongs to the trigger its agent has in hand, and what it read is
what its step says), one for the results and one for pairs of a result and a
goroutine or of two goroutines: same trigger, other team, same definition. The
last is what `OneResultPerTrigger`, `ResultsInTriggerOrder` and
`OneDefinitionPerRound` need, and it holds only because the handler waits for its
goroutines before it takes the next trigger. `NoOverrideLeaks` follows from the
part on goroutines.

**The server process** (`ProcessProofs`, assuming `LifecycleAssumption`).
`LifecycleInv` is what a reader of `Server` checks by eye: what is open has its
Close among the deferred calls, but for the connection while the settings bucket
is opened (`DeferInv`); a consumer that runs is told to stop now or by a deferred
call, and its answer is sent as it ends (`ConsumerInv`); before the deferred calls
run only `CloseDB` closes the database, and by then the consumer has answered
(`DrainInv`); and the web server has been shut down before an orderly stop goes on.
`ReturnLeavesNothingOpen` and `OrderlyStopWaits` follow. The first names what Server
leaves to the end of the process: the connection when the bucket cannot be opened,
and the web server in every return but the orderly one, since only
`server.Shutdown` closes it and the early returns do not come to it.

**The NATS store** (`NatsStoreProofs`, assuming `StoreAssumption`), for any users,
buffer size and number of calls in progress. Every function of `nats.ts` awaits and
goes on with module variables that another call may have changed, so the argument
has two layers. `StoreInv` holds whatever overlaps: each handle refers to a
connection or consumer that there is, a call that will dial has a token, and the
handles agree (`HandlesFit`, `NoDuplicates`). `SerialInv` is about a page whose calls
have not overlapped so far: at most one connection is not closed and it is the
page's, at most one consumer is active and it is the page's, whoever is connected is
the one the view was mounted for, and the buffer is the end of what that consumer
has handed on, in order, without gaps. `OnlyOwnResults` follows from the third,
`LatestIsLast` from the last. Earlier forms of the second layer held on the instance
of section 3 and were refuted by TLC with five uses or a third consumer; the proof
had asked for those cases first.

**The calls on the settings bucket** (`CommandsProofs`, assuming
`SettingsStoreAssumption`), for any callers, checks and values. `BucketInv` follows
each call: what the bucket holds is part of the call's history `seen`; what has been
answered was so at some moment of the call, what is neither answered nor left was
missing, what is left was there; what purge, remove and import have dealt with took
effect. The lemma `Bystander` is the reason that it is inductive: a request of
another call can only add to the history. The assumption grew by two facts that the
properties need and the code has: contents that decode and contents that do not are
different ones, and "no value" is none of them.

**The accounts** (same module, assuming `AccountsAssumption`). `UsersInv` relates
tokens and accounts through `lastHeld`, the last tick at which an account had a team:
no token outlives `lastHeld` by more than its life (`TokensFit`), in the last tick of
which it is still accepted, and a login that
compares has an account of this tick (`LoginFits`). So `RemovedIsLockedOut`. A
command writes only after what it asked for was answered, which gives
`AddOverwritesOnlyNewer`. `TokensAreEarned` is about steps: the login's step signs
only what it has read and compared. The processes of commands and logins differ
(assumption).

**The score query** (same module, assuming `QueryAssumption`). The invariant is the
type invariant; the work is in the sums. An induction over a table is out of the
provers' reach, so `ScoreQuery` defines a sum as what it counts: `Total(f)` is the
number of pairs of an `x` and one of the `f[x]` units it has. Then sums over disjoint
rows add up because sets of units are disjoint (`SumSplits`), and the sums of the
checks of a team add up to its line because the units of a check can be numbered and
a unit corresponds to its check and number (`PartsAddUp`), with no induction.
`SecondsInOrder` says what cutting to seconds does: it keeps the order, and at a whole
second loses nothing. From these, `RangesMeet`, `FiltersOnlyFilter` and
`WholeSecondsAreExact`. No team or check is "none given" (assumption:
`--team` is a pointer, and the empty name that stands for no check is no token of a
NATS subject).

**The credentials** (same module, assuming `CredentialsAssumption`). Nothing changes
but the request asked for, so `RightsFit` is about two sets of patterns and the way
NATS matches them. `StandaloneIsGranted`, `OwnTeamIsGranted` and `PageIsGranted`
match each subject that a holder uses against a rule; `OthersOnlyByConsumer` names exactly what
one team's token permits of another's requests: `OthersAreRefused` shows that no
other rule matches a subject of another team, because they differ in a token at
the same place that is no wildcard. What is permitted names no team but, at most, a
consumer: who knows the name of another's consumer may fetch from it, remove it and
acknowledge for it (`auth.go:122-124`), `results-watcher` included. The names of the
others' are random; nothing else keeps the teams apart there. For that, teams are not called "*", ">", "check",
"admin" or "observer": team numbers are `uint16` (`ParseTeams`, `nats auth --team`),
and the other words are those of the subjects and roles themselves.

**The settings page** (`WebProofs`, assuming `TeamSettingsAssumption`). `SavesInv`: a
page that waits for a request waits for one, newer than all of that page that was
handled, with its button disabled (`SavesQueue`), and what is not edited on a page
is as it was loaded (`PageKeeps`), also through the fields the page drops and blanks
it never sends. Requests that were given up or whose page was left are nobody's, and are
not in the statement: one of them may be handled after a newer save of the page.

**The tabs** (same module, assuming `SessionAssumption`). A guard reads the token up
to three times, and any tab may change it in between. `signedIn` is who was signed in,
for a moment at least, since the guard of a tab began; it always has who is signed in
now. `SessionInv`: each question that the guard has passed was answered by somebody
in that set, what is shown was let in by it, and a load or save that is under way carries
the token of one of them. `ShownAlwaysFits` is for any number of tabs, any changes
of the token, and any difference of clocks.

**The alerts** (same module, assuming `AlertsAssumption`). `AlertsInv`: the buffer
holds the last results delivered; a result is announced once, and one that could be
announced again, since it is newer than the page, has been processed; and while the
buffer has room for all, the page has processed the results up to some point and
announced the falls up to there, its status of a service being that of the latest - for
services that are `Kept`: all their results were in the buffer when the page was
mounted, so that the page has seen them (`HasSeen`), whatever is cleared afterwards.
The order in which `HealthCheckView` sorts, by time with ties by the stream, is that
of the stream for one service (`OrderIsStreams`): the module has the results of a
service published in the order of their checks, which is what `ResultsInTriggerOrder`
shows of the agents.

**The list of teams** (`StartProofs`, assuming `TeamListAssumption`), for an argument
of any length and any width of numbers. `ReadUpTo` says that the result has exactly
the teams of the parts read, and of a range as far as it is read, up to one beyond
its end, which is a number that `uint16` does not have: the loop ends because its
counter is wider.
`ListInv` adds that no team is there twice, `IsInjective`.

**Definitions on their way** (same module, assuming `IntakeAssumption`). `IntakeInv`: a
job is of a revision the server has read and could decode, and it has read no
deletion of the name since (`JobFits`); an agent has loaded a revision of the name
not older than any it has read and could decode, unless a deletion came after it
(`CacheFits`); a verdict is about a revision of its name. Server and agents are
apart by any number of revisions; when both have read all writes of a name, a
deletion that the agent took is one that the server took, hence a job without its
check is impossible.

**Overrides** (same module, assuming `OverridesAssumption`). The walk over the map is in
any order; `Progress` says that what is no longer to be done was allowed and fits, and
that a field has the value of one of the names given for it, or its first.

**The start of a deployment** (same module, assuming `BootstrapAssumption`). `StartInv`
has three parts. `ScriptFits`: what is left of `startup.sh` is a tail of it, and a
put comes after the questions for its bucket and account. `SetupFits`: if nobody
knows the administrator's password though at most one request failed, then that
fault was in the put of `initialize`, which was stored while its answer was lost, so
that the password was not printed, and the script is in its own `user add`, with the
server up, nothing missing and no fault left to it: it is about to set the password
again. After that, or without a fault, somebody knows it.
`AgentFits`: watchers are open only while the agent needs them, each request it
made so far was granted, and the consumers that are left are no more than the failed
requests and kills that excuse them. `StopAllFits` counts there: of the stops, as
many leave a consumer as fail at most, and none is refused, since all credentials
permit to remove a consumer of the bucket (`UnwatchIsGranted`). The property is about one failure because of this argument:
with two, `initialize` can lose the password and the script's add can fail, which is
why that restriction is part of it.

`SequenceFacts` has what all of these use about sequences: the range of `Append`,
`Tail`, `SubSeq` and of head and tail; and `LargestExists`, that a set of numbers
below a bound has a largest one. That and `NextFileIsLeft` (the first file left of a
command) follow from the well-foundedness of `<`; no proof needs more induction.

Liveness under fairness is out of the provers' reach and stays with TLC:
`StoredOrExhausted`, `PutIsLoaded`, `DeletedGoesQuiet`, `TriggersAreHandled`,
`StopCompletes`, `ConsumerEndStopsServer`, `StartUpEnds`. So do the violations of
section 6. All the other properties of the passing runs are theorems.

## 6. Findings

1. **The consumer is not durable** (`sink_durable`). `consumer.go:25` says that
   `Consume` "binds to the durable "results-watcher" pull consumer".
   `initialize.go:87-95` sets a `Name` and no `Durable`: it is ephemeral, and
   JetStream deletes it when nobody pulls for a few seconds. `server start --db`
   later than that fails, now and ever after, until it is created again.
2. **A removal during the start-up is lost** (`settings_removed`).
   `settings.go:148` promises to drop a removed check. Removals are skipped while
   any watcher of the agent is still in its snapshot; a live one is not
   repeated. The agent keeps the check until it is restarted.
3. **A check that is written again has two jobs** (`scheduler_one_job`).
   `monitorChecks` adds a job for every put and does not remove the one before.
   `checks.go:18` calls `Frequency` "How often the check runs in seconds"; after
   an update it runs at both frequencies.

Six more disagreements are visible in the models, and the properties of
section 3 are stated around them; they have no run of their own:

* `validate.go:122` warns "Frequency undefined, will default to 60 seconds" and
  accepts. That is so if the field is missing; a zero that is written stays, and
  `AddCheckCron` refuses it (`Frequency` of `CheckIntake`).
* `api.ts:5` says "Fetch all configured check names"; `GetChecks` lists all keys
  that begin with `check.`, while server and agents watch `check.*`: a check with
  a dot in its name is listed and never runs (`OneToken` of `CheckIntake`).
* `sink.go:137` says "Inclusive" and "Exclusive"; bounds and timestamps of a query
  lose their fractions, so a query is exact between whole seconds only
  (`CaughtUpIsExact` of `ScoreQuery`).
* `api.ts:6` calls the list of checks "public"; its route is behind `RequireAuth`
  (`Request` of `Session`).
* `docker-compose.yaml:40` and `:81` wait for "service_completed_successfully";
  `startup.sh` goes on after failed commands, and ends with one that does not need
  the server (`Script` of `Bootstrap`).
* `HealthCheckView.tsx:137-140` wants a toast only if the check was passing before;
  when the buffer is too small for the stream, a page opened between a lost
  connection and the replay sets its status back (`ProcessAll`, `LatestStatus` of `Alerts`).

## 7. What is only model-checked, and what is not modelled

Liveness under fairness is checked by TLC only (end of section 5). Not modelled, or
in part:

* *Command line, logging, static files, rendering*: no state that outlives a
  call, or pure input and output. Of the handlers, `Health`, `Version` and
  `Verify` answer without any state.
* *The types of checks* (HTTP, DNS, ...) with their `Validate` and `Run`: code of
  the `checks` package that each does one exchange with a service; a result is
  passed, failed or an error.
* *The widths of the conversions in `applyOverrides`*: a value fits its field or
  does not. In the code a number that has 64 bits and not those of a narrower field
  is not refused but cut by `SetInt`.
* *An agent started after a bad value has replaced a good one*: `CheckIntake` is about
  readers that are past their start-up (`SettingsSync` has the start-up itself).
* *Toasts that go away by their timer, and clocks of browser and server that
  disagree*: `Alerts` and `Session` have the steps, no run asks about them.
* *Images, proxy, keys and certificates of the deployment.*
* *`getKvValue` and `putKvValue` of the NATS store*: no view calls them.
* *Loss of the connection under a watcher, history depth of the bucket, several
  sinks on one database*: outside of what `KVWatch` and `ResultsSink` model.
* *Time*: gocron's periods, AckWait and the token's life are "again and again",
  "in the end" and ticks of an abstract clock.


## 8. Plan

Order of the work, the most important behaviour first: the sink with its ledger,
the cache and the scheduler; the scoring round; the server process; the calls on
the buckets; the NATS store; then overrides, the team list, the definitions on
their way, queries, sign-in, notifications, credentials and the start of a
deployment. All of that is done, with a proof of every safety property of the
passing runs. What would come next:

1. `NatsStore` and `Alerts` as one specification, so that the buffer that `Alerts`
   sees is that of `NatsStore` by refinement.
2. The loss of a connection under a watcher in `KVWatch`.


## 9. How to run it

```
tlc -workers 2 -config MCResultsSink.cfg MCResultsSink
tlapm ResultsSinkProofs.tla
```

and the same for the other rows of section 3 and the other proof modules.
