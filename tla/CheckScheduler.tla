--------------------------- MODULE CheckScheduler ---------------------------
(***************************************************************************)
(* The server's scheduler: monitorChecks reads the watcher on "check.*"    *)
(* and adds and removes gocron jobs; each job publishes the trigger        *)
(* events.score.<check> on core NATS while the administrator has scoring   *)
(* started.  A job is named by the revision of the bucket it was added     *)
(* for; all the jobs of a check carry its name as their tag.               *)
(***************************************************************************)
EXTENDS KVWatch

CONSTANTS
  ServerWatcher,  \* the server's watcher
  MaxRestarts,    \* bound: times the server stops
  MaxToggles      \* bound: times the administrator presses start or stop

ASSUME SchedulerAssumption ==
  /\ ServerWatcher \in Watchers
  /\ MaxRestarts \in Nat
  /\ MaxToggles \in Nat

VARIABLES
  up,           \* the server runs
  initialized,  \* monitorChecks has seen the marker
  jobs,         \* the scheduler's jobs
  running,      \* the scheduler is started
  triggered,    \* checks with a trigger not yet handled by the agents
  restarts,     \* history: times the server stopped
  toggles,      \* history: times start or stop was pressed
  initAt        \* history: the cursor of the watcher at its marker

serverVars == <<up, initialized, jobs, running, triggered, restarts, toggles,
                initAt>>
schedulerVars == <<kvVars, serverVars>>

SW == ServerWatcher
Cursor == watch[SW].cursor

JobsOf(k) == {r \in jobs : KeyOf(r) = k}

-----------------------------------------------------------------------------
(* Server: a new scheduler without jobs, not started, and a new watcher. *)
Boot ==
  /\ ~up
  /\ up' = TRUE
  /\ watch' = [watch EXCEPT ![SW] = Opened(SW)]
  /\ UNCHANGED <<log, initialized, jobs, running, triggered, restarts,
                 toggles, initAt>>

(* The server stops or is killed; nothing of the scheduler is persisted. *)
Shutdown ==
  /\ up /\ restarts < MaxRestarts
  /\ restarts' = restarts + 1
  /\ up' = FALSE /\ initialized' = FALSE /\ initAt' = 0
  /\ jobs' = {} /\ running' = FALSE
  /\ watch' = [watch EXCEPT ![SW] = Closed]
  /\ UNCHANGED <<log, triggered, toggles>>

SchedulerMarker ==
  /\ up
  /\ TakeMarker(SW)
  /\ initialized' = TRUE
  /\ initAt' = Cursor
  /\ UNCHANGED <<log, up, jobs, running, triggered, restarts, toggles>>

(* Mutant: the job is added under the tag of the check it replaces only if *)
(* the check has no job yet.                                               *)
SchedulePut_KeepOld(r) ==
  /\ up
  /\ NextEntry(SW, r) /\ OpOf(r) = "put"
  /\ Advance(SW, r)
  /\ jobs' = IF JobsOf(KeyOf(r)) = {} THEN jobs \cup {r} ELSE jobs
  /\ UNCHANGED <<log, up, initialized, running, triggered, restarts, toggles,
                 initAt>>

(* AddCheckCron: a job is added; those the check has already stay. *)
SchedulePut(r) ==
  /\ up
  /\ NextEntry(SW, r) /\ OpOf(r) = "put"
  /\ Advance(SW, r)
  /\ jobs' = jobs \cup {r}
  /\ UNCHANGED <<log, up, initialized, running, triggered, restarts, toggles,
                 initAt>>

(* A check that does not unmarshal, or whose frequency is 0, is logged and *)
(* skipped, and so is a purge: its case is empty and Go's switch does not  *)
(* fall through.                                                           *)
SkipEntry(r) ==
  /\ up
  /\ NextEntry(SW, r) /\ OpOf(r) \in {"bad", "freq0", "purge"}
  /\ Advance(SW, r)
  /\ UNCHANGED <<log, serverVars>>

(* Mutant: only the job of the last revision is removed. *)
RemoveJobs_Last(k) ==
  jobs \ {r \in JobsOf(k) : \A q \in JobsOf(k) : q <= r}

(* RemoveCheckCron removes all the jobs with the tag. *)
RemoveJobs(k) == jobs \ JobsOf(k)

(* A delete is skipped until the marker has been seen. *)
HandleDelete(r) ==
  /\ up
  /\ NextEntry(SW, r) /\ OpOf(r) = "delete"
  /\ Advance(SW, r)
  /\ jobs' = IF initialized THEN RemoveJobs(KeyOf(r)) ELSE jobs
  /\ UNCHANGED <<log, up, initialized, running, triggered, restarts, toggles,
                 initAt>>

MonitorChecks ==
  \/ SchedulerMarker
  \/ \E r \in Revisions : SchedulePut(r) \/ SkipEntry(r) \/ HandleDelete(r)

(* The administrator's start and stop buttons. *)
StartScoringCron ==
  /\ up /\ toggles < MaxToggles
  /\ toggles' = toggles + 1
  /\ running' = TRUE
  /\ UNCHANGED <<kvVars, up, initialized, jobs, triggered, restarts, initAt>>

StopScoringCron ==
  /\ up /\ toggles < MaxToggles
  /\ toggles' = toggles + 1
  /\ running' = FALSE
  /\ UNCHANGED <<kvVars, up, initialized, jobs, triggered, restarts, initAt>>

(* A job is due: the trigger is published, and forgotten. *)
Fire(r) ==
  /\ up /\ running /\ r \in jobs
  /\ triggered' = triggered \cup {KeyOf(r)}
  /\ UNCHANGED <<kvVars, up, initialized, jobs, running, restarts, toggles,
                 initAt>>

(* The agents take the trigger (external to this module). *)
Trigger(k) ==
  /\ k \in triggered
  /\ triggered' = triggered \ {k}
  /\ UNCHANGED <<kvVars, up, initialized, jobs, running, restarts, toggles,
                 initAt>>

-----------------------------------------------------------------------------
SchedulerInit ==
  /\ KVInit
  /\ up = FALSE /\ initialized = FALSE
  /\ jobs = {} /\ running = FALSE /\ triggered = {}
  /\ restarts = 0 /\ toggles = 0 /\ initAt = 0

SchedulerNext ==
  \/ \E k \in Keys, op \in Ops : Update(k, op) /\ UNCHANGED serverVars
  \/ FirstDelivery(SW) /\ UNCHANGED serverVars
  \/ Boot \/ Shutdown \/ MonitorChecks
  \/ StartScoringCron \/ StopScoringCron
  \/ \E r \in Revisions : Fire(r)
  \/ \E k \in Keys : Trigger(k)

SchedulerSpec == SchedulerInit /\ [][SchedulerNext]_schedulerVars

(* A stopped server is started again, JetStream delivers, monitorChecks    *)
(* reads on, and a job that stays in a started scheduler comes due.        *)
SchedulerFairness ==
  /\ WF_schedulerVars(Boot) /\ WF_schedulerVars(MonitorChecks)
  /\ WF_schedulerVars(FirstDelivery(SW) /\ UNCHANGED serverVars)
  /\ \A r \in 1..MaxUpdates : WF_schedulerVars(r \in Revisions /\ Fire(r))
  /\ \A k \in Keys : WF_schedulerVars(Trigger(k))

SchedulerFairSpec == SchedulerSpec /\ SchedulerFairness

-----------------------------------------------------------------------------
SchedulerTypeOK ==
  /\ KVTypeOK
  /\ up \in BOOLEAN /\ initialized \in BOOLEAN /\ running \in BOOLEAN
  /\ jobs \subseteq Revisions
  /\ triggered \subseteq Keys
  /\ restarts \in 0..MaxRestarts /\ toggles \in 0..MaxToggles
  /\ initAt \in Nat

(* The revisions monitorChecks has read. *)
Read == {r \in 1..Cursor : r <= Len(log) /\ SentTo(SW, r)}

DeletedAfter(r) ==
  {q \in Read : q > r /\ KeyOf(q) = KeyOf(r) /\ OpOf(q) = "delete"}

(* The check was written again before the server was started: only its     *)
(* last revision is in the snapshot.                                       *)
Superseded(r) == \E q \in 1..watch[SW].start : q > r /\ KeyOf(q) = KeyOf(r)

(* A check that was put with a usable value, in this run of the server or  *)
(* before it, has a job for that value unless it was deleted since or      *)
(* written again before the run began.  In a run a later bad value, purge  *)
(* or frequency 0 takes no job away; a restart after one does, for then    *)
(* the good value is no longer in the snapshot.                            *)
PutIsScheduled ==
  \A r \in 1..Cursor :
    /\ OpOf(r) = "put" /\ KeyOf(r) \in Pattern[SW] /\ ~Superseded(r)
    /\ \A q \in (r + 1)..Cursor : KeyOf(q) = KeyOf(r) => OpOf(q) # "delete"
    => r \in jobs

(* Once the check is deleted none of its jobs survives, unless the delete  *)
(* was read before the marker.                                             *)
DeletedHasNoJobs ==
  \A r \in jobs : \A q \in DeletedAfter(r) : ~initialized \/ q <= initAt

(* A deleted check goes quiet: no job and no unhandled trigger of it is    *)
(* left some time after the delete, however many jobs it had, unless the   *)
(* check is written again or the delete was read before the marker.        *)
DeletedGoesQuiet ==
  \A k \in Keys : \A r \in 1..MaxUpdates :
    r \in Revisions /\ KeyOf(r) = k /\ OpOf(r) = "delete"
      ~> \/ ~IsLast(r, Len(log))
         \/ JobsOf(k) = {} /\ k \notin triggered
         \/ r <= initAt

(* What the comment on Check.Frequency says: "How often the check runs in  *)
(* seconds" - so one job per check, not one per revision of it.            *)
OneJobPerCheck == \A r, q \in jobs : KeyOf(r) = KeyOf(q) => r = q
=============================================================================
