SPECIFICATION SchedulerFairSpec
CONSTANTS
  Keys <- MCChecks
  Ops = {"put", "delete", "purge"}
  Watchers = {"server"}
  ServerWatcher = "server"
  Pattern <- MCPattern
  MaxUpdates = 3
  MaxRestarts = 1
  MaxToggles = 2
INVARIANTS
  PutIsScheduled
  DeletedHasNoJobs
PROPERTY
  DeletedGoesQuiet
CHECK_DEADLOCK FALSE
