SPECIFICATION SchedulerSpec
CONSTANTS
  Keys <- MCOneCheck
  Ops = {"put", "delete"}
  Watchers = {"server"}
  ServerWatcher = "server"
  Pattern <- MCPattern
  MaxUpdates = 3
  MaxRestarts = 1
  MaxToggles = 2
INVARIANT
  OneJobPerCheck
CHECK_DEADLOCK FALSE
