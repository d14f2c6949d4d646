SPECIFICATION FairSpec
CONSTANTS
  Keys <- MCOneCheck
  Ops <- MCOps
  Watchers <- MCWatchers
  Pattern <- MCPattern
  WatchList <- MCWatchList
  MaxUpdates = 3
  MaxStops = 1
INVARIANTS
  NewestPutIsLoaded
  StaleOnlyFromStartUp
PROPERTY
  PutIsLoaded
CHECK_DEADLOCK FALSE
