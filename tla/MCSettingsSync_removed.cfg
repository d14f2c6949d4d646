SPECIFICATION FairSpec
CONSTANTS
  Keys <- MCOneCheck
  Ops <- MCPutDelete
  Watchers <- MCWatchers
  Pattern <- MCPattern
  WatchList <- MCWatchList
  MaxUpdates = 3
  MaxStops = 0
PROPERTY
  RemovedIsDropped
CHECK_DEADLOCK FALSE
