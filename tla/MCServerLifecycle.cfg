SPECIFICATION ServerFairSpec
CONSTANT Retries = 3
INVARIANTS
  NothingLeftOpen
  OrderlyStopDrains
PROPERTIES
  StopCompletes
  ConsumerEndStopsServer
CHECK_DEADLOCK FALSE
