SPECIFICATION FairSpec
CONSTANTS
  good = good
  bad = bad
  Messages <- MCMessages
  Parseable <- MCParseable
  MaxDeliver = 2
  MaxAckPending = 2
  FetchBatch = 2
  MaxSeq = 2
  MaxFaults = 2
  MaxPowerLosses = 1
INVARIANTS
  AckedIsStored
  NoDoubleCount
  NoSilentLoss
PROPERTIES
  ImplementsLedger
  StoredOrExhausted
CHECK_DEADLOCK FALSE
