SPECIFICATION FairSpec
CONSTANTS
  good = good
  bad = bad
  Messages <- MCMessages
  Parseable <- MCParseable
  MaxDeliver = 2
  MaxAckPending = 2
  FetchBatch = 2
  MaxSeq = 1
  MaxFaults = 1
  MaxPowerLosses = 0
PROPERTY
  SinkComesBack
CHECK_DEADLOCK FALSE
