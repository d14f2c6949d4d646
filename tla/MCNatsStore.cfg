SPECIFICATION Spec
CONSTANTS
  Cells = {"1.web", "2.web"}
  Jwts = {"team1", "admin"}
  CellsOf <- MCCellsOf
  Overseers = {"admin"}
  Limit = 2
  Slots = {i, j}
  passed = passed
  failed = failed
  Outcomes <- MCOutcomes
  Results <- MCResults
  MaxMessages = 3
  MaxConns = 2
  MaxConsumers = 2
  MaxUses = 3
SYMMETRY Symmetry
INVARIANTS
  HandlesFit
  NoDuplicates
  OnlyOwnResults
  LatestIsLast
CHECK_DEADLOCK FALSE
