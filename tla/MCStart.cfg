SPECIFICATION Spec
CONSTANTS
  None = None
  Teams = {"0", "1"}
  Retries = 2
  AgentRetries = 3
  MaxFaults = 2
  MaxRuns = 3
  MaxTeam = 3
  Numbers <- MCNumbers
  MaxParts = 2
  Names = {"http", "web.http"}
  OneToken = {"http"}
  Files <- MCFiles
  MaxWrites = 3
  Fields = {"Host", "Port", "Tags"}
  KindOf <- MCKindOf
  Attributes = {"host", "HOST", "port", "tags", "user"}
  FieldOf <- MCFieldOf
  Texts <- MCTexts
  Parses <- MCParses
  Initial <- MCInitial
INVARIANTS
  StartUpIsSound
  ListIsExact
  ScheduledIsLoaded
  ValidatedIsLoaded
  OutcomeIsRight
PROPERTY StartUpEnds
CHECK_DEADLOCK FALSE
