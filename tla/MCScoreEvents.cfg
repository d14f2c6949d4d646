SPECIFICATION FairSpec
CONSTANTS
  Agents = {"agent1"}
  Teams = {"team1", "team2"}
  TeamsOf <- MCTeamsOf
  Checks = {"a"}
  MaxEvents = 2
  MaxRev = 2
  MaxAttrs = 1
  MaxPending = 1
  MaxStops = 1
INVARIANTS
  OneResultPerTrigger
  ResultsInTriggerOrder
  OneDefinitionPerRound
  NoOverrideLeaks
PROPERTY TriggersAreHandled
CHECK_DEADLOCK FALSE
