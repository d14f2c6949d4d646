SPECIFICATION Spec
CONSTANTS
  None = None
  Clients = {p, q}
  CheckList <- MCCheckList
  Settings = {"1.settings"}
  Good = {ann, bob}
  Bad = Bad
  NotJson = NotJson
  MaxCalls = 2
  Admins = {p, q}
  Logins = {Login}
  Names = {ann, bob}
  Teams = {red, blue}
  Passwords = {good, bad}
  Life = 1
  MaxTime = 2
  MaxTokens = 1
  MaxJobs = 2
  Messages = {"http1", "dns1", "failed2", "bad"}
  Parseable = {"http1", "dns1", "failed2"}
  TeamNames = {"1", "2"}
  CheckNames = {"http", "dns"}
  TeamOf <- MCTeamOf
  CheckOf <- MCCheckOf
  Points <- MCPoints
  PerSecond = 2
  Day = 2
  MaxInstant = 3
  MaxResults = 2
  TeamNumbers = {"0", "1", "12"}
  CheckSubjects <- MCCheckSubjects
SYMMETRY Symmetry
INVARIANTS
  AnswerIsCurrent
  CommandTookEffect
  AccountsAreSound
  ScoresAreExact
  RightsFit
PROPERTY TokenIsEarned
CHECK_DEADLOCK FALSE
