------------------------------ MODULE Commands ------------------------------
(***************************************************************************)
(* What the commands and the handlers of accounts and of the settings      *)
(* bucket do, the score query, and the rights of credentials.  These parts *)
(* share no state: one of them is picked at the start and runs as its      *)
(* module says; the variables of the others stay None.                     *)
(***************************************************************************)
EXTENDS Naturals, Sequences

CONSTANTS
  None,
  Clients, CheckList, Settings, Good, Bad, NotJson, MaxCalls,
                                               \* SettingsStore
  Admins, Logins, Names, Teams, Passwords, Life, MaxTime, MaxTokens, MaxJobs,
                                               \* Accounts
  Messages, Parseable, TeamNames, CheckNames, TeamOf, CheckOf, Points,
  PerSecond, Day, MaxInstant, MaxResults,      \* ScoreQuery
  TeamNumbers, CheckSubjects                   \* Credentials

VARIABLES
  part,
  bucket, call, state, files, answer, calls,    \* SettingsStore, and the next
  todo, seen, fault,
  users, job, pc, listed, jobs, step, asked, found, tokens, clock, lastHeld,
                                                \* Accounts
  stream, recorded, settled, lost, time, now,   \* ScoreQuery, and answer
  client, token, request, accepted              \* Credentials

bucketVars == <<bucket, call, state, files, calls>>
commandVars == <<todo, seen, fault>>
accountVars ==
  <<users, job, pc, listed, jobs, step, asked, found, tokens, clock, lastHeld>>
queryVars == <<stream, recorded, settled, lost, time, now>>
rightsVars == <<client, token, request, accepted>>
vars == <<part, answer, bucketVars, commandVars, accountVars, queryVars,
          rightsVars>>

Bucket == INSTANCE SettingsStore WITH Checks <- CheckList
Users == INSTANCE Accounts
Query == INSTANCE ScoreQuery WITH
  Teams <- TeamNames, Checks <- CheckNames, MaxTime <- MaxInstant,
  Lossy <- FALSE
Rights == INSTANCE Credentials WITH
  Teams <- TeamNumbers, CheckNames <- CheckSubjects

ASSUME CommandsAssumption ==
  /\ Users!AccountsAssumption /\ Bucket!SettingsStoreAssumption
  /\ Query!QueryAssumption /\ Rights!CredentialsAssumption
-----------------------------------------------------------------------------
NoBucket == /\ bucket = None /\ call = None /\ state = None /\ files = None
            /\ calls = None
NoCommand == todo = None /\ seen = None /\ fault = None
NoAccounts == /\ users = None /\ job = None /\ pc = None /\ listed = None
              /\ jobs = None /\ step = None /\ asked = None /\ found = None
              /\ tokens = None /\ clock = None /\ lastHeld = None
NoQuery == /\ stream = None /\ recorded = None /\ settled = None
           /\ lost = None /\ time = None /\ now = None
NoRights == client = None /\ token = None /\ request = None /\ accepted = None

Init ==
  \/ part = "bucket" /\ Bucket!Init /\ NoAccounts /\ NoQuery /\ NoRights
  \/ /\ part = "users" /\ Users!Init
     /\ answer = None /\ NoBucket /\ NoQuery /\ NoRights
  \/ /\ part = "query" /\ Query!Init
     /\ NoBucket /\ NoCommand /\ NoAccounts /\ NoRights
  \/ /\ part = "rights" /\ Rights!Init
     /\ answer = None /\ NoBucket /\ NoCommand /\ NoAccounts /\ NoQuery

BucketStep ==
  /\ part = "bucket" /\ Bucket!Next
  /\ UNCHANGED <<part, accountVars, queryVars, rightsVars>>
UsersStep ==
  /\ part = "users" /\ Users!Next
  /\ UNCHANGED <<part, answer, bucketVars, queryVars, rightsVars>>
QueryStep ==
  /\ part = "query" /\ Query!Next
  /\ UNCHANGED <<part, bucketVars, commandVars, accountVars, rightsVars>>
RightsStep ==
  /\ part = "rights" /\ Rights!Next
  /\ UNCHANGED <<part, answer, bucketVars, commandVars, accountVars,
                 queryVars>>

Next == BucketStep \/ UsersStep \/ QueryStep \/ RightsStep
Spec == Init /\ [][Next]_vars

-----------------------------------------------------------------------------
(* What a read of the bucket returns was true during the call, check by    *)
(* check, and a failure has a cause; see SettingsStore.                    *)
AnswerIsCurrent ==
  part = "bucket" => /\ Bucket!TypeOK /\ Bucket!AnswerIsCurrent
                     /\ Bucket!FailureIsExplained

(* A command that succeeds did what it is for; see SettingsStore. *)
CommandTookEffect == part = "bucket" => Bucket!CommandTookEffect

(* Nobody is overwritten unseen, a listing is what was true meanwhile, and *)
(* who was removed is not let in later than a token's life after; see      *)
(* Accounts.                                                               *)
AccountsAreSound ==
  part = "users" => /\ Users!TypeOK
                    /\ Users!AddOverwritesOnlyNewer /\ Users!ListIsCurrent
                    /\ Users!RemovedIsLockedOut

(* A token is signed only for an account as it was during the login; see   *)
(* Accounts.                                                               *)
TokenIsEarned == [][part = "users" => Users!SignsWhatIsEarned]_vars

(* Scores of ranges that meet add up, those of checks and teams too, and   *)
(* with a sink that has caught up they are exact; see ScoreQuery.          *)
ScoresAreExact ==
  part = "query" => /\ Query!TypeOK /\ Query!RangesAddUp
                    /\ Query!FiltersProject /\ Query!CaughtUpIsExact

(* A token is enough for what its holder does, and a team's permits of what*)
(* another team asks only what names no team - which what acts on an       *)
(* existing consumer does not; see Credentials.                            *)
RightsFit ==
  part = "rights" => /\ Rights!NothingNeededIsRefused
                     /\ Rights!OthersOnlyByConsumer
=============================================================================
