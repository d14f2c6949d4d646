------------------------------ MODULE StartUp -------------------------------
(***************************************************************************)
(* What the containers start from: the setup and the agent's connection,   *)
(* the list of its teams, the checks on their way from a file to the       *)
(* agents, and a team's overrides.  These parts share no state: one of     *)
(* them is picked at the start and runs as its module says; the variables  *)
(* of the others stay None.                                                *)
(***************************************************************************)
EXTENDS Naturals, Sequences

CONSTANTS
  None,
  Teams, Retries, AgentRetries, MaxFaults, MaxRuns,      \* Bootstrap
  MaxTeam, Numbers, MaxParts,                            \* TeamList
  Names, OneToken, Files, MaxWrites,                     \* CheckIntake
  Fields, KindOf, Attributes, FieldOf, Texts, Parses, Initial  \* Overrides

VARIABLES
  part,
  up, made, admin, told, setup, script, tries, agent, agentTries, watchers,
  subscribed, orphans, excused, teams, cred, faults, runs,  \* Bootstrap
  parts, number, result, parsing, input,                 \* TeamList
  log, cursor, jobs, checks, verdict,                    \* CheckIntake
  attributes, mutableFields, todo, definition, status    \* Overrides

startVars == <<up, made, admin, told, setup, script, tries, agent,
               agentTries, watchers, subscribed, orphans, excused, teams,
               cred, faults, runs>>
listVars == <<parts, number, result, parsing, input>>
intakeVars == <<log, cursor, jobs, checks, verdict>>
overrideVars == <<attributes, mutableFields, todo, definition, status>>
vars == <<part, startVars, listVars, intakeVars, overrideVars>>

Start == INSTANCE Bootstrap WITH todo <- script
List == INSTANCE TeamList WITH n <- number, status <- parsing
Intake == INSTANCE CheckIntake
Fit == INSTANCE Overrides WITH Names <- Attributes

ASSUME StartAssumption ==
  /\ Start!BootstrapAssumption /\ List!TeamListAssumption
  /\ Intake!IntakeAssumption /\ Fit!OverridesAssumption
-----------------------------------------------------------------------------
NoStart == /\ up = None /\ made = None /\ admin = None /\ told = None
           /\ setup = None /\ script = None /\ tries = None /\ agent = None
           /\ agentTries = None /\ watchers = None /\ subscribed = None
           /\ orphans = None /\ excused = None
           /\ teams = None /\ cred = None /\ faults = None /\ runs = None
NoList == /\ parts = None /\ number = None /\ result = None /\ parsing = None
          /\ input = None
NoIntake == /\ log = None /\ cursor = None /\ jobs = None /\ checks = None
            /\ verdict = None
NoOverrides == /\ attributes = None /\ mutableFields = None /\ todo = None
               /\ definition = None /\ status = None

Init ==
  \/ part = "start" /\ Start!Init /\ NoList /\ NoIntake /\ NoOverrides
  \/ part = "list" /\ List!Init /\ NoStart /\ NoIntake /\ NoOverrides
  \/ part = "intake" /\ Intake!Init /\ NoStart /\ NoList /\ NoOverrides
  \/ part = "fit" /\ Fit!Init /\ NoStart /\ NoList /\ NoIntake

StartUnchanged == UNCHANGED <<part, listVars, intakeVars, overrideVars>>

StartStep == part = "start" /\ Start!Next /\ StartUnchanged
ListStep ==
  /\ part = "list" /\ List!ParseStep
  /\ UNCHANGED <<part, startVars, intakeVars, overrideVars>>
IntakeStep ==
  /\ part = "intake" /\ Intake!Next
  /\ UNCHANGED <<part, startVars, listVars, overrideVars>>
FitStep ==
  /\ part = "fit" /\ Fit!Next
  /\ UNCHANGED <<part, startVars, listVars, intakeVars>>

Next == StartStep \/ ListStep \/ IntakeStep \/ FitStep

(* The fairness of Bootstrap and of TeamList. *)
Spec ==
  /\ Init /\ [][Next]_vars
  /\ WF_vars(part = "start" /\ Start!SetupSteps /\ StartUnchanged)
  /\ WF_vars(part = "start" /\ Start!AgentSteps /\ StartUnchanged)
  /\ WF_vars(ListStep)
-----------------------------------------------------------------------------
(* One failure at most leaves a password that somebody knows, an agent     *)
(* that runs can work for all its teams, and one that has ended leaves a   *)
(* consumer on the server only for a request of its own that failed, or if *)
(* it was killed; see Bootstrap.                                           *)
StartUpIsSound ==
  part = "start" => /\ Start!TypeOK /\ Start!AdminIsKnown
                    /\ Start!RunningAgentFits /\ Start!NoWatcherLeft

(* The setup and the agent's attempts to connect come to an end, and so    *)
(* does the reading of --teams; see Bootstrap and TeamList.                *)
StartUpEnds ==
  /\ part = "start" /\ setup = "running" ~> setup # "running"
  /\ part = "start" /\ agent = "dial" ~> agent \in {"running", "ended"}
  /\ part = "list" ~> parsing \in {"done", "error"}

(* The list has each team that is named, once, or is refused; see TeamList. *)
ListIsExact == part = "list" => List!TypeOK /\ List!ListIsExact

(* What the server schedules, the agents have loaded; see CheckIntake. *)
ScheduledIsLoaded ==
  part = "intake" => Intake!TypeOK /\ Intake!ScheduledIsLoaded

(* What "checks validate" accepts, the agents run as it was validated; see *)
(* CheckIntake.                                                            *)
ValidatedIsLoaded == part = "intake" => Intake!ValidatedIsLoaded

(* Only what a check lets a team change is changed, and every override     *)
(* that fits takes effect; see Overrides.                                  *)
OutcomeIsRight ==
  part = "fit" => Fit!TypeOK /\ Fit!OnlyMutableChange /\ Fit!OutcomeIsRight
=============================================================================
