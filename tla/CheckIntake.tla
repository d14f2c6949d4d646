---------------------------- MODULE CheckIntake -----------------------------
(***************************************************************************)
(* How the JSON of a check is read.  "checks import" stores the file; the  *)
(* server's monitor, the agents and GetChecks decode it with               *)
(* Check.UnmarshalJSON, while "checks validate" has a decoder of its own.  *)
(* The server and the agents learn of it from watchers of check.*, here    *)
(* past their start-up: a sequence of writes and a cursor for each reader. *)
(***************************************************************************)
EXTENDS Naturals, Sequences, FiniteSets, FiniteSetsExt

CONSTANTS
  Names,      \* names of checks, from the names of the files
  OneToken,   \* those without a dot: check.* matches their keys
  Files,      \* what may be imported, see File
  None,
  MaxWrites   \* bound: writes to the bucket

(* A number is absent, zero, given, or not one of its width.  The          *)
(* definition is absent (or null), of the wrong shape, or an object whose  *)
(* one field is absent, zero or given.                                     *)
Number == {"absent", "zero", "given", "bad"}
File == [json : BOOLEAN, frequency : Number, weight : Number,
         type : {"absent", "unknown", "known"},
         definition : {"none", "wrong", "absent", "zero", "given"}]

IntakeAssumption ==
  /\ OneToken \subseteq Names
  /\ Files \subseteq File
  /\ None \notin File
  /\ MaxWrites \in Nat

VARIABLES
  log,      \* writes to check.<name>: the file, or None for a delete
  cursor,   \* server, agent -> how many of them its watcher has delivered
  jobs,     \* the cron jobs: revision and name
  checks,   \* the agent's cache: name -> the revision loaded, 0 for none
  verdict   \* the last validation: name, revision and whether it passed

vars == <<log, cursor, jobs, checks, verdict>>

Readers == {"server", "agent"}

-----------------------------------------------------------------------------
(* Decoding *)

(* What json.Unmarshal makes of the fields shared by both structs. *)
FieldsFit(f) == f.json /\ f.frequency # "bad" /\ f.weight # "bad"

(* NewDefinition knows the type and the definition fits it. *)
KnownDefinition(f) ==
  f.type = "known" /\ f.definition \in {"absent", "zero", "given"}

UnmarshalJSON(f) == FieldsFit(f) /\ f.definition # "none" /\ KnownDefinition(f)

(* The defaults are set before the decoding: only an absent number has its *)
(* default, a zero that is written stays.                                  *)
Frequency(f) == IF f.frequency = "absent" THEN "default" ELSE f.frequency
Definition(f) == IF f.definition = "absent" THEN "default" ELSE f.definition

(* Mutant: a missing type is left to NewDefinition's caller. *)
Validate_AnyType(f) == FieldsFit(f) /\ f.weight = "given" /\ f.definition # "none"

(* Validate wants a weight, a type and a definition; a frequency that is   *)
(* not there is only a warning.                                            *)
Validate(f) ==
  /\ FieldsFit(f)
  /\ f.weight = "given" /\ f.type # "absent" /\ f.definition # "none"
  /\ KnownDefinition(f)

(* It sets the defaults after the decoding: a zero is replaced as well.    *)
(* This is what the Validate of the check's type then looks at.            *)
ValidatedDefinition(f) ==
  IF f.definition \in {"absent", "zero"} THEN "default" ELSE f.definition

-----------------------------------------------------------------------------
(* The bucket *)

(* The revision of a name's last write among the first n, 0 if none. *)
LastWrite(name, n) ==
  Max({0} \cup {r \in 1..n : log[r].name = name})

Stored(name) ==
  LET r == LastWrite(name, Len(log)) IN
  IF r = 0 THEN None ELSE log[r].file

(* loadKV: a file that is not JSON ends the import, anything else is put. *)
Import(name, f) ==
  /\ Len(log) < MaxWrites /\ f.json
  /\ log' = Append(log, [name |-> name, file |-> f])
  /\ UNCHANGED <<cursor, jobs, checks, verdict>>

Remove(name) ==
  /\ Len(log) < MaxWrites /\ Stored(name) # None
  /\ log' = Append(log, [name |-> name, file |-> None])
  /\ UNCHANGED <<cursor, jobs, checks, verdict>>

(* The next write that is in the pattern of a reader's watcher. *)
Watched(r) == \E name \in OneToken : log[r].name = name

Receives(reader, r) ==
  /\ r \in (cursor[reader] + 1)..Len(log) /\ Watched(r)
  /\ \A k \in (cursor[reader] + 1)..(r - 1) : ~Watched(k)

Advance(reader, r) == cursor' = [cursor EXCEPT ![reader] = r]

(* Mutant: the server decodes with the struct of Validate. *)
SchedulePut_Loose(r) ==
  /\ Receives("server", r) /\ log[r].file # None
  /\ jobs' = IF FieldsFit(log[r].file) /\ Frequency(log[r].file) # "zero"
             THEN jobs \cup {[rev |-> r, name |-> log[r].name]} ELSE jobs
  /\ Advance("server", r)
  /\ UNCHANGED <<log, checks, verdict>>

(* monitorChecks and AddCheckCron: what cannot be decoded is skipped, and  *)
(* so is a frequency of zero.                                              *)
SchedulePut(r) ==
  /\ Receives("server", r) /\ log[r].file # None
  /\ jobs' = IF UnmarshalJSON(log[r].file) /\ Frequency(log[r].file) # "zero"
             THEN jobs \cup {[rev |-> r, name |-> log[r].name]} ELSE jobs
  /\ Advance("server", r)
  /\ UNCHANGED <<log, checks, verdict>>

ScheduleRemove(r) ==
  /\ Receives("server", r) /\ log[r].file = None
  /\ jobs' = {j \in jobs : j.name # log[r].name}
  /\ Advance("server", r)
  /\ UNCHANGED <<log, checks, verdict>>

(* MonitorSettings *)
LoadPut(r) ==
  /\ Receives("agent", r) /\ log[r].file # None
  /\ checks' = IF UnmarshalJSON(log[r].file)
               THEN [checks EXCEPT ![log[r].name] = r] ELSE checks
  /\ Advance("agent", r)
  /\ UNCHANGED <<log, jobs, verdict>>

LoadRemove(r) ==
  /\ Receives("agent", r) /\ log[r].file = None
  /\ checks' = [checks EXCEPT ![log[r].name] = 0]
  /\ Advance("agent", r)
  /\ UNCHANGED <<log, jobs, verdict>>

(* checks validate: it reads the stored value, not a file.  (The Validate  *)
(* of the check's type is taken to pass.)                                  *)
RunValidate(name) ==
  /\ Stored(name) # None
  /\ verdict' = [name |-> name, rev |-> LastWrite(name, Len(log)),
                 passed |-> Validate(Stored(name))]
  /\ UNCHANGED <<log, cursor, jobs, checks>>

Next ==
  \/ \E name \in Names :
       \/ \E f \in Files : Import(name, f)
       \/ Remove(name) \/ RunValidate(name)
  \/ \E r \in 1..Len(log) :
       SchedulePut(r) \/ ScheduleRemove(r) \/ LoadPut(r) \/ LoadRemove(r)

Init ==
  /\ log = <<>>
  /\ cursor = [r \in Readers |-> 0]
  /\ jobs = {}
  /\ checks = [name \in Names |-> 0]
  /\ verdict = None

Spec == Init /\ [][Next]_vars

-----------------------------------------------------------------------------
(* The bucket holds JSON only, and what is scheduled or loaded could be    *)
(* decoded.                                                                *)
TypeOK ==
  /\ \A r \in 1..Len(log) :
       log[r].name \in Names /\ log[r].file \in {f \in Files : f.json} \cup {None}
  /\ cursor \in [Readers -> 0..Len(log)]
  /\ jobs \subseteq [rev : 1..Len(log), name : Names]
  /\ checks \in [Names -> 0..Len(log)]
  /\ verdict = None \/ verdict \in [name : Names, rev : 1..Len(log), passed : BOOLEAN]

(* No further write of the name is waiting for the reader. *)
UpToDate(reader, name) ==
  \A r \in 1..Len(log) : log[r].name = name => r <= cursor[reader]

(* Every check that is triggered is one that an agent knows: the server    *)
(* schedules nothing that the agents cannot load, through good and bad     *)
(* versions, deletions and zeros.                                          *)
ScheduledIsLoaded ==
  \A j \in jobs :
    UpToDate("server", j.name) /\ UpToDate("agent", j.name) => checks[j.name] # 0

(* A version that "checks validate" has accepted is one the agents load    *)
(* and run with the definition that was validated, unless a field that has *)
(* a default was written as zero.                                          *)
ValidatedIsLoaded ==
  verdict # None =>
    LET f == log[verdict.rev].file IN
    verdict.passed /\ verdict.name \in OneToken
      /\ LastWrite(verdict.name, Len(log)) = verdict.rev
      /\ cursor["agent"] >= verdict.rev
    => /\ checks[verdict.name] = verdict.rev
       /\ f.definition = "zero" \/ Definition(f) = ValidatedDefinition(f)
=============================================================================
