---------------------------- MODULE SettingsStore ---------------------------
(***************************************************************************)
(* The callers of the settings bucket that are not watchers: the HTTP      *)
(* handlers that list the checks (GetChecks) and the commands of the CLI   *)
(* that import, export, purge and remove them.  Each call is a       *)
(* sequence of requests to NATS, and calls of different processes          *)
(* interleave between any two requests.                                    *)
(***************************************************************************)
EXTENDS Naturals, Sequences, SequencesExt

CONSTANTS
  Clients,   \* processes and requests that use the bucket
  Checks,    \* names of checks, in the order of a directory listing
  Settings,  \* the other keys of the bucket: the settings of teams
  Good,      \* contents that decode as a check
  Bad,       \* JSON that does not: no definition, or of an unknown type
  NotJson,   \* contents of a file only
  None,      \* no such key
  MaxCalls   \* bound: calls made in all

SettingsStoreAssumption ==
  /\ Checks \in Seq(STRING)
  /\ Range(Checks) \cap Settings = {}
  /\ None \notin Good \cup {Bad} /\ Bad \notin Good
  /\ MaxCalls \in Nat

CheckKeys == Range(Checks)
Keys == CheckKeys \cup Settings
Values == Good \cup {Bad}

VARIABLES
  bucket,  \* key -> its value, or None
  call,    \* client -> the call it is in
  state,   \* client -> idle, running, deleting, done or failed
  todo,    \* client -> the keys or the files of the call not yet dealt with
  files,   \* client -> check -> contents of the directory's file, or None
  answer,  \* client -> what the call returns or writes to files
  calls,   \* calls made
  seen,    \* history: client -> key -> the values it had during the call
  fault    \* history: client -> a request of the call failed

vars == <<bucket, call, state, todo, files, answer, calls, seen, fault>>
local == <<call, files, calls>>

-----------------------------------------------------------------------------
(* The bucket. *)

Present == {k \in Keys : bucket[k] # None}

Write(key, value) ==
  /\ bucket' = [bucket EXCEPT ![key] = value]
  /\ seen' = [c \in Clients |-> [seen[c] EXCEPT ![key] = @ \cup {value}]]

(* A call starts, with what its first request returns: ListKeys gives the  *)
(* keys of one moment, in no particular order.                             *)
Start(c, name, keys, dir) ==
  /\ state[c] = "idle" /\ calls < MaxCalls
  /\ calls' = calls + 1
  /\ call' = [call EXCEPT ![c] = name]
  /\ state' = [state EXCEPT ![c] = "running"]
  /\ todo' = [todo EXCEPT ![c] = keys]
  /\ files' = [files EXCEPT ![c] = dir]
  /\ answer' = [answer EXCEPT ![c] = << >>]
  /\ seen' = [seen EXCEPT ![c] = [k \in Keys |-> {bucket[k]}]]
  /\ fault' = [fault EXCEPT ![c] = FALSE]
  /\ UNCHANGED bucket

NoFiles == [k \in CheckKeys |-> None]

StartListing(c, name) == Start(c, name, Present, NoFiles)

(* The handlers Checks, GetMutableFields and ChecksJSON. *)
StartGetChecks(c) == StartListing(c, "getChecks")
StartExport(c) == StartListing(c, "export")
StartPurge(c) == StartListing(c, "purge")

StartRemove(c, k) == Start(c, "remove", {k}, NoFiles)

StartImport(c, dir) ==
  Start(c, "import", {k \in CheckKeys : dir[k] # None}, dir)

Running(c, name) == state[c] = "running" /\ call[c] = name
Return(c, how) == state' = [state EXCEPT ![c] = how]
Skip(c, key) == todo' = [todo EXCEPT ![c] = @ \ {key}]

(* The keys of the team settings are passed over. *)
SkipSettings(c) ==
  /\ state[c] = "running"
  /\ \E k \in todo[c] \cap Settings : Skip(c, k)
  /\ UNCHANGED <<bucket, state, answer, seen, fault>> /\ UNCHANGED local

-----------------------------------------------------------------------------
(* Reading: getChecks decodes each check, export only indents it. *)

Answer(c, k) ==
  /\ answer' = [answer EXCEPT ![c] =
                  [n \in DOMAIN @ \cup {k} |-> IF n = k THEN bucket[k] ELSE @[n]]]
  /\ Skip(c, k) /\ UNCHANGED state

Refuse(c) == Return(c, "failed") /\ UNCHANGED <<todo, answer>>

(* Mutant: a check that cannot be decoded is left out of the answer. *)
GetCheck_LeaveOut(c) ==
  /\ Running(c, "getChecks")
  /\ \E k \in todo[c] \cap CheckKeys :
       CASE bucket[k] = None -> Refuse(c)
         [] bucket[k] = Bad -> Skip(c, k) /\ UNCHANGED <<state, answer>>
         [] OTHER -> Answer(c, k)
  /\ UNCHANGED <<bucket, seen, fault>> /\ UNCHANGED local

(* Get: a key that has gone since it was listed fails the call, as does a  *)
(* value that is no check.                                                 *)
GetCheck(c) ==
  /\ Running(c, "getChecks")
  /\ \E k \in todo[c] \cap CheckKeys :
       IF bucket[k] \in Good THEN Answer(c, k) ELSE Refuse(c)
  /\ UNCHANGED <<bucket, seen, fault>> /\ UNCHANGED local

ExportCheck(c) ==
  /\ Running(c, "export")
  /\ \E k \in todo[c] \cap CheckKeys :
       IF bucket[k] # None THEN Answer(c, k) ELSE Refuse(c)
  /\ UNCHANGED <<bucket, seen, fault>> /\ UNCHANGED local

(* purge deletes each check it listed. *)
DeleteNext(c) ==
  /\ Running(c, "purge")
  /\ \E k \in todo[c] \cap CheckKeys : Write(k, None) /\ Skip(c, k)
  /\ UNCHANGED <<state, answer, fault>> /\ UNCHANGED local

(* The loop over the keys, or the files, has ended. *)
Finish(c) ==
  /\ state[c] = "running" /\ call[c] # "remove" /\ todo[c] = {}
  /\ Return(c, "done")
  /\ UNCHANGED <<bucket, todo, answer, seen, fault>> /\ UNCHANGED local

-----------------------------------------------------------------------------
(* import: the files in the order of the directory, up to the first that   *)
(* is not JSON.                                                            *)

NextFile(c) == CHOOSE k \in todo[c] :
  \A l \in todo[c] :
    \E i, j \in DOMAIN Checks : Checks[i] = k /\ Checks[j] = l /\ i <= j

(* Mutant: a file that is not JSON is skipped. *)
PutNext_SkipBad(c) ==
  /\ Running(c, "import") /\ todo[c] # {}
  /\ LET k == NextFile(c) IN
     /\ IF files[c][k] = NotJson THEN UNCHANGED <<bucket, seen>>
        ELSE Write(k, files[c][k])
     /\ Skip(c, k)
  /\ UNCHANGED <<state, answer, fault>> /\ UNCHANGED local

PutNext(c) ==
  /\ Running(c, "import") /\ todo[c] # {}
  /\ LET k == NextFile(c) IN
     IF files[c][k] = NotJson
     THEN Return(c, "failed") /\ UNCHANGED <<bucket, seen, todo>>
     ELSE Write(k, files[c][k]) /\ Skip(c, k) /\ UNCHANGED state
  /\ UNCHANGED <<answer, fault>> /\ UNCHANGED local

-----------------------------------------------------------------------------
(* remove: Get, and Delete unless Get said there is no such key; any other *)
(* error of Get is ignored.                                                *)

RemoveGet(c) ==
  /\ Running(c, "remove")
  /\ \E k \in todo[c] :
       \/ /\ bucket[k] = None
          /\ Return(c, "failed") /\ UNCHANGED fault
       \/ /\ bucket[k] # None
          /\ Return(c, "deleting") /\ UNCHANGED fault
       \/ /\ Return(c, "deleting")
          /\ fault' = [fault EXCEPT ![c] = TRUE]
  /\ UNCHANGED <<bucket, todo, answer, seen>> /\ UNCHANGED local

RemoveDelete(c) ==
  /\ state[c] = "deleting"
  /\ \E k \in todo[c] : Write(k, None)
  /\ Return(c, "done")
  /\ UNCHANGED <<todo, answer, fault>> /\ UNCHANGED local

-----------------------------------------------------------------------------
(* Any request of a call but the Get of remove may fail, and fails it. *)
RequestFails(c) ==
  /\ state[c] \in {"running", "deleting"} /\ todo[c] # {}
  /\ ~Running(c, "remove")
  /\ Return(c, "failed")
  /\ fault' = [fault EXCEPT ![c] = TRUE]
  /\ UNCHANGED <<bucket, todo, answer, seen>> /\ UNCHANGED local

(* The client goes on; what it was told is only looked at until then. *)
Leave(c) ==
  /\ state[c] \in {"done", "failed"}
  /\ Return(c, "idle")
  /\ UNCHANGED <<bucket, todo, answer, seen, fault>> /\ UNCHANGED local

Directories == [CheckKeys -> Values \cup {NotJson, None}]

Next == \E c \in Clients :
  \/ StartGetChecks(c) \/ StartExport(c) \/ StartPurge(c)
  \/ \E k \in CheckKeys : StartRemove(c, k)
  \/ \E dir \in Directories : StartImport(c, dir)
  \/ GetCheck(c) \/ ExportCheck(c)
  \/ SkipSettings(c) \/ DeleteNext(c) \/ Finish(c)
  \/ PutNext(c) \/ RemoveGet(c) \/ RemoveDelete(c)
  \/ RequestFails(c) \/ Leave(c)

Init ==
  /\ bucket \in {b \in [Keys -> Values \cup {None}] :
                   \A s \in Settings : b[s] \in Good}
  /\ call = [c \in Clients |-> "purge"]
  /\ state = [c \in Clients |-> "idle"]
  /\ todo = [c \in Clients |-> {}]
  /\ files = [c \in Clients |-> NoFiles]
  /\ answer = [c \in Clients |-> << >>]
  /\ calls = 0
  /\ seen = [c \in Clients |-> [k \in Keys |-> {}]]
  /\ fault = [c \in Clients |-> FALSE]

Spec == Init /\ [][Next]_vars

-----------------------------------------------------------------------------
(* A team's settings are never touched; a call has answers about checks    *)
(* only, with values a check can have.                                     *)
TypeOK ==
  /\ bucket \in [Keys -> Values \cup {None}]
  /\ \A k \in Settings : bucket[k] \in Good
  /\ state \in [Clients -> {"idle", "running", "deleting", "done", "failed"}]
  /\ todo \in [Clients -> SUBSET Keys]
  /\ \A c \in Clients :
       /\ DOMAIN answer[c] \subseteq CheckKeys
       /\ Range(answer[c]) \subseteq Values
  /\ calls \in 0..MaxCalls

Reading(c) == call[c] \in {"getChecks", "export"}

(* What GetChecks and export return is, check by check, something that was *)
(* true during the call: the value it had, or that there was no such       *)
(* check.  GetChecks returns no check that cannot be decoded.              *)
AnswerIsCurrent == \A c \in Clients :
  state[c] = "done" /\ Reading(c) =>
    /\ \A k \in CheckKeys :
         IF k \in DOMAIN answer[c] THEN answer[c][k] \in seen[c][k]
                                  ELSE None \in seen[c][k]
    /\ call[c] = "getChecks" => Bad \notin Range(answer[c])

(* They fail only for a request that failed, a check deleted after it was  *)
(* listed, or, GetChecks, one that cannot be decoded.                      *)
FailureIsExplained == \A c \in Clients :
  state[c] = "failed" /\ Reading(c) /\ ~fault[c] =>
    \E k \in CheckKeys :
      /\ seen[c][k] \cap Values # {}
      /\ None \in seen[c][k] \/ (call[c] = "getChecks" /\ Bad \in seen[c][k])

(* A command that succeeds did what it is for: after purge and remove each *)
(* check concerned was gone at some moment of the call, after import each  *)
(* one of the directory had the contents of its file.                      *)
CommandTookEffect == \A c \in Clients :
  state[c] = "done" =>
    CASE call[c] = "purge" -> \A k \in CheckKeys : None \in seen[c][k]
      [] call[c] = "remove" -> \A k \in todo[c] : None \in seen[c][k]
      [] call[c] = "import" ->
           \A k \in CheckKeys : files[c][k] # None => files[c][k] \in seen[c][k]
      [] OTHER -> TRUE
=============================================================================
