--------------------------- MODULE CommandsProofs ---------------------------
(***************************************************************************)
(* What the calls on the buckets, the score query and the signed           *)
(* permissions guarantee, for any number of callers, checks, accounts,     *)
(* results and teams.  A call is made of several requests: the proofs      *)
(* follow it and the history of what was true while it ran, and note what  *)
(* a request of another call can do to it.                                 *)
(***************************************************************************)
EXTENDS Commands, FiniteSetTheorems, FunctionTheorems, SequenceTheorems,
        WellFoundedInduction, TLAPS

-----------------------------------------------------------------------------
(* The calls on the settings bucket. *)

Contents == Bucket!Values \cup {None}
CheckCalls == {"getChecks", "export", "purge", "remove", "import"}

CallTypes ==
  /\ Bucket!TypeOK
  /\ call \in [Clients -> CheckCalls]
  /\ files \in [Clients -> Bucket!Directories]
  /\ DOMAIN answer = Clients
  /\ seen \in [Clients -> [Bucket!Keys -> SUBSET Contents]]
  /\ fault \in [Clients -> BOOLEAN]

(* The history of a call has what the bucket holds now, and what is left   *)
(* of the call is what its kind says.                                      *)
CallFits(c) ==
  /\ state[c] # "idle" => \A k \in Bucket!Keys : bucket[k] \in seen[c][k]
  /\ state[c] = "deleting" => call[c] = "remove"
  /\ call[c] = "remove" /\ state[c] # "idle" =>
       \E k \in Bucket!CheckKeys : todo[c] = {k}
  /\ call[c] = "import" => todo[c] \subseteq Bucket!CheckKeys
  /\ call[c] # "remove" /\ state[c] = "done" => todo[c] = {}

(* What has been answered was true during the call, what is neither        *)
(* answered nor left was missing, and what is left was there.              *)
ReadFits(c) ==
  Bucket!Reading(c) /\ state[c] # "idle" =>
    /\ \A k \in DOMAIN answer[c] : answer[c][k] \in seen[c][k]
    /\ \A k \in Bucket!CheckKeys \ (DOMAIN answer[c] \cup todo[c]) :
         None \in seen[c][k]
    /\ \A k \in todo[c] : seen[c][k] \cap Bucket!Values # {}
    /\ state[c] = "failed" /\ ~fault[c] =>
         \E k \in Bucket!CheckKeys :
           /\ seen[c][k] \cap Bucket!Values # {}
           /\ \/ None \in seen[c][k]
              \/ call[c] = "getChecks" /\ Bad \in seen[c][k]

DecodedFits(c) ==
  call[c] = "getChecks" => \A k \in DOMAIN answer[c] : answer[c][k] \in Good

(* What purge, remove and import have dealt with took effect. *)
EffectFits(c) ==
  state[c] # "idle" =>
    /\ call[c] = "purge" =>
         \A k \in Bucket!CheckKeys \ todo[c] : None \in seen[c][k]
    /\ call[c] = "remove" /\ state[c] = "done" =>
         \A k \in todo[c] : None \in seen[c][k]
    /\ call[c] = "import" =>
         \A k \in Bucket!CheckKeys \ todo[c] :
           files[c][k] # None => files[c][k] \in seen[c][k]

CallInv(c) == CallFits(c) /\ ReadFits(c) /\ DecodedFits(c) /\ EffectFits(c)

BucketInv == CallTypes /\ \A c \in Clients : CallInv(c)

(* The invariant is what the properties need. *)
LEMMA BucketInvSuffices ==
  ASSUME Bucket!SettingsStoreAssumption, BucketInv
  PROVE  /\ Bucket!TypeOK /\ Bucket!AnswerIsCurrent
         /\ Bucket!FailureIsExplained /\ Bucket!CommandTookEffect
<1>1. Bucket!TypeOK
  BY DEF BucketInv, CallTypes
<1>2. Bucket!AnswerIsCurrent
  <2> SUFFICES ASSUME NEW c \in Clients, state[c] = "done", Bucket!Reading(c)
               PROVE  /\ \A k \in Bucket!CheckKeys :
                           IF k \in DOMAIN answer[c]
                           THEN answer[c][k] \in seen[c][k]
                           ELSE None \in seen[c][k]
                      /\ call[c] = "getChecks" => Bad \notin Bucket!Range(answer[c])
    BY DEF Bucket!AnswerIsCurrent
  <2>1. CallFits(c) /\ ReadFits(c) /\ DecodedFits(c)
    BY DEF BucketInv, CallInv
  <2>2. todo[c] = {}
    BY <2>1 DEF CallFits, Bucket!Reading
  <2>3. call[c] = "getChecks" => Bad \notin Bucket!Range(answer[c])
    BY <2>1 DEF DecodedFits, Bucket!Range, Bucket!SettingsStoreAssumption
  <2> QED
    BY <2>1, <2>2, <2>3 DEF ReadFits
<1>3. Bucket!FailureIsExplained
  BY DEF Bucket!FailureIsExplained, BucketInv, CallInv, ReadFits
<1>4. Bucket!CommandTookEffect
  <2> SUFFICES ASSUME NEW c \in Clients, state[c] = "done"
               PROVE  CASE call[c] = "purge" ->
                             \A k \in Bucket!CheckKeys : None \in seen[c][k]
                        [] call[c] = "remove" ->
                             \A k \in todo[c] : None \in seen[c][k]
                        [] call[c] = "import" ->
                             \A k \in Bucket!CheckKeys : files[c][k] # None =>
                               files[c][k] \in seen[c][k]
                        [] OTHER -> TRUE
    BY DEF Bucket!CommandTookEffect
  <2>1. CallFits(c) /\ EffectFits(c)
    BY DEF BucketInv, CallInv
  <2> QED
    BY <2>1 DEF CallFits, EffectFits
<1> QED
  BY <1>1, <1>2, <1>3, <1>4

(* A call that makes no request: its history may only grow, by what the    *)
(* bucket comes to hold.                                                   *)
LEMMA Bystander ==
  ASSUME BucketInv, CallTypes', NEW d \in Clients,
         state'[d] = state[d], call'[d] = call[d], todo'[d] = todo[d],
         files'[d] = files[d], answer'[d] = answer[d], fault'[d] = fault[d],
         \A k \in Bucket!Keys :
           /\ seen[d][k] \subseteq seen'[d][k]
           /\ bucket[k] \in seen[d][k] => bucket'[k] \in seen'[d][k]
  PROVE  CallInv(d)'
<1>1. CallFits(d) /\ ReadFits(d) /\ DecodedFits(d) /\ EffectFits(d)
  BY DEF BucketInv, CallInv
<1>2. /\ Bucket!CheckKeys \subseteq Bucket!Keys
      /\ todo[d] \subseteq Bucket!Keys /\ DOMAIN answer[d] \subseteq Bucket!CheckKeys
  BY DEF Bucket!Keys, BucketInv, CallTypes, Bucket!TypeOK
<1>3. CallFits(d)'
  BY <1>1 DEF CallFits
<1>4. ReadFits(d)'
  <2> SUFFICES ASSUME Bucket!Reading(d)', state'[d] # "idle"
               PROVE  ReadFits(d)'
    BY DEF ReadFits
  <2>1. Bucket!Reading(d) /\ state[d] # "idle"
    BY DEF Bucket!Reading
  <2>2. \A k \in DOMAIN answer[d] : answer[d][k] \in seen'[d][k]
    BY <1>1, <1>2, <2>1 DEF ReadFits
  <2>3. \A k \in Bucket!CheckKeys \ (DOMAIN answer[d] \cup todo[d]) :
          None \in seen'[d][k]
    BY <1>1, <1>2, <2>1 DEF ReadFits
  <2>4. \A k \in todo[d] : seen'[d][k] \cap Bucket!Values # {}
    BY <1>1, <1>2, <2>1 DEF ReadFits
  <2>5. state[d] = "failed" /\ ~fault[d] =>
          \E k \in Bucket!CheckKeys :
            /\ seen'[d][k] \cap Bucket!Values # {}
            /\ \/ None \in seen'[d][k]
               \/ call[d] = "getChecks" /\ Bad \in seen'[d][k]
    BY <1>1, <1>2, <2>1 DEF ReadFits
  <2> QED
    BY <2>2, <2>3, <2>4, <2>5 DEF ReadFits
<1>5. DecodedFits(d)'
  BY <1>1 DEF DecodedFits
<1>6. EffectFits(d)'
  BY <1>1, <1>2 DEF EffectFits
<1> QED
  BY <1>3, <1>4, <1>5, <1>6 DEF CallInv

Bystands(d) ==
  /\ state'[d] = state[d] /\ call'[d] = call[d] /\ todo'[d] = todo[d]
  /\ files'[d] = files[d] /\ answer'[d] = answer[d] /\ fault'[d] = fault[d]
  /\ \A k \in Bucket!Keys :
       /\ seen[d][k] \subseteq seen'[d][k]
       /\ bucket[k] \in seen[d][k] => bucket'[k] \in seen'[d][k]

(* A step of one call is looked at for that call only. *)
LEMMA CallStep ==
  ASSUME BucketInv, CallTypes', NEW c \in Clients, CallInv(c)',
         \A d \in Clients \ {c} : Bystands(d)
  PROVE  BucketInv'
<1> SUFFICES ASSUME NEW d \in Clients \ {c} PROVE CallInv(d)'
  BY DEF BucketInv
<1> QED
  BY Bystander DEF Bystands

(* A write shows in the history of every call. *)
LEMMA WriteShows ==
  ASSUME Bucket!SettingsStoreAssumption, CallTypes,
         NEW k \in Bucket!CheckKeys, NEW v \in Contents, Bucket!Write(k, v)
  PROVE  /\ bucket' \in [Bucket!Keys -> Contents]
         /\ \A s \in Settings : bucket'[s] \in Good
         /\ seen' \in [Clients -> [Bucket!Keys -> SUBSET Contents]]
         /\ \A d \in Clients, j \in Bucket!Keys :
              /\ seen[d][j] \subseteq seen'[d][j]
              /\ bucket[j] \in seen[d][j] => bucket'[j] \in seen'[d][j]
         /\ \A d \in Clients : v \in seen'[d][k]
<1>1. k \in Bucket!Keys /\ k \notin Settings
  BY DEF Bucket!Keys, Bucket!CheckKeys, Bucket!SettingsStoreAssumption
<1>2. /\ bucket \in [Bucket!Keys -> Contents]
      /\ \A s \in Settings : bucket[s] \in Good /\ s \in Bucket!Keys
      /\ seen \in [Clients -> [Bucket!Keys -> SUBSET Contents]]
  BY DEF CallTypes, Bucket!TypeOK, Contents, Bucket!Keys
<1>3. bucket' = [bucket EXCEPT ![k] = v]
  BY DEF Bucket!Write
<1>4. seen' = [d \in Clients |-> [seen[d] EXCEPT ![k] = @ \cup {v}]]
  BY DEF Bucket!Write
<1>5. /\ bucket' \in [Bucket!Keys -> Contents]
      /\ \A s \in Settings : bucket'[s] \in Good
  BY <1>1, <1>2, <1>3
<1>6. seen' \in [Clients -> [Bucket!Keys -> SUBSET Contents]]
  BY <1>1, <1>2, <1>4
<1>7. \A d \in Clients, j \in Bucket!Keys :
        seen'[d][j] = IF j = k THEN seen[d][j] \cup {v} ELSE seen[d][j]
  BY <1>1, <1>2, <1>4
<1> QED
  BY <1>1, <1>2, <1>3, <1>5, <1>6, <1>7, ZenonT(60)

(* A call starts with nothing done. *)
LEMMA StartKeeps ==
  ASSUME Bucket!SettingsStoreAssumption, BucketInv, NEW c \in Clients,
         \/ Bucket!StartGetChecks(c) \/ Bucket!StartExport(c)
         \/ Bucket!StartPurge(c)
         \/ \E k \in Bucket!CheckKeys : Bucket!StartRemove(c, k)
         \/ \E dir \in Bucket!Directories : Bucket!StartImport(c, dir)
  PROVE  BucketInv'
<1> DEFINE Listing == Bucket!Present
<1>1. PICK name \in CheckCalls, keys \in SUBSET Bucket!Keys,
           dir \in Bucket!Directories :
        /\ Bucket!Start(c, name, keys, dir)
        /\ name \in {"getChecks", "export", "purge"} => keys = Listing
        /\ name = "remove" => \E k \in Bucket!CheckKeys : keys = {k}
        /\ name = "import" => keys = {k \in Bucket!CheckKeys : dir[k] # None}
  <2>1. /\ Listing \in SUBSET Bucket!Keys
        /\ Bucket!NoFiles \in Bucket!Directories
        /\ Bucket!CheckKeys \subseteq Bucket!Keys
    BY DEF Bucket!Present, Bucket!NoFiles, Bucket!Directories, Bucket!Keys
  <2>2. CASE Bucket!StartGetChecks(c) \/ Bucket!StartExport(c)
             \/ Bucket!StartPurge(c)
    BY <2>1, <2>2
    DEF Bucket!StartGetChecks, Bucket!StartExport, Bucket!StartPurge,
        Bucket!StartListing, CheckCalls
  <2>3. CASE \E k \in Bucket!CheckKeys : Bucket!StartRemove(c, k)
    <3>1. PICK k \in Bucket!CheckKeys : Bucket!StartRemove(c, k)
      BY <2>3
    <3>2. /\ "remove" \in CheckCalls /\ {k} \in SUBSET Bucket!Keys
          /\ Bucket!Start(c, "remove", {k}, Bucket!NoFiles)
      BY <2>1, <3>1 DEF Bucket!StartRemove, CheckCalls
    <3> QED
      BY <2>1, <3>2
  <2>4. CASE \E dir \in Bucket!Directories : Bucket!StartImport(c, dir)
    <3>1. PICK dir \in Bucket!Directories : Bucket!StartImport(c, dir)
      BY <2>4
    <3> DEFINE given == {k \in Bucket!CheckKeys : dir[k] # None}
    <3>2. /\ "import" \in CheckCalls /\ given \in SUBSET Bucket!Keys
          /\ Bucket!Start(c, "import", given, dir)
      BY <2>1, <3>1 DEF Bucket!StartImport, CheckCalls
    <3> QED
      BY <3>2
  <2> QED
    BY <2>2, <2>3, <2>4
<1>2. /\ state[c] = "idle" /\ calls < MaxCalls /\ calls' = calls + 1
      /\ call' = [call EXCEPT ![c] = name]
      /\ state' = [state EXCEPT ![c] = "running"]
      /\ todo' = [todo EXCEPT ![c] = keys]
      /\ files' = [files EXCEPT ![c] = dir]
      /\ answer' = [answer EXCEPT ![c] = << >>]
      /\ seen' = [seen EXCEPT ![c] = [k \in Bucket!Keys |-> {bucket[k]}]]
      /\ fault' = [fault EXCEPT ![c] = FALSE]
      /\ bucket' = bucket
  BY <1>1 DEF Bucket!Start
<1>3. CallTypes /\ Bucket!TypeOK
  BY DEF BucketInv, CallTypes
<1>4. CallTypes'
  <2>1. /\ bucket' \in [Bucket!Keys -> Contents]
        /\ seen' \in [Clients -> [Bucket!Keys -> SUBSET Contents]]
    BY <1>2, <1>3 DEF CallTypes, Bucket!TypeOK, Contents
  <2>2. /\ DOMAIN answer' = Clients
        /\ \A d \in Clients : /\ DOMAIN answer'[d] \subseteq Bucket!CheckKeys
                              /\ Bucket!Range(answer'[d]) \subseteq Bucket!Values
    BY <1>2, <1>3 DEF CallTypes, Bucket!TypeOK, Bucket!Range
  <2>3. calls' \in 0..MaxCalls
    BY <1>2, <1>3 DEF Bucket!TypeOK, Bucket!SettingsStoreAssumption
  <2> QED
    BY <1>1, <1>2, <1>3, <2>1, <2>2, <2>3 DEF CallTypes, Bucket!TypeOK,
      Contents
<1>5. \A d \in Clients \ {c} : Bystands(d)
  BY <1>2, <1>3 DEF CallTypes, Bucket!TypeOK, Bystands
<1>6. /\ state'[c] = "running" /\ call'[c] = name /\ todo'[c] = keys
      /\ files'[c] = dir /\ DOMAIN answer'[c] = {}
      /\ \A k \in Bucket!Keys : seen'[c][k] = {bucket[k]}
  BY <1>2, <1>3 DEF CallTypes, Bucket!TypeOK
<1>7. CallFits(c)'
  BY <1>1, <1>2, <1>6 DEF CallFits
<1>8. /\ \A k \in Bucket!CheckKeys \ Listing : bucket[k] = None /\ k \in Bucket!Keys
      /\ \A k \in Listing : bucket[k] \in Bucket!Values /\ k \in Bucket!Keys
  BY <1>3 DEF Bucket!Present, Bucket!Keys, Bucket!TypeOK
<1>9. ReadFits(c)'
  <2> SUFFICES ASSUME Bucket!Reading(c)' PROVE ReadFits(c)'
    BY DEF ReadFits
  <2>1. keys = Listing
    BY <1>1, <1>6 DEF Bucket!Reading
  <2> QED
    BY <1>6, <1>8, <2>1 DEF ReadFits
<1>10. DecodedFits(c)' /\ EffectFits(c)'
  BY <1>1, <1>6, <1>8 DEF DecodedFits, EffectFits
<1> QED
  BY <1>4, <1>5, <1>7, <1>9, <1>10, CallStep DEF CallInv

(* A step that only looks, or only ends the call. *)
LEMMA QuietTypes ==
  ASSUME BucketInv, UNCHANGED <<bucket, call, files, calls, seen>>,
         NEW c \in Clients, NEW how \in {"idle", "running", "deleting", "done",
                                         "failed"},
         state' = [state EXCEPT ![c] = how],
         todo' \in [Clients -> SUBSET Bucket!Keys], DOMAIN answer' = Clients,
         \A d \in Clients : /\ DOMAIN answer'[d] \subseteq Bucket!CheckKeys
                            /\ Bucket!Range(answer'[d]) \subseteq Bucket!Values,
         fault' \in [Clients -> BOOLEAN],
         \A d \in Clients \ {c} : /\ todo'[d] = todo[d] /\ fault'[d] = fault[d]
                                  /\ answer'[d] = answer[d]
  PROVE  /\ CallTypes'
         /\ \A d \in Clients \ {c} : Bystands(d)
<1>1. CallTypes
  BY DEF BucketInv
<1>2. CallTypes'
  BY <1>1 DEF CallTypes, Bucket!TypeOK
<1> QED
  BY <1>1, <1>2 DEF Bystands, CallTypes, Bucket!TypeOK

LEMMA SkipSettingsKeeps ==
  ASSUME Bucket!SettingsStoreAssumption, BucketInv, NEW c \in Clients,
         Bucket!SkipSettings(c)
  PROVE  BucketInv'
<1>1. PICK k \in todo[c] \cap Settings : Bucket!Skip(c, k)
  BY DEF Bucket!SkipSettings
<1>2. /\ state[c] = "running" /\ todo' = [todo EXCEPT ![c] = @ \ {k}]
      /\ UNCHANGED <<bucket, state, answer, seen, fault, call, files, calls>>
  BY <1>1 DEF Bucket!SkipSettings, Bucket!Skip, Bucket!local
<1>3. CallTypes /\ Bucket!TypeOK /\ CallInv(c)
  BY DEF BucketInv, CallTypes
<1>4. k \notin Bucket!CheckKeys
  BY DEF Bucket!SettingsStoreAssumption, Bucket!CheckKeys
<1>5. CallTypes' /\ \A d \in Clients \ {c} : Bystands(d)
  <2>1. /\ state' = [state EXCEPT ![c] = "running"]
        /\ todo' \in [Clients -> SUBSET Bucket!Keys]
    BY <1>2, <1>3 DEF Bucket!TypeOK
  <2> QED
    BY <1>2, <1>3, <2>1, QuietTypes DEF CallTypes, Bucket!TypeOK
<1>6. todo'[c] = todo[c] \ {k}
  BY <1>2, <1>3 DEF Bucket!TypeOK
<1>7. CallFits(c)'
  BY <1>2, <1>3, <1>4, <1>6 DEF CallInv, CallFits
<1>8. ReadFits(c)'
  BY <1>2, <1>3, <1>4, <1>6 DEF CallInv, ReadFits, Bucket!Reading
<1>9. DecodedFits(c)' /\ EffectFits(c)'
  BY <1>2, <1>3, <1>4, <1>6 DEF CallInv, DecodedFits, EffectFits
<1> QED
  BY <1>5, <1>7, <1>8, <1>9, CallStep DEF CallInv

(* A check is read: it joins the answer with what the bucket holds. *)
LEMMA AnswerKeeps ==
  ASSUME Bucket!SettingsStoreAssumption, BucketInv, NEW c \in Clients,
         state[c] = "running", Bucket!Reading(c),
         NEW k \in todo[c] \cap Bucket!CheckKeys, bucket[k] \in Bucket!Values,
         call[c] = "getChecks" => bucket[k] \in Good,
         Bucket!Answer(c, k),
         UNCHANGED <<bucket, seen, fault, call, files, calls>>
  PROVE  BucketInv'
<1>1. CallTypes /\ Bucket!TypeOK /\ CallInv(c)
  BY DEF BucketInv, CallTypes
<1>2. /\ answer' = [answer EXCEPT ![c] = [n \in DOMAIN @ \cup {k} |->
                      IF n = k THEN bucket[k] ELSE @[n]]]
      /\ todo' = [todo EXCEPT ![c] = @ \ {k}] /\ state' = state
  BY DEF Bucket!Answer, Bucket!Skip
<1>3. /\ todo'[c] = todo[c] \ {k}
      /\ DOMAIN answer'[c] = DOMAIN answer[c] \cup {k}
      /\ \A n \in DOMAIN answer[c] \cup {k} :
           answer'[c][n] = IF n = k THEN bucket[k] ELSE answer[c][n]
  BY <1>1, <1>2 DEF CallTypes, Bucket!TypeOK
<1>4. CallTypes' /\ \A d \in Clients \ {c} : Bystands(d)
  <2>1. /\ state' = [state EXCEPT ![c] = "running"]
        /\ todo' \in [Clients -> SUBSET Bucket!Keys]
    BY <1>1, <1>2 DEF Bucket!TypeOK
  <2>2. /\ DOMAIN answer' = Clients
        /\ \A d \in Clients \ {c} : answer'[d] = answer[d]
    BY <1>1, <1>2 DEF CallTypes
  <2>3. /\ DOMAIN answer'[c] \subseteq Bucket!CheckKeys
        /\ Bucket!Range(answer'[c]) \subseteq Bucket!Values
    BY <1>1, <1>3 DEF Bucket!TypeOK, Bucket!Range
  <2>4. \A d \in Clients : /\ DOMAIN answer'[d] \subseteq Bucket!CheckKeys
                           /\ Bucket!Range(answer'[d]) \subseteq Bucket!Values
    BY <1>1, <2>2, <2>3 DEF Bucket!TypeOK
  <2>5. /\ fault' \in [Clients -> BOOLEAN]
        /\ \A d \in Clients \ {c} : todo'[d] = todo[d] /\ fault'[d] = fault[d]
    BY <1>1, <1>2 DEF CallTypes, Bucket!TypeOK
  <2> QED
    BY <2>1, <2>2, <2>4, <2>5, QuietTypes
<1>5. CallFits(c)'
  BY <1>1, <1>2, <1>3 DEF CallInv, CallFits, Bucket!Reading
<1>6. ReadFits(c)'
  <2>1. bucket[k] \in seen[c][k]
    BY <1>1 DEF CallInv, CallFits, Bucket!Keys
  <2> QED
    BY <1>1, <1>2, <1>3, <2>1 DEF CallInv, ReadFits, Bucket!Reading
<1>7. DecodedFits(c)' /\ EffectFits(c)'
  BY <1>1, <1>2, <1>3 DEF CallInv, DecodedFits, EffectFits, Bucket!Reading
<1> QED
  BY <1>4, <1>5, <1>6, <1>7, CallStep DEF CallInv

(* A read is refused for a check that has gone since it was listed or that *)
(* cannot be decoded.                                                      *)
LEMMA RefuseKeeps ==
  ASSUME Bucket!SettingsStoreAssumption, BucketInv, NEW c \in Clients,
         state[c] = "running", Bucket!Reading(c),
         NEW k \in todo[c] \cap Bucket!CheckKeys,
         \/ bucket[k] = None
         \/ call[c] = "getChecks" /\ bucket[k] = Bad,
         Bucket!Refuse(c),
         UNCHANGED <<bucket, seen, fault, call, files, calls>>
  PROVE  BucketInv'
<1>1. CallTypes /\ Bucket!TypeOK /\ CallInv(c)
  BY DEF BucketInv, CallTypes
<1>2. /\ state' = [state EXCEPT ![c] = "failed"] /\ state'[c] = "failed"
      /\ todo' = todo /\ answer' = answer
  BY <1>1 DEF Bucket!Refuse, Bucket!Return, Bucket!TypeOK
<1>3. CallTypes' /\ \A d \in Clients \ {c} : Bystands(d)
  BY <1>1, <1>2, QuietTypes DEF CallTypes, Bucket!TypeOK
<1>4. CallFits(c)'
  BY <1>1, <1>2 DEF CallInv, CallFits, Bucket!Reading
<1>5. ReadFits(c)'
  <2>1. bucket[k] \in seen[c][k] /\ seen[c][k] \cap Bucket!Values # {}
    BY <1>1 DEF CallInv, CallFits, ReadFits, Bucket!Keys
  <2> QED
    BY <1>1, <1>2, <2>1 DEF CallInv, ReadFits, Bucket!Reading
<1>6. DecodedFits(c)' /\ EffectFits(c)'
  BY <1>1, <1>2 DEF CallInv, DecodedFits, EffectFits, Bucket!Reading
<1> QED
  BY <1>3, <1>4, <1>5, <1>6, CallStep DEF CallInv

LEMMA ReadKeeps ==
  ASSUME Bucket!SettingsStoreAssumption, BucketInv, NEW c \in Clients,
         Bucket!GetCheck(c) \/ Bucket!ExportCheck(c)
  PROVE  BucketInv'
<1>1. Bucket!TypeOK
  BY DEF BucketInv, CallTypes
<1>2. \A k \in todo[c] \cap Bucket!CheckKeys : bucket[k] \in Contents
  BY <1>1 DEF Bucket!TypeOK, Contents
<1>3. CASE Bucket!GetCheck(c)
  <2>1. /\ state[c] = "running" /\ call[c] = "getChecks" /\ Bucket!Reading(c)
        /\ UNCHANGED <<bucket, seen, fault, call, files, calls>>
    BY <1>3 DEF Bucket!GetCheck, Bucket!Running, Bucket!Reading, Bucket!local
  <2>2. PICK k \in todo[c] \cap Bucket!CheckKeys :
          IF bucket[k] \in Good THEN Bucket!Answer(c, k) ELSE Bucket!Refuse(c)
    BY <1>3 DEF Bucket!GetCheck
  <2>3. CASE bucket[k] \in Good
    BY <2>1, <2>2, <2>3, AnswerKeeps DEF Bucket!Values
  <2>4. CASE bucket[k] \notin Good
    BY <1>2, <2>1, <2>2, <2>4, RefuseKeeps DEF Bucket!Values, Contents
  <2> QED
    BY <2>3, <2>4
<1>4. CASE Bucket!ExportCheck(c)
  <2>1. /\ state[c] = "running" /\ call[c] = "export" /\ Bucket!Reading(c)
        /\ UNCHANGED <<bucket, seen, fault, call, files, calls>>
    BY <1>4 DEF Bucket!ExportCheck, Bucket!Running, Bucket!Reading,
      Bucket!local
  <2>2. PICK k \in todo[c] \cap Bucket!CheckKeys :
          IF bucket[k] # None THEN Bucket!Answer(c, k) ELSE Bucket!Refuse(c)
    BY <1>4 DEF Bucket!ExportCheck
  <2>3. CASE bucket[k] # None
    BY <1>2, <2>1, <2>2, <2>3, AnswerKeeps DEF Contents
  <2>4. CASE bucket[k] = None
    BY <2>1, <2>2, <2>4, RefuseKeeps
  <2> QED
    BY <2>3, <2>4
<1> QED
  BY <1>3, <1>4

(* The call ends, or is refused by a request that fails. *)
LEMMA EndKeeps ==
  ASSUME Bucket!SettingsStoreAssumption, BucketInv, NEW c \in Clients,
         Bucket!Finish(c) \/ Bucket!RequestFails(c) \/ Bucket!Leave(c)
  PROVE  BucketInv'
<1>1. CallTypes /\ Bucket!TypeOK /\ CallInv(c)
  BY DEF BucketInv, CallTypes
<1>2. UNCHANGED <<bucket, todo, answer, seen, call, files, calls>>
  BY DEF Bucket!Finish, Bucket!RequestFails, Bucket!Leave, Bucket!local
<1>3. PICK how \in {"idle", "done", "failed"} :
        /\ state' = [state EXCEPT ![c] = how]
        /\ how = "done" => /\ state[c] = "running" /\ call[c] # "remove"
                           /\ todo[c] = {} /\ fault' = fault
        /\ how = "failed" => /\ fault' = [fault EXCEPT ![c] = TRUE]
                             /\ state[c] \in {"running", "deleting"}
        /\ how = "idle" => fault' = fault
  BY DEF Bucket!Finish, Bucket!RequestFails, Bucket!Leave, Bucket!Return
<1>4. CallTypes' /\ \A d \in Clients \ {c} : Bystands(d)
  <2>1. /\ fault' \in [Clients -> BOOLEAN]
        /\ \A d \in Clients \ {c} : fault'[d] = fault[d]
    BY <1>1, <1>3 DEF CallTypes
  <2> QED
    BY <1>1, <1>2, <1>3, <2>1, QuietTypes DEF CallTypes, Bucket!TypeOK
<1>5. state'[c] = how /\ (how = "failed" => fault'[c])
  BY <1>1, <1>3 DEF CallTypes, Bucket!TypeOK
<1>6. CallFits(c)'
  BY <1>1, <1>2, <1>3, <1>5 DEF CallInv, CallFits
<1>7. ReadFits(c)'
  BY <1>1, <1>2, <1>3, <1>5 DEF CallInv, ReadFits, Bucket!Reading
<1>8. DecodedFits(c)' /\ EffectFits(c)'
  BY <1>1, <1>2, <1>3, <1>5 DEF CallInv, DecodedFits, EffectFits
<1> QED
  BY <1>4, <1>6, <1>7, <1>8, CallStep DEF CallInv

-----------------------------------------------------------------------------
(* The calls that write. *)

(* The files are taken in some order: as long as one is left, the next is  *)
(* one of them.                                                            *)
LEMMA NextFileIsLeft ==
  ASSUME Bucket!SettingsStoreAssumption, NEW c, todo[c] # {},
         todo[c] \subseteq Bucket!CheckKeys
  PROVE  Bucket!NextFile(c) \in todo[c]
<1> DEFINE Places == {i \in DOMAIN CheckList : CheckList[i] \in todo[c]}
           Before(k, l) == \E i, j \in DOMAIN CheckList :
                             CheckList[i] = k /\ CheckList[j] = l /\ i <= j
<1>1. DOMAIN CheckList \subseteq Nat
  BY DEF Bucket!SettingsStoreAssumption
<1>2. \A k \in todo[c] : \E i \in Places : CheckList[i] = k
  BY DEF Bucket!CheckKeys, Bucket!Range
<1>3. Places # {} /\ Places \subseteq Nat
  BY <1>1, <1>2
<1>4. PICK i \in Places : \A j \in Places : ~(j < i)
  <2>1. PICK i \in Places : \A j \in Places : <<j, i>> \notin OpToRel(<, Nat)
    BY ONLY <1>3, NatLessThanWellFounded, WFMin
  <2> QED
    BY <1>3, <2>1 DEF OpToRel
<1>5. CheckList[i] \in todo[c] /\ \A l \in todo[c] : Before(CheckList[i], l)
  BY <1>1, <1>2, <1>3, <1>4
<1>6. \E k \in todo[c] : \A l \in todo[c] : Before(k, l)
  BY <1>5
<1> QED
  BY <1>6 DEF Bucket!NextFile

(* purge and import deal with a check: what they write shows in the        *)
(* history of the call.                                                    *)
LEMMA WriteKeeps ==
  ASSUME Bucket!SettingsStoreAssumption, BucketInv, NEW c \in Clients,
         state[c] = "running", NEW k \in todo[c] \cap Bucket!CheckKeys,
         NEW v \in Contents,
         \/ call[c] = "purge" /\ v = None
         \/ call[c] = "import" /\ v = files[c][k],
         Bucket!Write(k, v), Bucket!Skip(c, k),
         UNCHANGED <<state, answer, fault, call, files, calls>>
  PROVE  BucketInv'
<1>1. CallTypes /\ Bucket!TypeOK /\ CallInv(c)
  BY DEF BucketInv, CallTypes
<1>2. todo' = [todo EXCEPT ![c] = @ \ {k}] /\ todo'[c] = todo[c] \ {k}
  BY <1>1 DEF Bucket!Skip, Bucket!TypeOK
<1>3. /\ bucket' \in [Bucket!Keys -> Contents]
      /\ \A s \in Settings : bucket'[s] \in Good
      /\ seen' \in [Clients -> [Bucket!Keys -> SUBSET Contents]]
      /\ \A d \in Clients, j \in Bucket!Keys :
           /\ seen[d][j] \subseteq seen'[d][j]
           /\ bucket[j] \in seen[d][j] => bucket'[j] \in seen'[d][j]
      /\ \A d \in Clients : v \in seen'[d][k]
  BY <1>1, WriteShows
<1>4. CallTypes'
  BY <1>1, <1>2, <1>3 DEF CallTypes, Bucket!TypeOK, Contents
<1>5. \A d \in Clients \ {c} : Bystands(d)
  BY <1>1, <1>2, <1>3 DEF Bystands, Bucket!TypeOK
<1>6. CallFits(c)'
  BY <1>1, <1>2, <1>3 DEF CallInv, CallFits
<1>7. ReadFits(c)' /\ DecodedFits(c)'
  BY DEF ReadFits, DecodedFits, Bucket!Reading
<1>8. EffectFits(c)'
  BY <1>1, <1>2, <1>3 DEF CallInv, EffectFits, Bucket!Keys
<1> QED
  BY <1>4, <1>5, <1>6, <1>7, <1>8, CallStep DEF CallInv

LEMMA PurgeImportKeeps ==
  ASSUME Bucket!SettingsStoreAssumption, BucketInv, NEW c \in Clients,
         Bucket!DeleteNext(c) \/ Bucket!PutNext(c)
  PROVE  BucketInv'
<1>1. CallTypes /\ Bucket!TypeOK /\ CallInv(c)
  BY DEF BucketInv, CallTypes
<1>2. CASE Bucket!DeleteNext(c)
  <2>1. /\ state[c] = "running" /\ call[c] = "purge" /\ None \in Contents
        /\ UNCHANGED <<state, answer, fault, call, files, calls>>
    BY <1>2 DEF Bucket!DeleteNext, Bucket!Running, Bucket!local, Contents
  <2>2. PICK k \in todo[c] \cap Bucket!CheckKeys :
          Bucket!Write(k, None) /\ Bucket!Skip(c, k)
    BY <1>2 DEF Bucket!DeleteNext
  <2> QED
    BY <2>1, <2>2, WriteKeeps
<1>3. CASE Bucket!PutNext(c)
  <2> DEFINE k == Bucket!NextFile(c)
  <2>1. /\ state[c] = "running" /\ call[c] = "import" /\ todo[c] # {}
        /\ UNCHANGED <<answer, fault, call, files, calls>>
    BY <1>3 DEF Bucket!PutNext, Bucket!Running, Bucket!local
  <2>2. k \in todo[c] \cap Bucket!CheckKeys /\ todo[c] \subseteq Bucket!CheckKeys
    BY <1>1, <2>1, NextFileIsLeft DEF CallInv, CallFits
  <2>3. CASE files[c][k] = NotJson
    <3>1. /\ state' = [state EXCEPT ![c] = "failed"] /\ state'[c] = "failed"
          /\ UNCHANGED <<bucket, seen, todo>>
      BY <1>1, <1>3, <2>3 DEF Bucket!PutNext, Bucket!Return, Bucket!TypeOK
    <3>2. CallTypes' /\ \A d \in Clients \ {c} : Bystands(d)
      BY <1>1, <2>1, <3>1, QuietTypes DEF CallTypes, Bucket!TypeOK
    <3>3. CallFits(c)'
      BY <1>1, <2>1, <3>1 DEF CallInv, CallFits
    <3>4. ReadFits(c)' /\ DecodedFits(c)'
      BY <2>1 DEF ReadFits, DecodedFits, Bucket!Reading
    <3>5. EffectFits(c)'
      BY <1>1, <2>1, <3>1 DEF CallInv, EffectFits
    <3> QED
      BY <3>2, <3>3, <3>4, <3>5, CallStep DEF CallInv
  <2>4. CASE files[c][k] # NotJson
    <3>1. /\ Bucket!Write(k, files[c][k]) /\ Bucket!Skip(c, k)
          /\ UNCHANGED state
      BY <1>3, <2>4 DEF Bucket!PutNext
    <3>2. files[c][k] \in Contents
      BY <1>1, <2>2, <2>4 DEF CallTypes, Bucket!Directories, Contents
    <3> QED
      BY <2>1, <2>2, <3>1, <3>2, WriteKeeps
  <2> QED
    BY <2>3, <2>4
<1> QED
  BY <1>2, <1>3

LEMMA RemoveKeeps ==
  ASSUME Bucket!SettingsStoreAssumption, BucketInv, NEW c \in Clients,
         Bucket!RemoveGet(c) \/ Bucket!RemoveDelete(c)
  PROVE  BucketInv'
<1>1. CallTypes /\ Bucket!TypeOK /\ CallInv(c)
  BY DEF BucketInv, CallTypes
<1>2. UNCHANGED <<todo, answer, call, files, calls>>
  BY DEF Bucket!RemoveGet, Bucket!RemoveDelete, Bucket!local
<1>3. call[c] = "remove" /\ state[c] \in {"running", "deleting"}
  BY <1>1 DEF Bucket!RemoveGet, Bucket!RemoveDelete, Bucket!Running, CallInv,
    CallFits
<1>4. PICK k \in Bucket!CheckKeys : todo[c] = {k}
  BY <1>1, <1>3 DEF CallInv, CallFits
<1>5. ReadFits(c)' /\ DecodedFits(c)'
  BY <1>2, <1>3 DEF ReadFits, DecodedFits, Bucket!Reading
<1>6. CASE Bucket!RemoveGet(c)
  <2>1. PICK how \in {"failed", "deleting"} :
          state' = [state EXCEPT ![c] = how]
    BY <1>6 DEF Bucket!RemoveGet, Bucket!Return
  <2>2. /\ UNCHANGED <<bucket, seen>>
        /\ fault' \in {fault, [fault EXCEPT ![c] = TRUE]}
    BY <1>6 DEF Bucket!RemoveGet
  <2>3. /\ fault' \in [Clients -> BOOLEAN]
        /\ \A d \in Clients \ {c} : fault'[d] = fault[d]
    BY <1>1, <2>2 DEF CallTypes
  <2>4. CallTypes' /\ \A d \in Clients \ {c} : Bystands(d)
    BY <1>1, <1>2, <2>1, <2>2, <2>3, QuietTypes DEF CallTypes, Bucket!TypeOK
  <2>5. state'[c] = how
    BY <1>1, <2>1 DEF Bucket!TypeOK
  <2>6. CallFits(c)' /\ EffectFits(c)'
    BY <1>1, <1>2, <1>3, <1>4, <2>2, <2>5 DEF CallInv, CallFits, EffectFits
  <2> QED
    BY <1>5, <2>4, <2>6, CallStep DEF CallInv
<1>7. CASE Bucket!RemoveDelete(c)
  <2>1. /\ state' = [state EXCEPT ![c] = "done"] /\ state'[c] = "done"
        /\ fault' = fault /\ Bucket!Write(k, None)
    BY <1>1, <1>4, <1>7 DEF Bucket!RemoveDelete, Bucket!Return, Bucket!TypeOK
  <2>2. None \in Contents
    BY DEF Contents
  <2>3. /\ bucket' \in [Bucket!Keys -> Contents]
        /\ \A s \in Settings : bucket'[s] \in Good
        /\ seen' \in [Clients -> [Bucket!Keys -> SUBSET Contents]]
        /\ \A d \in Clients, j \in Bucket!Keys :
             /\ seen[d][j] \subseteq seen'[d][j]
             /\ bucket[j] \in seen[d][j] => bucket'[j] \in seen'[d][j]
        /\ \A d \in Clients : None \in seen'[d][k]
    BY <1>1, <2>1, <2>2, WriteShows
  <2>4. CallTypes'
    BY <1>1, <1>2, <2>1, <2>3 DEF CallTypes, Bucket!TypeOK, Contents
  <2>5. \A d \in Clients \ {c} : Bystands(d)
    BY <1>1, <1>2, <2>1, <2>3 DEF Bystands, Bucket!TypeOK
  <2>6. CallFits(c)' /\ EffectFits(c)'
    BY <1>1, <1>2, <1>3, <1>4, <2>1, <2>3 DEF CallInv, CallFits, EffectFits
  <2> QED
    BY <1>5, <2>4, <2>5, <2>6, CallStep DEF CallInv
<1> QED
  BY <1>6, <1>7

LEMMA BucketInitially ==
  ASSUME Bucket!SettingsStoreAssumption, Bucket!Init
  PROVE  BucketInv
<1>1. /\ bucket \in [Bucket!Keys -> Contents]
      /\ \A s \in Settings : bucket[s] \in Good
  BY DEF Bucket!Init, Contents
<1>2. /\ \A c \in Clients : state[c] = "idle" /\ call[c] = "purge"
                            /\ DOMAIN answer[c] = {}
      /\ \A c \in Clients : Bucket!Range(answer[c]) = {}
  BY DEF Bucket!Init, Bucket!Range
<1>3. CallTypes
  BY <1>1, <1>2
  DEF Bucket!Init, CallTypes, Bucket!TypeOK, Contents, CheckCalls,
      Bucket!NoFiles, Bucket!Directories, Bucket!SettingsStoreAssumption
<1>4. ASSUME NEW c \in Clients PROVE CallInv(c)
  BY <1>2, <1>4 DEF CallInv, CallFits, ReadFits, DecodedFits, EffectFits
<1> QED
  BY <1>3, <1>4 DEF BucketInv

LEMMA BucketKeeps ==
  ASSUME Bucket!SettingsStoreAssumption, BucketInv, [Bucket!Next]_Bucket!vars
  PROVE  BucketInv'
<1>1. CASE UNCHANGED Bucket!vars
  BY <1>1
  DEF Bucket!vars, BucketInv, CallTypes, Bucket!TypeOK, CallInv, CallFits,
      ReadFits, DecodedFits, EffectFits, Bucket!Reading
<1>2. ASSUME NEW c \in Clients,
             \/ Bucket!StartGetChecks(c) \/ Bucket!StartExport(c)
             \/ Bucket!StartPurge(c)
             \/ \E k \in Bucket!CheckKeys : Bucket!StartRemove(c, k)
             \/ \E dir \in Bucket!Directories : Bucket!StartImport(c, dir)
      PROVE  BucketInv'
  BY <1>2, StartKeeps
<1>3. ASSUME NEW c \in Clients, Bucket!GetCheck(c) \/ Bucket!ExportCheck(c)
      PROVE  BucketInv'
  BY <1>3, ReadKeeps
<1>4. ASSUME NEW c \in Clients, Bucket!SkipSettings(c)
      PROVE  BucketInv'
  BY <1>4, SkipSettingsKeeps
<1>5. ASSUME NEW c \in Clients, Bucket!DeleteNext(c) \/ Bucket!PutNext(c)
      PROVE  BucketInv'
  BY <1>5, PurgeImportKeeps
<1>6. ASSUME NEW c \in Clients, Bucket!RemoveGet(c) \/ Bucket!RemoveDelete(c)
      PROVE  BucketInv'
  BY <1>6, RemoveKeeps
<1>7. ASSUME NEW c \in Clients,
             Bucket!Finish(c) \/ Bucket!RequestFails(c) \/ Bucket!Leave(c)
      PROVE  BucketInv'
  BY <1>7, EndKeeps
<1> QED
  BY <1>1, <1>2, <1>3, <1>4, <1>5, <1>6, <1>7 DEF Bucket!Next

LEMMA BucketInvariant == Spec => [](part = "bucket" => BucketInv)
<1>1. Init => (part = "bucket" => BucketInv)
  BY CommandsAssumption, BucketInitially DEF Init, CommandsAssumption
<1>2. (part = "bucket" => BucketInv) /\ [Next]_vars
        => (part = "bucket" => BucketInv)'
  <2> SUFFICES ASSUME part = "bucket" => BucketInv, [Next]_vars,
                      part' = "bucket"
               PROVE  BucketInv'
    OBVIOUS
  <2>1. part = "bucket" /\ [Bucket!Next]_Bucket!vars
    BY DEF Next, BucketStep, UsersStep, QueryStep, RightsStep, vars,
      bucketVars, commandVars, Bucket!vars
  <2> QED
    BY <2>1, CommandsAssumption, BucketKeeps DEF CommandsAssumption
<1> QED
  BY <1>1, <1>2, PTL DEF Spec

(* GetChecks and export answer, check by check, with what was true during  *)
(* the call, and fail for a reason: the lists of the web interface and the *)
(* exported files are never a mixture that no moment explains.             *)
THEOREM AnswersAreCurrent == Spec => []AnswerIsCurrent
<1>1. (part = "bucket" => BucketInv) => AnswerIsCurrent
  BY CommandsAssumption, BucketInvSuffices
  DEF CommandsAssumption, AnswerIsCurrent
<1> QED
  BY <1>1, BucketInvariant, PTL

(* purge, remove and import that succeed did what they are for.            *)
THEOREM CommandsTakeEffect == Spec => []CommandTookEffect
<1>1. (part = "bucket" => BucketInv) => CommandTookEffect
  BY CommandsAssumption, BucketInvSuffices
  DEF CommandsAssumption, CommandTookEffect
<1> QED
  BY <1>1, BucketInvariant, PTL

-----------------------------------------------------------------------------
(* The accounts. *)

Tokens == [name : Names, team : Teams, expires : Nat]
Accounts == Users!Account \cup {None}

UsersTypes ==
  /\ Users!TypeOK
  /\ todo \in [Admins -> SUBSET Names]
  /\ DOMAIN listed = Admins
  /\ DOMAIN asked = Logins
  /\ tokens \subseteq Tokens
  /\ seen \in [Admins \cup Logins -> [Names -> SUBSET Accounts]]
  /\ lastHeld \in [Names -> [Teams -> Nat]]
  /\ fault \in [Admins -> BOOLEAN]

(* An account holds its team now. *)
HeldFits ==
  \A n \in Names :
    /\ \A t \in Teams : lastHeld[n][t] <= clock
    /\ users[n] # None => lastHeld[n][users[n].team] = clock

(* No token outlives the time when its account last had its team. *)
TokensFit ==
  \A t \in tokens : t.expires <= lastHeld[t.name][t.team] + Life

(* What a login compares with is an account of the name it was given, as   *)
(* it was during the login and at this tick of the clock.                  *)
LoginFits(l) ==
  step[l] = "compare" =>
    /\ asked[l].name \in Names /\ asked[l].password \in Passwords
    /\ found[l] \in seen[l][asked[l].name]
    /\ found[l] # None => lastHeld[asked[l].name][found[l].team] = clock

(* The history of a command has what the bucket holds now; it writes only  *)
(* after what it asked was answered; what a listing has, and what it has   *)
(* left out, was so at some moment.                                        *)
CommandFits(a) ==
  /\ pc[a] # "idle" => \A n \in Names : users[n] \in seen[a][n]
  /\ pc[a] \in {"exists", "write"} =>
       /\ job[a].kind \in {"add", "remove"} /\ job[a].name \in Names
       /\ job[a].kind = "add" => job[a].user \in Users!Account
  /\ pc[a] = "write" =>
       IF job[a].kind = "add"
       THEN job[a].force \/ None \in seen[a][job[a].name]
       ELSE seen[a][job[a].name] # {None}
  /\ pc[a] = "listing" => job[a].kind = "list"
  /\ pc[a] = "idle" => DOMAIN listed[a] = {}
  /\ pc[a] = "done" /\ job[a].kind = "list" => todo[a] = {}
  /\ pc[a] \in {"listing", "done"} /\ job[a].kind = "list" /\ ~fault[a] =>
       \A n \in Names :
         /\ n \in DOMAIN listed[a] =>
              \E u \in seen[a][n] : u # None /\ u.team = listed[a][n]
         /\ n \notin DOMAIN listed[a] \cup todo[a] => None \in seen[a][n]

UsersInv ==
  /\ UsersTypes /\ HeldFits /\ TokensFit
  /\ \A a \in Admins : CommandFits(a)
  /\ \A l \in Logins : LoginFits(l)

LEMMA UsersInvSuffices ==
  ASSUME Users!AccountsAssumption, UsersInv
  PROVE  /\ Users!TypeOK /\ Users!AddOverwritesOnlyNewer
         /\ Users!ListIsCurrent /\ Users!RemovedIsLockedOut
<1>1. Users!TypeOK
  BY DEF UsersInv, UsersTypes
<1>2. Users!AddOverwritesOnlyNewer
  BY DEF UsersInv, CommandFits, Users!AddOverwritesOnlyNewer
<1>3. Users!ListIsCurrent
  BY DEF UsersInv, CommandFits, Users!ListIsCurrent
<1>4. Users!RemovedIsLockedOut
  <2> SUFFICES ASSUME NEW t \in tokens, clock <= t.expires
               PROVE  clock <= lastHeld[t.name][t.team] + Life
    BY DEF Users!RemovedIsLockedOut, Users!VerifyJWT
  <2>1. /\ clock \in Nat /\ t.expires \in Nat /\ Life \in Nat
        /\ lastHeld[t.name][t.team] \in Nat
    BY DEF UsersInv, UsersTypes, Tokens, Users!TypeOK, Users!AccountsAssumption
  <2>2. t.expires <= lastHeld[t.name][t.team] + Life
    BY DEF UsersInv, TokensFit
  <2> QED
    BY <2>1, <2>2
<1> QED
  BY <1>1, <1>2, <1>3, <1>4

(* A command that makes no request. *)
SameCommand(b) ==
  /\ job'[b] = job[b] /\ pc'[b] = pc[b] /\ todo'[b] = todo[b]
  /\ listed'[b] = listed[b] /\ fault'[b] = fault[b]
HistoryGrows(w) ==
  \A n \in Names : /\ seen[w][n] \subseteq seen'[w][n]
                   /\ users[n] \in seen[w][n] => users'[n] \in seen'[w][n]

LEMMA OtherCommand ==
  ASSUME UsersInv, UsersTypes', NEW b \in Admins,
         SameCommand(b), HistoryGrows(b)
  PROVE  CommandFits(b)'
<1>1. CommandFits(b)
  BY DEF UsersInv
<1> USE DEF SameCommand, HistoryGrows
<1>2. /\ pc'[b] # "idle" => \A n \in Names : users'[n] \in seen'[b][n]
      /\ pc'[b] \in {"exists", "write"} =>
           /\ job'[b].kind \in {"add", "remove"} /\ job'[b].name \in Names
           /\ job'[b].kind = "add" => job'[b].user \in Users!Account
      /\ pc'[b] = "listing" => job'[b].kind = "list"
      /\ pc'[b] = "idle" => DOMAIN listed'[b] = {}
      /\ pc'[b] = "done" /\ job'[b].kind = "list" => todo'[b] = {}
  BY <1>1 DEF CommandFits
<1>3. pc'[b] = "write" =>
        IF job'[b].kind = "add"
        THEN job'[b].force \/ None \in seen'[b][job'[b].name]
        ELSE seen'[b][job'[b].name] # {None}
  <2> SUFFICES ASSUME pc[b] = "write" 
               PROVE  IF job[b].kind = "add"
                      THEN job[b].force \/ None \in seen'[b][job[b].name]
                      ELSE seen'[b][job[b].name] # {None}
    OBVIOUS
  <2>1. job[b].name \in Names
    BY <1>1 DEF CommandFits
  <2>2. users[job[b].name] \in seen[b][job[b].name]
    BY <1>1, <2>1 DEF CommandFits
  <2> QED
    BY <1>1, <2>1, <2>2 DEF CommandFits
<1>4. pc'[b] \in {"listing", "done"} /\ job'[b].kind = "list" /\ ~fault'[b] =>
        \A n \in Names :
          /\ n \in DOMAIN listed'[b] =>
               \E u \in seen'[b][n] : u # None /\ u.team = listed'[b][n]
          /\ n \notin DOMAIN listed'[b] \cup todo'[b] => None \in seen'[b][n]
  BY <1>1 DEF CommandFits
<1> QED
  BY <1>2, <1>3, <1>4 DEF CommandFits

(* A step of a command that writes nothing. *)
LEMMA CommandStep ==
  ASSUME Users!AccountsAssumption, UsersInv, UsersTypes', NEW a \in Admins,
         UNCHANGED <<users, step, asked, found, tokens, clock, lastHeld>>,
         \A b \in Admins \ {a} : SameCommand(b),
         \A w \in (Admins \cup Logins) \ {a} : seen'[w] = seen[w],
         CommandFits(a)'
  PROVE  UsersInv'
<1>1. HeldFits' /\ TokensFit'
  BY DEF UsersInv, HeldFits, TokensFit
<1>2. ASSUME NEW b \in Admins \ {a} PROVE CommandFits(b)'
  <2>1. SameCommand(b) /\ HistoryGrows(b)
    BY DEF HistoryGrows
  <2> QED
    BY <2>1, OtherCommand
<1>3. ASSUME NEW l \in Logins PROVE LoginFits(l)'
  <2>1. l # a /\ seen'[l] = seen[l]
    BY DEF Users!AccountsAssumption
  <2> QED
    BY <2>1 DEF UsersInv, LoginFits
<1> QED
  BY <1>1, <1>2, <1>3 DEF UsersInv

LEMMA BeginKeeps ==
  ASSUME Users!AccountsAssumption, UsersInv, NEW a \in Admins,
         \/ \E n \in Names, u \in Users!Account, force \in BOOLEAN :
              Users!BeginAdd(a, n, u, force)
         \/ \E n \in Names : Users!BeginRemove(a, n)
         \/ Users!BeginList(a)
  PROVE  UsersInv'
<1>1. UsersTypes /\ Users!TypeOK /\ CommandFits(a)
  BY DEF UsersInv, UsersTypes
<1> DEFINE history == [n \in Names |-> {users[n]}]
<1>2. PICK j \in Users!Job, where \in {"exists", "listing"},
           names \in SUBSET Names :
        /\ pc[a] = "idle" /\ jobs < MaxJobs /\ jobs' = jobs + 1
        /\ job' = [job EXCEPT ![a] = j] /\ pc' = [pc EXCEPT ![a] = where]
        /\ todo' = [todo EXCEPT ![a] = names]
        /\ where = "exists" =>
             /\ j.kind \in {"add", "remove"} /\ j.name \in Names
             /\ j.kind = "add" => j.user \in Users!Account
        /\ where = "listing" => j.kind = "list" /\ names = Users!Registered
  <2>1. CASE \E n \in Names, u \in Users!Account, force \in BOOLEAN :
               Users!BeginAdd(a, n, u, force)
    <3>1. PICK n \in Names, u \in Users!Account, force \in BOOLEAN :
            Users!BeginAdd(a, n, u, force)
      BY <2>1
    <3> DEFINE j == [kind |-> "add", name |-> n, user |-> u, force |-> force]
    <3>2. j \in Users!Job /\ todo' = [todo EXCEPT ![a] = todo[a]]
      BY <1>1, <3>1 DEF Users!Job, Users!BeginAdd, UsersTypes
    <3> QED
      BY <1>1, <3>1, <3>2 DEF Users!BeginAdd, Users!Begin, Users!Goto,
        UsersTypes
  <2>2. CASE \E n \in Names : Users!BeginRemove(a, n)
    <3>1. PICK n \in Names : Users!BeginRemove(a, n)
      BY <2>2
    <3> DEFINE j == [kind |-> "remove", name |-> n, user |-> None,
                     force |-> FALSE]
    <3>2. j \in Users!Job /\ todo' = [todo EXCEPT ![a] = todo[a]]
      BY <1>1, <3>1 DEF Users!Job, Users!BeginRemove, UsersTypes
    <3> QED
      BY <1>1, <3>1, <3>2
      DEF Users!BeginRemove, Users!Begin, Users!Goto, UsersTypes
  <2>3. CASE Users!BeginList(a)
    <3> DEFINE j == [kind |-> "list", name |-> None, user |-> None,
                     force |-> FALSE]
    <3>1. j \in Users!Job /\ Users!Registered \in SUBSET Names
      BY DEF Users!Job, Users!Registered
    <3> QED
      BY <2>3, <3>1 DEF Users!BeginList, Users!Begin, Users!Goto
  <2> QED
    BY <2>1, <2>2, <2>3
<1>3. /\ seen' = [seen EXCEPT ![a] = history]
      /\ UNCHANGED <<users, listed, step, asked, found, tokens, clock,
                     lastHeld, fault>>
  BY DEF Users!BeginAdd, Users!BeginRemove, Users!BeginList, Users!Begin,
    Users!Watching, Users!loginVars
<1>4. /\ job'[a] = j /\ pc'[a] = where /\ todo'[a] = names
      /\ \A n \in Names : seen'[a][n] = {users[n]}
  BY <1>1, <1>2, <1>3 DEF UsersTypes, Users!TypeOK
<1>5. UsersTypes'
  <2>1. history \in [Names -> SUBSET Accounts]
    BY <1>1 DEF Accounts, Users!TypeOK
  <2>2. seen' \in [Admins \cup Logins -> [Names -> SUBSET Accounts]]
    BY <1>1, <1>3, <2>1 DEF UsersTypes
  <2>3. jobs' \in 0..MaxJobs
    BY <1>1, <1>2 DEF Users!TypeOK, Users!AccountsAssumption
  <2>4. /\ job' \in [Admins -> Users!Job] /\ todo' \in [Admins -> SUBSET Names]
        /\ pc' \in [Admins -> {"idle", "exists", "write", "listing", "done",
                               "failed"}]
    BY <1>1, <1>2 DEF UsersTypes, Users!TypeOK
  <2> QED
    BY <1>1, <1>3, <2>2, <2>3, <2>4 DEF UsersTypes, Users!TypeOK
<1>6. CommandFits(a)'
  <2>1. DOMAIN listed'[a] = {}
    BY <1>1, <1>2, <1>3 DEF CommandFits
  <2>2. \A n \in Names \ Users!Registered : users[n] = None
    BY DEF Users!Registered
  <2> QED
    BY <1>2, <1>3, <1>4, <2>1, <2>2 DEF CommandFits
<1>7. \A b \in Admins \ {a} : SameCommand(b)
  BY <1>1, <1>2, <1>3 DEF SameCommand, UsersTypes, Users!TypeOK
<1>8. \A w \in (Admins \cup Logins) \ {a} : seen'[w] = seen[w]
  BY <1>1, <1>3 DEF UsersTypes
<1> QED
  BY <1>3, <1>5, <1>6, <1>7, <1>8, CommandStep

(* The steps of a command that only read. *)
LEMMA AskKeeps ==
  ASSUME Users!AccountsAssumption, UsersInv, NEW a \in Admins,
         \/ Users!AddChecks(a) \/ Users!RemoveChecks(a)
         \/ Users!CommandFails(a) \/ Users!ListEnds(a)
  PROVE  UsersInv'
<1>1. UsersTypes /\ Users!TypeOK /\ CommandFits(a)
  BY DEF UsersInv, UsersTypes
<1>2. UNCHANGED <<users, job, todo, listed, jobs, step, asked, found, tokens,
                  clock, lastHeld, seen, fault>>
  BY DEF Users!AddChecks, Users!RemoveChecks, Users!CommandFails,
    Users!ListEnds, Users!loginVars
<1>3. PICK where \in {"write", "failed", "done"} :
        /\ pc' = [pc EXCEPT ![a] = where]
        /\ where = "write" =>
             \/ /\ Users!At(a, "add", "exists")
                /\ Users!Exists(a) => job[a].force
             \/ Users!At(a, "remove", "exists") /\ Users!Exists(a)
        /\ where = "done" => pc[a] = "listing" /\ todo[a] = {}
        /\ pc[a] # "idle"
  BY DEF Users!AddChecks, Users!RemoveChecks, Users!CommandFails,
    Users!ListEnds, Users!Goto, Users!At
<1>4. pc'[a] = where
  BY <1>1, <1>3 DEF Users!TypeOK
<1>5. UsersTypes' /\ \A b \in Admins \ {a} : SameCommand(b)
  BY <1>1, <1>2, <1>3 DEF UsersTypes, Users!TypeOK, SameCommand
<1>6. CommandFits(a)'
  <2>1. CASE where = "write"
    <3>1. /\ pc[a] = "exists" /\ job[a].name \in Names
          /\ users[job[a].name] \in seen[a][job[a].name]
      BY <1>1, <1>3, <2>1 DEF Users!At, CommandFits
    <3>2. IF job[a].kind = "add"
          THEN job[a].force \/ users[job[a].name] = None
          ELSE users[job[a].name] # None
      BY <1>3, <2>1 DEF Users!At, Users!Exists
    <3> QED
      BY <1>1, <1>2, <1>4, <2>1, <3>1, <3>2 DEF CommandFits
  <2>2. CASE where # "write"
    BY <1>1, <1>2, <1>3, <1>4, <2>2 DEF CommandFits
  <2> QED
    BY <2>1, <2>2
<1> QED
  BY <1>2, <1>5, <1>6, CommandStep

(* A listing gets an account, finds it gone or cannot read it. *)
LEMMA ListNextKeeps ==
  ASSUME Users!AccountsAssumption, UsersInv, NEW a \in Admins,
         Users!ListNext(a)
  PROVE  UsersInv'
<1>1. UsersTypes /\ Users!TypeOK /\ CommandFits(a)
  BY DEF UsersInv, UsersTypes
<1>2. /\ pc[a] = "listing"
      /\ UNCHANGED <<users, job, pc, jobs, step, asked, found, tokens, clock,
                     seen, lastHeld>>
  BY DEF Users!ListNext, Users!loginVars
<1>3. PICK n \in todo[a] :
        /\ todo' = [todo EXCEPT ![a] = @ \ {n}]
        /\ \/ users[n] # None /\ Users!List(a, n) /\ UNCHANGED fault
           \/ users[n] = None /\ UNCHANGED <<listed, fault>>
           \/ fault' = [fault EXCEPT ![a] = TRUE] /\ UNCHANGED listed
  BY DEF Users!ListNext
<1>4. n \in Names /\ todo'[a] = todo[a] \ {n} /\ users[n] \in Accounts
  BY <1>1, <1>3 DEF UsersTypes, Users!TypeOK, Accounts
<1>5. \/ /\ users[n] # None /\ fault' = fault
         /\ DOMAIN listed'[a] = DOMAIN listed[a] \cup {n}
         /\ \A m \in DOMAIN listed[a] \cup {n} :
              listed'[a][m] = IF m = n THEN users[n].team ELSE listed[a][m]
      \/ users[n] = None /\ UNCHANGED <<listed, fault>>
      \/ fault'[a] /\ UNCHANGED listed
  BY <1>1, <1>3 DEF Users!List, UsersTypes
<1>6. /\ DOMAIN listed' = Admins /\ fault' \in [Admins -> BOOLEAN]
      /\ \A b \in Admins \ {a} : /\ listed'[b] = listed[b]
                                 /\ fault'[b] = fault[b]
  BY <1>1, <1>3 DEF Users!List, UsersTypes
<1>7. UsersTypes'
  <2>1. \A b \in Admins :
          DOMAIN listed'[b] \subseteq Names /\ todo'[b] \subseteq Names
    BY <1>1, <1>3, <1>4, <1>5, <1>6 DEF UsersTypes, Users!TypeOK
  <2> QED
    BY <1>1, <1>2, <1>3, <1>6, <2>1 DEF UsersTypes, Users!TypeOK
<1>8. \A b \in Admins \ {a} : SameCommand(b)
  BY <1>1, <1>2, <1>3, <1>6 DEF SameCommand, UsersTypes
<1>9. CommandFits(a)'
  <2>1. users[n] \in seen[a][n] /\ job[a].kind = "list"
    BY <1>1, <1>2, <1>4 DEF CommandFits
  <2>2. ~fault'[a] =>
          \A m \in Names :
            /\ m \in DOMAIN listed'[a] =>
                 \E u \in seen[a][m] : u # None /\ u.team = listed'[a][m]
            /\ m \notin DOMAIN listed'[a] \cup todo'[a] => None \in seen[a][m]
    <3> SUFFICES ASSUME ~fault'[a], NEW m \in Names
                 PROVE  /\ m \in DOMAIN listed'[a] =>
                             \E u \in seen[a][m] :
                               u # None /\ u.team = listed'[a][m]
                        /\ m \notin DOMAIN listed'[a] \cup todo'[a] =>
                             None \in seen[a][m]
      OBVIOUS
    <3>1. ~fault[a]
      BY <1>5
    <3>2. /\ m \in DOMAIN listed[a] =>
               \E u \in seen[a][m] : u # None /\ u.team = listed[a][m]
          /\ m \notin DOMAIN listed[a] \cup todo[a] => None \in seen[a][m]
      BY <1>1, <1>2, <2>1, <3>1 DEF CommandFits
    <3> QED
      BY <1>4, <1>5, <2>1, <3>2
  <2> QED
    BY <1>1, <1>2, <2>1, <2>2 DEF CommandFits
<1> QED
  BY <1>2, <1>7, <1>8, <1>9, CommandStep

LEMMA LeaveKeeps ==
  ASSUME Users!AccountsAssumption, UsersInv, NEW a \in Admins, Users!Leave(a)
  PROVE  UsersInv'
<1>1. UsersTypes /\ Users!TypeOK
  BY DEF UsersInv, UsersTypes
<1>2. /\ pc' = [pc EXCEPT ![a] = "idle"]
      /\ listed' = [listed EXCEPT ![a] = << >>]
      /\ fault' = [fault EXCEPT ![a] = FALSE]
      /\ job' = [job EXCEPT ![a] = Users!NoJob]
      /\ seen' = [seen EXCEPT ![a] = Users!Unseen]
      /\ UNCHANGED <<users, todo, jobs, step, asked, found, tokens, clock,
                     lastHeld>>
  BY DEF Users!Leave, Users!Goto, Users!loginVars
<1>3. pc'[a] = "idle" /\ DOMAIN listed'[a] = {}
  BY <1>1, <1>2 DEF UsersTypes, Users!TypeOK
<1>4. \A b \in Admins : DOMAIN listed'[b] \subseteq Names
  BY <1>1, <1>2, <1>3 DEF UsersTypes, Users!TypeOK
<1>5. Users!NoJob \in Users!Job /\ Users!Unseen \in [Names -> SUBSET Accounts]
  BY DEF Users!NoJob, Users!Job, Users!Unseen
<1>6. UsersTypes'
  BY <1>1, <1>2, <1>4, <1>5 DEF UsersTypes, Users!TypeOK
<1>7. CommandFits(a)'
  BY <1>3 DEF CommandFits
<1>8. ASSUME NEW b \in Admins \ {a} PROVE CommandFits(b)'
  <2>1. SameCommand(b) /\ HistoryGrows(b)
    BY <1>1, <1>2 DEF UsersTypes, Users!TypeOK, SameCommand, HistoryGrows
  <2> QED
    BY <1>6, <2>1, OtherCommand
<1>9. ASSUME NEW l \in Logins PROVE LoginFits(l)'
  <2>1. l # a
    BY DEF Users!AccountsAssumption
  <2>2. seen'[l] = seen[l]
    BY <1>1, <1>2, <2>1 DEF UsersTypes
  <2> QED
    BY <1>2, <2>2 DEF UsersInv, LoginFits
<1>10. HeldFits' /\ TokensFit'
  BY <1>2 DEF UsersInv, HeldFits, TokensFit
<1> QED
  BY <1>6, <1>7, <1>8, <1>9, <1>10 DEF UsersInv

(* A write to the bucket shows in every history, and an account that is    *)
(* written holds its team from now on.                                     *)
LEMMA PutDeleteKeeps ==
  ASSUME Users!AccountsAssumption, UsersInv, NEW a \in Admins,
         Users!PutUser(a) \/ Users!DeleteUser(a)
  PROVE  UsersInv'
<1>1. UsersTypes /\ Users!TypeOK /\ CommandFits(a) /\ HeldFits
  BY DEF UsersInv, UsersTypes
<1>2. /\ pc[a] = "write" /\ pc' = [pc EXCEPT ![a] = "done"]
      /\ job[a].kind \in {"add", "remove"} /\ job[a].name \in Names
      /\ UNCHANGED <<job, todo, listed, jobs, step, asked, found, tokens,
                     clock, fault>>
  BY <1>1 DEF Users!PutUser, Users!DeleteUser, Users!At, Users!Goto,
    Users!loginVars, CommandFits
<1> DEFINE n == job[a].name
<1>3. PICK u \in Accounts : Users!Write(n, u)
  BY <1>1, <1>2 DEF Users!PutUser, Users!DeleteUser, Users!At, CommandFits,
    Accounts
<1>4. /\ users' = [users EXCEPT ![n] = u]
      /\ seen' = [w \in Admins \cup Logins |->
                    [seen[w] EXCEPT ![n] = @ \cup {u}]]
      /\ lastHeld' = IF u = None THEN lastHeld
                     ELSE [lastHeld EXCEPT ![n][u.team] = clock]
  BY <1>3 DEF Users!Write
<1>5. u # None => u \in Users!Account /\ u.team \in Teams
  BY DEF Accounts, Users!Account
<1>6. clock \in Nat
  BY <1>1 DEF Users!TypeOK
<1>7. /\ users' \in [Names -> Accounts]
      /\ seen' \in [Admins \cup Logins -> [Names -> SUBSET Accounts]]
      /\ \A w \in Admins \cup Logins : HistoryGrows(w)
  <2>1. \A w \in Admins \cup Logins : \A m \in Names :
          seen'[w][m] = IF m = n THEN seen[w][m] \cup {u} ELSE seen[w][m]
    BY <1>1, <1>2, <1>4 DEF UsersTypes
  <2>2. \A m \in Names : users'[m] = IF m = n THEN u ELSE users[m]
    BY <1>1, <1>2, <1>4 DEF Users!TypeOK
  <2>3. \A w \in Admins \cup Logins : HistoryGrows(w)
    BY <2>1, <2>2 DEF HistoryGrows
  <2>4. users' \in [Names -> Accounts]
    BY <1>1, <1>2, <1>4 DEF Users!TypeOK, Accounts
  <2>5. seen' \in [Admins \cup Logins -> [Names -> SUBSET Accounts]]
    BY <1>1, <1>2, <1>4 DEF UsersTypes
  <2> QED
    BY <2>3, <2>4, <2>5
<1>8. /\ lastHeld' \in [Names -> [Teams -> Nat]]
      /\ \A m \in Names, t \in Teams :
           lastHeld'[m][t] = IF m = n /\ u # None /\ t = u.team
                             THEN clock ELSE lastHeld[m][t]
  <2>1. CASE u = None
    BY <1>1, <1>4, <2>1 DEF UsersTypes
  <2>2. CASE u # None
    <3>1. lastHeld' = [lastHeld EXCEPT ![n] = [lastHeld[n] EXCEPT
                                                 ![u.team] = clock]]
      BY <1>1, <1>2, <1>4, <2>2 DEF UsersTypes
    <3>2. lastHeld[n] \in [Teams -> Nat]
      BY <1>1, <1>2 DEF UsersTypes
    <3>3. /\ [lastHeld[n] EXCEPT ![u.team] = clock] \in [Teams -> Nat]
          /\ \A t \in Teams : [lastHeld[n] EXCEPT ![u.team] = clock][t] =
                                IF t = u.team THEN clock ELSE lastHeld[n][t]
      BY <1>5, <1>6, <2>2, <3>2
    <3> QED
      BY <1>1, <1>2, <2>2, <3>1, <3>3 DEF UsersTypes
  <2> QED
    BY <2>1, <2>2
<1>9. UsersTypes'
  BY <1>1, <1>2, <1>7, <1>8 DEF UsersTypes, Users!TypeOK, Accounts
<1>10. HeldFits'
  <2> SUFFICES ASSUME NEW m \in Names
               PROVE  /\ \A t \in Teams : lastHeld'[m][t] <= clock
                      /\ users'[m] # None =>
                           lastHeld'[m][users'[m].team] = clock
    BY <1>2 DEF HeldFits
  <2>1. \A t \in Teams : lastHeld'[m][t] <= clock
    BY <1>1, <1>6, <1>8 DEF HeldFits
  <2>2. users'[m] = IF m = n THEN u ELSE users[m]
    BY <1>1, <1>2, <1>4 DEF Users!TypeOK
  <2>3. users[m] # None => users[m].team \in Teams
    BY <1>1 DEF Users!TypeOK, Users!Account
  <2> QED
    BY <1>1, <1>5, <1>8, <2>1, <2>2, <2>3 DEF HeldFits
<1>11. TokensFit'
  <2> SUFFICES ASSUME NEW t \in tokens
               PROVE  t.expires <= lastHeld'[t.name][t.team] + Life
    BY <1>2 DEF TokensFit
  <2>1. /\ t.name \in Names /\ t.team \in Teams /\ t.expires \in Nat
        /\ t.expires <= lastHeld[t.name][t.team] + Life /\ Life \in Nat
    BY DEF UsersInv, UsersTypes, Tokens, TokensFit, Users!AccountsAssumption
  <2>2. /\ lastHeld[t.name] \in [Teams -> Nat]
        /\ lastHeld[t.name][t.team] <= clock
    BY <1>1, <2>1 DEF HeldFits, UsersTypes
  <2>3. lastHeld'[t.name][t.team] \in {clock, lastHeld[t.name][t.team]}
    BY <1>8, <2>1
  <2> QED
    BY <1>6, <2>1, <2>2, <2>3
<1>12. ASSUME NEW l \in Logins PROVE LoginFits(l)'
  <2> SUFFICES ASSUME step[l] = "compare" PROVE LoginFits(l)'
    BY <1>2 DEF LoginFits
  <2>1. /\ asked[l].name \in Names /\ asked[l].password \in Passwords
        /\ found[l] \in seen[l][asked[l].name]
        /\ found[l] # None => lastHeld[asked[l].name][found[l].team] = clock
    BY DEF UsersInv, LoginFits
  <2>2. found[l] # None => found[l].team \in Teams
    BY <1>1 DEF Users!TypeOK, Users!Account
  <2>3. seen[l][asked[l].name] \subseteq seen'[l][asked[l].name]
    BY <1>7, <2>1 DEF HistoryGrows
  <2> QED
    BY <1>2, <1>8, <2>1, <2>2, <2>3 DEF LoginFits
<1>13. ASSUME NEW b \in Admins \ {a} PROVE CommandFits(b)'
  <2>1. SameCommand(b) /\ HistoryGrows(b)
    BY <1>1, <1>2, <1>7 DEF SameCommand, Users!TypeOK
  <2> QED
    BY <1>9, <2>1, OtherCommand
<1>14. CommandFits(a)'
  <2>1. pc'[a] = "done"
    BY <1>1, <1>2 DEF Users!TypeOK
  <2>2. \A m \in Names : users'[m] \in seen'[a][m]
    BY <1>1, <1>2, <1>7 DEF CommandFits, HistoryGrows
  <2> QED
    BY <1>2, <2>1, <2>2 DEF CommandFits
<1> QED
  BY <1>9, <1>10, <1>11, <1>12, <1>13, <1>14 DEF UsersInv

(* A login reads the account of this moment. *)
LEMMA GetUserKeeps ==
  ASSUME Users!AccountsAssumption, UsersInv, NEW l \in Logins,
         NEW n \in Names, NEW p \in Passwords, Users!GetUser(l, n, p)
  PROVE  UsersInv'
<1>1. UsersTypes /\ Users!TypeOK /\ HeldFits
  BY DEF UsersInv, UsersTypes
<1> DEFINE history == [m \in Names |-> {users[m]}]
<1>2. /\ step' = [step EXCEPT ![l] = "compare"]
      /\ asked' = [asked EXCEPT ![l] = [name |-> n, password |-> p]]
      /\ found' = [found EXCEPT ![l] = users[n]]
      /\ seen' = [seen EXCEPT ![l] = history]
      /\ UNCHANGED <<users, job, pc, todo, listed, jobs, tokens, clock,
                     lastHeld, fault>>
  BY DEF Users!GetUser, Users!Watching, Users!adminVars
<1>3. history \in [Names -> SUBSET Accounts]
  BY <1>1 DEF Users!TypeOK, Accounts
<1>4. UsersTypes'
  BY <1>1, <1>2, <1>3 DEF UsersTypes, Users!TypeOK
<1>5. HeldFits' /\ TokensFit'
  BY <1>2 DEF UsersInv, HeldFits, TokensFit
<1>6. ASSUME NEW a \in Admins PROVE CommandFits(a)'
  <2>1. a # l
    BY DEF Users!AccountsAssumption
  <2>2. SameCommand(a) /\ HistoryGrows(a)
    BY <1>1, <1>2, <2>1 DEF SameCommand, HistoryGrows, UsersTypes
  <2> QED
    BY <1>4, <2>2, OtherCommand
<1>7. ASSUME NEW k \in Logins PROVE LoginFits(k)'
  <2>1. CASE k = l
    <3>1. /\ asked'[l].name = n /\ asked'[l].password = p
          /\ found'[l] = users[n] /\ seen'[l][n] = {users[n]}
      BY <1>1, <1>2 DEF UsersTypes, Users!TypeOK
    <3> QED
      BY <1>1, <1>2, <2>1, <3>1 DEF LoginFits, HeldFits
  <2>2. CASE k # l
    <3>1. /\ step'[k] = step[k] /\ asked'[k] = asked[k] /\ found'[k] = found[k]
          /\ seen'[k] = seen[k]
      BY <1>1, <1>2, <2>2 DEF UsersTypes, Users!TypeOK
    <3> QED
      BY <1>2, <3>1 DEF UsersInv, LoginFits
  <2> QED
    BY <2>1, <2>2
<1> QED
  BY <1>4, <1>5, <1>6, <1>7 DEF UsersInv

(* What a login signs is for the account it has compared with. *)
LEMMA SignedIsEarned ==
  ASSUME Users!AccountsAssumption, UsersInv, NEW l \in Logins,
         Users!Answer(l), tokens' # tokens
  PROVE  /\ tokens' = tokens \cup {Users!Token(l)}
         /\ Users!Token(l).name = asked[l].name
         /\ Users!Token(l).team = found[l].team
         /\ Users!Token(l).expires = clock + Life
         /\ asked[l].name \in Names /\ found[l] \in Users!Account
         /\ [team |-> found[l].team, password |-> asked[l].password]
              \in seen[l][asked[l].name]
         /\ lastHeld[asked[l].name][found[l].team] = clock
<1>1. /\ Users!Verified(l) /\ tokens' = tokens \cup {Users!Token(l)}
      /\ step[l] = "compare"
  BY DEF Users!Answer
<1>2. found[l] # None /\ found[l].password = asked[l].password
  BY <1>1 DEF Users!Verified
<1>3. found[l] \in Users!Account
  BY <1>2 DEF UsersInv, UsersTypes, Users!TypeOK
<1>4. /\ asked[l].name \in Names /\ found[l] \in seen[l][asked[l].name]
      /\ lastHeld[asked[l].name][found[l].team] = clock
  BY <1>1, <1>2 DEF UsersInv, LoginFits
<1>5. found[l] = [team |-> found[l].team, password |-> asked[l].password]
  BY <1>2, <1>3 DEF Users!Account
<1> QED
  BY <1>1, <1>3, <1>4, <1>5 DEF Users!Token

LEMMA AnswerLoginKeeps ==
  ASSUME Users!AccountsAssumption, UsersInv, NEW l \in Logins,
         Users!Answer(l)
  PROVE  UsersInv'
<1>1. UsersTypes /\ Users!TypeOK
  BY DEF UsersInv, UsersTypes
<1>2. /\ step' = [step EXCEPT ![l] = "idle"]
      /\ found' = [found EXCEPT ![l] = None]
      /\ asked' = [asked EXCEPT ![l] = Users!NotAsked]
      /\ seen' = [seen EXCEPT ![l] = Users!Unseen]
      /\ UNCHANGED <<users, job, pc, todo, listed, jobs, clock, lastHeld, fault>>
  BY DEF Users!Answer, Users!adminVars
<1>3. tokens' \subseteq Tokens /\ TokensFit'
  <2>1. CASE tokens' = tokens
    BY <1>1, <1>2, <2>1 DEF UsersInv, UsersTypes, TokensFit
  <2>2. CASE tokens' # tokens
    <3> DEFINE t == Users!Token(l)
    <3>1. /\ tokens' = tokens \cup {t}
          /\ t.name \in Names /\ t.team \in Teams
          /\ t.expires = clock + Life /\ lastHeld[t.name][t.team] = clock
      BY <2>2, SignedIsEarned DEF Users!Account
    <3>2. clock \in Nat /\ Life \in Nat
      BY <1>1 DEF Users!TypeOK, Users!AccountsAssumption
    <3>3. t \in Tokens
      BY <3>1, <3>2 DEF Tokens, Users!Token
    <3>4. t.expires <= lastHeld[t.name][t.team] + Life
      BY <3>1, <3>2
    <3> HIDE DEF t
    <3> QED
      BY <1>1, <1>2, <3>1, <3>3, <3>4 DEF UsersInv, UsersTypes, TokensFit
  <2> QED
    BY <2>1, <2>2
<1>4. UsersTypes'
  <2>1. Users!Unseen \in [Names -> SUBSET Accounts]
    BY DEF Users!Unseen
  <2> QED
    BY <1>1, <1>2, <1>3, <2>1 DEF UsersTypes, Users!TypeOK
<1>5. HeldFits'
  BY <1>2 DEF UsersInv, HeldFits
<1>6. ASSUME NEW a \in Admins PROVE CommandFits(a)'
  <2>1. a # l
    BY DEF Users!AccountsAssumption
  <2>2. SameCommand(a) /\ HistoryGrows(a)
    BY <1>1, <1>2, <2>1 DEF SameCommand, HistoryGrows, UsersTypes
  <2> QED
    BY <1>4, <2>2, OtherCommand
<1>7. ASSUME NEW k \in Logins PROVE LoginFits(k)'
  <2>1. CASE k = l
    BY <1>1, <1>2, <2>1 DEF LoginFits, Users!TypeOK
  <2>2. CASE k # l
    <3>1. /\ step'[k] = step[k] /\ asked'[k] = asked[k] /\ found'[k] = found[k]
          /\ seen'[k] = seen[k]
      BY <1>1, <1>2, <2>2 DEF UsersTypes, Users!TypeOK
    <3> QED
      BY <1>2, <3>1 DEF UsersInv, LoginFits
  <2> QED
    BY <2>1, <2>2
<1> QED
  BY <1>3, <1>4, <1>5, <1>6, <1>7 DEF UsersInv

(* No login is under way when the clock goes on; who has an account then   *)
(* has held his team up to now.                                            *)
LEMMA TickKeeps ==
  ASSUME Users!AccountsAssumption, UsersInv, Users!Tick
  PROVE  UsersInv'
<1>1. UsersTypes /\ Users!TypeOK /\ HeldFits
  BY DEF UsersInv, UsersTypes
<1>2. /\ clock < MaxTime /\ clock' = clock + 1
      /\ \A l \in Logins : step[l] = "idle"
      /\ lastHeld' = [n \in Names |-> [t \in Teams |->
           IF users[n] # None /\ users[n].team = t THEN clock'
           ELSE lastHeld[n][t]]]
      /\ UNCHANGED <<users, job, pc, todo, listed, jobs, step, asked, found,
                     tokens, seen, fault>>
  BY DEF Users!Tick, Users!adminVars, Users!loginVars
<1>3. clock \in Nat /\ clock' \in 0..MaxTime
  BY <1>1, <1>2 DEF Users!TypeOK, Users!AccountsAssumption
<1>4. /\ \A n \in Names, t \in Teams :
           lastHeld'[n][t] = IF users[n] # None /\ users[n].team = t
                             THEN clock' ELSE lastHeld[n][t]
      /\ \A n \in Names, t \in Teams : lastHeld[n][t] \in Nat
  BY <1>1, <1>2 DEF UsersTypes
<1>5. lastHeld' \in [Names -> [Teams -> Nat]]
  BY <1>2, <1>3, <1>4
<1>6. UsersTypes'
  BY <1>1, <1>2, <1>3, <1>5 DEF UsersTypes, Users!TypeOK
<1>7. \A n \in Names, t \in Teams : lastHeld[n][t] <= clock
  BY <1>1 DEF HeldFits
<1>8. HeldFits'
  <2>1. \A n \in Names, t \in Teams : lastHeld'[n][t] <= clock'
    BY <1>2, <1>3, <1>4, <1>7
  <2>2. \A n \in Names : users[n] # None => users[n].team \in Teams
    BY <1>1 DEF Users!TypeOK, Users!Account
  <2> QED
    BY <1>2, <1>4, <2>1, <2>2 DEF HeldFits
<1>9. TokensFit'
  <2> SUFFICES ASSUME NEW t \in tokens
               PROVE  t.expires <= lastHeld'[t.name][t.team] + Life
    BY <1>2 DEF TokensFit
  <2>1. /\ t.name \in Names /\ t.team \in Teams /\ t.expires \in Nat
        /\ t.expires <= lastHeld[t.name][t.team] + Life /\ Life \in Nat
    BY DEF UsersInv, UsersTypes, Tokens, TokensFit, Users!AccountsAssumption
  <2>2. lastHeld'[t.name][t.team] \in {clock + 1, lastHeld[t.name][t.team]}
    BY <1>2, <1>4, <2>1
  <2>3. /\ lastHeld[t.name][t.team] \in Nat
        /\ lastHeld[t.name][t.team] <= clock
    BY <1>4, <1>7, <2>1
  <2> QED
    BY <1>3, <2>1, <2>2, <2>3
<1>10. ASSUME NEW a \in Admins PROVE CommandFits(a)'
  <2>1. SameCommand(a) /\ HistoryGrows(a)
    BY <1>2 DEF SameCommand, HistoryGrows
  <2> QED
    BY <1>6, <2>1, OtherCommand
<1>11. ASSUME NEW l \in Logins PROVE LoginFits(l)'
  BY <1>2 DEF LoginFits
<1> QED
  BY <1>6, <1>8, <1>9, <1>10, <1>11 DEF UsersInv

LEMMA UsersInitially ==
  ASSUME Users!AccountsAssumption, Users!Init
  PROVE  UsersInv
<1>1. UsersTypes
  BY DEF Users!Init, UsersTypes, Users!TypeOK, Accounts, Users!Job, Tokens,
    Users!NoJob, Users!NotAsked, Users!Unseen, Users!AccountsAssumption
<1>2. HeldFits
  <2>1. \A n \in Names : users[n] # None => users[n].team \in Teams
    BY DEF Users!Init, Users!Account
  <2> QED
    BY <2>1 DEF Users!Init, HeldFits
<1>3. TokensFit
  BY DEF Users!Init, TokensFit
<1>4. ASSUME NEW a \in Admins PROVE CommandFits(a)
  BY DEF Users!Init, CommandFits
<1>5. ASSUME NEW l \in Logins PROVE LoginFits(l)
  BY DEF Users!Init, LoginFits
<1> QED
  BY <1>1, <1>2, <1>3, <1>4, <1>5 DEF UsersInv

LEMMA UsersKeep ==
  ASSUME Users!AccountsAssumption, UsersInv, [Users!Next]_Users!vars
  PROVE  UsersInv'
<1>1. CASE UNCHANGED Users!vars
  BY <1>1 DEF Users!vars, Users!adminVars, Users!loginVars, UsersInv,
    UsersTypes, Users!TypeOK, HeldFits, TokensFit, CommandFits, LoginFits
<1>2. ASSUME NEW a \in Admins,
             \/ \E n \in Names, u \in Users!Account, force \in BOOLEAN :
                  Users!BeginAdd(a, n, u, force)
             \/ \E n \in Names : Users!BeginRemove(a, n)
             \/ Users!BeginList(a)
      PROVE  UsersInv'
  BY <1>2, BeginKeeps
<1>3. ASSUME NEW a \in Admins,
             \/ Users!AddChecks(a) \/ Users!RemoveChecks(a)
             \/ Users!CommandFails(a) \/ Users!ListEnds(a)
      PROVE  UsersInv'
  BY <1>3, AskKeeps
<1>4. ASSUME NEW a \in Admins, Users!ListNext(a)
      PROVE  UsersInv'
  BY <1>4, ListNextKeeps
<1>5. ASSUME NEW a \in Admins, Users!Leave(a)
      PROVE  UsersInv'
  BY <1>5, LeaveKeeps
<1>6. ASSUME NEW a \in Admins, Users!PutUser(a) \/ Users!DeleteUser(a)
      PROVE  UsersInv'
  BY <1>6, PutDeleteKeeps
<1>7. ASSUME NEW l \in Logins, NEW n \in Names, NEW p \in Passwords,
             Users!GetUser(l, n, p)
      PROVE  UsersInv'
  BY <1>7, GetUserKeeps
<1>8. ASSUME NEW l \in Logins, Users!Answer(l)
      PROVE  UsersInv'
  BY <1>8, AnswerLoginKeeps
<1>9. CASE Users!Tick
  BY <1>9, TickKeeps
<1> QED
  BY <1>1, <1>2, <1>3, <1>4, <1>5, <1>6, <1>7, <1>8, <1>9 DEF Users!Next

(* Only Answer signs, and only for the login that it answers. *)
LEMMA UsersSign ==
  ASSUME Users!AccountsAssumption, UsersInv, [Users!Next]_Users!vars
  PROVE  Users!SignsWhatIsEarned
<1>1. CASE \E l \in Logins : Users!Answer(l)
  <2>1. PICK l \in Logins : Users!Answer(l)
    BY <1>1
  <2>2. \A k \in Logins : step[k] # step'[k] => k = l
    BY <2>1 DEF Users!Answer, UsersInv, UsersTypes, Users!TypeOK
  <2>3. ASSUME NEW t \in tokens' \ tokens
        PROVE  [team |-> t.team, password |-> asked[l].password]
                 \in seen[l][t.name]
    <3>1. tokens' # tokens
      BY <2>3
    <3>2. /\ tokens' = tokens \cup {Users!Token(l)}
          /\ Users!Token(l).name = asked[l].name
          /\ Users!Token(l).team = found[l].team
          /\ [team |-> found[l].team, password |-> asked[l].password]
               \in seen[l][asked[l].name]
      BY <2>1, <3>1, SignedIsEarned
    <3> QED
      BY <2>3, <3>2
  <2> QED
    BY <2>2, <2>3 DEF Users!SignsWhatIsEarned
<1>2. CASE ~\E l \in Logins : Users!Answer(l)
  <2>1. ASSUME NEW a \in Admins,
               \/ \E n \in Names, u \in Users!Account, force \in BOOLEAN :
                    Users!BeginAdd(a, n, u, force)
               \/ \E n \in Names : Users!BeginRemove(a, n)
               \/ Users!BeginList(a)
        PROVE  tokens' = tokens
    BY <2>1 DEF Users!BeginAdd, Users!BeginRemove, Users!BeginList,
      Users!Begin,
      Users!loginVars
  <2>2. ASSUME NEW a \in Admins,
               \/ Users!AddChecks(a) \/ Users!RemoveChecks(a)
               \/ Users!PutUser(a) \/ Users!DeleteUser(a)
               \/ Users!CommandFails(a) \/ Users!ListNext(a)
               \/ Users!ListEnds(a) \/ Users!Leave(a)
        PROVE  tokens' = tokens
    BY <2>2 DEF Users!AddChecks, Users!RemoveChecks, Users!PutUser,
      Users!DeleteUser, Users!CommandFails, Users!ListNext, Users!ListEnds,
      Users!Leave, Users!loginVars
  <2>3. ASSUME NEW l \in Logins, NEW n \in Names, NEW p \in Passwords,
               Users!GetUser(l, n, p)
        PROVE  tokens' = tokens
    BY <2>3 DEF Users!GetUser
  <2>4. ASSUME Users!Tick PROVE tokens' = tokens
    BY <2>4 DEF Users!Tick, Users!loginVars
  <2>5. ASSUME UNCHANGED Users!vars PROVE tokens' = tokens
    BY <2>5 DEF Users!vars, Users!adminVars, Users!loginVars
  <2>6. tokens' = tokens
    BY <1>2, <2>1, <2>2, <2>3, <2>4, <2>5 DEF Users!Next
  <2> QED
    BY <2>6 DEF Users!SignsWhatIsEarned
<1> QED
  BY <1>1, <1>2

LEMMA UsersInvariant == Spec => [](part = "users" => UsersInv)
<1>1. Init => (part = "users" => UsersInv)
  BY CommandsAssumption, UsersInitially DEF Init, CommandsAssumption
<1>2. (part = "users" => UsersInv) /\ [Next]_vars
        => (part = "users" => UsersInv)'
  <2> SUFFICES ASSUME part = "users" => UsersInv, [Next]_vars,
                      part' = "users"
               PROVE  UsersInv'
    OBVIOUS
  <2>1. part = "users" /\ [Users!Next]_Users!vars
    BY DEF Next, BucketStep, UsersStep, QueryStep, RightsStep, vars,
      accountVars, commandVars, Users!vars, Users!adminVars, Users!loginVars
  <2> QED
    BY <2>1, CommandsAssumption, UsersKeep DEF CommandsAssumption
<1> QED
  BY <1>1, <1>2, PTL DEF Spec

(* Nobody is overwritten unseen, a listing is what was true meanwhile, and *)
(* who was removed, or moved to another team, is not let in as before      *)
(* later than a token's life after that.                                   *)
THEOREM AccountsStaySound == Spec => []AccountsAreSound
<1>1. (part = "users" => UsersInv) => AccountsAreSound
  BY CommandsAssumption, UsersInvSuffices
  DEF CommandsAssumption, AccountsAreSound
<1> QED
  BY <1>1, UsersInvariant, PTL

(* A token is signed only for an account that its name had, with the team  *)
(* and the password given, at some moment of the login.                    *)
THEOREM TokensAreEarned == Spec => TokenIsEarned
<1>1. (part = "users" => UsersInv) /\ [Next]_vars
        => [part = "users" => Users!SignsWhatIsEarned]_vars
  <2> SUFFICES ASSUME part = "users", UsersInv, [Next]_vars
               PROVE  Users!SignsWhatIsEarned
    OBVIOUS
  <2>1. [Users!Next]_Users!vars
    BY DEF Next, BucketStep, UsersStep, QueryStep, RightsStep, vars,
      accountVars, commandVars, Users!vars, Users!adminVars, Users!loginVars
  <2> QED
    BY <2>1, CommandsAssumption, UsersSign DEF CommandsAssumption
<1> QED
  BY <1>1, UsersInvariant, PTL DEF Spec, TokenIsEarned

-----------------------------------------------------------------------------
(* The rights. *)

(* Who asks, with a token for it (a page) or for any team (an agent), and  *)
(* NATS's answer is what the token grants.                                 *)
RightsInv ==
  /\ client \in Rights!Agents \cup Rights!Pages
  /\ client.kind = "agent" => token \in TeamNumbers \cup {"*"}
  /\ client.kind = "page" => client.teams = {token} /\ token \in Rights!Users
  /\ \/ request = None /\ accepted = TRUE
     \/ /\ request \in Rights!Requests
        /\ accepted = Rights!Grants(Rights!Permissions, request)

(* All an agent asks with the standalone token is granted. *)
LEMMA StandaloneIsGranted ==
  ASSUME Rights!CredentialsAssumption, NEW teams \in SUBSET TeamNumbers,
         NEW r \in Rights!AgentRequests(teams)
  PROVE  Rights!Grants(Rights!createAgentCredentials("*"), r)
<1> DEFINE G(x) == Rights!Grants(Rights!createAgentCredentials("*"), x)
<1>1. ASSUME NEW prefix PROVE G(Rights!Inbox(prefix))
  BY DEF Rights!Grants, Rights!createAgentCredentials, Rights!Inbox,
    Rights!Sub, Rights!Pub, Rights!Matches
<1>2. G(Rights!BucketInfo)
  BY DEF Rights!Grants, Rights!createAgentCredentials, Rights!BucketInfo,
    Rights!Sub, Rights!Pub, Rights!Matches
<1>3. G(Rights!Unwatch)
  BY DEF Rights!Grants, Rights!createAgentCredentials, Rights!Unwatch,
    Rights!Sub, Rights!Pub, Rights!Matches
<1>4. G(Rights!Triggers)
  BY DEF Rights!Grants, Rights!createAgentCredentials, Rights!Triggers,
    Rights!Sub, Rights!Pub, Rights!Matches
<1>5. ASSUME NEW k \in Rights!watchList(teams) PROVE G(Rights!Watch(k))
  <2>1. Rights!Pub(Rights!ConsumerRule("*"))
          \in Rights!createAgentCredentials("*")
    BY DEF Rights!createAgentCredentials
  <2>2. Rights!Matches(Rights!ConsumerRule("*"), Rights!SettingsKV("id", k))
    BY DEF Rights!ConsumerRule, Rights!SettingsKV, Rights!Matches
  <2> QED
    BY <2>1, <2>2 DEF Rights!Grants, Rights!Watch, Rights!Pub
<1>6. ASSUME NEW n \in teams, NEW c \in CheckSubjects, NEW x \in {"0", "1"}
      PROVE  G(Rights!Result(n, c, x))
  <2>1. Rights!Pub(<<"results", "*", ">">>)
          \in Rights!createAgentCredentials("*")
    BY DEF Rights!createAgentCredentials
  <2>2. n \in STRING /\ c \in Seq(STRING)
    BY DEF Rights!CredentialsAssumption
  <2> DEFINE s == <<"results", n>> \o c \o <<x>>
  <2>3. Len(s) = 3 + Len(c) /\ Len(c) \in Nat /\ s[1] = "results"
    BY <2>2
  <2>4. Rights!Matches(<<"results", "*", ">">>, s)
    <3> HIDE DEF s
    <3> QED BY <2>3 DEF Rights!Matches
  <2> QED
    BY <2>1, <2>4 DEF Rights!Grants, Rights!Result, Rights!Pub
<1> HIDE DEF G
<1>7. G(r)
  BY <1>1, <1>2, <1>3, <1>4, <1>5, <1>6 DEF Rights!AgentRequests
<1> QED BY <1>7 DEF G

(* All an agent of one team asks is granted by the team's token. *)
LEMMA OwnTeamIsGranted ==
  ASSUME Rights!CredentialsAssumption, NEW t \in TeamNumbers,
         NEW r \in Rights!AgentRequests({t})
  PROVE  Rights!Grants(Rights!createAgentCredentials(t), r)
<1> DEFINE G(x) == Rights!Grants(Rights!createAgentCredentials(t), x)
<1> t # "*"
  BY DEF Rights!CredentialsAssumption
<1>1. G(Rights!Inbox(Rights!inboxPrefix({t})))
  <2>1. Rights!inboxPrefix({t}) = t
    BY DEF Rights!inboxPrefix
  <2> QED
    BY <2>1 DEF Rights!Grants, Rights!createAgentCredentials, Rights!Inbox,
      Rights!Sub, Rights!Pub, Rights!Matches
<1>2. G(Rights!BucketInfo)
  BY DEF Rights!Grants, Rights!createAgentCredentials, Rights!BucketInfo,
    Rights!Sub, Rights!Pub, Rights!Matches
<1>3. G(Rights!Unwatch)
  BY DEF Rights!Grants, Rights!createAgentCredentials, Rights!Unwatch,
    Rights!Sub, Rights!Pub, Rights!Matches
<1>4. G(Rights!Triggers)
  BY DEF Rights!Grants, Rights!createAgentCredentials, Rights!Triggers,
    Rights!Sub, Rights!Pub, Rights!Matches
<1>5. ASSUME NEW k \in Rights!watchList({t}) PROVE G(Rights!Watch(k))
  <2>1. CASE k = <<"check", "*">>
    <3>1. Rights!Pub(Rights!SettingsKV("*", <<"check", "*">>))
            \in Rights!createAgentCredentials(t)
      BY DEF Rights!createAgentCredentials
    <3>2. Rights!Matches(Rights!SettingsKV("*", <<"check", "*">>),
                         Rights!SettingsKV("id", <<"check", "*">>))
      BY DEF Rights!SettingsKV, Rights!Matches
    <3> QED
      BY <2>1, <3>1, <3>2 DEF Rights!Grants, Rights!Watch, Rights!Pub
  <2>2. CASE k = <<t, "settings">>
    <3>1. Rights!Pub(Rights!SettingsKV("*", <<t, "settings">>))
            \in Rights!createAgentCredentials(t)
      BY DEF Rights!createAgentCredentials, Rights!ConsumerRule
    <3>2. Rights!Matches(Rights!SettingsKV("*", <<t, "settings">>),
                         Rights!SettingsKV("id", <<t, "settings">>))
      BY DEF Rights!SettingsKV, Rights!Matches
    <3> QED
      BY <2>2, <3>1, <3>2 DEF Rights!Grants, Rights!Watch, Rights!Pub
  <2> QED BY <2>1, <2>2 DEF Rights!watchList
<1>6. ASSUME NEW c \in CheckSubjects, NEW x \in {"0", "1"}
      PROVE  G(Rights!Result(t, c, x))
  <2>1. Rights!Pub(<<"results", t, ">">>) \in Rights!createAgentCredentials(t)
    BY DEF Rights!createAgentCredentials
  <2>2. t \in STRING /\ c \in Seq(STRING)
    BY DEF Rights!CredentialsAssumption
  <2> DEFINE s == <<"results", t>> \o c \o <<x>>
  <2>3. Len(s) = 3 + Len(c) /\ Len(c) \in Nat /\ s[1] = "results" /\ s[2] = t
    BY <2>2
  <2>4. Rights!Matches(<<"results", t, ">">>, s)
    <3> HIDE DEF s
    <3> QED BY <2>3 DEF Rights!Matches
  <2> QED
    BY <2>1, <2>4 DEF Rights!Grants, Rights!Result, Rights!Pub
<1> HIDE DEF G
<1>7. G(r)
  BY <1>1, <1>2, <1>3, <1>4, <1>5, <1>6 DEF Rights!AgentRequests
<1> QED BY <1>7 DEF G

(* One rule is enough. *)
LEMMA RuleGrants ==
  ASSUME NEW P, NEW pattern, NEW subject, Rights!Matches(pattern, subject)
  PROVE  /\ Rights!Pub(pattern) \in P =>
              Rights!Grants(P, Rights!Pub(subject))
         /\ Rights!Sub(pattern) \in P =>
              Rights!Grants(P, Rights!Sub(subject))
BY DEF Rights!Grants, Rights!Pub, Rights!Sub

(* All the store of a page asks is granted to its user. *)
LEMMA PageIsGranted ==
  ASSUME Rights!CredentialsAssumption, NEW u \in Rights!Users,
         NEW r \in Rights!StoreRequests(u)
  PROVE  Rights!Grants(Rights!applyPermissions(u), r)
<1> DEFINE P == Rights!applyPermissions(u)
<1>1. CASE u = "admin"
  <2>1. Rights!Pub(<<">">>) \in P /\ Rights!Sub(<<">">>) \in P
    BY <1>1 DEF Rights!applyPermissions
  <2>2. \E s : Len(s) \in Nat \ {0} /\ r \in {Rights!Pub(s), Rights!Sub(s)}
    BY <1>1 DEF Rights!StoreRequests, Rights!Consume, Rights!ResultsConsumer,
      Rights!Fetch, Rights!Remove
  <2>3. PICK s : Len(s) \in Nat \ {0} /\ r \in {Rights!Pub(s), Rights!Sub(s)}
    BY <2>2
  <2>4. Rights!Matches(<<">">>, s)
    BY <2>3 DEF Rights!Matches
  <2> QED
    BY <2>1, <2>3, <2>4, RuleGrants
<1>2. CASE u # "admin"
  <2>1. /\ Rights!Sub(<<"_INBOX", u, ">">>) \in P
        /\ Rights!Pub(<<"API.INFO">>) \in P
        /\ Rights!Pub(<<"STREAM.NAMES">>) \in P
        /\ Rights!Pub(Rights!ResultsConsumer("*", u)) \in P
        /\ Rights!Pub(<<"CONSUMER.MSG.NEXT", "results", "*">>) \in P
        /\ Rights!Pub(<<"CONSUMER.DELETE", "results", "*">>) \in P
    BY <1>2 DEF Rights!applyPermissions
  <2>2. Rights!Matches(<<"_INBOX", u, ">">>,
                       <<"_INBOX", u, "uuid", "id", "*">>)
    BY DEF Rights!Matches
  <2>3. /\ Rights!Matches(<<"API.INFO">>, <<"API.INFO">>)
        /\ Rights!Matches(<<"STREAM.NAMES">>, <<"STREAM.NAMES">>)
    BY DEF Rights!Matches
  <2>4. Rights!Matches(Rights!ResultsConsumer("*", u),
                       Rights!ResultsConsumer("id", u))
    BY DEF Rights!Matches, Rights!ResultsConsumer
  <2>5. /\ Rights!Matches(<<"CONSUMER.MSG.NEXT", "results", "*">>,
                          <<"CONSUMER.MSG.NEXT", "results", "id">>)
        /\ Rights!Matches(<<"CONSUMER.DELETE", "results", "*">>,
                          <<"CONSUMER.DELETE", "results", "id">>)
    BY DEF Rights!Matches
  <2> HIDE DEF P
  <2>6. /\ Rights!Grants(P, Rights!Sub(<<"_INBOX", u, "uuid", "id", "*">>))
        /\ Rights!Grants(P, Rights!Pub(<<"API.INFO">>))
        /\ Rights!Grants(P, Rights!Pub(<<"STREAM.NAMES">>))
        /\ Rights!Grants(P, Rights!Consume(u))
    BY <2>1, <2>2, <2>3, <2>4, RuleGrants DEF Rights!Consume
  <2>7. Rights!Grants(P, Rights!Fetch) /\ Rights!Grants(P, Rights!Remove)
    BY <2>1, <2>5, RuleGrants DEF Rights!Fetch, Rights!Remove
  <2> QED
    BY <1>2, <2>6, <2>7 DEF Rights!StoreRequests, P
<1> QED BY <1>1, <1>2

(* A rule whose first token is another does not cover a subject. *)
LEMMA FirstTokenTells ==
  ASSUME NEW pattern, NEW subject, Len(pattern) \in Nat \ {0},
         pattern[1] \notin {"*", ">", subject[1]}
  PROVE  ~Rights!Matches(pattern, subject)
BY DEF Rights!Matches

(* The credentials of a team grant nothing that names another team. *)
LEMMA OthersAreRefused ==
  ASSUME Rights!CredentialsAssumption, NEW t \in TeamNumbers,
         NEW n \in TeamNumbers \ {t}
  PROVE  /\ ~Rights!Grants(Rights!createAgentCredentials(t),
                           Rights!Watch(<<n, "settings">>))
         /\ \A c \in CheckSubjects, x \in {"0", "1"} :
              ~Rights!Grants(Rights!createAgentCredentials(t),
                             Rights!Result(n, c, x))
         /\ ~Rights!Grants(Rights!createAgentCredentials(t),
                           Rights!Inbox(n))
         /\ \A q \in {Rights!Consume(n), Rights!Sub(<<"results", n, ">">>),
                     Rights!Sub(<<"_INBOX", n, "uuid", "id", "*">>)} :
              ~Rights!Grants(Rights!applyPermissions(t), q)
<1>1. /\ t \in STRING /\ n \in STRING /\ n # t
      /\ t \notin {"*", ">", "check", "admin", "observer"}
      /\ n \notin {"*", ">", "check", "admin", "observer"}
  BY DEF Rights!CredentialsAssumption
<1>2. ~Rights!Grants(Rights!createAgentCredentials(t),
                     Rights!Watch(<<n, "settings">>))
  BY <1>1 DEF Rights!Grants, Rights!createAgentCredentials,
    Rights!ConsumerRule, Rights!SettingsKV, Rights!Watch, Rights!Sub,
    Rights!Pub, Rights!Matches
<1>3. ASSUME NEW c \in CheckSubjects, NEW x \in {"0", "1"}
      PROVE  ~Rights!Grants(Rights!createAgentCredentials(t),
                            Rights!Result(n, c, x))
  <2> DEFINE s == <<"results", n>> \o c \o <<x>>
  <2>1. /\ Len(s) = 3 + Len(c) /\ Len(c) \in Nat
        /\ s[1] = "results" /\ s[2] = n
    BY <1>1 DEF Rights!CredentialsAssumption
  <2> HIDE DEF s
  <2>2. ~Rights!Matches(<<"results", t, ">">>, s)
    BY <1>1, <2>1 DEF Rights!Matches
  <2>3. \A p \in Rights!createAgentCredentials(t) :
          \/ p.op = "sub" \/ p = Rights!Pub(<<"results", t, ">">>)
          \/ /\ Len(p.subject) \in Nat \ {0}
             /\ p.subject[1] \notin {"*", ">", "results"}
    <3> DEFINE Elsewhere(r) == Len(r) \in Nat \ {0}
                                 /\ r[1] \notin {"*", ">", "results"}
    <3>1. /\ Elsewhere(Rights!ConsumerRule(t))
          /\ Elsewhere(Rights!SettingsKV("*", <<"check", "*">>))
      BY <1>1 DEF Rights!ConsumerRule, Rights!SettingsKV
    <3>2. /\ Elsewhere(<<"STREAM.INFO", "KV_settings">>)
          /\ Elsewhere(<<"CONSUMER.DELETE", "KV_settings", "*">>)
      OBVIOUS
    <3> HIDE DEF Elsewhere
    <3>3. \A p \in Rights!createAgentCredentials(t) :
            \/ p.op = "sub" \/ p = Rights!Pub(<<"results", t, ">">>)
            \/ Elsewhere(p.subject)
      BY <3>1, <3>2 DEF Rights!createAgentCredentials, Rights!Sub, Rights!Pub
    <3> QED BY <3>3 DEF Elsewhere
  <2>4. \A p \in Rights!createAgentCredentials(t) :
          ~(p.op = "pub" /\ Rights!Matches(p.subject, s))
    BY <2>1, <2>2, <2>3, FirstTokenTells DEF Rights!Pub
  <2> QED
    BY <2>4 DEF Rights!Grants, Rights!Result, Rights!Pub, s
<1>4. ~Rights!Grants(Rights!createAgentCredentials(t), Rights!Inbox(n))
  BY <1>1 DEF Rights!Grants, Rights!createAgentCredentials, Rights!Inbox,
    Rights!Sub, Rights!Pub, Rights!Matches
<1>5. ~Rights!Grants(Rights!applyPermissions(t), Rights!Consume(n))
  <2> DEFINE s == Rights!ResultsConsumer("id", n)
  <2>1. s = <<"CONSUMER.CREATE", "results", "id", "results", n, ">">>
    BY <1>1 DEF Rights!ResultsConsumer
  <2>2. ~Rights!Matches(Rights!ResultsConsumer("*", t), s)
    BY <1>1, <2>1 DEF Rights!Matches, Rights!ResultsConsumer
  <2>3. \A p \in Rights!applyPermissions(t) :
          \/ p.op = "sub" \/ p = Rights!Pub(Rights!ResultsConsumer("*", t))
          \/ /\ Len(p.subject) \in Nat \ {0}
             /\ p.subject[1] \notin {"*", ">", "CONSUMER.CREATE"}
    BY <1>1 DEF Rights!applyPermissions, Rights!Sub, Rights!Pub
  <2>4. s[1] = "CONSUMER.CREATE"
    BY <2>1
  <2> HIDE DEF s
  <2>5. \A p \in Rights!applyPermissions(t) :
          ~(p.op = "pub" /\ Rights!Matches(p.subject, s))
    BY <2>2, <2>3, <2>4, FirstTokenTells DEF Rights!Pub
  <2> QED
    BY <2>5 DEF Rights!Grants, Rights!Consume, Rights!Pub, s
<1>6. ASSUME NEW s \in {<<"results", n, ">">>,
                       <<"_INBOX", n, "uuid", "id", "*">>}
      PROVE  ~Rights!Grants(Rights!applyPermissions(t), Rights!Sub(s))
  <2>1. /\ ~Rights!Matches(<<"results", t, ">">>, s)
        /\ ~Rights!Matches(<<"_INBOX", t, ">">>, s)
    BY <1>1 DEF Rights!Matches
  <2>2. \A p \in Rights!applyPermissions(t) :
          \/ p.op = "pub"
          \/ p.subject \in {<<"results", t, ">">>, <<"_INBOX", t, ">">>}
    BY <1>1 DEF Rights!applyPermissions, Rights!teamSubject, Rights!Sub,
      Rights!Pub
  <2>3. \A p \in Rights!applyPermissions(t) :
          ~(p.op = "sub" /\ Rights!Matches(p.subject, s))
    BY <2>1, <2>2
  <2> QED
    BY <2>3 DEF Rights!Grants, Rights!Sub
<1> QED BY <1>2, <1>3, <1>4, <1>5, <1>6

LEMMA RightsInitially ==
  ASSUME Rights!CredentialsAssumption, Rights!Init
  PROVE  RightsInv
<1>1. CASE client \in Rights!Agents
  BY <1>1 DEF Rights!Init, RightsInv, Rights!Agents
<1>2. CASE client \in Rights!Pages
  <2>1. PICK u \in Rights!Users : client.teams = {u}
    BY <1>2 DEF Rights!Pages
  <2>2. client.kind = "page"
    BY <1>2 DEF Rights!Pages
  <2> QED
    BY <1>2, <2>1, <2>2 DEF Rights!Init, RightsInv
<1> QED
  BY <1>1, <1>2 DEF Rights!Init

LEMMA RightsKeep ==
  ASSUME RightsInv, [Rights!Next]_Rights!vars
  PROVE  RightsInv'
<1>1. ASSUME NEW r \in Rights!Requests, Rights!Ask(r) PROVE RightsInv'
  <2>1. /\ client' = client /\ token' = token /\ request' = r
        /\ accepted' = Rights!Grants(Rights!Permissions, r)
    BY <1>1 DEF Rights!Ask
  <2>2. Rights!Requests' = Rights!Requests
        /\ Rights!Permissions' = Rights!Permissions
    BY <2>1 DEF Rights!Requests, Rights!Permissions
  <2>3. accepted' = Rights!Grants(Rights!Permissions, request)'
    BY <2>1, <2>2 DEF Rights!Grants, Rights!Matches
  <2> QED
    BY <2>1, <2>2, <2>3 DEF RightsInv
<1>2. CASE UNCHANGED Rights!vars
  BY <1>2 DEF Rights!vars, RightsInv, Rights!Requests, Rights!Permissions,
    Rights!Grants, Rights!Matches
<1> QED
  BY <1>1, <1>2 DEF Rights!Next

LEMMA NothingIsRefused ==
  ASSUME Rights!CredentialsAssumption, RightsInv
  PROVE  Rights!NothingNeededIsRefused
<1> SUFFICES ASSUME client.kind = "page" \/ token = "*"
                      \/ client.teams = {token},
                    request \in Rights!Requests
             PROVE  Rights!Grants(Rights!Permissions, request)
  BY DEF RightsInv, Rights!NothingNeededIsRefused
<1>1. CASE client.kind = "page"
  <2>1. Rights!Requests = Rights!StoreRequests(token)
    BY <1>1 DEF RightsInv, Rights!Requests
  <2>2. Rights!Permissions = Rights!applyPermissions(token)
    BY <1>1 DEF Rights!Permissions
  <2> QED
    BY <1>1, <2>1, <2>2, PageIsGranted DEF RightsInv
<1>2. CASE client \in Rights!Agents
  <2>1. client.kind = "agent" /\ client.teams \in SUBSET TeamNumbers
    BY <1>2 DEF Rights!Agents
  <2>2. /\ Rights!Requests = Rights!AgentRequests(client.teams)
        /\ Rights!Permissions = Rights!createAgentCredentials(token)
    BY <2>1 DEF Rights!Requests, Rights!Permissions
  <2>3. CASE token = "*"
    BY <2>1, <2>2, <2>3, StandaloneIsGranted
  <2>4. CASE token # "*"
    <3>1. token \in TeamNumbers /\ client.teams = {token}
      BY <2>1, <2>4 DEF RightsInv
    <3> QED
      BY <2>2, <3>1, OwnTeamIsGranted
  <2> QED BY <2>3, <2>4
<1>3. CASE client \in Rights!Pages
  BY <1>1, <1>3 DEF Rights!Pages
<1> QED
  BY <1>2, <1>3 DEF RightsInv

(* What an agent with the token of one team gets of another team's. *)
LEMMA AgentGetsOfOthers ==
  ASSUME Rights!CredentialsAssumption, NEW t \in TeamNumbers,
         NEW n \in TeamNumbers \ {t}
  PROVE  {r \in Rights!AgentRequests({n}) :
            Rights!Grants(Rights!createAgentCredentials(t), r)}
           = {Rights!BucketInfo, Rights!Triggers,
              Rights!Watch(<<"check", "*">>), Rights!Unwatch}
<1> DEFINE G(x) == Rights!Grants(Rights!createAgentCredentials(t), x)
           shared == {Rights!BucketInfo, Rights!Triggers,
                      Rights!Watch(<<"check", "*">>), Rights!Unwatch}
<1>1. ASSUME NEW r \in shared
      PROVE  r \in Rights!AgentRequests({n}) /\ G(r)
  <2>1. \A m : r \in Rights!AgentRequests({m})
    BY DEF Rights!AgentRequests, Rights!watchList
  <2> QED
    BY <2>1, OwnTeamIsGranted
<1>2. ASSUME NEW r \in Rights!AgentRequests({n}), G(r)
      PROVE  r \in shared
  <2>1. Rights!inboxPrefix({n}) = n
    BY DEF Rights!inboxPrefix
  <2>2. \/ r \in shared \/ r = Rights!Inbox(n)
        \/ r = Rights!Watch(<<n, "settings">>)
        \/ \E c \in CheckSubjects, x \in {"0", "1"} : r = Rights!Result(n, c, x)
    BY <2>1 DEF Rights!AgentRequests, Rights!watchList
  <2> HIDE DEF shared
  <2> QED
    BY <1>2, <2>2, OthersAreRefused
<1> HIDE DEF G, shared
<1>3. {r \in Rights!AgentRequests({n}) : G(r)} = shared
  BY <1>1, <1>2
<1> QED
  BY <1>3 DEF G, shared

(* And what a page of one team does. *)
LEMMA PageGetsOfOthers ==
  ASSUME Rights!CredentialsAssumption, NEW t \in TeamNumbers,
         NEW n \in TeamNumbers \ {t}
  PROVE  {r \in Rights!StoreRequests(n)
                  \cup {Rights!Sub(Rights!teamSubject(n)), Rights!Acknowledge} :
            Rights!Grants(Rights!applyPermissions(t), r)}
           = {Rights!Pub(<<"API.INFO">>), Rights!Pub(<<"STREAM.NAMES">>),
              Rights!Fetch, Rights!Remove, Rights!Acknowledge}
<1> DEFINE G(x) == Rights!Grants(Rights!applyPermissions(t), x)
           all == Rights!StoreRequests(n)
                    \cup {Rights!Sub(Rights!teamSubject(n)), Rights!Acknowledge}
           shared == {Rights!Pub(<<"API.INFO">>), Rights!Pub(<<"STREAM.NAMES">>),
                      Rights!Fetch, Rights!Remove}
<1>1. t \notin {"admin", "observer"} /\ n \notin {"admin", "observer"}
  BY DEF Rights!CredentialsAssumption
<1>2. shared \subseteq all /\ \A r \in shared : G(r)
  <2>1. \A m : shared \subseteq Rights!StoreRequests(m)
    BY DEF Rights!StoreRequests
  <2> HIDE DEF shared
  <2> QED
    BY <2>1, PageIsGranted DEF Rights!Users
<1>3. Rights!Acknowledge \in all /\ G(Rights!Acknowledge)
  <2>1. Rights!Pub(<<"ACK", "results", ">">>) \in Rights!applyPermissions(t)
    BY <1>1 DEF Rights!applyPermissions
  <2>2. Rights!Matches(<<"ACK", "results", ">">>,
                       <<"ACK", "results", "id", "1">>)
    BY DEF Rights!Matches
  <2> QED
    BY <2>1, <2>2, RuleGrants DEF Rights!Acknowledge
<1>4. ASSUME NEW r \in all, G(r)
      PROVE  r \in shared \cup {Rights!Acknowledge}
  <2>1. \/ r \in shared \cup {Rights!Acknowledge}
        \/ r \in {Rights!Consume(n), Rights!Sub(<<"results", n, ">">>),
                  Rights!Sub(<<"_INBOX", n, "uuid", "id", "*">>)}
    BY <1>1 DEF Rights!StoreRequests, Rights!teamSubject
  <2> HIDE DEF shared
  <2> QED
    BY <1>4, <2>1, OthersAreRefused
<1> HIDE DEF G, all, shared
<1>5. {r \in all : G(r)} = shared \cup {Rights!Acknowledge}
  BY <1>2, <1>3, <1>4
<1> QED
  BY <1>5 DEF G, all, shared

LEMMA OthersAreByConsumer ==
  ASSUME Rights!CredentialsAssumption, RightsInv
  PROVE  Rights!OthersOnlyByConsumer
<1>1. CASE client.kind = "agent"
  BY <1>1, AgentGetsOfOthers
  DEF Rights!OthersOnlyByConsumer, Rights!Permissions
<1>2. CASE client.kind = "page"
  BY <1>2, PageGetsOfOthers
  DEF Rights!OthersOnlyByConsumer, Rights!Permissions
<1> QED
  BY <1>1, <1>2 DEF RightsInv, Rights!Agents, Rights!Pages

(* Whatever teams and checks there are: a token made for its holder is     *)
(* enough for all the holder asks, and a team's permits, of what another   *)
(* team's agent or page asks, exactly what names no team: what all share,  *)
(* and what acts on a consumer by its name.                                *)
THEOREM RightsAlwaysFit == Spec => []RightsFit
<1>1. Init => (part = "rights" => RightsInv)
  BY CommandsAssumption, RightsInitially DEF Init, CommandsAssumption
<1>2. (part = "rights" => RightsInv) /\ [Next]_vars
        => (part = "rights" => RightsInv)'
  <2> SUFFICES ASSUME part = "rights" => RightsInv, [Next]_vars,
                      part' = "rights"
               PROVE  RightsInv'
    OBVIOUS
  <2>1. part = "rights" /\ [Rights!Next]_Rights!vars
    BY DEF Next, BucketStep, UsersStep, QueryStep, RightsStep, vars,
      rightsVars, Rights!vars
  <2> QED
    BY <2>1, RightsKeep
<1>3. (part = "rights" => RightsInv) => RightsFit
  BY CommandsAssumption, NothingIsRefused, OthersAreByConsumer
  DEF CommandsAssumption, RightsFit
<1> QED
  BY <1>1, <1>2, <1>3, PTL DEF Spec
-----------------------------------------------------------------------------
(* The score query.  A sum is the number of its units, so what adds up does *)
(* so because sets of units are disjoint.                                  *)

LEMMA CountIs ==
  ASSUME NEW S
  PROVE  Query!Cardinality(S) = Cardinality(S)
BY DEF Query!Cardinality, Cardinality, Query!IsFiniteSet, IsFiniteSet

LEMMA IntervalIsFinite ==
  ASSUME NEW n \in Nat
  PROVE  IsFiniteSet(1..n)
<1>1. n \in Int /\ 1 \in Int
  OBVIOUS
<1> QED
  BY ONLY <1>1, FS_Interval

LEMMA UnitIs ==
  ASSUME NEW f, NEW u
  PROVE  u \in Query!Units(f)
           <=> \E x \in DOMAIN f : \E i \in 1..f[x] : u = <<x, i>>
BY DEF Query!Units

(* If a finite set falls into disjoint parts, their sizes sum up to its:   *)
(* each part is numbered, and an element corresponds to its number in its  *)
(* part.                                                                   *)
LEMMA PartsAddUp ==
  ASSUME NEW U, IsFiniteSet(U), NEW C, NEW pieces, DOMAIN pieces = C,
         U = UNION {pieces[c] : c \in C},
         \A c, d \in C : c # d => pieces[c] \cap pieces[d] = {},
         NEW f, DOMAIN f = C, \A c \in C : f[c] = Cardinality(pieces[c])
  PROVE  Query!Total(f) = Cardinality(U)
<1>1. \A c \in C : \E b : b \in Bijection(pieces[c], 1..f[c])
  <2> SUFFICES ASSUME NEW c \in C
               PROVE  Bijection(pieces[c], 1..f[c]) # {}
    OBVIOUS
  <2>1. pieces[c] \in SUBSET U
    OBVIOUS
  <2>2. IsFiniteSet(pieces[c])
    BY <2>1, FS_Subset
  <2>3. ExistsBijection(1..f[c], pieces[c])
    BY <2>2, FS_CardinalityType
  <2> QED
    BY <2>3, Fun_ExistsBijSymmetric, Fun_ExistsBij
<1> DEFINE b == [c \in C |-> CHOOSE g : g \in Bijection(pieces[c], 1..f[c])]
<1>2. \A c \in C : b[c] \in Bijection(pieces[c], 1..f[c])
  BY <1>1
<1> HIDE DEF b
<1>3. \A c \in C : /\ b[c] \in [pieces[c] -> 1..f[c]]
                   /\ \A x, y \in pieces[c] : b[c][x] = b[c][y] => x = y
                   /\ \A i \in 1..f[c] : \E x \in pieces[c] : b[c][x] = i
  <2> TAKE c \in C
  <2> HIDE DEF b
  <2> DEFINE g == b[c]
             T == 1..f[c]
  <2>1. g \in Bijection(pieces[c], T)
    BY <1>2
  <2> HIDE DEF g, T
  <2>2. /\ g \in [pieces[c] -> T]
        /\ \A x, y \in pieces[c] : g[x] = g[y] => x = y
        /\ \A i \in T : \E x \in pieces[c] : g[x] = i
    BY <2>1, Fun_BijectionProperties
  <2> QED
    BY <2>2 DEF g, T
<1> DEFINE home == [x \in U |-> CHOOSE c \in C : x \in pieces[c]]
<1>4. \A x \in U : home[x] \in C /\ x \in pieces[home[x]]
  OBVIOUS
<1>5. \A c \in C : \A x \in pieces[c] : x \in U /\ home[x] = c
  BY <1>4
<1> HIDE DEF home
<1> DEFINE h == [x \in U |-> <<home[x], b[home[x]][x]>>]
<1>6. h \in [U -> Query!Units(f)]
  <2> SUFFICES ASSUME NEW x \in U
               PROVE  h[x] \in Query!Units(f)
    OBVIOUS
  <2>1. b[home[x]][x] \in 1..f[home[x]]
    BY <1>3, <1>4
  <2> QED
    BY <1>4, <2>1, UnitIs
<1>7. \A x, y \in U : h[x] = h[y] => x = y
  BY <1>3, <1>4
<1>8. \A u \in Query!Units(f) : \E x \in U : h[x] = u
  <2> SUFFICES ASSUME NEW u \in Query!Units(f)
               PROVE  \E x \in U : h[x] = u
    OBVIOUS
  <2>1. PICK c \in C : \E i \in 1..f[c] : u = <<c, i>>
    BY UnitIs
  <2>4. PICK i \in 1..f[c] : u = <<c, i>>
    BY <2>1
  <2>2. PICK x \in pieces[c] : b[c][x] = i
    BY <1>3
  <2>3. x \in U /\ h[x] = <<c, i>>
    BY <1>5, <2>2
  <2> QED
    BY <2>4, <2>3
<1> HIDE DEF h
<1>9. h \in Bijection(U, Query!Units(f))
  BY <1>6, <1>7, <1>8 DEF Bijection, Injection, Surjection, IsInjective
<1>10. ExistsBijection(U, Query!Units(f))
  BY <1>9, Fun_ExistsBij
<1>11. Cardinality(Query!Units(f)) = Cardinality(U)
  BY <1>10, FS_Bijection
<1> QED
  BY <1>11, CountIs DEF Query!Total

(* Whole seconds keep the order of instants, and a whole second is in it   *)
(* where it was.                                                           *)
LEMMA SecondsInOrder ==
  ASSUME NEW p \in Nat \ {0}, NEW u \in Nat, NEW t \in Nat
  PROVE  /\ t \div p \in Nat
         /\ u <= t => u \div p <= t \div p
         /\ u % p = 0 => (u <= t <=> u \div p <= t \div p)
<1> DEFINE a == u \div p
           b == t \div p
<1>1. /\ a \in Nat /\ b \in Nat
      /\ u = p * a + (u % p) /\ t = p * b + (t % p)
      /\ u % p \in 0..(p - 1) /\ t % p \in 0..(p - 1)
  OBVIOUS
<1> HIDE DEF a, b
<1>2. ASSUME NEW m \in Nat, NEW n \in Nat, m < n
      PROVE  p * m + p <= p * n
  <2>1. p * n = p * m + p * (n - m)
    BY <1>2
  <2>2. n - m \in Nat \ {0}
    BY <1>2
  <2>3. PICK d \in Nat : n - m = d + 1
    BY <2>2
  <2>4. p * (n - m) = p * d + p /\ p * d \in Nat
    BY <2>3
  <2> QED
    BY <2>1, <2>4
<1>3. u <= t => a <= b
  <2> SUFFICES ASSUME b < a
               PROVE  t < u
    BY <1>1
  <2>1. p * b + p <= p * a
    BY <1>1, <1>2
  <2>2. p * a \in Nat /\ p * b \in Nat
    BY <1>1
  <2> QED
    BY <1>1, <2>1, <2>2
<1>4. u % p = 0 /\ a <= b => u <= t
  <2> SUFFICES ASSUME u % p = 0, a <= b
               PROVE  u <= t
    OBVIOUS
  <2>1. p * a <= p * b
    BY <1>1, <1>2
  <2>2. p * a \in Nat /\ p * b \in Nat
    BY <1>1
  <2> QED
    BY <1>1, <2>1, <2>2
<1> QED
  BY <1>1, <1>3, <1>4 DEF a, b

(* The sum over rows of the table is a number.                             *)
LEMMA SumIs ==
  ASSUME Query!QueryAssumption, Query!TypeOK,
         NEW rows \in SUBSET Query!Recordable
  PROVE  LET f == [s \in rows |-> Points[stream[s]]] IN
         /\ IsFiniteSet(Query!Units(f))
         /\ Query!Sum(rows) = Cardinality(Query!Units(f))
         /\ Query!Sum(rows) \in Nat
<1> DEFINE f == [s \in rows |-> Points[stream[s]]]
<1>1. rows \subseteq 1..Len(stream) /\ Len(stream) \in Nat
  BY DEF Query!Recordable, Query!TypeOK
<1>2. IsFiniteSet(rows)
  BY <1>1, IntervalIsFinite, FS_Subset
<1>3. \A s \in rows : f[s] \in 0..255
  BY DEF Query!QueryAssumption, Query!Recordable
<1>4. IsFiniteSet(1..255)
  <2> DEFINE most == 255
  <2>1. most \in Nat
    OBVIOUS
  <2> HIDE DEF most
  <2>2. IsFiniteSet(1..most)
    BY <2>1, IntervalIsFinite
  <2> QED
    BY <2>2 DEF most
<1>5. IsFiniteSet(rows \X (1..255))
  BY <1>2, <1>4, FS_Product
<1>6. Query!Units(f) \subseteq rows \X (1..255)
  BY <1>3, UnitIs, SMTT(60)
<1>7. IsFiniteSet(Query!Units(f))
  BY <1>5, <1>6, FS_Subset
<1>8. Query!Sum(rows) = Cardinality(Query!Units(f))
  BY CountIs DEF Query!Sum, Query!Total
<1> QED
  BY <1>7, <1>8, FS_CardinalityType

LEMMA SumSplits ==
  ASSUME Query!QueryAssumption, Query!TypeOK,
         NEW A \in SUBSET Query!Recordable, NEW B \in SUBSET Query!Recordable,
         A \cap B = {}
  PROVE  Query!Sum(A \cup B) = Query!Sum(A) + Query!Sum(B)
<1> DEFINE F(rows) == [s \in rows |-> Points[stream[s]]]
           U(rows) == Query!Units(F(rows))
<1>1. \A rows, u : u \in U(rows) <=>
        \E s \in rows : \E i \in 1..Points[stream[s]] : u = <<s, i>>
  BY UnitIs
<1>2. \A rows \in SUBSET Query!Recordable :
        IsFiniteSet(U(rows)) /\ Query!Sum(rows) = Cardinality(U(rows))
  BY SumIs
<1> HIDE DEF U
<1>3. U(A \cup B) = U(A) \cup U(B) /\ U(A) \cap U(B) = {}
  BY <1>1
<1>4. Cardinality(U(A) \cup U(B))
        = Cardinality(U(A)) + Cardinality(U(B)) - Cardinality({})
  BY <1>2, <1>3, FS_Union
<1>5. Cardinality({}) = 0
  BY FS_EmptySet
<1>6. Cardinality(U(A)) \in Nat /\ Cardinality(U(B)) \in Nat
  BY <1>2, FS_CardinalityType
<1>7. /\ Query!Sum(A) = Cardinality(U(A)) /\ Query!Sum(B) = Cardinality(U(B))
      /\ Query!Sum(A \cup B) = Cardinality(U(A \cup B))
  BY <1>2
<1> HIDE DEF U
<1>8. Cardinality(U(A \cup B)) = Cardinality(U(A)) + Cardinality(U(B)) - 0
  BY <1>3, <1>4, <1>5
<1>9. Cardinality(U(A \cup B)) = Cardinality(U(A)) + Cardinality(U(B))
  BY <1>6, <1>8
<1> QED
  BY <1>7, <1>9

(* Rows summed check by check.                                             *)
LEMMA SumByChecks ==
  ASSUME Query!QueryAssumption, Query!TypeOK,
         NEW rows \in SUBSET Query!Recordable,
         NEW f, DOMAIN f = CheckNames,
         \A c \in CheckNames :
           f[c] = Query!Sum({s \in rows : CheckOf[stream[s]] = c})
  PROVE  Query!Total(f) = Query!Sum(rows)
<1> DEFINE Of(c) == {s \in rows : CheckOf[stream[s]] = c}
           U(A) == Query!Units([s \in A |-> Points[stream[s]]])
           P == [c \in CheckNames |-> U(Of(c))]
<1>1. \A A, u : u \in U(A) <=>
        \E s \in A : \E i \in 1..Points[stream[s]] : u = <<s, i>>
  BY UnitIs
<1>2. \A A \in SUBSET Query!Recordable :
        IsFiniteSet(U(A)) /\ Query!Sum(A) = Cardinality(U(A))
  BY SumIs
<1> HIDE DEF U
<1>3. \A s \in rows : CheckOf[stream[s]] \in CheckNames
  BY DEF Query!QueryAssumption, Query!Recordable
<1>4. U(rows) = UNION {P[c] : c \in CheckNames}
  <2>1. \A u \in U(rows) : \E c \in CheckNames : u \in P[c]
    BY <1>1, <1>3
  <2>2. \A c \in CheckNames : \A u \in P[c] : u \in U(rows)
    BY <1>1
  <2> HIDE DEF P
  <2>3. \A u : u \in UNION {P[c] : c \in CheckNames}
                <=> \E c \in CheckNames : u \in P[c]
    OBVIOUS
  <2>4. \A u : u \in U(rows) <=> u \in UNION {P[c] : c \in CheckNames}
    BY <2>1, <2>2, <2>3
  <2> QED
    BY <2>4
<1>5. \A c, d \in CheckNames : c # d => P[c] \cap P[d] = {}
  <2> SUFFICES ASSUME NEW c \in CheckNames, NEW d \in CheckNames,
                      NEW u \in P[c], u \in P[d]
               PROVE  c = d
    OBVIOUS
  <2>1. PICK s \in Of(c) : u[1] = s
    BY <1>1
  <2>2. PICK o \in Of(d) : u[1] = o
    BY <1>1
  <2> QED
    BY <2>1, <2>2
<1>6. \A c \in CheckNames : f[c] = Cardinality(P[c])
  BY <1>2
<1>7. IsFiniteSet(U(rows)) /\ DOMAIN P = CheckNames
  BY <1>2
<1> HIDE DEF P
<1>8. Query!Total(f) = Cardinality(U(rows))
  BY <1>4, <1>5, <1>6, <1>7, PartsAddUp
<1> QED
  BY <1>2, <1>8

(* A line of the answer is the sum of the team's rows that are selected;   *)
(* a team without a line has none.                                         *)
LEMMA ScoreIs ==
  ASSUME Query!QueryAssumption, Query!TypeOK, NEW team, NEW q
  PROVE  /\ Query!RowsOf(team, Query!Selected(q)) \in SUBSET Query!Recordable
         /\ Query!Score(team, q)
              = Query!Sum(Query!RowsOf(team, Query!Selected(q)))
<1> DEFINE rows == Query!RowsOf(team, Query!Selected(q))
<1>1. rows \in SUBSET Query!Recordable
  BY DEF Query!RowsOf, Query!Selected, Query!TypeOK
<1>2. CASE rows = {}
  <2>1. team \notin DOMAIN Query!TeamScores(q)
    BY <1>2 DEF Query!TeamScores, Query!RowsOf
  <2>2. {} \in SUBSET Query!Recordable /\ {} \cap {} = {} /\ {} \cup {} = {}
    OBVIOUS
  <2> DEFINE none == Query!Sum({})
  <2>3. none = none + none /\ none \in Nat
    BY <2>2, SumSplits, SumIs
  <2> HIDE DEF none
  <2>4. none = 0
    BY <2>3
  <2> QED
    BY <1>1, <1>2, <2>1, <2>4 DEF Query!Score, none
<1>3. CASE rows # {}
  <2>1. team \in {TeamOf[stream[s]] : s \in Query!Selected(q)}
    BY <1>3 DEF Query!RowsOf
  <2>2. /\ team \in DOMAIN Query!TeamScores(q)
        /\ Query!TeamScores(q)[team] = Query!Sum(rows)
    BY <2>1 DEF Query!TeamScores
  <2> QED
    BY <1>1, <2>2 DEF Query!Score
<1> QED
  BY <1>2, <1>3

LEMMA RangesMeet ==
  ASSUME Query!QueryAssumption, Query!TypeOK
  PROVE  Query!RangesAddUp
<1> SUFFICES ASSUME NEW t1 \in Query!Instant, NEW t2 \in Query!Instant,
                    NEW t3 \in Query!Instant, t1 <= t2, t2 <= t3,
                    NEW team \in TeamNames, NEW check \in CheckNames \cup {None}
             PROVE  Query!Score(team, Query!Query(t1, t2, None, check))
                      + Query!Score(team, Query!Query(t2, t3, None, check))
                    = Query!Score(team, Query!Query(t1, t3, None, check))
  BY DEF Query!RangesAddUp
<1> DEFINE Rows(u, v) ==
      Query!RowsOf(team, Query!Selected(Query!Query(u, v, None, check)))
<1>1. /\ PerSecond \in Nat \ {0} /\ MaxInstant \in Nat
      /\ t1 \in Nat /\ t2 \in Nat /\ t3 \in Nat
  BY DEF Query!QueryAssumption, Query!Instant
<1>2. /\ Query!Second(t1) \in Nat /\ Query!Second(t2) \in Nat
      /\ Query!Second(t3) \in Nat
      /\ Query!Second(t1) <= Query!Second(t2)
      /\ Query!Second(t2) <= Query!Second(t3)
  BY <1>1, SecondsInOrder DEF Query!Second
<1>3. \A s \in recorded : Query!Second(time[s]) \in Nat
  <2> TAKE s \in recorded
  <2>1. time[s] \in Nat
    BY <1>1, ElementOfSeq
    DEF Query!TypeOK, Query!Recordable, Query!Instant
  <2> QED
    BY <1>1, <2>1, SecondsInOrder DEF Query!Second
<1>4. \A u, v : \A s : s \in Rows(u, v) <=>
        /\ s \in recorded
        /\ Query!Second(u) <= Query!Second(time[s])
        /\ Query!Second(time[s]) < Query!Second(v)
        /\ check \in {None, CheckOf[stream[s]]}
        /\ TeamOf[stream[s]] = team
  BY DEF Query!RowsOf, Query!Selected, Query!InRange, Query!filterClause,
    Query!Query
<1>5. \A u, v : /\ Rows(u, v) \in SUBSET Query!Recordable
                /\ Query!Score(team, Query!Query(u, v, None, check))
                     = Query!Sum(Rows(u, v))
  BY ScoreIs
<1> HIDE DEF Rows
<1>6. /\ Rows(t1, t2) \cup Rows(t2, t3) = Rows(t1, t3)
      /\ Rows(t1, t2) \cap Rows(t2, t3) = {}
  BY <1>2, <1>3, <1>4
<1>7. Query!Sum(Rows(t1, t3))
        = Query!Sum(Rows(t1, t2)) + Query!Sum(Rows(t2, t3))
  BY <1>5, <1>6, SumSplits
<1> QED
  BY <1>5, <1>7

LEMMA FiltersOnlyFilter ==
  ASSUME Query!QueryAssumption, Query!TypeOK
  PROVE  Query!FiltersProject
<1> SUFFICES ASSUME NEW t1 \in Query!Instant, NEW t2 \in Query!Instant,
                    NEW team \in TeamNames
             PROVE
      /\ Query!Score(team, Query!Query(t1, t2, team, None))
           = Query!Score(team, Query!Query(t1, t2, None, None))
      /\ Query!Total([c \in CheckNames |->
                        Query!Score(team, Query!Query(t1, t2, team, c))])
           = Query!Score(team, Query!Query(t1, t2, None, None))
  BY DEF Query!FiltersProject
<1> DEFINE Rows(t, c) ==
      Query!RowsOf(team, Query!Selected(Query!Query(t1, t2, t, c)))
    all == Rows(None, None)
    f == [c \in CheckNames |->
            Query!Score(team, Query!Query(t1, t2, team, c))]
<1>1. None \notin CheckNames /\ None \notin TeamNames
  BY DEF Query!QueryAssumption
<1>2. \A t, c : /\ Rows(t, c) \in SUBSET Query!Recordable
                /\ Query!Score(team, Query!Query(t1, t2, t, c))
                     = Query!Sum(Rows(t, c))
  BY ScoreIs
<1>3. Rows(team, None) = all
  BY DEF Query!RowsOf, Query!Selected, Query!InRange, Query!filterClause,
    Query!Query
<1>4. \A c \in CheckNames :
        Rows(team, c) = {s \in all : CheckOf[stream[s]] = c}
  BY <1>1 DEF Query!RowsOf, Query!Selected, Query!InRange,
    Query!filterClause, Query!Query
<1> HIDE DEF Rows
<1>5. \A c \in CheckNames :
        f[c] = Query!Sum({s \in all : CheckOf[stream[s]] = c})
  BY <1>2, <1>4
<1>6. DOMAIN f = CheckNames /\ all \in SUBSET Query!Recordable
  BY <1>2
<1> HIDE DEF f, all
<1>7. Query!Total(f) = Query!Sum(all)
  BY <1>5, <1>6, SumByChecks
<1> QED
  BY <1>2, <1>3, <1>7 DEF f, all

LEMMA WholeSecondsAreExact ==
  ASSUME Query!QueryAssumption, Query!TypeOK
  PROVE  Query!CaughtUpIsExact
<1> SUFFICES ASSUME recorded = Query!Recordable,
                    NEW t1 \in Query!Instant, t1 % PerSecond = 0,
                    NEW t2 \in Query!Instant, t2 % PerSecond = 0,
                    NEW team \in TeamNames
             PROVE  Query!Score(team, Query!Query(t1, t2, None, None)) =
                      Query!Sum({s \in Query!Recordable :
                                   /\ TeamOf[stream[s]] = team
                                   /\ time[s] \in t1..(t2 - 1)})
  BY DEF Query!CaughtUpIsExact
<1> DEFINE rows ==
      Query!RowsOf(team, Query!Selected(Query!Query(t1, t2, None, None)))
<1>1. /\ PerSecond \in Nat \ {0} /\ MaxInstant \in Nat
      /\ t1 \in Nat /\ t2 \in Nat
  BY DEF Query!QueryAssumption, Query!Instant
<1>2. ASSUME NEW s \in Query!Recordable
      PROVE  /\ Query!Second(t1) <= Query!Second(time[s])
             /\ Query!Second(time[s]) < Query!Second(t2)
             <=> time[s] \in t1..(t2 - 1)
  <2>1. time[s] \in Nat
    BY <1>1, ElementOfSeq
    DEF Query!TypeOK, Query!Recordable, Query!Instant
  <2>2. /\ Query!Second(time[s]) \in Nat /\ Query!Second(t2) \in Nat
        /\ t1 <= time[s] <=> Query!Second(t1) <= Query!Second(time[s])
        /\ t2 <= time[s] <=> Query!Second(t2) <= Query!Second(time[s])
    BY <1>1, <2>1, SecondsInOrder DEF Query!Second
  <2> QED
    BY <1>1, <2>1, <2>2
<1>3. rows = {s \in Query!Recordable : /\ TeamOf[stream[s]] = team
                                       /\ time[s] \in t1..(t2 - 1)}
  BY <1>2 DEF Query!RowsOf, Query!Selected, Query!InRange,
    Query!filterClause, Query!Query
<1>4. Query!Score(team, Query!Query(t1, t2, None, None)) = Query!Sum(rows)
  BY ScoreIs
<1> QED
  BY <1>3, <1>4

LEMMA QueryInitially ==
  ASSUME Query!QueryAssumption, Query!Init
  PROVE  Query!TypeOK
<1>1. /\ stream = <<>> /\ time = <<>> /\ recorded = {} /\ now = 0
      /\ answer = << >>
  BY DEF Query!Init, Query!LedgerInit
<1>2. now \in Query!Instant
  BY <1>1 DEF Query!Instant, Query!QueryAssumption
<1> QED
  BY <1>1, <1>2 DEF Query!TypeOK

(* A result that is published has a timestamp, and the rows stay those of  *)
(* results that could be parsed.                                           *)
LEMMA PublishTypes ==
  ASSUME Query!QueryAssumption, Query!TypeOK, Query!PublishResult
  PROVE  Query!TypeOK'
<1>1. PICK m \in Messages : stream' = Append(stream, m)
  BY DEF Query!PublishResult, Query!Publish
<1>2. PICK t \in Query!Instant : time' = Append(time, t)
  BY DEF Query!PublishResult
<1>3. UNCHANGED <<recorded, now, answer>>
  BY DEF Query!PublishResult, Query!Publish
<1>4. /\ stream' \in Seq(Messages) /\ Len(stream') = Len(stream) + 1
      /\ \A s \in 1..Len(stream) : stream'[s] = stream[s]
  BY <1>1, AppendProperties DEF Query!TypeOK
<1>5. time' \in Seq(Query!Instant) /\ Len(time') = Len(time) + 1
  BY <1>2, AppendProperties DEF Query!TypeOK
<1>6. Query!Recordable \subseteq Query!Recordable'
  <2>1. Len(stream) \in Nat
    BY DEF Query!TypeOK
  <2> QED
    BY <1>4, <2>1 DEF Query!Recordable
<1> QED
  BY <1>3, <1>4, <1>5, <1>6 DEF Query!TypeOK, Query!Instant

LEMMA ListTypes ==
  ASSUME Query!QueryAssumption, Query!TypeOK, NEW f \in Query!Flags,
         Query!List(f)
  PROVE  Query!TypeOK'
<1> DEFINE q == Query!buildScoreQuery(f)
<1>1. /\ answer' = Query!TeamScores(q)
      /\ UNCHANGED <<stream, recorded, time, now>>
  BY DEF Query!List, Query!ledgerVars
<1>2. DOMAIN answer' \subseteq TeamNames
  BY <1>1 DEF Query!TeamScores, Query!Selected, Query!TypeOK,
    Query!Recordable, Query!QueryAssumption
<1>3. \A t \in DOMAIN answer' : answer'[t] \in Nat
  <2> TAKE t \in DOMAIN answer'
  <2>1. answer'[t] = Query!Sum(Query!RowsOf(t, Query!Selected(q)))
    BY <1>1 DEF Query!TeamScores
  <2>2. Query!RowsOf(t, Query!Selected(q)) \in SUBSET Query!Recordable
    BY ScoreIs
  <2> QED
    BY <2>1, <2>2, SumIs
<1> QED
  BY <1>1, <1>2, <1>3 DEF Query!TypeOK, Query!Recordable, Query!Instant

LEMMA QueryKeeps ==
  ASSUME Query!QueryAssumption, Query!TypeOK, [Query!Next]_Query!vars
  PROVE  Query!TypeOK'
<1>1. CASE Query!Tick
  <2>1. /\ now' = now + 1 /\ now < MaxInstant
        /\ UNCHANGED <<stream, recorded, time, answer>>
    BY <1>1 DEF Query!Tick, Query!ledgerVars
  <2>2. now' \in Query!Instant
    BY <2>1 DEF Query!TypeOK, Query!Instant, Query!QueryAssumption
  <2> QED
    BY <2>1, <2>2 DEF Query!TypeOK, Query!Recordable, Query!Instant
<1>2. CASE Query!InsertBatch
  <2>1. /\ \E S \in SUBSET (Query!Recordable \ recorded) :
             recorded' = recorded \cup S
        /\ UNCHANGED <<stream, time, now, answer>>
    BY <1>2 DEF Query!InsertBatch, Query!Record, Query!queryVars
  <2>2. recorded' \subseteq Query!Recordable'
    BY <2>1 DEF Query!TypeOK, Query!Recordable
  <2> QED
    BY <2>1, <2>2 DEF Query!TypeOK, Query!Instant
<1>3. CASE UNCHANGED Query!vars
  BY <1>3 DEF Query!vars, Query!ledgerVars, Query!queryVars, Query!TypeOK,
    Query!Recordable, Query!Instant
<1> QED
  BY <1>1, <1>2, <1>3, PublishTypes, ListTypes DEF Query!Next

(* Whatever is published, with whatever timestamps and in whatever order   *)
(* it is stored: ranges that meet, and the checks of a team, add up; and   *)
(* with a sink that has caught up, whole seconds are exact.                *)
THEOREM ScoresAreAlwaysExact == Spec => []ScoresAreExact
<1>1. Init => (part = "query" => Query!TypeOK)
  BY CommandsAssumption, QueryInitially DEF Init, CommandsAssumption
<1>2. (part = "query" => Query!TypeOK) /\ [Next]_vars
        => (part = "query" => Query!TypeOK)'
  <2> SUFFICES ASSUME part = "query" => Query!TypeOK, [Next]_vars,
                      part' = "query"
               PROVE  Query!TypeOK'
    OBVIOUS
  <2>1. part = "query" /\ [Query!Next]_Query!vars
    BY DEF Next, BucketStep, UsersStep, QueryStep, RightsStep, vars,
      queryVars, Query!vars, Query!ledgerVars, Query!queryVars
  <2> QED
    BY <2>1, QueryKeeps, CommandsAssumption DEF CommandsAssumption
<1>3. (part = "query" => Query!TypeOK) => ScoresAreExact
  BY CommandsAssumption, RangesMeet, FiltersOnlyFilter, WholeSecondsAreExact
  DEF CommandsAssumption, ScoresAreExact
<1> QED
  BY <1>1, <1>2, <1>3, PTL DEF Spec
=============================================================================
