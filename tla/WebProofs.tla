----------------------------- MODULE WebProofs ------------------------------
(***************************************************************************)
(* What the pages of the web interface guarantee, for any number of teams, *)
(* pages, fields and tabs: of the settings page, that a save changes what  *)
(* was edited and overtakes no other save; of the tabs, that what they     *)
(* show belongs to who is signed in; of the alerts, that falls are         *)
(* announced, each once.                                                   *)
(***************************************************************************)
EXTENDS Web, SequenceFacts

-----------------------------------------------------------------------------
(* The settings page. *)

Written == Saves!Maps(Slots, Texts)
Loaded == [team : Teams \cup {None}, values : Written]
Requests == [id : Nat, page : Pages \cup {None}, team : Teams,
             payload : Written, base : Loaded, edited : SUBSET Slots]

SaveTypes ==
  /\ Saves!TypeOK
  /\ cards \in [Pages -> BOOLEAN] /\ saving \in [Pages -> BOOLEAN]
  /\ DOMAIN values = Pages
  /\ requests \in SUBSET Requests /\ saves \in Nat
  /\ base \in [Pages -> Loaded] /\ edited \in [Pages -> SUBSET Slots]
  /\ handled \in [Pages -> Nat]

(* The numbers of requests are given out in order; and a page that has a   *)
(* request on its way has one, newer than all it knows to be stored, and   *)
(* its button disabled.                                                    *)
SavesQueue ==
  /\ \A p \in Pages : handled[p] <= saves
  /\ \A r \in requests : r.id <= saves
  /\ \A r \in requests :
       r.page # None => saving[r.page] /\ r.id > handled[r.page]
  /\ \A q, r \in requests : q.page # None /\ q.page = r.page => q = r

(* What is not edited on a page is as loaded. *)
PageKeeps(p) ==
  /\ state[p] \in {"closed", "fields", "settings"} => base[p].team = None
  /\ base[p].team # None =>
       \A s \in Slots \ edited[p] :
         Saves!ValueIn(values[p], s) = Saves!ValueIn(base[p].values, s)

SavesInv == /\ SaveTypes /\ SavesQueue /\ \A p \in Pages : PageKeeps(p)
            /\ Saves!SaveKeepsUnedited

LEMMA MapsMember ==
  ASSUME NEW S, NEW T, NEW m
  PROVE  m \in Saves!Maps(S, T)
           <=> DOMAIN m \subseteq S /\ m \in [DOMAIN m -> T]
BY DEF Saves!Maps

LEMMA EmptyMaps ==
  /\ Saves!Nothing \in Written
  /\ Saves!Nothing \in Saves!Maps(Slots, Texts \cup {Blank})
  /\ Saves!Blanks \in Saves!Maps(Slots, Texts \cup {Blank})
<1>1. /\ DOMAIN Saves!Nothing = {}
      /\ Saves!Nothing \in [{} -> Texts]
      /\ Saves!Nothing \in [{} -> Texts \cup {Blank}]
  BY DEF Saves!Nothing
<1>2. /\ DOMAIN Saves!Blanks = Slots
      /\ Saves!Blanks \in [Slots -> Texts \cup {Blank}]
  BY DEF Saves!Blanks
<1> QED
  BY <1>1, <1>2, MapsMember DEF Written

(* What is sent has no blanks, and otherwise what the page has. *)
LEMMA PayloadKeeps ==
  ASSUME NEW m \in Saves!Maps(Slots, Texts \cup {Blank})
  PROVE  /\ Saves!getSanitizedSettingsPayload(m) \in Written
         /\ \A s \in Slots :
              Saves!ValueIn(Saves!getSanitizedSettingsPayload(m), s)
                = Saves!ValueIn(m, s)
<1> DEFINE d == {t \in DOMAIN m : m[t] # Blank}
           f == Saves!getSanitizedSettingsPayload(m)
<1>1. DOMAIN m \subseteq Slots /\ m \in [DOMAIN m -> Texts \cup {Blank}]
  BY MapsMember
<1>2. f = [s \in d |-> m[s]]
  BY DEF Saves!getSanitizedSettingsPayload
<1>3. DOMAIN f = d /\ f \in [d -> Texts] /\ d \subseteq Slots
  BY <1>1, <1>2
<1>4. f \in Written
  BY <1>3, MapsMember DEF Written
<1>5. \A s \in Slots : Saves!ValueIn(f, s) = Saves!ValueIn(m, s)
  BY <1>1, <1>2, <1>3 DEF Saves!ValueIn
<1> QED
  BY <1>4, <1>5

LEMMA SavesInitially ==
  ASSUME Saves!Init
  PROVE  SavesInv
<1>1. SaveTypes
  BY EmptyMaps
  DEF Saves!Init, SaveTypes, Saves!TypeOK, Loaded, Written, Saves!NotLoaded
<1>2. SavesQueue
  BY DEF Saves!Init, SavesQueue
<1>3. \A p \in Pages : PageKeeps(p)
  BY DEF Saves!Init, PageKeeps, Saves!NotLoaded
<1> QED
  BY <1>1, <1>2, <1>3 DEF SavesInv, Saves!SaveKeepsUnedited, Saves!Init

(* The steps of a page that send nothing. *)
LEMMA PageSteps ==
  ASSUME Saves!TeamSettingsAssumption, SavesInv, NEW p \in Pages,
         \/ Saves!Mount(p) \/ Saves!FieldsAnswer(p)
         \/ Saves!SettingsAnswer(p) \/ Saves!SettingsFail(p)
         \/ \E s \in Slots, text \in Texts \cup {Blank} :
              Saves!handleFieldChange(p, s, text)
  PROVE  SavesInv'
<1>1. UNCHANGED <<settings, user, requests, saves, saving, handled>>
  BY DEF Saves!Mount, Saves!FieldsAnswer, Saves!SettingsAnswer,
    Saves!SettingsFail, Saves!handleFieldChange
<1>2. SavesQueue' /\ Saves!SaveKeepsUnedited'
  BY <1>1 DEF SavesInv, SavesQueue, Saves!SaveKeepsUnedited, Saves!ValueIn
<1>3. SUFFICES /\ state' \in [Pages -> {"closed", "fields", "settings",
                                      "ready"}]
               /\ DOMAIN values' = Pages
               /\ values'[p] \in Saves!Maps(Slots, Texts \cup {Blank})
               /\ \A q \in Pages \ {p} : values'[q] = values[q]
               /\ cards' \in [Pages -> BOOLEAN]
               /\ base' \in [Pages -> Loaded]
               /\ edited' \in [Pages -> SUBSET Slots]
               /\ \A q \in Pages : PageKeeps(q)'
  BY <1>1, <1>2 DEF SavesInv, SaveTypes, Saves!TypeOK
<1>4. ASSUME NEW q \in Pages \ {p}, state'[q] = state[q], base'[q] = base[q],
             values'[q] = values[q], edited'[q] = edited[q]
      PROVE  PageKeeps(q)'
  BY <1>4 DEF SavesInv, PageKeeps, Saves!ValueIn
<1> USE DEF SavesInv, SaveTypes, Saves!TypeOK
<1>5. CASE Saves!Mount(p)
  <2>1. PageKeeps(p)'
    BY <1>5 DEF Saves!Mount, PageKeeps, Saves!ValueIn
  <2> QED
    BY <1>4, <1>5, <2>1 DEF Saves!Mount
<1>6. CASE Saves!FieldsAnswer(p)
  <2>1. PageKeeps(p)'
    BY <1>6 DEF Saves!FieldsAnswer, PageKeeps, Saves!ValueIn
  <2>2. cards' \in [Pages -> BOOLEAN]
    BY <1>6 DEF Saves!FieldsAnswer
  <2> QED
    BY <1>4, <1>6, <2>1, <2>2 DEF Saves!FieldsAnswer
<1>7. CASE Saves!SettingsAnswer(p)
  <2> DEFINE v == IF settings[user] = Saves!Nothing THEN Saves!Blanks
                  ELSE settings[user]
  <2>1. user \in Teams /\ settings[user] \in Written
    BY <1>7 DEF Saves!SettingsAnswer, Written
  <2>2. v \in Saves!Maps(Slots, Texts \cup {Blank})
    BY <2>1, EmptyMaps, MapsMember DEF Written
  <2>3. \A s \in Slots : Saves!ValueIn(v, s) = Saves!ValueIn(settings[user], s)
    BY DEF Saves!ValueIn, Saves!Nothing, Saves!Blanks
  <2>4. [team |-> user, values |-> settings[user]] \in Loaded
    BY <2>1 DEF Loaded
  <2>5. /\ values' = [values EXCEPT ![p] = v]
        /\ state' = [state EXCEPT ![p] = "ready"]
        /\ base' = [base EXCEPT ![p] = [team |-> user,
                                        values |-> settings[user]]]
        /\ UNCHANGED <<cards, edited>>
    BY <1>7 DEF Saves!SettingsAnswer
  <2> HIDE DEF v
  <2>6. /\ values'[p] = v /\ state'[p] = "ready"
        /\ base'[p].values = settings[user]
    BY <2>5
  <2>7. PageKeeps(p)'
    BY <2>3, <2>6 DEF PageKeeps, Saves!ValueIn
  <2> QED
    BY <1>4, <2>2, <2>4, <2>5, <2>6, <2>7
<1>8. CASE Saves!SettingsFail(p)
  <2>1. PageKeeps(p)'
    BY <1>8 DEF Saves!SettingsFail, PageKeeps
  <2> QED
    BY <1>4, <1>8, <2>1, EmptyMaps DEF Saves!SettingsFail
<1>9. ASSUME NEW s \in Slots, NEW text \in Texts \cup {Blank},
             Saves!handleFieldChange(p, s, text)
      PROVE  /\ state' \in [Pages -> {"closed", "fields", "settings", "ready"}]
             /\ DOMAIN values' = Pages
             /\ values'[p] \in Saves!Maps(Slots, Texts \cup {Blank})
             /\ \A q \in Pages \ {p} : values'[q] = values[q]
             /\ cards' \in [Pages -> BOOLEAN]
             /\ base' \in [Pages -> Loaded]
             /\ edited' \in [Pages -> SUBSET Slots]
             /\ \A q \in Pages : PageKeeps(q)'
  <2> DEFINE m == values[p]
             v == [t \in DOMAIN m \cup {s} |-> IF t = s THEN text ELSE m[t]]
  <2>1. DOMAIN m \subseteq Slots /\ m \in [DOMAIN m -> Texts \cup {Blank}]
    BY MapsMember
  <2>2. DOMAIN v \subseteq Slots /\ v \in [DOMAIN v -> Texts \cup {Blank}]
    BY <2>1
  <2>3. \A t \in Slots \ {s} : Saves!ValueIn(v, t) = Saves!ValueIn(m, t)
    BY DEF Saves!ValueIn
  <2>4. /\ values' = [values EXCEPT ![p] = v]
        /\ edited' = [edited EXCEPT ![p] = @ \cup {s}]
        /\ UNCHANGED <<state, cards, base>>
    BY <1>9 DEF Saves!handleFieldChange
  <2> HIDE DEF v
  <2>5. v \in Saves!Maps(Slots, Texts \cup {Blank})
    BY <2>2, MapsMember
  <2>6. values'[p] = v /\ edited'[p] = edited[p] \cup {s}
    BY <2>4
  <2>7. PageKeeps(p)'
    BY <2>3, <2>4, <2>6 DEF PageKeeps, Saves!ValueIn
  <2> QED
    BY <1>4, <2>4, <2>5, <2>6, <2>7
<1> QED
  BY <1>5, <1>6, <1>7, <1>8, <1>9

(* Save sends the next request. *)
LEMMA SaveStep ==
  ASSUME Saves!TeamSettingsAssumption, SavesInv, NEW p \in Pages,
         Saves!handleSaveAll(p)
  PROVE  SavesInv'
<1> DEFINE r == [id |-> saves + 1, page |-> p, team |-> user,
                 payload |-> Saves!getSanitizedSettingsPayload(values[p]),
                 base |-> base[p], edited |-> edited[p]]
<1> USE DEF SavesInv, SaveTypes, Saves!TypeOK
<1>1. /\ saves' = saves + 1 /\ requests' = requests \cup {r}
      /\ saving' = [saving EXCEPT ![p] = TRUE] /\ ~saving[p] /\ user \in Teams
      /\ UNCHANGED <<settings, user, state, cards, values, base, edited,
                     handled>>
  BY DEF Saves!handleSaveAll, Saves!Send
<1>2. /\ r.payload \in Written
      /\ \A s \in Slots :
           Saves!ValueIn(r.payload, s) = Saves!ValueIn(values[p], s)
  BY PayloadKeeps
<1>3. r \in Requests
  BY <1>1, <1>2 DEF Requests
<1>4. /\ r.id = saves + 1 /\ r.page = p /\ r.team = user
      /\ r.base = base[p] /\ r.edited = edited[p]
  OBVIOUS
<1> HIDE DEF r
<1>5. SaveTypes'
  <2>1. requests' \in SUBSET Requests /\ saves' \in Nat
    BY <1>1, <1>3
  <2>2. \A q \in requests' : q.payload \in Saves!Maps(Slots, Texts)
                             /\ q.team \in Teams
    BY <2>1 DEF Requests, Written
  <2>3. saving' \in [Pages -> BOOLEAN]
    BY <1>1
  <2> QED
    BY <1>1, <2>1, <2>2, <2>3
<1>6. SavesQueue'
  <2>1. \A q \in requests : q.id \in Nat /\ q.page \in Pages \cup {None}
    BY DEF Requests
  <2>2. \A q \in requests' : q.id <= saves'
    BY <1>1, <1>4, <2>1 DEF SavesQueue
  <2>3. \A q \in Pages : handled'[q] <= saves' /\ handled[p] < saves + 1
    BY <1>1 DEF SavesQueue
  <2>4. \A q \in requests' : q.page # None =>
          saving'[q.page] /\ q.id > handled'[q.page]
    BY <1>1, <1>4, <2>1, <2>3 DEF SavesQueue
  <2>5. \A q, o \in requests' : q.page # None /\ q.page = o.page => q = o
    BY <1>1, <1>4, <2>1 DEF SavesQueue
  <2> QED
    BY <2>2, <2>3, <2>4, <2>5 DEF SavesQueue
<1>7. \A q \in Pages : PageKeeps(q)'
  BY <1>1 DEF PageKeeps, Saves!ValueIn
<1>8. \A s \in Slots \ r.edited :
        r.base.team = r.team =>
          Saves!ValueIn(r.payload, s) = Saves!ValueIn(r.base.values, s)
  BY <1>1, <1>2, <1>4 DEF PageKeeps, Saves!TeamSettingsAssumption
<1>9. Saves!SaveKeepsUnedited'
  BY <1>1, <1>8 DEF Saves!SaveKeepsUnedited, Saves!ValueIn
<1> QED
  BY <1>5, <1>6, <1>7, <1>9

(* A request that outlives its page is like any other but that no page     *)
(* waits for it.                                                           *)
LEMMA OrphansKeep ==
  ASSUME Saves!TeamSettingsAssumption, SavesInv, NEW p \in Pages
  PROVE  /\ Saves!Orphans(p) \in SUBSET Requests
         /\ \A q \in Saves!Orphans(p) : q.page # p
         /\ \A q \in Saves!Orphans(p) :
              \/ q \in requests
              \/ /\ q.page = None /\ q.base.team = None
                 /\ \E r \in requests :
                      q.id = r.id /\ q.team = r.team /\ q.payload = r.payload
<1>1. ASSUME NEW r \in requests, r.page = p
      PROVE  LET q == Saves!Orphan(r) IN
             /\ q \in Requests /\ q.page = None /\ q.base.team = None
             /\ q.id = r.id /\ q.team = r.team /\ q.payload = r.payload
  <2>1. r \in Requests
    BY DEF SavesInv, SaveTypes
  <2>2. Saves!NotLoaded \in Loaded /\ Saves!NotLoaded.team = None
    BY EmptyMaps DEF Loaded, Saves!NotLoaded
  <2> QED
    BY <2>1, <2>2 DEF Requests, Saves!Orphan
<1>2. ASSUME NEW q \in Saves!Orphans(p)
      PROVE  \/ q \in requests /\ q.page # p
             \/ \E r \in requests : r.page = p /\ q = Saves!Orphan(r)
  BY DEF Saves!Orphans
<1>3. ASSUME NEW q \in Saves!Orphans(p)
      PROVE  /\ q \in Requests /\ q.page # p
             /\ \/ q \in requests
                \/ /\ q.page = None /\ q.base.team = None
                   /\ \E r \in requests :
                        q.id = r.id /\ q.team = r.team /\ q.payload = r.payload
  <2>1. CASE q \in requests /\ q.page # p
    BY <2>1 DEF SavesInv, SaveTypes
  <2>2. CASE q \notin requests \/ q.page = p
    <3>1. PICK r \in requests : r.page = p /\ q = Saves!Orphan(r)
      BY <1>2, <2>2
    <3>2. p # None
      BY DEF Saves!TeamSettingsAssumption
    <3> QED
      BY <1>1, <3>1, <3>2
  <2> QED BY <2>1, <2>2
<1> QED
  BY <1>3

LEMMA UnmountStep ==
  ASSUME Saves!TeamSettingsAssumption, SavesInv, NEW p \in Pages,
         Saves!Unmount(p)
  PROVE  SavesInv'
<1> USE DEF SavesInv, SaveTypes, Saves!TypeOK
<1>1. /\ requests' = Saves!Orphans(p) /\ UNCHANGED <<settings, user, saves>>
      /\ state' = [state EXCEPT ![p] = "closed"]
      /\ cards' = [cards EXCEPT ![p] = FALSE]
      /\ values' = [values EXCEPT ![p] = Saves!Nothing]
      /\ saving' = [saving EXCEPT ![p] = FALSE]
      /\ base' = [base EXCEPT ![p] = Saves!NotLoaded]
      /\ edited' = [edited EXCEPT ![p] = {}]
      /\ handled' = [handled EXCEPT ![p] = 0]
  BY DEF Saves!Unmount
<1>2. Saves!NotLoaded \in Loaded /\ Saves!NotLoaded.team = None
  BY EmptyMaps DEF Loaded, Saves!NotLoaded
<1>3. SaveTypes'
  <2>1. requests' \in SUBSET Requests
    BY <1>1, OrphansKeep
  <2>2. \A r \in requests' : r.payload \in Saves!Maps(Slots, Texts)
                             /\ r.team \in Teams
    BY <2>1 DEF Requests, Written
  <2>3. \A q \in Pages : values'[q] \in Saves!Maps(Slots, Texts \cup {Blank})
    BY <1>1, EmptyMaps
  <2> QED
    BY <1>1, <1>2, <2>1, <2>2, <2>3
<1>4. SavesQueue'
  <2>1. \A q \in requests' :
          q.page # None => q \in requests /\ q.page \in Pages
    BY <1>1, OrphansKeep, ZenonT(60) DEF Requests
  <2>2. \A q \in requests' : q.page # p
    BY <1>1, OrphansKeep
  <2>3. \A q \in requests' : q.id <= saves
    BY <1>1, OrphansKeep, ZenonT(60) DEF SavesQueue
  <2> QED
    BY <1>1, <2>1, <2>2, <2>3 DEF SavesQueue
<1>5. \A q \in Pages : PageKeeps(q)'
  BY <1>1, <1>2 DEF PageKeeps, Saves!ValueIn
<1>6. Saves!SaveKeepsUnedited'
  <2>1. \A q \in requests' :
          q \in requests \/ (q.base.team = None /\ q.team \in Teams)
    <3>1. \A q \in requests' : q.team \in Teams
      BY <1>3
    <3> QED
      BY <1>1, <3>1, OrphansKeep, ZenonT(60)
  <2> QED
    BY <2>1
    DEF Saves!SaveKeepsUnedited, Saves!ValueIn, Saves!TeamSettingsAssumption
<1> QED
  BY <1>3, <1>4, <1>5, <1>6

(* A request is stored, or lost, or both as far as its page knows. *)
LEMMA RequestEnds ==
  ASSUME Saves!TeamSettingsAssumption, SavesInv, NEW r \in requests,
         Saves!Put(r) \/ Saves!PutFails(r)
  PROVE  SavesInv'
<1> USE DEF SavesInv, SaveTypes, Saves!TypeOK
<1>1. /\ r \in Requests /\ r.team \in Teams
      /\ r.payload \in Saves!Maps(Slots, Texts)
      /\ r.page \in Pages \cup {None} /\ r.id \in Nat
  BY DEF Requests
<1>2. /\ UNCHANGED <<user, state, cards, values, saves, base, edited>>
      /\ settings' \in {settings, [settings EXCEPT ![r.team] = r.payload]}
      /\ \/ requests' = requests \ {r}
         \/ r.page # None /\ requests' = Saves!Orphans(r.page)
      /\ saving' = IF r.page = None THEN saving
                   ELSE [saving EXCEPT ![r.page] = FALSE]
      /\ \/ handled' = handled
         \/ r.page # None /\ handled' = [handled EXCEPT ![r.page] = r.id]
  BY DEF Saves!Put, Saves!PutFails
<1>3. /\ requests' \in SUBSET Requests
      /\ \A q \in requests' : q.page # None =>
           q \in requests /\ q.page \in Pages /\ q # r /\ q.page # r.page
      /\ \A q \in requests' : q \in requests \/ q.base.team = None
      /\ \A q \in requests' : \E o \in requests :
           q.id = o.id /\ q.team = o.team /\ q.payload = o.payload
  <2>1. CASE requests' = requests \ {r}
    <3>1. \A q \in requests \ {r} : q.page # None => q.page # r.page
      BY DEF SavesQueue
    <3> QED
      BY <2>1, <3>1 DEF Requests
  <2>2. CASE r.page # None /\ requests' = Saves!Orphans(r.page)
    <3>1. r.page \in Pages
      BY <1>1, <2>2
    <3>2. requests' \in SUBSET Requests
      BY <2>2, <3>1, OrphansKeep
    <3>3. \A q \in requests' : q.page # r.page
      BY <2>2, <3>1, OrphansKeep
    <3>4. \A q \in requests' :
            q.page # None => q \in requests /\ q.page \in Pages
      BY <2>2, <3>1, <3>2, OrphansKeep DEF Requests
    <3>5. \A q \in requests' : \E o \in requests :
            q.id = o.id /\ q.team = o.team /\ q.payload = o.payload
      BY <2>2, <3>1, OrphansKeep, ZenonT(60)
    <3>6. \A q \in requests' : q \in requests \/ q.base.team = None
      BY <2>2, <3>1, OrphansKeep, ZenonT(60)
    <3> QED
      BY <3>2, <3>3, <3>4, <3>5, <3>6
  <2> QED
    BY <1>2, <2>1, <2>2
<1>4. SaveTypes'
  <2>1. \A q \in requests' : q.payload \in Saves!Maps(Slots, Texts)
                             /\ q.team \in Teams
    BY <1>3 DEF Requests, Written
  <2>2. settings' \in [Teams -> Saves!Maps(Slots, Texts)]
    BY <1>1, <1>2
  <2>3. saving' \in [Pages -> BOOLEAN] /\ handled' \in [Pages -> Nat]
    BY <1>1, <1>2
  <2> QED
    BY <1>2, <1>3, <2>1, <2>2, <2>3
<1>5. SavesQueue'
  <2>1. r.id <= saves
    BY DEF SavesQueue
  <2>2. \A p \in Pages : handled'[p] <= saves'
    BY <1>1, <1>2, <2>1 DEF SavesQueue
  <2>3. \A q \in requests' : q.page # None =>
          saving'[q.page] /\ q.id > handled'[q.page]
    BY <1>1, <1>2, <1>3 DEF SavesQueue
  <2>4. \A q, o \in requests' : q.page # None /\ q.page = o.page => q = o
    BY <1>3 DEF SavesQueue
  <2>5. \A q \in requests' : q.id <= saves'
    BY <1>2, <1>3 DEF SavesQueue
  <2> QED
    BY <2>2, <2>3, <2>4, <2>5 DEF SavesQueue
<1>6. \A p \in Pages : PageKeeps(p)'
  BY <1>2 DEF PageKeeps, Saves!ValueIn
<1>7. Saves!SaveKeepsUnedited'
  <2>1. \A q \in requests' : q.team \in Teams
    BY <1>3 DEF Requests
  <2> QED
    BY <1>3, <2>1
    DEF Saves!SaveKeepsUnedited, Saves!ValueIn, Saves!TeamSettingsAssumption
<1> QED
  BY <1>4, <1>5, <1>6, <1>7

LEMMA SavesKeep ==
  ASSUME Saves!TeamSettingsAssumption, SavesInv, [Saves!Next]_Saves!vars
  PROVE  SavesInv'
<1>1. CASE Saves!SwitchUser
  <2>1. SaveTypes'
    BY <1>1 DEF Saves!SwitchUser, Saves!pageVars, SavesInv, SaveTypes,
      Saves!TypeOK
  <2>2. SavesQueue' /\ Saves!SaveKeepsUnedited'
    BY <1>1 DEF Saves!SwitchUser, Saves!pageVars, SavesInv, SavesQueue,
      Saves!SaveKeepsUnedited, Saves!ValueIn
  <2>3. \A p \in Pages : PageKeeps(p)'
    BY <1>1 DEF Saves!SwitchUser, Saves!pageVars, SavesInv, PageKeeps,
      Saves!ValueIn
  <2> QED
    BY <2>1, <2>2, <2>3 DEF SavesInv
<1>2. CASE UNCHANGED Saves!vars
  <2> USE <1>2 DEF Saves!vars, Saves!pageVars
  <2>1. SaveTypes'
    BY DEF SavesInv, SaveTypes, Saves!TypeOK
  <2>2. SavesQueue' /\ Saves!SaveKeepsUnedited'
    BY DEF SavesInv, SavesQueue, Saves!SaveKeepsUnedited, Saves!ValueIn
  <2>3. \A p \in Pages : PageKeeps(p)'
    BY DEF SavesInv, PageKeeps, Saves!ValueIn
  <2> QED
    BY <2>1, <2>2, <2>3 DEF SavesInv
<1> QED
  BY <1>1, <1>2, PageSteps, SaveStep, UnmountStep, RequestEnds DEF Saves!Next

LEMMA SavesInvariant == Spec => [](part = "saves" => SavesInv)
<1>1. Init => (part = "saves" => SavesInv)
  BY SavesInitially DEF Init
<1>2. (part = "saves" => SavesInv) /\ [Next]_vars
        => (part = "saves" => SavesInv)'
  <2> SUFFICES ASSUME part = "saves" => SavesInv, [Next]_vars,
                      part' = "saves"
               PROVE  SavesInv'
    OBVIOUS
  <2>1. part = "saves" /\ [Saves!Next]_Saves!vars
    BY DEF Next, SavesStep, SessionStep, AlertsStep, vars, saveVars,
      Saves!vars, Saves!pageVars
  <2> QED
    BY <2>1, WebAssumption, SavesKeep DEF WebAssumption
<1> QED
  BY <1>1, <1>2, PTL DEF Spec

(* A save that was made of a team's loaded settings sends every field that *)
(* was not edited as it was loaded, and nothing blank is stored.           *)
THEOREM SavesKeepUnedited == Spec => []SaveKeepsUnedited
<1>1. (part = "saves" => SavesInv) => SaveKeepsUnedited
  BY DEF SaveKeepsUnedited, SavesInv, SaveTypes
<1> QED
  BY <1>1, SavesInvariant, PTL

(* The request a page waits for is newer than every save of the page that  *)
(* was handled: the saves a page waits for are handled in the order of the *)
(* clicks.  Nothing is said of a save that was given up, or whose page was *)
(* left.                                                                   *)
THEOREM SavesStayInOrder == Spec => []SavesInOrder
<1>1. (part = "saves" => SavesInv) => SavesInOrder
  BY DEF SavesInOrder, Saves!SavesInOrder, SavesInv, SavesQueue
<1> QED
  BY <1>1, SavesInvariant, PTL

-----------------------------------------------------------------------------
(* The tabs. *)

Guarding == {"route", "admin", "observer"}

SessionTypes ==
  /\ SignIn!TypeOK
  /\ \A t \in Tabs :
       request[t] # None /\ request[t].answer = "ok" => request[t].token # None

(* Who it takes for the page of a tab to be shown. *)
Admitted(t) ==
  CASE page[t] = "login" -> None \in signedIn[t]
    [] page[t] \in SignIn!PagesOf("admin") -> "admin" \in signedIn[t]
    [] page[t] = "observer" -> "observer" \in signedIn[t]
    [] OTHER -> \A w \in {None, "admin", "observer"} : ~(signedIn[t] \subseteq {w})

(* A guard goes on with what it has read; what is shown was let in by it;  *)
(* and a page's requests are sent, and its settings come, with the token   *)
(* of one who was signed in since.                                         *)
TabFits(t) ==
  /\ SignIn!Who(creds) \in signedIn[t]
  /\ step[t] \in {"admin", "observer"} => ~(signedIn[t] \subseteq {None})
  /\ step[t] = "observer" => ~(signedIn[t] \subseteq {"admin"})
  /\ step[t] \in {"shown", "leaving"} => Admitted(t)
  /\ step[t] \in Guarding =>
       /\ loaded[t] = None
       /\ request[t] # None => ~request[t].here
  /\ loaded[t] # None => loaded[t] \in signedIn[t]
  /\ request[t] # None /\ request[t].kind \in {"load", "save"}
     /\ request[t].here =>
       /\ request[t].token # None /\ request[t].token.role \in signedIn[t]
       /\ request[t].kind = "save" => loaded[t] # None

SessionInv == SessionTypes /\ \A t \in Tabs : TabFits(t)

SignedInRule ==
  signedIn' = [t \in Tabs |->
    (IF SignIn!GuardBegins(t) THEN {} ELSE signedIn[t])
      \cup {SignIn!Who(creds')}]

(* While a page stays, who was signed in is only added to. *)
LEMMA Admits ==
  ASSUME NEW t, Admitted(t), page'[t] = page[t], signedIn[t] \subseteq signedIn'[t]
  PROVE  Admitted(t)'
<1>1. CASE page[t] = "login"
  BY <1>1 DEF Admitted
<1>2. CASE page[t] # "login" /\ page[t] \in SignIn!PagesOf("admin")
  BY <1>2 DEF Admitted, SignIn!PagesOf
<1>3. CASE page[t] = "observer"
  BY <1>3 DEF Admitted, SignIn!PagesOf
<1>4. CASE page[t] \notin {"login", "observer"} \cup SignIn!PagesOf("admin")
  <2>1. \A w \in {None, "admin", "observer"} : ~(signedIn[t] \subseteq {w})
    BY <1>4 DEF Admitted, SignIn!PagesOf
  <2>2. \A w \in {None, "admin", "observer"} : ~(signedIn'[t] \subseteq {w})
    BY <2>1
  <2> QED
    BY <1>4, <2>2 DEF Admitted, SignIn!PagesOf
<1> QED
  BY <1>1, <1>2, <1>3, <1>4

LEMMA SessionInitially ==
  ASSUME SignIn!SessionAssumption, SignIn!Init
  PROVE  SessionInv
<1>1. SessionTypes
  BY DEF SignIn!SessionAssumption, SignIn!Init, SessionTypes, SignIn!TypeOK,
    SignIn!PageNames, SignIn!Roles
<1>2. \A t \in Tabs : TabFits(t)
  BY DEF SignIn!Init, TabFits, Guarding, SignIn!Who
<1> QED
  BY <1>1, <1>2 DEF SessionInv

(* The token that a guard or a request leaves in the store. *)
LEMMA getCredentialsType ==
  ASSUME SessionTypes, SignIn!getCredentials
  PROVE  creds' \in SignIn!Token \cup {None}
BY DEF SessionTypes, SignIn!TypeOK, SignIn!getCredentials

(* A step keeps the types if it keeps those of what it changes. *)
LEMMA TypesOfStep ==
  ASSUME SessionTypes, SignedInRule, UNCHANGED <<now, skew>>,
         creds' \in SignIn!Token \cup {None},
         page' \in [Tabs -> SignIn!PageNames],
         step' \in [Tabs -> {"route", "admin", "observer", "shown", "leaving"}],
         loaded' \in [Tabs -> SignIn!Roles \cup {None}],
         request' \in [Tabs -> SignIn!Request \cup {None}],
         uses' \in 0..MaxUses,
         \A t \in Tabs : request'[t] # None /\ request'[t].answer = "ok"
                           => request'[t].token # None
  PROVE  SessionTypes'
<1>1. signedIn' \in [Tabs -> SUBSET (SignIn!Roles \cup {None})]
  <2>1. SignIn!Who(creds') \in SignIn!Roles \cup {None}
    BY DEF SignIn!Who, SignIn!Token
  <2> QED
    BY <2>1 DEF SignedInRule, SessionTypes, SignIn!TypeOK
<1> QED
  BY <1>1 DEF SessionTypes, SignIn!TypeOK

(* A tab that does not begin a guard remembers. *)
LEMMA Remembers ==
  ASSUME SignedInRule, NEW t \in Tabs
  PROVE  /\ SignIn!Who(creds') \in signedIn'[t]
         /\ step'[t] # "route" \/ (step'[t] = step[t] /\ page'[t] = page[t]) =>
              signedIn'[t] = signedIn[t] \cup {SignIn!Who(creds')}
BY DEF SignedInRule, SignIn!GuardBegins

(* What happens in one tab concerns the others by the token alone. *)
LEMMA OtherTabs ==
  ASSUME SessionInv, SignedInRule, NEW u \in Tabs, page'[u] = page[u],
         step'[u] = step[u], loaded'[u] = loaded[u], request'[u] = request[u]
  PROVE  TabFits(u)'
<1>1. TabFits(u)
  BY DEF SessionInv
<1>2. SignIn!Who(creds)' \in signedIn'[u] /\ signedIn[u] \subseteq signedIn'[u]
  BY Remembers DEF SignIn!Who
<1>3. Admitted(u) => Admitted(u)'
  BY <1>2, Admits
<1> QED
  BY <1>1, <1>2, <1>3 DEF TabFits, Guarding

(* A tab on its way to another page has nothing of the last one. *)
LEMMA TabLeaves ==
  ASSUME SignedInRule, NEW t \in Tabs, step'[t] = "route", loaded'[t] = None,
         request'[t] # None => ~request'[t].here
  PROVE  TabFits(t)'
<1>1. SignIn!Who(creds)' \in signedIn'[t]
  BY Remembers DEF SignIn!Who
<1> QED
  BY <1>1 DEF TabFits, Guarding

LEMMA RouteStep ==
  ASSUME SignIn!SessionAssumption, SessionInv, SignedInRule, NEW t \in Tabs,
         SignIn!Route(t)
  PROVE  SessionInv'
<1>1. /\ SignIn!getCredentials /\ step[t] \in Guarding
      /\ UNCHANGED <<now, skew, loaded, request, uses>>
  BY DEF SignIn!Route, SignIn!RouteLogin, SignIn!RouteAuth,
    SignIn!RouteAdmin, SignIn!RouteObserver, Guarding
<1> DEFINE Moves ==
      \E s \in {"route", "admin", "observer", "shown"}, p \in SignIn!PageNames :
        /\ step' = [step EXCEPT ![t] = s]
        /\ page' = [page EXCEPT ![t] = p]
<1>2. Moves
  <2>1. \A role : SignIn!Home(role) \in SignIn!PageNames
    BY DEF SignIn!Home, SignIn!PageNames
  <2>2. /\ "home" \in SignIn!PageNames /\ "login" \in SignIn!PageNames
        /\ page[t] \in SignIn!PageNames /\ page = [page EXCEPT ![t] = page[t]]
    BY DEF SignIn!PageNames, SessionInv, SessionTypes, SignIn!TypeOK
  <2>3. ASSUME NEW s \in {"admin", "observer", "shown"}, SignIn!Stay(t, s)
        PROVE  Moves
    BY <2>2, <2>3 DEF SignIn!Stay
  <2>4. ASSUME NEW p \in SignIn!PageNames, SignIn!Go(t, p)
        PROVE  Moves
    BY <2>4 DEF SignIn!Go
  <2>5. ASSUME NEW role, SignIn!Land(t, role)
        PROVE  Moves
    BY <2>1, <2>3, <2>4, <2>5 DEF SignIn!Land
  <2> HIDE DEF Moves
  <2> QED
    BY <2>2, <2>3, <2>4, <2>5 DEF SignIn!Route, SignIn!RouteLogin,
      SignIn!RouteAuth, SignIn!RouteAdmin, SignIn!RouteObserver
<1>3. SessionTypes'
  BY <1>1, <1>2, getCredentialsType, TypesOfStep
  DEF SessionInv, SessionTypes, SignIn!TypeOK
<1>4. \A u \in Tabs \ {t} : TabFits(u)'
  <2>1. ASSUME NEW u \in Tabs \ {t}
        PROVE  /\ page'[u] = page[u] /\ step'[u] = step[u]
               /\ loaded'[u] = loaded[u] /\ request'[u] = request[u]
    BY <1>1, <1>2 DEF SessionInv, SessionTypes, SignIn!TypeOK
  <2> QED
    BY <2>1, OtherTabs
<1> SUFFICES TabFits(t)'
  BY <1>3, <1>4 DEF SessionInv
<1>5. TabFits(t) /\ loaded'[t] = None /\ (request'[t] # None => ~request'[t].here)
  BY <1>1 DEF SessionInv, TabFits
<1>6. CASE step'[t] = "route"
  BY <1>5, <1>6, TabLeaves
<1>7. /\ SignIn!Who(creds)' \in signedIn'[t]
      /\ step'[t] # "route" => signedIn[t] \subseteq signedIn'[t]
  BY Remembers DEF SignIn!Who
<1>8. DOMAIN step = Tabs /\ DOMAIN page = Tabs
  BY DEF SessionInv, SessionTypes, SignIn!TypeOK
<1>9. SignIn!Live(creds) => creds # None
  BY DEF SignIn!Live
<1>10. creds' = IF SignIn!Live(creds) THEN creds ELSE None
  BY <1>1 DEF SignIn!getCredentials
<1> HIDE DEF SignIn!Live
<1>11. creds # None => /\ creds.role \in SignIn!Roles
                       /\ SignIn!Who(creds) = creds.role /\ creds.role # None
  BY DEF SessionInv, SessionTypes, SignIn!TypeOK, SignIn!Token, SignIn!Who,
    SignIn!SessionAssumption
<1>12. "admin" # None /\ "observer" # None
  BY DEF SignIn!SessionAssumption, SignIn!Roles
<1>13. ASSUME step'[t] = "shown", Admitted(t)'
       PROVE  TabFits(t)'
  BY <1>5, <1>7, <1>13 DEF TabFits, Guarding
<1>14. CASE SignIn!RouteLogin(t) /\ step'[t] # "route"
  <2>1. step'[t] = "shown" /\ page'[t] = "login" /\ creds' = None
    BY <1>8, <1>10, <1>14 DEF SignIn!RouteLogin, SignIn!Stay, SignIn!Go
  <2>2. None \in signedIn'[t]
    BY <1>7, <2>1 DEF SignIn!Who
  <2> QED
    BY <1>13, <2>1, <2>2 DEF Admitted, SignIn!PagesOf
<1>15. CASE SignIn!RouteAuth(t) /\ step'[t] # "route"
  <2>1. step'[t] = "admin" /\ creds # None /\ creds' = creds
    BY <1>8, <1>9, <1>10, <1>15 DEF SignIn!RouteAuth, SignIn!Stay, SignIn!Go
  <2>2. ~(signedIn'[t] \subseteq {None})
    BY <1>7, <1>11, <2>1 DEF SignIn!Who
  <2> QED
    BY <1>5, <1>7, <2>1, <2>2 DEF TabFits, Guarding
<1>16. ASSUME NEW role, SignIn!Land(t, role), step'[t] # "route"
       PROVE  step'[t] = "shown" /\ page'[t] \in SignIn!PagesOf(role)
  BY <1>8, <1>16 DEF SignIn!Land, SignIn!Stay, SignIn!Go
<1>17. CASE SignIn!RouteAdmin(t) /\ step'[t] # "route"
  <2>1. CASE SignIn!Live(creds) /\ creds.role = "admin"
    <3>1. step'[t] = "shown" /\ page'[t] \in SignIn!PagesOf("admin")
      BY <1>16, <1>17, <2>1 DEF SignIn!RouteAdmin
    <3>2. "admin" \in signedIn'[t]
      BY <1>7, <1>9, <1>10, <2>1 DEF SignIn!Who
    <3> QED
      BY <1>13, <3>1, <3>2 DEF Admitted, SignIn!PagesOf
  <2>2. CASE ~(SignIn!Live(creds) /\ creds.role = "admin")
    <3>1. step[t] = "admin" /\ step'[t] = "observer"
      BY <1>8, <1>17, <2>2 DEF SignIn!RouteAdmin, SignIn!Stay
    <3>2. SignIn!Who(creds)' # "admin"
      BY <1>10, <1>11, <1>12, <2>2 DEF SignIn!Who
    <3>3. ~(signedIn'[t] \subseteq {None}) /\ ~(signedIn'[t] \subseteq {"admin"})
      BY <1>5, <1>7, <3>1, <3>2 DEF TabFits
    <3> QED
      BY <1>5, <1>7, <3>1, <3>3 DEF TabFits, Guarding
  <2> QED BY <2>1, <2>2
<1>18. CASE SignIn!RouteObserver(t) /\ step'[t] # "route"
  <2>1. CASE SignIn!Live(creds) /\ creds.role = "observer"
    <3>1. step'[t] = "shown" /\ page'[t] \in SignIn!PagesOf("observer")
      BY <1>16, <1>18, <2>1 DEF SignIn!RouteObserver
    <3>2. "observer" \in signedIn'[t]
      BY <1>7, <1>9, <1>10, <2>1 DEF SignIn!Who
    <3> QED
      BY <1>13, <3>1, <3>2 DEF Admitted, SignIn!PagesOf
  <2>2. CASE ~(SignIn!Live(creds) /\ creds.role = "observer")
    <3>1. /\ step[t] = "observer" /\ step'[t] = "shown"
          /\ page'[t] \in SignIn!PagesOf("team")
      BY <1>16, <1>18, <2>2 DEF SignIn!RouteObserver
    <3>2. SignIn!Who(creds)' # "observer"
      BY <1>10, <1>11, <1>12, <2>2 DEF SignIn!Who
    <3>3. /\ ~(signedIn'[t] \subseteq {None})
          /\ ~(signedIn'[t] \subseteq {"admin"})
          /\ ~(signedIn'[t] \subseteq {"observer"})
      BY <1>5, <1>7, <3>1, <3>2 DEF TabFits
    <3> QED
      BY <1>13, <3>1, <3>3 DEF Admitted, SignIn!PagesOf
  <2> QED BY <2>1, <2>2
<1> QED
  BY <1>6, <1>14, <1>15, <1>17, <1>18 DEF SignIn!Route

(* A link, a login, or a logout: the tab is on its way to another page. *)
LEMMA MoveStep ==
  ASSUME SignIn!SessionAssumption, SessionInv, SignedInRule, NEW t \in Tabs,
         \/ \E p \in SignIn!PageNames : SignIn!Navigate(t, p)
         \/ SignIn!LoginDone(t) \/ SignIn!LogoutDone(t)
  PROVE  SessionInv'
<1> USE DEF SessionInv, SessionTypes, SignIn!TypeOK
<1> DEFINE Moves(p) ==
        /\ page' = [page EXCEPT ![t] = p]
        /\ step' = [step EXCEPT ![t] = "route"]
        /\ loaded' = [loaded EXCEPT ![t] = None]
        /\ \/ request' = [request EXCEPT ![t] = None]
           \/ request[t] = None /\ request' = request
           \/ request[t] # None /\ request' = [request EXCEPT ![t].here = FALSE]
        /\ creds' \in SignIn!Token \cup {None}
        /\ UNCHANGED <<now, skew>> /\ uses' \in 0..MaxUses
<1>1. PICK p \in SignIn!PageNames : Moves(p)
  <2>1. "home" \in SignIn!PageNames /\ "login" \in SignIn!PageNames
    BY DEF SignIn!PageNames
  <2>2. ASSUME NEW p \in SignIn!PageNames, SignIn!Navigate(t, p)
        PROVE  Moves(p)
    BY <2>2 DEF SignIn!Navigate, SignIn!Use, SignIn!Go, SignIn!Leaves,
      SignIn!SessionAssumption
  <2>3. ASSUME SignIn!LoginDone(t) PROVE Moves("home")
    <3>1. request[t].token \in SignIn!Token \cup {None}
      BY <2>3 DEF SignIn!LoginDone, SignIn!Request
    <3> QED
      BY <2>1, <2>3, <3>1 DEF SignIn!LoginDone, SignIn!Go
  <2>4. ASSUME SignIn!LogoutDone(t) PROVE Moves("login")
    BY <2>1, <2>4 DEF SignIn!LogoutDone, SignIn!Go, SignIn!Leaves
  <2> HIDE DEF Moves
  <2> QED
    BY <2>1, <2>2, <2>3, <2>4
<1>2. /\ request' \in [Tabs -> SignIn!Request \cup {None}]
      /\ request'[t] # None => ~request'[t].here
      /\ request'[t] # None => request[t] # None
                               /\ request'[t].answer = request[t].answer
                               /\ request'[t].token = request[t].token
  <2>1. CASE request' = [request EXCEPT ![t] = None]
    BY <2>1
  <2>2. CASE request[t] = None /\ request' = request
    BY <2>2
  <2>3. CASE request[t] # None /\ request' = [request EXCEPT ![t].here = FALSE]
    BY <2>3 DEF SignIn!Request
  <2> QED
    BY <1>1, <2>1, <2>2, <2>3
<1>3. \A u \in Tabs \ {t} :
        /\ page'[u] = page[u] /\ step'[u] = step[u]
        /\ loaded'[u] = loaded[u] /\ request'[u] = request[u]
  BY <1>1
<1>4. SessionTypes'
  <2>1. /\ page' \in [Tabs -> SignIn!PageNames]
        /\ step' \in [Tabs -> {"route", "admin", "observer", "shown",
                               "leaving"}]
        /\ loaded' \in [Tabs -> SignIn!Roles \cup {None}]
    BY <1>1
  <2>2. \A u \in Tabs : request'[u] # None /\ request'[u].answer = "ok"
                          => request'[u].token # None
    BY <1>2, <1>3
  <2> QED
    BY <1>1, <1>2, <2>1, <2>2, TypesOfStep
<1>5. TabFits(t)'
  BY <1>1, <1>2, TabLeaves
<1> QED
  BY <1>3, <1>4, <1>5, OtherTabs

(* What a tab asks and is answered while its page stays. *)
LEMMA RequestStep ==
  ASSUME SignIn!SessionAssumption, SessionInv, SignedInRule, NEW t \in Tabs,
         \/ \E role \in SignIn!Roles : SignIn!StartLogin(t, role)
         \/ \E kind \in {"checks", "load", "save", "cron"} :
              SignIn!Ask(t, kind)
         \/ SignIn!authenticate(t)
  PROVE  SessionInv'
<1> USE DEF SessionInv, SessionTypes, SignIn!TypeOK
<1>1. UNCHANGED <<now, skew, page, step, loaded>>
  BY DEF SignIn!StartLogin, SignIn!Ask, SignIn!authenticate, SignIn!tabVars
<1>2. \A u \in Tabs \ {t} : request'[u] = request[u]
  BY DEF SignIn!StartLogin, SignIn!Ask, SignIn!authenticate, SignIn!Sends
<1>3. signedIn'[t] = signedIn[t] \cup {SignIn!Who(creds')}
  BY <1>1, Remembers
<1> DEFINE RequestKeeps ==
      /\ creds' \in SignIn!Token \cup {None}
      /\ uses' \in 0..MaxUses
      /\ request' \in [Tabs -> SignIn!Request \cup {None}]
      /\ request'[t] # None /\ request'[t].answer = "ok"
           => request'[t].token # None
      /\ step[t] \in Guarding /\ request'[t] # None
           => ~request'[t].here
      /\ request'[t] # None /\ request'[t].kind \in {"load", "save"}
           /\ request'[t].here
           => /\ request'[t].token # None
              /\ request'[t].token.role \in signedIn'[t]
              /\ request'[t].kind = "save" => loaded[t] # None
<1>4. SUFFICES RequestKeeps
  <2>1. SessionTypes'
    BY <1>1, <1>2, <1>4, TypesOfStep
  <2>2. TabFits(t)'
    <3>1. TabFits(t) /\ (Admitted(t) => Admitted(t)')
      BY <1>1, <1>3, Admits
    <3>2. SignIn!Who(creds)' \in signedIn'[t]
      BY <1>3 DEF SignIn!Who
    <3> QED
      BY <1>1, <1>3, <1>4, <3>1, <3>2 DEF TabFits, Guarding
  <2> QED
    BY <1>1, <1>2, <2>1, <2>2, OtherTabs
<1>5. ASSUME NEW role \in SignIn!Roles, SignIn!StartLogin(t, role)
      PROVE  RequestKeeps
  <2> DEFINE r == [kind |-> "login",
                   token |-> [role |-> role, exp |-> now + Life],
                   sent |-> now, answer |-> "ok", here |-> TRUE]
  <2>1. /\ request' = [request EXCEPT ![t] = r] /\ step[t] = "shown"
        /\ creds' = creds /\ uses' \in 0..MaxUses
    BY <1>5 DEF SignIn!StartLogin, SignIn!Sends, SignIn!Use,
      SignIn!SessionAssumption
  <2>2. r.token \in SignIn!Token
    BY DEF SignIn!Token, SignIn!SessionAssumption
  <2>3. r \in SignIn!Request /\ r.kind = "login" /\ r.token # None
    BY <2>2 DEF SignIn!Request, SignIn!Answers, SignIn!SessionAssumption
  <2> HIDE DEF r
  <2> QED
    BY <2>1, <2>3 DEF Guarding
<1>6. ASSUME NEW kind \in {"checks", "load", "save", "cron"},
             SignIn!Ask(t, kind)
      PROVE  RequestKeeps
  <2> DEFINE r == [kind |-> kind, token |-> creds', sent |-> now,
                   answer |-> "none", here |-> TRUE]
  <2>1. /\ step[t] = "shown" /\ uses' = uses /\ SignIn!getCredentials
        /\ \/ request' = request
           \/ /\ request' = [request EXCEPT ![t] = r]
              /\ SignIn!Live(creds) \/ kind = "checks"
        /\ kind = "save" => loaded[t] # None
    BY <1>6 DEF SignIn!Ask, SignIn!Sends, SignIn!Of
  <2>2. creds' \in SignIn!Token \cup {None}
    BY <2>1, getCredentialsType
  <2>3. r \in SignIn!Request
    BY <2>2 DEF SignIn!Request, SignIn!Answers
  <2>4. SignIn!Live(creds) => /\ creds' # None
                              /\ creds'.role \in signedIn'[t]
    BY <1>3, <2>1 DEF SignIn!Live, SignIn!getCredentials, SignIn!Who
  <2>5. /\ r.kind = kind /\ r.answer = "none" /\ r.token = creds'
    OBVIOUS
  <2> HIDE DEF r
  <2>6. CASE request' = request
    BY <1>3, <2>1, <2>2, <2>6 DEF TabFits
  <2>7. CASE /\ request' = [request EXCEPT ![t] = r]
             /\ SignIn!Live(creds) \/ kind = "checks"
    BY <2>1, <2>2, <2>3, <2>4, <2>5, <2>7 DEF Guarding
  <2> QED
    BY <2>1, <2>6, <2>7
<1>7. ASSUME SignIn!authenticate(t)
      PROVE  RequestKeeps
  <2> DEFINE v == SignIn!Verdict(request[t])
             r == [request[t] EXCEPT !.answer = v]
  <2>1. /\ request[t] # None /\ request' = [request EXCEPT ![t] = r]
        /\ creds' = creds /\ uses' = uses
    BY <1>7 DEF SignIn!authenticate
  <2>2. /\ v \in SignIn!Answers
        /\ v = "ok" => request[t].token # None
    BY DEF SignIn!Verdict, SignIn!Answers
  <2> HIDE DEF v
  <2>3. /\ r \in SignIn!Request /\ r.answer = v /\ r.token = request[t].token
        /\ r.kind = request[t].kind /\ r.here = request[t].here
    BY <2>1, <2>2 DEF SignIn!Request
  <2> HIDE DEF r
  <2> QED
    BY <1>3, <2>1, <2>2, <2>3 DEF TabFits
<1> HIDE DEF RequestKeeps
<1> QED
  BY <1>5, <1>6, <1>7

(* An answer is shown on the page that asked, if that is still there. *)
LEMMA AnsweredStep ==
  ASSUME SignIn!SessionAssumption, SessionInv, SignedInRule, NEW t \in Tabs,
         SignIn!Answered(t)
  PROVE  SessionInv'
<1> USE DEF SessionInv, SessionTypes, SignIn!TypeOK
<1> DEFINE r == request[t]
           shows == r.kind = "load" /\ r.answer = "ok" /\ r.here
<1>1. /\ r # None /\ request' = [request EXCEPT ![t] = None]
      /\ loaded' = IF shows THEN [loaded EXCEPT ![t] = r.token.role]
                   ELSE loaded
      /\ UNCHANGED <<now, skew, creds, page, step, uses>>
  BY DEF SignIn!Answered
<1>2. shows => r.token \in SignIn!Token /\ r.token.role \in SignIn!Roles
  BY <1>1 DEF SignIn!Request, SignIn!Token
<1>3. SessionTypes'
  <2>1. loaded' \in [Tabs -> SignIn!Roles \cup {None}]
    BY <1>1, <1>2
  <2>2. /\ request' \in [Tabs -> SignIn!Request \cup {None}]
        /\ \A u \in Tabs : request'[u] # None /\ request'[u].answer = "ok"
                             => request'[u].token # None
    BY <1>1
  <2> QED
    BY <1>1, <2>1, <2>2, TypesOfStep
<1>4. \A u \in Tabs \ {t} : loaded'[u] = loaded[u] /\ request'[u] = request[u]
  BY <1>1
<1>5. TabFits(t)'
  <2>1. /\ SignIn!Who(creds)' \in signedIn'[t]
        /\ signedIn[t] \subseteq signedIn'[t]
        /\ Admitted(t) => Admitted(t)'
    BY <1>1, Remembers, Admits DEF SignIn!Who
  <2>2. shows => /\ step[t] \notin Guarding
                 /\ r.token.role \in signedIn[t]
    BY <1>1 DEF TabFits
  <2>3. request'[t] = None
    BY <1>1
  <2>4. CASE shows
    <3>1. loaded'[t] = r.token.role
      BY <1>1, <2>4
    <3> HIDE DEF r, shows
    <3> QED
      BY <1>1, <2>1, <2>2, <2>3, <2>4, <3>1 DEF TabFits, Guarding
  <2>5. CASE ~shows
    <3> HIDE DEF shows
    <3> QED
      BY <1>1, <2>1, <2>3, <2>5 DEF TabFits, Guarding
  <2> QED BY <2>4, <2>5
<1> QED
  BY <1>1, <1>3, <1>4, <1>5, OtherTabs

(* The user signs out, or cannot. *)
LEMMA LeaveStep ==
  ASSUME SignIn!SessionAssumption, SessionInv, SignedInRule, NEW t \in Tabs,
         SignIn!Logout(t) \/ SignIn!LogoutFails(t)
  PROVE  SessionInv'
<1> USE DEF SessionInv, SessionTypes, SignIn!TypeOK
<1>1. PICK s \in {"shown", "leaving"} :
        /\ step' = [step EXCEPT ![t] = s]
        /\ step[t] \in {"shown", "leaving"} /\ uses' \in 0..MaxUses
        /\ UNCHANGED <<now, skew, creds, page, loaded, request>>
  BY DEF SignIn!Logout, SignIn!LogoutFails, SignIn!Stay, SignIn!Use,
    SignIn!SessionAssumption
<1>2. SessionTypes'
  BY <1>1, TypesOfStep
<1>3. /\ SignIn!Who(creds)' \in signedIn'[t]
      /\ signedIn[t] \subseteq signedIn'[t]
      /\ Admitted(t) => Admitted(t)'
  BY <1>1, Remembers, Admits DEF SignIn!Who
<1>4. TabFits(t)'
  BY <1>1, <1>3 DEF TabFits, Guarding
<1>5. \A u \in Tabs \ {t} : step'[u] = step[u]
  BY <1>1
<1> QED
  BY <1>1, <1>2, <1>4, <1>5, OtherTabs

LEMMA SessionKeeps ==
  ASSUME SignIn!SessionAssumption, SessionInv, [SignIn!Next]_SignIn!vars
  PROVE  SessionInv'
<1>1. CASE SignIn!Next
  <2>1. SignedInRule
    BY <1>1 DEF SignIn!Next, SignedInRule
  <2>2. CASE SignIn!Tick
    <3>1. UNCHANGED <<skew, creds, page, step, loaded, request, uses>>
      BY <2>2 DEF SignIn!Tick, SignIn!tabVars
    <3>2. SessionTypes'
      <4>1. now' \in 0..MaxTime
        BY <2>2 DEF SignIn!Tick, SessionInv, SessionTypes, SignIn!TypeOK,
          SignIn!SessionAssumption
      <4>2. signedIn' \in [Tabs -> SUBSET (SignIn!Roles \cup {None})]
        <5>1. SignIn!Who(creds') \in SignIn!Roles \cup {None}
          BY <3>1 DEF SignIn!Who, SignIn!Token, SessionInv, SessionTypes,
            SignIn!TypeOK
        <5> QED
          BY <2>1, <5>1 DEF SignedInRule, SessionInv, SessionTypes,
            SignIn!TypeOK
      <4> QED
        BY <3>1, <4>1, <4>2 DEF SessionInv, SessionTypes, SignIn!TypeOK
    <3> QED
      BY <2>1, <3>1, <3>2, OtherTabs DEF SessionInv
  <2>3. CASE \E t \in Tabs : SignIn!Route(t)
    BY <2>1, <2>3, RouteStep
  <2>4. CASE \E t \in Tabs : \/ \E p \in SignIn!PageNames : SignIn!Navigate(t, p)
                             \/ SignIn!LoginDone(t) \/ SignIn!LogoutDone(t)
    BY <2>1, <2>4, MoveStep
  <2>5. CASE \E t \in Tabs :
               \/ \E role \in SignIn!Roles : SignIn!StartLogin(t, role)
               \/ \E kind \in {"checks", "load", "save", "cron"} :
                    SignIn!Ask(t, kind)
               \/ SignIn!authenticate(t)
    BY <2>1, <2>5, RequestStep
  <2>6. CASE \E t \in Tabs : SignIn!Answered(t)
    BY <2>1, <2>6, AnsweredStep
  <2>7. CASE \E t \in Tabs : SignIn!Logout(t) \/ SignIn!LogoutFails(t)
    BY <2>1, <2>7, LeaveStep
  <2> QED
    BY <1>1, <2>2, <2>3, <2>4, <2>5, <2>6, <2>7 DEF SignIn!Next, SignIn!Step
<1>2. CASE UNCHANGED SignIn!vars
  <2>1. SessionTypes'
    BY <1>2 DEF SignIn!vars, SignIn!tabVars, SessionInv, SessionTypes,
      SignIn!TypeOK
  <2>2. \A t \in Tabs : TabFits(t)'
    BY <1>2 DEF SignIn!vars, SignIn!tabVars, SessionInv, TabFits, Admitted,
      SignIn!Who
  <2> QED
    BY <2>1, <2>2 DEF SessionInv
<1> QED
  BY <1>1, <1>2

(* However many tabs sign in and out, whenever the token expires or an     *)
(* answer comes late: a page is shown to none but those it is for, as they *)
(* were signed in since its guard began, and the settings on it are of a   *)
(* team that was.                                                          *)
THEOREM ShownAlwaysFits == Spec => []ShownFits
<1>1. Init => (part = "session" => SessionInv)
  BY WebAssumption, SessionInitially DEF Init, WebAssumption
<1>2. (part = "session" => SessionInv) /\ [Next]_vars
        => (part = "session" => SessionInv)'
  <2> SUFFICES ASSUME part = "session" => SessionInv, [Next]_vars,
                      part' = "session"
               PROVE  SessionInv'
    OBVIOUS
  <2>1. part = "session" /\ [SignIn!Next]_SignIn!vars
    BY DEF Next, SavesStep, SessionStep, AlertsStep, vars, sessionVars,
      SignIn!vars, SignIn!tabVars
  <2> QED
    BY <2>1, WebAssumption, SessionKeeps DEF WebAssumption
<1>3. (part = "session" => SessionInv) => ShownFits
  <2>1. SessionInv => SignIn!TypeOK /\ SignIn!ShownFits
    BY DEF SessionInv, SessionTypes, TabFits, Admitted, SignIn!ShownFits
  <2>2. SessionInv => SignIn!SettingsAreOwn
    BY DEF SessionInv, TabFits, SignIn!SettingsAreOwn
  <2> QED
    BY <2>1, <2>2 DEF ShownFits
<1> QED
  BY <1>1, <1>2, <1>3, PTL DEF Spec

-----------------------------------------------------------------------------
(* The alerts. *)

(* The results of a service are in the order of their checks, all past;    *)
(* the buffer holds the newest of those delivered and not cleared; and     *)
(* none is cleared while the page is mounted.                              *)
StreamFits ==
  /\ \A a, b \in 1..Len(stream) :
       a <= b /\ stream[a].service = stream[b].service =>
         stream[a].time <= stream[b].time
  /\ \A s \in 1..Len(stream) : stream[s].time <= now
  /\ Len(messages) =
       IF cursor - cleared <= Limit THEN cursor - cleared ELSE Limit
  /\ \A i \in 1..Len(messages) :
       messages[i] = cursor - Len(messages) + i
  /\ Toasts!Mounted => cleared = 0 \/ cleared = missing

(* A result was announced at most once; and if it can be again, as it is   *)
(* newer than the page, the page has processed it.                         *)
AnnouncedOnce ==
  \A s \in 1..Len(stream) :
    /\ announced[s] <= 1
    /\ Toasts!Mounted /\ announced[s] = 1 /\ stream[s].time > loadTime =>
         s \in processed

(* The status x is what the first k results leave a service with. *)
After(x, k, v) ==
  /\ (\A s \in 1..k : stream[s].service # v) => x = None
  /\ \A s \in 1..k :
       /\ stream[s].service = v
       /\ \A o \in 1..k : stream[o].service = v => o <= s
       => x = stream[s].passed

(* The services of which the user had cleared no result. *)
KeptServices == {v \in Services : Toasts!Kept(v)}

(* While the buffer has room for all: the page has processed the results   *)
(* up to some point, but for those cleared, and announced the falls up to  *)
(* there.                                                                  *)
AnnouncedFalls ==
  Toasts!Mounted /\ Len(stream) <= Limit =>
    \E k \in 0..Len(stream) :
      /\ processed \cup 1..missing = 1..k
      /\ \A v \in KeptServices : After(serviceStatus[v], k, v)
      /\ \A s \in 1..k :
           stream[s].service \in KeptServices /\ stream[s].time > loadTime =>
             (announced[s] > 0 <=> Toasts!Fall(s))

AlertsInv == Toasts!TypeOK /\ StreamFits /\ AnnouncedOnce /\ AnnouncedFalls

LEMMA AlertsInitially ==
  ASSUME Toasts!AlertsAssumption, Toasts!Init
  PROVE  AlertsInv
<1>1. /\ stream \in Seq(Toasts!Results) /\ Len(stream) = 0
      /\ messages \in Seq(1..Len(stream)) /\ Len(messages) = 0
      /\ announced \in Seq(Nat) /\ Len(announced) = 0
  BY EmptySeq DEF Toasts!Init
<1>2. Toasts!TypeOK
  <2>1. /\ now \in 0..MaxClock /\ uses \in 0..MaxSteps
        /\ cursor \in 0..Len(stream) /\ Len(messages) <= Limit
        /\ cleared \in 0..cursor /\ missing \in 0..Len(stream)
    BY <1>1 DEF Toasts!AlertsAssumption, Toasts!Init
  <2>2. /\ connected \in BOOLEAN /\ loadTime \in 0..MaxClock \cup {None}
        /\ processed \subseteq 1..Len(stream)
        /\ toasts \subseteq 1..Len(stream)
        /\ serviceStatus \in [Services -> BOOLEAN \cup {None}]
    BY DEF Toasts!Init
  <2> QED
    BY <1>1, <2>1, <2>2 DEF Toasts!TypeOK
<1>3. StreamFits /\ AnnouncedOnce
  BY <1>1 DEF Toasts!AlertsAssumption, Toasts!Init, StreamFits, AnnouncedOnce
<1>4. AnnouncedFalls
  BY DEF Toasts!Init, Toasts!Mounted, AnnouncedFalls
<1> QED
  BY <1>2, <1>3, <1>4 DEF AlertsInv

LEMMA AlertTypes ==
  ASSUME Toasts!TypeOK
  PROVE  /\ Len(stream) \in Nat /\ Len(messages) \in Nat /\ cursor \in Nat
         /\ cursor <= Len(stream) /\ cleared \in Nat /\ cleared <= cursor
         /\ missing \in 0..Len(stream)
         /\ DOMAIN messages = 1..Len(messages)
         /\ DOMAIN announced = 1..Len(stream)
         /\ \A s \in 1..Len(stream) :
              /\ stream[s] \in Toasts!Results /\ stream[s].service \in Services
              /\ stream[s].passed \in BOOLEAN /\ stream[s].time \in 0..MaxClock
              /\ announced[s] \in Nat
<1>1. /\ Len(stream) \in Nat /\ Len(messages) \in Nat
      /\ DOMAIN messages = 1..Len(messages)
      /\ announced \in [1..Len(announced) -> Nat]
      /\ stream \in [1..Len(stream) -> Toasts!Results]
  BY LenProperties DEF Toasts!TypeOK
<1>2. /\ cursor \in 0..Len(stream) /\ Len(announced) = Len(stream)
      /\ cleared \in 0..cursor /\ missing \in 0..Len(stream)
  BY DEF Toasts!TypeOK
<1> QED
  BY <1>1, <1>2 DEF Toasts!Results

(* The buffer holds the results delivered last, each at its place. *)
LEMMA BufferRange ==
  ASSUME Toasts!AlertsAssumption, Toasts!TypeOK, StreamFits
  PROVE  \E n \in Nat :
           /\ cursor = n + Len(messages)
           /\ Toasts!ToSet(messages) = (n + 1)..cursor
           /\ \A i \in 1..Len(messages) : messages[i] = n + i
           /\ \A s \in (n + 1)..cursor : Toasts!Place(messages, s) = s - n
           /\ Len(stream) <= Limit => n = cleared
<1>1. /\ Len(messages) <= cursor
      /\ Len(stream) <= Limit => Len(messages) = cursor - cleared
  BY AlertTypes DEF Toasts!AlertsAssumption, StreamFits
<1>2. PICK n \in Nat : n = cursor - Len(messages)
  BY <1>1, AlertTypes
<1>3. cursor = n + Len(messages) /\ (Len(stream) <= Limit => n = cleared)
  BY <1>1, <1>2, AlertTypes
<1>4. /\ DOMAIN messages = 1..Len(messages) /\ Len(messages) \in Nat
      /\ \A i \in 1..Len(messages) : messages[i] = n + i
  BY <1>2, AlertTypes DEF StreamFits
<1>5. ASSUME NEW s \in (n + 1)..cursor
      PROVE  s - n \in DOMAIN messages /\ messages[s - n] = s
  <2>1. s - n \in 1..Len(messages)
    BY <1>3, <1>4, AlertTypes
  <2> QED
    BY <1>4, <2>1
<1>6. \A i \in DOMAIN messages : messages[i] \in (n + 1)..cursor
  BY <1>3, <1>4
<1>7. Toasts!ToSet(messages) = (n + 1)..cursor
  BY <1>5, <1>6 DEF Toasts!ToSet
<1>8. ASSUME NEW s \in (n + 1)..cursor
      PROVE  Toasts!Place(messages, s) = s - n
  <2>1. \A i \in DOMAIN messages : messages[i] = s => i = s - n
    BY <1>4
  <2> QED
    BY <1>5, <2>1 DEF Toasts!Place
<1> QED
  BY <1>3, <1>4, <1>7, <1>8

(* What is in the buffer is in the stream. *)
LEMMA BufferInStream ==
  ASSUME Toasts!AlertsAssumption, Toasts!TypeOK, StreamFits
  PROVE  /\ Toasts!ToSet(messages) \subseteq 1..Len(stream)
         /\ Toasts!ToSet(messages) \subseteq 1..cursor
         /\ Len(stream) <= Limit =>
              Toasts!ToSet(messages) = (cleared + 1)..cursor
<1>1. PICK n \in Nat : /\ Toasts!ToSet(messages) = (n + 1)..cursor
                       /\ Len(stream) <= Limit => n = cleared
  BY BufferRange
<1> QED
  BY <1>1, AlertTypes

(* The page orders the results of a service as the stream has them. *)
LEMMA OrderIsStreams ==
  ASSUME Toasts!AlertsAssumption, Toasts!TypeOK, StreamFits,
         NEW o \in Toasts!ToSet(messages), NEW s \in Toasts!ToSet(messages),
         stream[o].service = stream[s].service
  PROVE  Toasts!Precedes(messages, o, s) <=> o < s
<1>1. PICK n \in Nat :
        /\ Toasts!ToSet(messages) = (n + 1)..cursor
        /\ \A i \in (n + 1)..cursor : Toasts!Place(messages, i) = i - n
  BY BufferRange
<1>2. /\ Toasts!Place(messages, s) = s - n /\ Toasts!Place(messages, o) = o - n
      /\ o \in Nat /\ s \in Nat
  BY <1>1, AlertTypes
<1>3. o \in 1..Len(stream) /\ s \in 1..Len(stream)
  BY BufferInStream
<1>4. stream[o].time \in Nat /\ stream[s].time \in Nat
  BY <1>3, AlertTypes DEF Toasts!AlertsAssumption
<1>5. /\ o <= s => stream[o].time <= stream[s].time
      /\ s <= o => stream[s].time <= stream[o].time
  BY <1>3 DEF StreamFits
<1> QED
  BY <1>2, <1>4, <1>5 DEF Toasts!Precedes

(* So the last of some results of a service is the one with the highest    *)
(* number.                                                                 *)
LEMMA LatestIsHighest ==
  ASSUME Toasts!AlertsAssumption, Toasts!TypeOK, StreamFits,
         NEW v, NEW S \in SUBSET Toasts!ToSet(messages), S # {},
         \A s \in S : stream[s].service = v
  PROVE  \E m \in S :
           /\ \A o \in S : o <= m
           /\ \A known :
                Toasts!LatestStatus(messages, S, known) = stream[m].passed
<1>1. S \in SUBSET (0..Len(stream)) /\ Len(stream) \in Nat
  BY BufferInStream, AlertTypes
<1>2. PICK m \in S : \A o \in S : o <= m
  BY <1>1, LargestExists
<1>3. \A o \in S \ {m} : Toasts!Precedes(messages, o, m)
  <2>1. ASSUME NEW o \in S \ {m} PROVE o < m
    BY <1>1, <1>2
  <2> QED
    BY <2>1, OrderIsStreams
<1>4. ASSUME NEW s \in S, \A o \in S \ {s} : Toasts!Precedes(messages, o, s)
      PROVE  s = m
  <2> SUFFICES ASSUME s # m PROVE FALSE
    OBVIOUS
  <2>1. m < s
    BY <1>4, OrderIsStreams
  <2> QED
    BY <1>1, <1>2, <2>1
<1>5. (CHOOSE s \in S : \A o \in S \ {s} : Toasts!Precedes(messages, o, s)) = m
  BY <1>3, <1>4
<1> QED
  BY <1>2, <1>5 DEF Toasts!LatestStatus

(* The effect moves statuses on from one result to a later one. *)
LEMMA LatestAfter ==
  ASSUME Toasts!AlertsAssumption, Toasts!TypeOK, StreamFits,
         Len(stream) <= Limit, NEW k \in Nat, cleared <= k,
         NEW j \in k..cursor,
         NEW v, NEW x, After(x, k, v)
  PROVE  After(Toasts!LatestStatus(
           messages, {o \in (k + 1)..j : stream[o].service = v}, x), j, v)
<1> DEFINE S == {o \in (k + 1)..j : stream[o].service = v}
           y == Toasts!LatestStatus(messages, S, x)
<1>1. j \in Nat /\ k <= j /\ j <= cursor /\ cursor \in Nat
  BY AlertTypes
<1>2. CASE S = {}
  <2>1. y = x
    BY <1>2 DEF Toasts!LatestStatus
  <2>2. \A s \in 1..j : stream[s].service = v => s \in 1..k
    BY <1>1, <1>2
  <2>3. \A s \in 1..k : s \in 1..j
    BY <1>1
  <2> HIDE DEF y, S
  <2>4. After(y, j, v)
    BY <2>1, <2>2, <2>3 DEF After
  <2> QED
    BY <2>4 DEF y, S
<1>3. CASE S # {}
  <2>1. S \subseteq Toasts!ToSet(messages) /\ S \subseteq 1..j
    BY <1>1, BufferInStream, AlertTypes
  <2> HIDE DEF S
  <2>2. \A s \in S : stream[s].service = v
    BY DEF S
  <2>3. PICK m \in S : (\A o \in S : o <= m) /\ y = stream[m].passed
    BY <1>3, <2>1, <2>2, LatestIsHighest
  <2>4. m \in (k + 1)..j /\ stream[m].service = v
    BY DEF S
  <2>5. ASSUME NEW s \in 1..j, stream[s].service = v,
               \A o \in 1..j : stream[o].service = v => o <= s
        PROVE  s = m
    <3>1. m <= s
      BY <1>1, <2>4, <2>5
    <3>2. s \in S
      BY <1>1, <2>4, <2>5, <3>1 DEF S
    <3> QED
      BY <1>1, <2>3, <2>4, <3>1, <3>2
  <2>6. m \in 1..j
    BY <2>1
  <2> HIDE DEF y
  <2>7. After(y, j, v)
    BY <2>3, <2>4, <2>5, <2>6 DEF After
  <2> QED
    BY <2>7 DEF y, S
<1> QED
  BY <1>2, <1>3

(* A status says whether the result before passed. *)
LEMMA StatusTells ==
  ASSUME Toasts!AlertsAssumption, Toasts!TypeOK, NEW s \in 1..Len(stream),
         NEW x, After(x, s - 1, stream[s].service)
  PROVE  x = TRUE <=> \E q \in Toasts!Earlier(s) :
                        /\ stream[q].passed
                        /\ \A p \in Toasts!Earlier(s) : p <= q
<1> DEFINE E == Toasts!Earlier(s)
<1>1. s - 1 \in Nat /\ s \in Nat /\ E \subseteq 1..(s - 1)
      /\ \A o \in 1..(s - 1) : o \in 1..Len(stream)
  BY AlertTypes DEF Toasts!Earlier
<1>2. \A o \in 1..(s - 1) : o \in E <=> stream[o].service = stream[s].service
  BY DEF Toasts!Earlier
<1> HIDE DEF E
<1>3. \A q \in E : (\A p \in E : p <= q) => x = stream[q].passed
  BY <1>1, <1>2 DEF After
<1>4. CASE E = {}
  <2>1. x = None
    BY <1>2, <1>4 DEF After
  <2> QED
    BY <1>4, <2>1 DEF Toasts!AlertsAssumption, E
<1>5. CASE E # {}
  <2>1. E \in SUBSET (0..(s - 1))
    BY <1>1
  <2>2. PICK q \in E : \A p \in E : p <= q
    BY <1>1, <1>5, <2>1, LargestExists
  <2>3. \A p \in E : stream[p].passed \in BOOLEAN
    BY <1>1, AlertTypes
  <2>4. x = TRUE <=> \E p \in E : stream[p].passed /\ \A o \in E : o <= p
    BY <1>3, <2>2, <2>3
  <2> QED
    BY <2>4 DEF E
<1> QED
  BY <1>4, <1>5

(* What the effect does, for any state of what it keeps. *)
LEMMA EffectTypes ==
  ASSUME Toasts!AlertsAssumption, Toasts!TypeOK, StreamFits,
         NEW done \in SUBSET (1..Len(stream)),
         NEW status \in [Services -> BOOLEAN \cup {None}], NEW load,
         Toasts!ProcessAll(messages, done, status, load)
  PROVE  /\ processed' = done \cup Toasts!ToSet(messages)
         /\ processed' \subseteq 1..Len(stream)
         /\ serviceStatus' \in [Services -> BOOLEAN \cup {None}]
         /\ toasts' \subseteq 1..Len(stream)
         /\ announced' \in Seq(Nat) /\ Len(announced') = Len(stream)
         /\ \A s \in 1..Len(stream) :
              \/ announced'[s] = announced[s]
              \/ /\ announced'[s] = announced[s] + 1
                 /\ s \in Toasts!ToSet(messages) \ done
                 /\ stream[s].time > load
<1> DEFINE new == Toasts!ToSet(messages) \ done
           Of(v) == {s \in new : stream[s].service = v}
           previousStatus(s) ==
             Toasts!LatestStatus(messages,
               {o \in Of(stream[s].service) :
                  Toasts!Precedes(messages, o, s)},
               status[stream[s].service])
           raised == {s \in new : /\ stream[s].time > load
                                  /\ ~stream[s].passed
                                  /\ previousStatus(s) = TRUE}
<1>1. /\ processed' = done \cup new
      /\ serviceStatus' = [v \in Services |->
           Toasts!LatestStatus(messages, Of(v), status[v])]
      /\ toasts' = toasts \cup raised
      /\ announced' = [s \in DOMAIN announced |->
           IF s \in raised THEN announced[s] + 1 ELSE announced[s]]
  BY DEF Toasts!ProcessAll
<1> HIDE DEF previousStatus
<1>2. new \subseteq 1..Len(stream) /\ raised \subseteq new
      /\ \A s \in raised : stream[s].time > load
  BY BufferInStream
<1>3. ASSUME NEW v \in Services
      PROVE  Toasts!LatestStatus(messages, Of(v), status[v])
               \in BOOLEAN \cup {None}
  <2>1. Of(v) \subseteq Toasts!ToSet(messages) /\ Of(v) \subseteq 1..Len(stream)
    BY <1>2
  <2>2. \A s \in Of(v) : stream[s].service = v
    OBVIOUS
  <2> HIDE DEF Of
  <2>3. CASE Of(v) = {}
    BY <2>3 DEF Toasts!LatestStatus
  <2>4. CASE Of(v) # {}
    <3>1. PICK m \in Of(v) :
            Toasts!LatestStatus(messages, Of(v), status[v]) = stream[m].passed
      BY <2>1, <2>2, <2>4, LatestIsHighest
    <3> QED
      BY <2>1, <3>1, AlertTypes
  <2> QED
    BY <2>3, <2>4
<1> HIDE DEF raised, Of
<1>4. serviceStatus' \in [Services -> BOOLEAN \cup {None}]
  BY <1>1, <1>3
<1> HIDE DEF new
<1>5. \A s \in 1..Len(stream) :
        announced'[s] = IF s \in raised THEN announced[s] + 1 ELSE announced[s]
  BY <1>1, AlertTypes
<1>6. announced' \in [1..Len(stream) -> Nat]
  BY <1>1, AlertTypes
<1>7. announced' \in Seq(Nat) /\ Len(announced') = Len(stream)
  <2>1. Len(stream) \in Nat
    BY AlertTypes
  <2>2. announced' \in Seq(Nat)
    BY <1>6, <2>1, SeqDef
  <2>3. DOMAIN announced' = 1..Len(announced') /\ Len(announced') \in Nat
    BY <2>2, LenProperties
  <2>4. DOMAIN announced' = 1..Len(stream)
    BY <1>6
  <2> QED
    BY <2>1, <2>2, <2>3, <2>4
<1>8. toasts' \subseteq 1..Len(stream)
  BY <1>1, <1>2 DEF Toasts!TypeOK
<1>9. processed' = done \cup Toasts!ToSet(messages)
      /\ processed' \subseteq 1..Len(stream)
  BY <1>1, BufferInStream DEF new
<1> QED
  BY <1>2, <1>4, <1>5, <1>7, <1>8, <1>9 DEF new

(* A page that has seen the first k results but for the first m, which     *)
(* were cleared and are of none of the services Keep.                      *)
HasSeen(k, m, Keep, done, status) ==
  /\ k \in 0..Len(stream) /\ m \in 0..Len(stream)
  /\ cleared = 0 \/ cleared = m
  /\ Keep \subseteq Services
  /\ \A v \in Keep : \A q \in 1..m : stream[q].service # v
  /\ done \subseteq 1..Len(stream) /\ done \cup 1..m = 1..k
  /\ status \in [Services -> BOOLEAN \cup {None}]
  /\ \A v \in Keep : After(status[v], k, v)

(* With room for all, the effect brings such a page to the results         *)
(* delivered, and announces the falls among the rest, of those services.   *)
LEMMA EffectFollows ==
  ASSUME Toasts!AlertsAssumption, Toasts!TypeOK, StreamFits,
         Len(stream) <= Limit, NEW k, NEW m, NEW Keep, NEW done, NEW status,
         HasSeen(k, m, Keep, done, status), NEW load,
         Toasts!ProcessAll(messages, done, status, load)
  PROVE  \E j \in k..Len(stream) :
           /\ processed' \cup 1..m = 1..j
           /\ \A v \in Keep : After(serviceStatus'[v], j, v)
           /\ \A s \in 1..k :
                stream[s].service \in Keep => announced'[s] = announced[s]
           /\ \A s \in (k + 1)..j :
                stream[s].service \in Keep =>
                  announced'[s] = IF stream[s].time > load /\ Toasts!Fall(s)
                                  THEN announced[s] + 1 ELSE announced[s]
<1> DEFINE j == IF cursor <= k THEN k ELSE cursor
           new == Toasts!ToSet(messages) \ done
           Of(v) == {s \in new : stream[s].service = v}
           previousStatus(s) ==
             Toasts!LatestStatus(messages,
               {o \in Of(stream[s].service) :
                  Toasts!Precedes(messages, o, s)},
               status[stream[s].service])
           raised == {s \in new : /\ stream[s].time > load
                                  /\ ~stream[s].passed
                                  /\ previousStatus(s) = TRUE}
<1>1. /\ processed' = done \cup new
      /\ serviceStatus' = [v \in Services |->
           Toasts!LatestStatus(messages, Of(v), status[v])]
      /\ announced' = [s \in DOMAIN announced |->
           IF s \in raised THEN announced[s] + 1 ELSE announced[s]]
  BY DEF Toasts!ProcessAll
<1> USE DEF HasSeen
<1>2. /\ j \in k..Len(stream) /\ k \in Nat /\ j \in Nat /\ cursor \in Nat
      /\ cursor <= j /\ (k # j => j = cursor) /\ m \in Nat /\ m <= k
      /\ cleared \in Nat /\ cleared <= k
  <2>1. m <= k
    <3>1. m = 0 \/ m \in 1..k
      OBVIOUS
    <3> QED
      BY <3>1
  <2> QED
    BY <2>1, AlertTypes
<1>3. Toasts!ToSet(messages) = (cleared + 1)..cursor
  BY BufferInStream
<1>4. new \subseteq Toasts!ToSet(messages) /\ (k + 1)..j \subseteq new
  <2>1. \A s \in (k + 1)..j : s \notin done
    BY <1>2
  <2> QED
    BY <1>2, <1>3, <2>1
<1>5. ASSUME NEW s \in new, stream[s].service \in Keep
      PROVE  s \in (k + 1)..j
  <2>1. s \in (cleared + 1)..cursor /\ s \notin done
    BY <1>3
  <2>2. s \notin 1..m
    BY <1>5
  <2> QED
    BY <1>2, <2>1, <2>2
<1>6. processed' \cup 1..m = 1..j
  <2>1. processed' \cup 1..m = 1..k \cup (cleared + 1)..cursor
    BY <1>1, <1>3
  <2> QED
    BY <1>2, <2>1
<1> HIDE DEF j, new
<1>7. \A v \in Keep : Of(v) = {o \in (k + 1)..j : stream[o].service = v}
  BY <1>4, <1>5
<1>8. ASSUME NEW v \in Keep
      PROVE  After(serviceStatus'[v], j, v)
  <2>1. serviceStatus'[v] = Toasts!LatestStatus(messages,
          {o \in (k + 1)..j : stream[o].service = v}, status[v])
    BY <1>1, <1>7
  <2>2. CASE j = k
    <3>1. {o \in (k + 1)..j : stream[o].service = v} = {}
      BY <1>2, <2>2
    <3> QED
      BY <2>1, <2>2, <3>1 DEF Toasts!LatestStatus
  <2>3. CASE j # k
    <3>1. j \in k..cursor
      BY <1>2, <2>3
    <3> QED
      BY <1>2, <2>1, <3>1, LatestAfter
  <2> QED
    BY <2>2, <2>3
<1>9. ASSUME NEW s \in (k + 1)..j, stream[s].service \in Keep
      PROVE  previousStatus(s) = TRUE
               <=> \E q \in Toasts!Earlier(s) :
                     /\ stream[q].passed
                     /\ \A p \in Toasts!Earlier(s) : p <= q
  <2> DEFINE v == stream[s].service
             S == {o \in Of(v) : Toasts!Precedes(messages, o, s)}
  <2>1. /\ s \in new /\ s \in 1..Len(stream) /\ s - 1 \in k..cursor
        /\ v \in Keep
    BY <1>2, <1>4, <1>9
  <2>2. \A o \in Of(v) : Toasts!Precedes(messages, o, s) <=> o < s
    BY <1>4, <2>1, OrderIsStreams
  <2>3. S = {o \in (k + 1)..(s - 1) : stream[o].service = v}
    <3>1. S = {o \in Of(v) : o < s}
      BY <2>2
    <3>2. {o \in Of(v) : o < s} = {o \in (k + 1)..(s - 1) : stream[o].service = v}
      BY <1>2, <1>7, <2>1
    <3> QED
      BY <3>1, <3>2
  <2>4. previousStatus(s) = Toasts!LatestStatus(messages,
          {o \in (k + 1)..(s - 1) : stream[o].service = v}, status[v])
    BY <2>3
  <2> HIDE DEF S, previousStatus, v
  <2>5. After(status[v], k, v)
    BY <2>1
  <2>6. After(previousStatus(s), s - 1, v)
    BY <1>2, <2>1, <2>4, <2>5, LatestAfter
  <2> QED
    BY <2>1, <2>6, StatusTells DEF v
<1> HIDE DEF previousStatus
<1>10. \A s \in (k + 1)..j :
         stream[s].service \in Keep =>
           (s \in raised <=> stream[s].time > load /\ Toasts!Fall(s))
  BY <1>4, <1>9 DEF Toasts!Fall
<1>11. \A s \in 1..Len(stream) :
         announced'[s] = IF s \in raised THEN announced[s] + 1 ELSE announced[s]
  BY <1>1, AlertTypes
<1>12. raised \subseteq new
  OBVIOUS
<1> HIDE DEF raised
<1>13. \A s \in 1..k :
         stream[s].service \in Keep => announced'[s] = announced[s]
  BY <1>2, <1>5, <1>11, <1>12
<1>14. \A s \in (k + 1)..j :
         stream[s].service \in Keep =>
           announced'[s] = IF stream[s].time > load /\ Toasts!Fall(s)
                           THEN announced[s] + 1 ELSE announced[s]
  BY <1>2, <1>10, <1>11
<1> QED
  BY <1>2, <1>6, <1>8, <1>13, <1>14

LEMMA EffectStep ==
  ASSUME Toasts!AlertsAssumption, AlertsInv, Toasts!Effect
  PROVE  AlertsInv'
<1>1. /\ Toasts!Mounted
      /\ Toasts!ProcessAll(messages, processed, serviceStatus, loadTime)
      /\ UNCHANGED <<now, stream, cursor, connected, messages, loadTime,
                     cleared, missing, uses>>
  BY DEF Toasts!Effect, Toasts!store
<1>2. /\ Toasts!TypeOK /\ StreamFits
      /\ processed \in SUBSET (1..Len(stream))
      /\ serviceStatus \in [Services -> BOOLEAN \cup {None}]
  BY DEF AlertsInv, Toasts!TypeOK
<1>3. /\ processed' = processed \cup Toasts!ToSet(messages)
      /\ processed' \subseteq 1..Len(stream)
      /\ serviceStatus' \in [Services -> BOOLEAN \cup {None}]
      /\ toasts' \subseteq 1..Len(stream)
      /\ announced' \in Seq(Nat) /\ Len(announced') = Len(stream)
      /\ \A s \in 1..Len(stream) :
           \/ announced'[s] = announced[s]
           \/ /\ announced'[s] = announced[s] + 1
              /\ s \in Toasts!ToSet(messages) \ processed
              /\ stream[s].time > loadTime
  BY <1>1, <1>2, EffectTypes
<1>4. Toasts!TypeOK'
  BY <1>1, <1>2, <1>3 DEF Toasts!TypeOK
<1>5. StreamFits'
  BY <1>1, <1>2 DEF StreamFits, Toasts!Mounted
<1>6. AnnouncedOnce'
  <2>1. ASSUME NEW s \in 1..Len(stream)
        PROVE  /\ announced'[s] <= 1
               /\ announced'[s] = 1 /\ stream[s].time > loadTime =>
                    s \in processed'
    <3>1. /\ announced[s] \in Nat /\ announced[s] <= 1
          /\ announced[s] = 1 /\ stream[s].time > loadTime => s \in processed
      BY <1>1, <1>2, AlertTypes DEF AlertsInv, AnnouncedOnce
    <3> QED
      BY <1>3, <3>1
  <2> QED
    BY <1>1, <2>1 DEF AnnouncedOnce
<1>7. AnnouncedFalls'
  <2> DEFINE Keep == KeptServices
  <2> SUFFICES ASSUME Len(stream) <= Limit
               PROVE  \E j \in 0..Len(stream) :
                        /\ processed' \cup 1..missing = 1..j
                        /\ \A v \in Keep : After(serviceStatus'[v], j, v)
                        /\ \A s \in 1..j :
                             stream[s].service \in Keep
                             /\ stream[s].time > loadTime =>
                               (announced'[s] > 0 <=> Toasts!Fall(s))
    BY <1>1 DEF AnnouncedFalls, KeptServices, Toasts!Kept, After, Toasts!Fall,
      Toasts!Earlier
  <2>1. PICK k \in 0..Len(stream) :
          /\ processed \cup 1..missing = 1..k
          /\ \A v \in Keep : After(serviceStatus[v], k, v)
          /\ \A s \in 1..k :
               stream[s].service \in Keep /\ stream[s].time > loadTime =>
                 (announced[s] > 0 <=> Toasts!Fall(s))
    BY <1>1 DEF AlertsInv, AnnouncedFalls
  <2>2. /\ missing \in 0..Len(stream) /\ (cleared = 0 \/ cleared = missing)
        /\ Keep \in SUBSET Services
        /\ \A v \in Keep : \A q \in 1..missing : stream[q].service # v
    BY <1>1, <1>2, AlertTypes DEF StreamFits, KeptServices, Toasts!Kept
  <2> HIDE DEF Keep
  <2>seen. HasSeen(k, missing, Keep, processed, serviceStatus)
    BY <1>2, <2>1, <2>2 DEF HasSeen
  <2>3. PICK j \in k..Len(stream) :
           /\ processed' \cup 1..missing = 1..j
           /\ \A v \in Keep : After(serviceStatus'[v], j, v)
           /\ \A s \in 1..k :
                stream[s].service \in Keep => announced'[s] = announced[s]
           /\ \A s \in (k + 1)..j :
                stream[s].service \in Keep =>
                  announced'[s] = IF stream[s].time > loadTime /\ Toasts!Fall(s)
                                  THEN announced[s] + 1 ELSE announced[s]
    BY <1>1, <1>2, <2>seen, EffectFollows
  <2>4. ASSUME NEW s \in (k + 1)..j, stream[s].service \in Keep,
               stream[s].time > loadTime
        PROVE  announced'[s] > 0 <=> Toasts!Fall(s)
    <3>1. s \in 1..Len(stream) /\ s \notin processed
      BY <2>1, AlertTypes, <1>2
    <3>2. announced[s] = 0
      BY <1>1, <1>2, <2>4, <3>1, AlertTypes DEF AlertsInv, AnnouncedOnce
    <3> QED
      BY <2>3, <2>4, <3>2
  <2>5. ASSUME NEW s \in 1..j, stream[s].service \in Keep,
               stream[s].time > loadTime
        PROVE  announced'[s] > 0 <=> Toasts!Fall(s)
    <3>1. s \in 1..k \/ s \in (k + 1)..j
      BY <1>2, AlertTypes
    <3> QED
      BY <2>1, <2>3, <2>4, <2>5, <3>1
  <2>6. j \in 0..Len(stream)
    BY <1>2, AlertTypes
  <2> QED
    BY <2>3, <2>5, <2>6
<1> QED
  BY <1>4, <1>5, <1>6, <1>7 DEF AlertsInv

(* The connection is kept, or begins anew with nothing delivered, and so   *)
(* nothing of it cleared.                                                  *)
LEMMA ConnectKeeps ==
  ASSUME Toasts!AlertsAssumption, Toasts!TypeOK, StreamFits,
         Toasts!Connect, UNCHANGED <<now, stream>>,
         Toasts!Mounted' => missing' = cleared
  PROVE  /\ StreamFits' /\ cursor' \in 0..Len(stream') /\ connected' \in BOOLEAN
         /\ messages' \in Seq(1..Len(stream')) /\ Len(messages') <= Limit
         /\ cleared' \in 0..cursor'
<1>1. CASE UNCHANGED <<cursor, messages, connected, cleared>>
  BY <1>1 DEF Toasts!TypeOK, StreamFits
<1>2. CASE /\ messages' = <<>> /\ cursor' = 0 /\ cleared' = 0
           /\ connected' \in BOOLEAN
  <2>1. /\ messages' \in Seq(1..Len(stream')) /\ Len(messages') = 0
        /\ Limit \in Nat \ {0}
    BY <1>2, EmptySeq DEF Toasts!AlertsAssumption
  <2>2. StreamFits'
    BY <1>2, <2>1 DEF StreamFits
  <2> QED
    BY <1>2, <2>1, <2>2, AlertTypes
<1> QED
  BY <1>1, <1>2 DEF Toasts!Connect, Toasts!store

LEMMA MountStep ==
  ASSUME Toasts!AlertsAssumption, AlertsInv, Toasts!Mount
  PROVE  AlertsInv'
<1> DEFINE status == [v \in Services |-> None]
<1>1. /\ loadTime' = now /\ uses' \in 0..MaxSteps
      /\ Toasts!ProcessAll(messages, {}, status, now)
      /\ Toasts!Connect /\ missing' = cleared /\ UNCHANGED <<now, stream>>
  BY DEF Toasts!Mount, Toasts!Use, AlertsInv, Toasts!TypeOK,
    Toasts!AlertsAssumption
<1>2. /\ Toasts!TypeOK /\ StreamFits /\ now \in 0..MaxClock
      /\ status \in [Services -> BOOLEAN \cup {None}]
      /\ {} \in SUBSET (1..Len(stream))
  BY DEF AlertsInv, Toasts!TypeOK
<1>3. \A s \in 1..Len(stream) : ~(stream[s].time > now)
  BY <1>2, AlertTypes DEF StreamFits, Toasts!AlertsAssumption
<1> HIDE DEF status
<1>4. /\ processed' \subseteq 1..Len(stream)
      /\ serviceStatus' \in [Services -> BOOLEAN \cup {None}]
      /\ toasts' \subseteq 1..Len(stream)
      /\ announced' \in Seq(Nat) /\ Len(announced') = Len(stream)
      /\ \A s \in 1..Len(stream) :
           \/ announced'[s] = announced[s]
           \/ stream[s].time > now
  <2>1. /\ processed' \subseteq 1..Len(stream)
        /\ serviceStatus' \in [Services -> BOOLEAN \cup {None}]
        /\ toasts' \subseteq 1..Len(stream)
        /\ announced' \in Seq(Nat) /\ Len(announced') = Len(stream)
        /\ \A s \in 1..Len(stream) :
             \/ announced'[s] = announced[s]
             \/ /\ announced'[s] = announced[s] + 1
                /\ s \in Toasts!ToSet(messages) \ {}
                /\ stream[s].time > now
    BY <1>1, <1>2, EffectTypes
  <2> QED
    BY <2>1
<1>5. Toasts!TypeOK' /\ StreamFits'
  <2>1. missing' \in 0..Len(stream)
    BY <1>1, <1>2, AlertTypes
  <2> QED
    BY <1>1, <1>2, <1>4, <2>1, ConnectKeeps DEF Toasts!TypeOK
<1>6. AnnouncedOnce'
  <2>1. \A s \in 1..Len(stream) : announced'[s] <= 1
    BY <1>3, <1>4 DEF AlertsInv, AnnouncedOnce
  <2> QED
    BY <1>1, <1>3, <2>1 DEF AnnouncedOnce
<1>7. AnnouncedFalls'
  <2> DEFINE Keep == {v \in Services :
                        \A q \in 1..cleared : stream[q].service # v}
  <2> SUFFICES ASSUME Len(stream) <= Limit
               PROVE  \E j \in 0..Len(stream) :
                        /\ processed' \cup 1..cleared = 1..j
                        /\ \A v \in Keep : After(serviceStatus'[v], j, v)
    BY <1>1, <1>3 DEF AnnouncedFalls, KeptServices, Toasts!Kept, After
  <2>1. cleared \in 0..Len(stream)
    BY <1>2, AlertTypes
  <2>2. \A v \in Keep : \A q \in 1..cleared : stream[q].service # v
    OBVIOUS
  <2>3. \A v \in Keep : After(status[v], cleared, v)
    BY <2>2 DEF After, status
  <2>4. Keep \in SUBSET Services /\ {} \cup 1..cleared = 1..cleared
    OBVIOUS
  <2> HIDE DEF Keep
  <2>seen. HasSeen(cleared, cleared, Keep, {}, status)
    BY <1>2, <2>1, <2>2, <2>3, <2>4 DEF HasSeen
  <2>5. PICK j \in cleared..Len(stream) :
          /\ processed' \cup 1..cleared = 1..j
          /\ \A v \in Keep : After(serviceStatus'[v], j, v)
    BY <1>1, <1>2, <2>seen, EffectFollows
  <2> QED
    BY <1>2, <2>5, AlertTypes
<1> QED
  BY <1>5, <1>6, <1>7 DEF AlertsInv

LEMMA LeaveHealth ==
  ASSUME Toasts!AlertsAssumption, AlertsInv, Toasts!Leave
  PROVE  AlertsInv'
<1>1. /\ loadTime' = None /\ processed' = {} /\ uses' \in 0..MaxSteps
      /\ serviceStatus' = [v \in Services |-> None]
      /\ Toasts!Connect
      /\ UNCHANGED <<now, stream, toasts, announced, missing>>
  BY DEF Toasts!Leave, Toasts!Use, AlertsInv, Toasts!TypeOK,
    Toasts!AlertsAssumption
<1>2. Toasts!TypeOK /\ StreamFits
  BY DEF AlertsInv
<1>3. Toasts!TypeOK' /\ StreamFits'
  BY <1>1, <1>2, ConnectKeeps DEF Toasts!TypeOK, Toasts!Mounted
<1>4. AnnouncedOnce' /\ AnnouncedFalls'
  BY <1>1 DEF AlertsInv, AnnouncedOnce, AnnouncedFalls, Toasts!Mounted
<1> QED
  BY <1>3, <1>4 DEF AlertsInv

LEMMA PublishStep ==
  ASSUME Toasts!AlertsAssumption, AlertsInv, NEW r \in Toasts!Results,
         Toasts!Publish(r)
  PROVE  AlertsInv'
<1> DEFINE n == Len(stream)
<1>1. /\ stream' = Append(stream, r) /\ announced' = Append(announced, 0)
      /\ r.time <= now
      /\ \A s \in DOMAIN stream :
           stream[s].service = r.service => stream[s].time <= r.time
      /\ UNCHANGED <<now, cursor, connected, messages, loadTime, processed,
                     serviceStatus, toasts, cleared, missing, uses>>
  BY DEF Toasts!Publish, Toasts!store, Toasts!refs
<1>2. /\ Toasts!TypeOK /\ StreamFits /\ n \in Nat
      /\ stream \in Seq(Toasts!Results) /\ announced \in Seq(Nat)
      /\ Len(announced) = n /\ DOMAIN stream = 1..n /\ now \in 0..MaxClock
      /\ \A s \in 1..n : stream[s].time \in Nat
  <2>1. Toasts!TypeOK /\ StreamFits
    BY DEF AlertsInv
  <2>2. \A s \in 1..n : stream[s].time \in 0..MaxClock
    BY <2>1, AlertTypes
  <2>3. \A t \in 0..MaxClock : t \in Nat
    BY DEF Toasts!AlertsAssumption
  <2> QED
    BY <2>1, <2>2, <2>3, LenProperties DEF Toasts!TypeOK
<1>3. /\ stream' \in Seq(Toasts!Results) /\ Len(stream') = n + 1
      /\ \A s \in 1..n : stream'[s] = stream[s]
      /\ stream'[n + 1] = r
  BY <1>1, <1>2, AppendProperties
<1>4. /\ announced' \in Seq(Nat) /\ Len(announced') = n + 1
      /\ \A s \in 1..n : announced'[s] = announced[s]
      /\ announced'[n + 1] = 0
  BY <1>1, <1>2, AppendProperties
<1> HIDE DEF n
<1>5. Toasts!TypeOK'
  <2>1. 1..n \subseteq 1..(n + 1) /\ 0..n \subseteq 0..(n + 1)
    BY <1>2
  <2>2. messages \in Seq(1..n) /\ cursor \in 0..n /\ processed \subseteq 1..n
        /\ toasts \subseteq 1..n /\ missing \in 0..n
    BY <1>2 DEF Toasts!TypeOK, n
  <2>3. messages \in Seq(1..(n + 1))
    BY <2>1, <2>2, SeqMonotonic
  <2> QED
    BY <1>1, <1>2, <1>3, <1>4, <2>1, <2>2, <2>3 DEF Toasts!TypeOK
<1>6. StreamFits'
  <2>1. \A a, b \in 1..(n + 1) :
          a <= b /\ stream'[a].service = stream'[b].service =>
            stream'[a].time <= stream'[b].time
    <3> TAKE a, b \in 1..(n + 1)
    <3>1. CASE b \in 1..n /\ a \in 1..n
      BY <1>2, <1>3, <3>1 DEF StreamFits, n
    <3>2. CASE b = n + 1 /\ a \in 1..n
      BY <1>1, <1>2, <1>3, <3>2
    <3>3. CASE a = n + 1
      <4>1. r.time \in Nat
        BY DEF Toasts!Results, Toasts!AlertsAssumption
      <4> QED
        BY <1>2, <1>3, <3>3, <4>1
    <3> QED
      BY <1>2, <3>1, <3>2, <3>3
  <2>2. \A s \in 1..(n + 1) : stream'[s].time <= now
    <3> TAKE s \in 1..(n + 1)
    <3>1. s \in 1..n \/ s = n + 1
      BY <1>2
    <3> QED
      BY <1>1, <1>2, <1>3, <3>1 DEF StreamFits, n
  <2> QED
    BY <1>1, <1>2, <1>3, <2>1, <2>2 DEF StreamFits, Toasts!Mounted
<1>7. AnnouncedOnce'
  <2> SUFFICES ASSUME NEW s \in 1..(n + 1)
               PROVE  /\ announced'[s] <= 1
                      /\ /\ Toasts!Mounted /\ announced'[s] = 1
                         /\ stream'[s].time > loadTime
                         => s \in processed
    BY <1>1, <1>3 DEF AnnouncedOnce, Toasts!Mounted
  <2>1. CASE s = n + 1
    BY <1>4, <2>1
  <2>2. CASE s \in 1..n
    BY <1>3, <1>4, <2>2 DEF AlertsInv, AnnouncedOnce, n
  <2> QED
    BY <1>2, <2>1, <2>2
<1>8. AnnouncedFalls'
  <2> DEFINE Keep == KeptServices
  <2>1. /\ missing \in 0..n
        /\ Toasts!Mounted' => Toasts!Mounted
        /\ KeptServices' = Keep
    <3>1. missing \in 0..n
      BY <1>2, AlertTypes DEF n
    <3>2. \A q \in 1..missing : stream'[q] = stream[q]
      BY <1>2, <1>3, <3>1
    <3> QED
      BY <1>1, <3>1, <3>2 DEF KeptServices, Toasts!Kept, Toasts!Mounted
  <2> HIDE DEF Keep
  <2> SUFFICES ASSUME Toasts!Mounted, n + 1 <= Limit
               PROVE  \E k \in 0..(n + 1) :
                        /\ processed \cup 1..missing = 1..k
                        /\ \A v \in Keep : After(serviceStatus[v], k, v)'
                        /\ \A s \in 1..k :
                             stream'[s].service \in Keep
                             /\ stream'[s].time > loadTime =>
                               (announced'[s] > 0 <=> Toasts!Fall(s)')
    BY <1>1, <1>3, <2>1 DEF AnnouncedFalls, After
  <2>2. n <= Limit
    BY <1>2 DEF Toasts!AlertsAssumption
  <2>3. PICK k \in 0..n :
          /\ processed \cup 1..missing = 1..k
          /\ \A v \in Keep : After(serviceStatus[v], k, v)
          /\ \A s \in 1..k :
               stream[s].service \in Keep /\ stream[s].time > loadTime =>
                 (announced[s] > 0 <=> Toasts!Fall(s))
    BY <2>2 DEF AlertsInv, AnnouncedFalls, n, Keep
  <2>4. k \in 0..(n + 1) /\ \A s \in 1..k : s \in 1..n
    BY <1>2
  <2>5. ASSUME NEW s \in 1..k PROVE Toasts!Fall(s)' <=> Toasts!Fall(s)
    <3>1. s \in 1..n /\ \A q \in 1..(s - 1) : q \in 1..n
      BY <1>2
    <3>2. Toasts!Earlier(s)' = Toasts!Earlier(s)
      BY <1>3, <3>1 DEF Toasts!Earlier
    <3>3. \A q \in Toasts!Earlier(s) : stream'[q] = stream[q]
      BY <1>3, <3>1 DEF Toasts!Earlier
    <3>4. stream'[s] = stream[s]
      BY <1>3, <3>1
    <3> QED
      BY <3>2, <3>3, <3>4 DEF Toasts!Fall
  <2>6. \A v \in Keep : After(serviceStatus[v], k, v)'
    BY <1>1, <1>3, <2>3, <2>4, SMTT(60) DEF After
  <2>7. \A s \in 1..k :
          stream'[s].service \in Keep /\ stream'[s].time > loadTime =>
            (announced'[s] > 0 <=> Toasts!Fall(s)')
    BY <1>3, <1>4, <2>3, <2>4, <2>5
  <2> QED
    BY <2>3, <2>4, <2>6, <2>7
<1> QED
  BY <1>5, <1>6, <1>7, <1>8 DEF AlertsInv

(* One more result is delivered: the buffer takes it, and drops what it    *)
(* has no room for.                                                        *)
LEMMA ReceiveStep ==
  ASSUME Toasts!AlertsAssumption, AlertsInv, Toasts!Receive
  PROVE  AlertsInv'
<1> DEFINE q == Append(messages, cursor + 1)
           first == IF Len(q) > Limit THEN Len(q) - Limit + 1 ELSE 1
<1>1. /\ cursor < Len(stream) /\ cursor' = cursor + 1
      /\ UNCHANGED <<now, stream, connected, loadTime, processed,
                     serviceStatus, toasts, announced, cleared, missing, uses>>
  BY DEF Toasts!Receive, Toasts!refs, Toasts!history
<1>2. /\ Toasts!TypeOK /\ StreamFits /\ Limit \in Nat \ {0}
      /\ messages \in Seq(1..Len(stream)) /\ Len(messages) <= Limit
      /\ cursor \in Nat /\ Len(stream) \in Nat /\ Len(messages) \in Nat
      /\ cleared \in Nat /\ cleared <= cursor
  BY AlertTypes DEF AlertsInv, Toasts!TypeOK, Toasts!AlertsAssumption
<1>3. messages' = SubSeq(q, first, Len(q))
  <2>1. \A i \in 1..Len(messages) : messages[i] <= cursor
    BY <1>2 DEF StreamFits
  <2>2. ~Toasts!Contains(messages, cursor + 1)
    BY <1>2, <2>1 DEF Toasts!Contains
  <2> QED
    BY <1>1, <2>2 DEF Toasts!Receive, Toasts!Newest
<1>4. /\ q \in Seq(1..Len(stream)) /\ Len(q) = Len(messages) + 1
      /\ \A i \in 1..Len(messages) : q[i] = messages[i]
      /\ q[Len(messages) + 1] = cursor + 1
  <2>1. cursor + 1 \in 1..Len(stream)
    BY <1>1, <1>2
  <2> QED
    BY <1>2, <2>1, AppendProperties
<1>5. \A i \in 1..Len(q) : q[i] = cursor + 1 - Len(q) + i
  <2> TAKE i \in 1..Len(q)
  <2>1. i \in 1..Len(messages) \/ i = Len(messages) + 1
    BY <1>2, <1>4
  <2>2. CASE i \in 1..Len(messages)
    <3>1. q[i] = cursor - Len(messages) + i
      BY <1>2, <1>4, <2>2 DEF StreamFits
    <3> QED
      BY <1>2, <1>4, <3>1
  <2>3. CASE i = Len(messages) + 1
    BY <1>2, <1>4, <2>3
  <2> QED
    BY <2>1, <2>2, <2>3
<1> HIDE DEF q
<1>6. /\ Len(q) \in Nat /\ first \in 1..Len(q) + 1 /\ Len(q) \in 0..Len(q)
      /\ Len(q) - first + 1 = IF Len(q) > Limit THEN Limit ELSE Len(q)
      /\ first <= Len(q)
  BY <1>2, <1>4
<1> HIDE DEF first
<1>7. /\ messages' \in Seq(1..Len(stream))
      /\ Len(messages') = Len(q) - first + 1
      /\ \A i \in 1..Len(q) - first + 1 : messages'[i] = q[first + i - 1]
  <2>1. \A i \in first..Len(q) : q[i] \in 1..Len(stream)
    <3>1. q \in [1..Len(q) -> 1..Len(stream)]
      BY <1>4, LenProperties
    <3> QED
      BY <1>6, <3>1
  <2> QED
    BY <1>3, <1>6, <2>1, SubSeqProperties
<1>8. StreamFits'
  <2>1. Len(messages') = IF cursor' - cleared' <= Limit
                         THEN cursor' - cleared' ELSE Limit
    BY <1>1, <1>2, <1>4, <1>6, <1>7 DEF StreamFits
  <2>2. ASSUME NEW i \in 1..Len(messages')
        PROVE  messages'[i] = cursor' - Len(messages') + i
    <3>1. /\ i \in 1..Len(q) - first + 1 /\ first + i - 1 \in 1..Len(q)
          /\ i \in Nat /\ first \in Nat
      BY <1>6, <1>7
    <3>2. messages'[i] = cursor + 1 - Len(q) + (first + i - 1)
      BY <1>5, <1>7, <3>1
    <3> QED
      BY <1>1, <1>2, <1>6, <1>7, <3>1, <3>2
  <2>3. /\ \A a, b \in 1..Len(stream') :
             a <= b /\ stream'[a].service = stream'[b].service =>
               stream'[a].time <= stream'[b].time
        /\ \A s \in 1..Len(stream') : stream'[s].time <= now'
        /\ Toasts!Mounted' => cleared' = 0 \/ cleared' = missing'
    BY <1>1, <1>2 DEF StreamFits, Toasts!Mounted
  <2> QED
    BY <2>1, <2>2, <2>3 DEF StreamFits
<1>9. Toasts!TypeOK'
  <2>1. /\ Len(messages') <= Limit /\ cursor' \in 0..Len(stream)
        /\ cleared' \in 0..cursor'
    BY <1>1, <1>2, <1>6, <1>7
  <2> QED
    BY <1>1, <1>2, <1>7, <2>1 DEF Toasts!TypeOK
<1>10. AnnouncedOnce' /\ AnnouncedFalls'
  BY <1>1, SMTT(60) DEF AlertsInv, AnnouncedOnce, AnnouncedFalls, Toasts!Mounted,
    KeptServices, Toasts!Kept, After, Toasts!Fall, Toasts!Earlier
<1> QED
  BY <1>2, <1>8, <1>9, <1>10 DEF AlertsInv

(* The clock, a lost connection and a toast that is closed change nothing  *)
(* that the others rely on.                                                *)
LEMMA QuietSteps ==
  ASSUME Toasts!AlertsAssumption, AlertsInv,
         \/ Toasts!Lost \/ Toasts!Tick
         \/ \E s \in toasts : Toasts!RemoveToast(s)
         \/ UNCHANGED Toasts!vars
  PROVE  AlertsInv'
<1>1. /\ UNCHANGED <<stream, cursor, messages, loadTime, processed,
                     serviceStatus, announced, cleared, missing>>
      /\ now' \in 0..MaxClock /\ now' >= now
      /\ connected' \in BOOLEAN /\ uses' \in 0..MaxSteps
      /\ toasts' \subseteq toasts
  <2>1. /\ now \in 0..MaxClock /\ connected \in BOOLEAN
        /\ uses \in 0..MaxSteps /\ MaxClock \in Nat /\ MaxSteps \in Nat
    BY DEF AlertsInv, Toasts!TypeOK, Toasts!AlertsAssumption
  <2>2. CASE Toasts!Lost
    <3>1. /\ connected' = FALSE /\ uses < MaxSteps /\ uses' = uses + 1
          /\ UNCHANGED <<now, stream, cursor, messages, loadTime, processed,
                         serviceStatus, toasts, announced, cleared, missing>>
      BY <2>2 DEF Toasts!Lost, Toasts!Use, Toasts!refs, Toasts!history
    <3>2. now' \in 0..MaxClock /\ now' >= now /\ uses' \in 0..MaxSteps
      BY <2>1, <3>1
    <3>3. connected' \in BOOLEAN
      BY <3>1
    <3> QED
      BY <3>1, <3>2, <3>3
  <2>3. CASE Toasts!Tick
    BY <2>1, <2>3 DEF Toasts!Tick, Toasts!store, Toasts!refs, Toasts!history
  <2>4. CASE \E s \in toasts : Toasts!RemoveToast(s)
    BY <2>1, <2>4 DEF Toasts!RemoveToast, Toasts!store, Toasts!refs,
      Toasts!history
  <2>5. CASE UNCHANGED Toasts!vars
    BY <2>1, <2>5 DEF Toasts!vars, Toasts!store, Toasts!refs,
      Toasts!history
  <2> QED
    BY <2>2, <2>3, <2>4, <2>5
<1>2. Toasts!TypeOK'
  BY <1>1 DEF AlertsInv, Toasts!TypeOK
<1>3. StreamFits'
  <2>1. \A s \in 1..Len(stream) : stream[s].time <= now'
    <3> TAKE s \in 1..Len(stream)
    <3>1. stream[s].time \in Nat /\ now \in Nat /\ now' \in Nat
      BY <1>1, AlertTypes DEF AlertsInv, Toasts!TypeOK,
        Toasts!AlertsAssumption
    <3> QED
      BY <1>1, <3>1 DEF AlertsInv, StreamFits
  <2> QED
    BY <1>1, <2>1 DEF AlertsInv, StreamFits, Toasts!Mounted
<1>4. AnnouncedOnce'
  BY <1>1 DEF AlertsInv, AnnouncedOnce, Toasts!Mounted
<1>5. AnnouncedFalls'
  BY <1>1, SMTT(60) DEF AlertsInv, AnnouncedFalls, KeptServices, Toasts!Kept,
    Toasts!Mounted, After, Toasts!Fall, Toasts!Earlier
<1> QED
  BY <1>2, <1>3, <1>4, <1>5 DEF AlertsInv

(* The buffer is cleared while the page is away: all that was delivered is *)
(* missing from it then, and nothing else changes.                         *)
LEMMA ClearStep ==
  ASSUME Toasts!AlertsAssumption, AlertsInv, Toasts!clearMessages
  PROVE  AlertsInv'
<1>1. /\ ~Toasts!Mounted /\ messages' = <<>> /\ cleared' = cursor
      /\ uses' \in 0..MaxSteps
      /\ UNCHANGED <<now, stream, cursor, connected, loadTime, processed,
                     serviceStatus, toasts, announced, missing>>
  BY DEF Toasts!clearMessages, Toasts!Use, Toasts!refs, AlertsInv,
    Toasts!TypeOK, Toasts!AlertsAssumption
<1>2. /\ Toasts!TypeOK /\ StreamFits /\ cursor \in Nat
      /\ messages' \in Seq(1..Len(stream)) /\ Len(messages') = 0
      /\ Limit \in Nat \ {0}
  BY <1>1, AlertTypes, EmptySeq DEF AlertsInv, Toasts!AlertsAssumption
<1>3. Toasts!TypeOK'
  <2>1. cleared' \in 0..cursor' /\ Len(messages') <= Limit
    BY <1>1, <1>2
  <2> QED
    BY <1>1, <1>2, <2>1 DEF Toasts!TypeOK
<1>4. StreamFits'
  BY <1>1, <1>2 DEF StreamFits, Toasts!Mounted
<1>5. AnnouncedOnce' /\ AnnouncedFalls'
  BY <1>1 DEF AlertsInv, AnnouncedOnce, AnnouncedFalls, Toasts!Mounted
<1> QED
  BY <1>3, <1>4, <1>5 DEF AlertsInv

LEMMA AlertsKeep ==
  ASSUME Toasts!AlertsAssumption, AlertsInv, [Toasts!Next]_Toasts!vars
  PROVE  AlertsInv'
BY PublishStep, ReceiveStep, ClearStep, EffectStep, MountStep, LeaveHealth,
  QuietSteps DEF Toasts!Next

(* What the page has seen is then the whole stream. *)
LEMMA AlertsTell ==
  ASSUME Toasts!AlertsAssumption, AlertsInv
  PROVE  Toasts!NoRepeatedAlert /\ Toasts!FallsAreAnnounced
<1>1. Toasts!TypeOK /\ StreamFits /\ AnnouncedOnce /\ AnnouncedFalls
  BY DEF AlertsInv
<1>2. Toasts!NoRepeatedAlert
  BY <1>1, AlertTypes DEF Toasts!NoRepeatedAlert, AnnouncedOnce
<1>3. Toasts!FallsAreAnnounced
  <2> SUFFICES ASSUME Toasts!Mounted, Len(stream) <= Limit,
                      cursor = Len(stream),
                      Toasts!ToSet(messages) \subseteq processed
               PROVE  \A s \in 1..Len(stream) :
                        stream[s].time > loadTime
                        /\ Toasts!Kept(stream[s].service) =>
                          (announced[s] > 0 <=> Toasts!Fall(s))
    BY <1>1, LenProperties DEF Toasts!FallsAreAnnounced, Toasts!TypeOK
  <2>1. PICK k \in 0..Len(stream) :
          /\ processed \cup 1..missing = 1..k
          /\ \A s \in 1..k :
               stream[s].service \in KeptServices
               /\ stream[s].time > loadTime =>
                 (announced[s] > 0 <=> Toasts!Fall(s))
    BY <1>1 DEF AnnouncedFalls
  <2>2. 1..Len(stream) \subseteq 1..k
    <3>1. /\ Toasts!ToSet(messages) = (cleared + 1)..Len(stream)
          /\ cleared = 0 \/ cleared = missing
          /\ cleared \in Nat /\ Len(stream) \in Nat
      BY <1>1, BufferInStream, AlertTypes DEF StreamFits
    <3>2. \A s \in 1..Len(stream) :
            s \in 1..missing \/ s \in (cleared + 1)..Len(stream)
      BY <1>1, <3>1, AlertTypes
    <3> QED
      BY <2>1, <3>1, <3>2
  <2>3. \A s \in 1..Len(stream) :
          Toasts!Kept(stream[s].service) => stream[s].service \in KeptServices
    BY <1>1, AlertTypes DEF KeptServices
  <2> QED
    BY <2>1, <2>2, <2>3
<1> QED
  BY <1>2, <1>3

(* However the results are batched, delayed or replayed, a fall raises one *)
(* toast: none is announced twice, by whatever connections and visits of   *)
(* the page, and with room for all in the buffer those announced since the *)
(* page load are exactly the falls, of every service that the user had     *)
(* cleared no result of when the page was mounted (updateHealthChecks,     *)
(* clearMessages and toast.ts).                                            *)
THEOREM AlertsAlwaysFit == Spec => []AlertsFit
<1>1. Init => (part = "alerts" => AlertsInv)
  BY WebAssumption, AlertsInitially DEF Init, WebAssumption
<1>2. (part = "alerts" => AlertsInv) /\ [Next]_vars
        => (part = "alerts" => AlertsInv)'
  <2> SUFFICES ASSUME part = "alerts" => AlertsInv, [Next]_vars,
                      part' = "alerts"
               PROVE  AlertsInv'
    OBVIOUS
  <2>1. part = "alerts" /\ [Toasts!Next]_Toasts!vars
    BY DEF Next, SavesStep, SessionStep, AlertsStep, vars, alertVars,
      Toasts!vars, Toasts!store, Toasts!refs, Toasts!history
  <2> QED
    BY <2>1, WebAssumption, AlertsKeep DEF WebAssumption
<1>3. (part = "alerts" => AlertsInv) => AlertsFit
  BY WebAssumption, AlertsTell DEF WebAssumption, AlertsInv, AlertsFit
<1> QED
  BY <1>1, <1>2, <1>3, PTL DEF Spec
=============================================================================
