---------------------------- MODULE TeamSettings ----------------------------
(***************************************************************************)
(* A team edits its settings: the page SettingsView loads the whole object *)
(* of the team, the user edits fields, and Save sends the whole object     *)
(* back; the handler TeamSettings stores it under the team of the token.   *)
(* The token is the browser's: every page of it uses the one that is in    *)
(* localStorage when it makes a request.                                   *)
(***************************************************************************)
EXTENDS Naturals, FiniteSets

CONSTANTS
  Pages,    \* tabs that show the settings page, now and then
  Teams,
  Slots,    \* the mutable fields of the checks: pairs of check and field
  Texts,    \* what can be written in one, besides nothing
  Blank,    \* nothing, or spaces only
  None,
  MaxSaves  \* bound: saves sent

TeamSettingsAssumption ==
  /\ Blank \notin Texts /\ None \notin Teams \cup Pages
  /\ MaxSaves \in Nat

VARIABLES
  settings,  \* team -> slot -> text: the keys "<team>.settings"
  user,      \* the team of the token in localStorage, or None
  state,     \* page -> closed, fields, settings or ready
  cards,     \* page -> the mutable fields are known, and shown
  values,    \* page -> slot -> text: fieldValues
  saving,    \* page -> its Save button is disabled
  requests,  \* PUT requests on their way
  saves,     \* saves sent, which number the requests
  base,      \* history: page -> what it loaded, and for which team
  edited,    \* history: page -> the slots edited since it was opened
  handled    \* history: page and time of its opening -> newest save stored

pageVars == <<state, cards, values, saving>>
vars == <<settings, user, pageVars, requests, saves, base, edited, handled>>

Maps(S, T) == UNION {[D -> T] : D \in SUBSET S}
Nothing == [s \in {} |-> Blank]
NotLoaded == [team |-> None, values |-> Nothing]
Blanks == [s \in Slots |-> Blank]
ValueIn(m, s) == IF s \in DOMAIN m THEN m[s] ELSE Blank

getSanitizedSettingsPayload(m) ==
  [s \in {t \in DOMAIN m : m[t] # Blank} |-> m[s]]

-----------------------------------------------------------------------------
(* The page. *)

(* A page is mounted only for a signed-in user. *)
Mount(p) ==
  /\ state[p] = "closed" /\ user # None
  /\ state' = [state EXCEPT ![p] = "fields"]
  /\ UNCHANGED <<settings, user, cards, values, saving, requests, saves, base,
                 edited, handled>>

(* getMutableFields; without it the page stays empty. *)
FieldsAnswer(p) ==
  /\ state[p] = "fields"
  /\ \/ /\ user # None
        /\ state' = [state EXCEPT ![p] = "settings"]
        /\ cards' = [cards EXCEPT ![p] = TRUE]
     \/ /\ state' = [state EXCEPT ![p] = "ready"]
        /\ UNCHANGED cards
  /\ UNCHANGED <<settings, user, values, saving, requests, saves, base,
                 edited, handled>>

(* getTeamSettings. *)
SettingsAnswer(p) ==
  /\ state[p] = "settings" /\ user # None
  /\ state' = [state EXCEPT ![p] = "ready"]
  /\ values' = [values EXCEPT ![p] = IF settings[user] = Nothing THEN Blanks
                                     ELSE settings[user]]
  /\ base' = [base EXCEPT ![p] = [team |-> user, values |-> settings[user]]]
  /\ UNCHANGED <<settings, user, cards, saving, requests, saves, edited,
                 handled>>

(* The settings cannot be had: the page goes on with empty ones. *)
SettingsFail(p) ==
  /\ state[p] = "settings"
  /\ state' = [state EXCEPT ![p] = "ready"]
  /\ values' = [values EXCEPT ![p] = Blanks]
  /\ UNCHANGED <<settings, user, cards, saving, requests, saves, base,
                 edited, handled>>

(* Mutant: the other fields of the page are forgotten. *)
handleFieldChange_Only(p, s, text) ==
  /\ state[p] = "ready" /\ cards[p]
  /\ values' = [values EXCEPT ![p] = [t \in {s} |-> text]]
  /\ edited' = [edited EXCEPT ![p] = @ \cup {s}]
  /\ UNCHANGED <<settings, user, state, cards, saving, requests, saves, base,
                 handled>>

handleFieldChange(p, s, text) ==
  /\ state[p] = "ready" /\ cards[p]
  /\ values' = [values EXCEPT ![p] =
                  [t \in DOMAIN @ \cup {s} |-> IF t = s THEN text ELSE @[t]]]
  /\ edited' = [edited EXCEPT ![p] = @ \cup {s}]
  /\ UNCHANGED <<settings, user, state, cards, saving, requests, saves, base,
                 handled>>

Send(p) ==
  /\ saves' = saves + 1
  /\ requests' = requests \cup
       {[id |-> saves + 1, page |-> p, team |-> user,
         payload |-> getSanitizedSettingsPayload(values[p]),
         base |-> base[p], edited |-> edited[p]]}

(* Mutant: Save is not disabled while a save is on its way. *)
handleSaveAll_Always(p) ==
  /\ state[p] # "closed" /\ user # None /\ saves < MaxSaves
  /\ Send(p)
  /\ UNCHANGED <<settings, user, state, cards, values, saving, base, edited,
                 handled>>

(* The button is there from the start, also before anything is loaded;     *)
(* without a token the request is not made.                                *)
handleSaveAll(p) ==
  /\ state[p] # "closed" /\ ~saving[p]
  /\ user # None /\ saves < MaxSaves
  /\ Send(p)
  /\ saving' = [saving EXCEPT ![p] = TRUE]
  /\ UNCHANGED <<settings, user, state, cards, values, base, edited, handled>>

(* A request that no page waits for any more.  It is what it was when it   *)
(* was sent; its history is forgotten.                                     *)
Orphan(r) == [r EXCEPT !.page = None, !.base = NotLoaded, !.edited = {}]

Orphans(p) == {IF r.page = p THEN Orphan(r) ELSE r : r \in requests}

(* The user leaves the page and its state is lost; the request it has sent *)
(* stays on its way.                                                       *)
Unmount(p) ==
  /\ state[p] # "closed"
  /\ state' = [state EXCEPT ![p] = "closed"]
  /\ requests' = Orphans(p)
  /\ cards' = [cards EXCEPT ![p] = FALSE]
  /\ values' = [values EXCEPT ![p] = Nothing]
  /\ saving' = [saving EXCEPT ![p] = FALSE]
  /\ base' = [base EXCEPT ![p] = NotLoaded]
  /\ edited' = [edited EXCEPT ![p] = {}]
  /\ handled' = [handled EXCEPT ![p] = 0]
  /\ UNCHANGED <<settings, user, saves>>

-----------------------------------------------------------------------------
(* The handler, and the network. *)

(* PUT: stored under the team of the token; the page hears of it. *)
Put(r) ==
  /\ r \in requests
  /\ settings' = [settings EXCEPT ![r.team] = r.payload]
  /\ requests' = requests \ {r}
  /\ IF r.page = None THEN UNCHANGED <<saving, handled>>
     ELSE /\ saving' = [saving EXCEPT ![r.page] = FALSE]
          /\ handled' = [handled EXCEPT ![r.page] = r.id]
  /\ UNCHANGED <<user, state, cards, values, saves, base, edited>>

(* The request fails: before it was handled, or the answer is lost, or it  *)
(* is given up and may still be handled.                                   *)
PutFails(r) ==
  /\ r \in requests
  /\ \/ requests' = requests \ {r} /\ UNCHANGED settings
     \/ /\ requests' = requests \ {r}
        /\ settings' = [settings EXCEPT ![r.team] = r.payload]
     \/ /\ r.page # None
        /\ requests' = Orphans(r.page) /\ UNCHANGED settings
  /\ IF r.page = None THEN UNCHANGED saving
     ELSE saving' = [saving EXCEPT ![r.page] = FALSE]
  /\ UNCHANGED <<user, state, cards, values, saves, base, edited, handled>>

(* In any page of the browser: a user signs in, signs out or the token     *)
(* expires; the settings pages that are open stay.                         *)
SwitchUser ==
  /\ user' \in {None} \cup (IF user = None THEN Teams ELSE {})
  /\ UNCHANGED <<settings, pageVars, requests, saves, base, edited, handled>>

Next ==
  \/ \E p \in Pages :
       \/ Mount(p) \/ FieldsAnswer(p) \/ SettingsAnswer(p) \/ SettingsFail(p)
       \/ \E s \in Slots, text \in Texts \cup {Blank} :
            handleFieldChange(p, s, text)
       \/ handleSaveAll(p) \/ Unmount(p)
  \/ \E r \in requests : Put(r) \/ PutFails(r)
  \/ SwitchUser

Init ==
  /\ settings \in [Teams -> Maps(Slots, Texts)]
  /\ user = None
  /\ state = [p \in Pages |-> "closed"]
  /\ cards = [p \in Pages |-> FALSE]
  /\ values = [p \in Pages |-> Nothing]
  /\ saving = [p \in Pages |-> FALSE]
  /\ requests = {} /\ saves = 0
  /\ base = [p \in Pages |-> NotLoaded]
  /\ edited = [p \in Pages |-> {}]
  /\ handled = [p \in Pages |-> 0]

Spec == Init /\ [][Next]_vars

-----------------------------------------------------------------------------
(* No blank value is ever stored or sent: a blank override would replace   *)
(* the check's own value.                                                  *)
TypeOK ==
  /\ settings \in [Teams -> Maps(Slots, Texts)]
  /\ user \in Teams \cup {None}
  /\ state \in [Pages -> {"closed", "fields", "settings", "ready"}]
  /\ \A p \in Pages : values[p] \in Maps(Slots, Texts \cup {Blank})
  /\ \A r \in requests : r.payload \in Maps(Slots, Texts) /\ r.team \in Teams

(* A save from a page that had loaded the settings of the team it saves    *)
(* for sends every field not edited on that page as it was loaded: if      *)
(* nobody else has saved since, the save changes no other field.           *)
SaveKeepsUnedited == \A r \in requests :
  r.base.team = r.team =>
    \A s \in Slots \ r.edited :
      ValueIn(r.payload, s) = ValueIn(r.base.values, s)

(* While a page waits for the answer to a save, no later save of that page *)
(* has been handled.  A request that the page does not wait for any more,  *)
(* as it was given up or the page was left, is not meant: it may still     *)
(* arrive after a newer save, and overwrite it.                            *)
SavesInOrder == \A r \in requests : r.page # None => r.id > handled[r.page]
=============================================================================
