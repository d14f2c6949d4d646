-------------------------------- MODULE Web ---------------------------------
(***************************************************************************)
(* The pages of the web interface: team settings, who is signed in,        *)
(* alerts.  These parts share no state: one of them is picked at the start *)
(* and runs as its module says; the variables of the others stay None.     *)
(***************************************************************************)
EXTENDS Integers, Sequences

CONSTANTS
  Teams, None,
  Pages, Slots, Texts, Blank, MaxSaves,              \* TeamSettings
  Tabs, Life, Buffer, Skews, MaxTime, MaxUses,       \* Session
  Services, Limit, MaxLag, MaxClock, MaxResults, MaxSteps   \* Alerts

VARIABLES
  part,
  settings, user, state, cards, values, saving, requests, saves, base, edited,
  handled,                                                  \* TeamSettings
  now, skew, creds, page, step, loaded, request, uses, signedIn,  \* Session
  stream, cursor, connected, messages, loadTime, processed, serviceStatus,
  toasts, announced, cleared, missing              \* Alerts, and now and uses

saveVars == <<settings, user, state, cards, values, saving, requests, saves,
              base, edited, handled>>
sessionVars == <<skew, creds, page, step, loaded, request, signedIn>>
alertVars == <<stream, cursor, connected, messages, loadTime, processed,
               serviceStatus, toasts, announced, cleared, missing>>
vars == <<part, now, uses, saveVars, sessionVars, alertVars>>

Saves == INSTANCE TeamSettings
SignIn == INSTANCE Session
Toasts == INSTANCE Alerts WITH MaxTime <- MaxClock, MaxUses <- MaxSteps

ASSUME WebAssumption ==
  /\ Saves!TeamSettingsAssumption
  /\ SignIn!SessionAssumption /\ Toasts!AlertsAssumption
-----------------------------------------------------------------------------
NoSaves == /\ settings = None /\ user = None /\ state = None /\ cards = None
           /\ values = None /\ saving = None /\ requests = None
           /\ saves = None /\ base = None /\ edited = None /\ handled = None
NoSession == /\ skew = None /\ creds = None /\ page = None /\ step = None
             /\ loaded = None /\ request = None /\ signedIn = None
NoAlerts == /\ stream = None /\ cursor = None /\ connected = None
            /\ messages = None /\ loadTime = None /\ processed = None
            /\ serviceStatus = None /\ toasts = None /\ announced = None
            /\ cleared = None /\ missing = None

Init ==
  \/ /\ part = "saves" /\ Saves!Init /\ now = None /\ uses = None
     /\ NoSession /\ NoAlerts
  \/ /\ part = "session" /\ SignIn!Init /\ NoSaves /\ NoAlerts
  \/ /\ part = "alerts" /\ Toasts!Init /\ NoSaves /\ NoSession

SavesStep ==
  /\ part = "saves" /\ Saves!Next
  /\ UNCHANGED <<part, now, uses, sessionVars, alertVars>>
SessionStep ==
  /\ part = "session" /\ SignIn!Next
  /\ UNCHANGED <<part, saveVars, alertVars>>
AlertsStep ==
  /\ part = "alerts" /\ Toasts!Next
  /\ UNCHANGED <<part, saveVars, sessionVars>>

Next == SavesStep \/ SessionStep \/ AlertsStep
Spec == Init /\ [][Next]_vars

-----------------------------------------------------------------------------
(* A save changes what the user edited and nothing else; see TeamSettings. *)
SaveKeepsUnedited == part = "saves" => Saves!TypeOK /\ Saves!SaveKeepsUnedited

(* A save that its page waits for is the newest of the page; one that was  *)
(* given up may come late.  See TeamSettings.                              *)
SavesInOrder == part = "saves" => Saves!SavesInOrder

(* The page shown, and the settings on it, are for one who was signed in   *)
(* since the page's guard began; see Session.                              *)
ShownFits ==
  part = "session" => SignIn!TypeOK /\ SignIn!ShownFits /\ SignIn!SettingsAreOwn

(* A result raises a toast at most once, and every fall that the page has  *)
(* seen raised one, unless results of the service were cleared before; see *)
(* Alerts.                                                                 *)
AlertsFit ==
  part = "alerts" => /\ Toasts!TypeOK /\ Toasts!NoRepeatedAlert
                     /\ Toasts!FallsAreAnnounced
=============================================================================
