---------------------------- MODULE SettingsSync ----------------------------
(***************************************************************************)
(* An agent's copy of the settings bucket: agent.Run opens a watcher for   *)
(* "check.*" and one per team, and Settings.MonitorSettings applies what   *)
(* they report to the cached checks and team attributes.                   *)
(*                                                                         *)
(* The cache maps a key to the revision it was loaded from, 0 when it is   *)
(* absent.                                                                 *)
(***************************************************************************)
EXTENDS KVWatch

CONSTANTS
  WatchList,  \* the agent's watchers in the order they are created
  MaxStops    \* bound: times the agent stops

(* "check.*" and "<team>.settings" of different teams (ParseTeams drops a  *)
(* team that is named twice) have no key in common.                        *)
ASSUME SyncAssumption ==
  /\ WatchList \in Seq(Watchers)
  /\ \A i, j \in DOMAIN WatchList :
       i # j => /\ WatchList[i] # WatchList[j]
                /\ Pattern[WatchList[i]] \cap Pattern[WatchList[j]] = {}
  /\ MaxStops \in Nat

VARIABLES
  pc,                \* "down", "setup" (creating watchers) or "monitor"
  created,           \* watchers created so far
  pendingInit,       \* watchers whose marker has not been seen
  startUpCompleted,  \* every watcher has reported its marker
  cache,             \* Checks and Attributes
  stops,             \* history: times the agent stopped
  completedAt        \* history: each cursor when the start-up completed

agentVars == <<pc, created, pendingInit, startUpCompleted, cache, stops,
               completedAt>>
vars == <<kvVars, agentVars>>

AgentWatchers == {WatchList[i] : i \in DOMAIN WatchList}

NoCache == [k \in Keys |-> 0]
NoCursors == [w \in Watchers |-> 0]

-----------------------------------------------------------------------------
(* Run: connected, the next watcher is created ... *)
Connect ==
  /\ pc = "down"
  /\ pc' = "setup"
  /\ created' = 0
  /\ UNCHANGED <<kvVars, pendingInit, startUpCompleted, cache, stops,
                 completedAt>>

CreateWatcher ==
  /\ pc = "setup" /\ created < Len(WatchList)
  /\ created' = created + 1
  /\ LET w == WatchList[created']
     IN  watch' = [watch EXCEPT ![w] = Opened(w)]
  /\ UNCHANGED <<log, pc, pendingInit, startUpCompleted, cache, stops,
                 completedAt>>

(* ... and when all are, MonitorSettings starts on an empty cache. *)
BeginMonitor ==
  /\ pc = "setup" /\ created = Len(WatchList)
  /\ pc' = "monitor"
  /\ pendingInit' = Len(WatchList)
  /\ startUpCompleted' = (pendingInit' = 0)
  /\ UNCHANGED <<kvVars, created, cache, stops, completedAt>>

(* The agent stops: the context is cancelled, a watcher could not be       *)
(* created, or its channel was closed, which ends MonitorSettings even     *)
(* though the other watchers go on.  Close stops the watchers, and the     *)
(* settings are gone with the process.                                     *)
Stop ==
  /\ pc # "down" /\ stops < MaxStops
  /\ pc' = "down"
  /\ stops' = stops + 1
  /\ watch' = [w \in Watchers |->
                 IF w \in AgentWatchers THEN Closed ELSE watch[w]]
  /\ created' = 0 /\ pendingInit' = 0 /\ startUpCompleted' = FALSE
  /\ cache' = NoCache
  /\ completedAt' = NoCursors
  /\ UNCHANGED log

-----------------------------------------------------------------------------
(* A value that the cache can take. *)
Usable(r) == OpOf(r) \in {"put", "freq0"}

(* MonitorSettings: mergeWatchers hands over the next update of any of the *)
(* watchers.                                                               *)
Monitoring(w) == pc = "monitor" /\ w \in AgentWatchers

HandleMarker(w) ==
  /\ Monitoring(w)
  /\ TakeMarker(w)
  /\ pendingInit' = pendingInit - 1
  /\ startUpCompleted' = (startUpCompleted \/ pendingInit' = 0)
  /\ completedAt' = IF pendingInit' = 0
                    THEN [v \in Watchers |-> watch[v].cursor]
                    ELSE completedAt
  /\ UNCHANGED <<log, pc, created, cache, stops>>

(* Mutant: puts are skipped during the start-up, as removals are. *)
HandlePut_Live(w, r) ==
  /\ Monitoring(w)
  /\ NextEntry(w, r) /\ Usable(r)
  /\ Advance(w, r)
  /\ cache' = IF startUpCompleted THEN [cache EXCEPT ![KeyOf(r)] = r]
              ELSE cache
  /\ UNCHANGED <<log, pc, created, pendingInit, startUpCompleted, stops,
                 completedAt>>

(* A check or a team's attributes are replaced. *)
HandlePut(w, r) ==
  /\ Monitoring(w)
  /\ NextEntry(w, r) /\ Usable(r)
  /\ Advance(w, r)
  /\ cache' = [cache EXCEPT ![KeyOf(r)] = r]
  /\ UNCHANGED <<log, pc, created, pendingInit, startUpCompleted, stops,
                 completedAt>>

(* Mutant: a value that does not unmarshal still clears the old one. *)
SkipBadEntry_Clears(w, r) ==
  /\ Monitoring(w)
  /\ NextEntry(w, r) /\ OpOf(r) = "bad"
  /\ Advance(w, r)
  /\ cache' = [cache EXCEPT ![KeyOf(r)] = 0]
  /\ UNCHANGED <<log, pc, created, pendingInit, startUpCompleted, stops,
                 completedAt>>

(* A value that is oversized or does not unmarshal is skipped: the check   *)
(* or the attributes loaded before stay in use.                            *)
SkipBadEntry(w, r) ==
  /\ Monitoring(w)
  /\ NextEntry(w, r) /\ OpOf(r) = "bad"
  /\ Advance(w, r)
  /\ UNCHANGED <<log, agentVars>>

(* Mutant: the entry being removed is looked up in the bucket afterwards,  *)
(* and the removal is skipped when the key exists again.                   *)
HandleRemove_Recheck(w, r) ==
  /\ Monitoring(w)
  /\ NextEntry(w, r) /\ ~IsPut(r)
  /\ Advance(w, r)
  /\ cache' = IF startUpCompleted /\ IsLast(r, Len(log))
              THEN [cache EXCEPT ![KeyOf(r)] = 0]
              ELSE cache
  /\ UNCHANGED <<log, pc, created, pendingInit, startUpCompleted, stops,
                 completedAt>>

(* A removal (any operation but a put) drops the entry, but is skipped     *)
(* until the start-up has completed.                                       *)
HandleRemove(w, r) ==
  /\ Monitoring(w)
  /\ NextEntry(w, r) /\ ~IsPut(r)
  /\ Advance(w, r)
  /\ cache' = IF startUpCompleted THEN [cache EXCEPT ![KeyOf(r)] = 0]
              ELSE cache
  /\ UNCHANGED <<log, pc, created, pendingInit, startUpCompleted, stops,
                 completedAt>>

Handle(w) ==
  \/ HandleMarker(w)
  \/ \E r \in Revisions :
       HandlePut(w, r) \/ SkipBadEntry(w, r) \/ HandleRemove(w, r)

-----------------------------------------------------------------------------
Init ==
  /\ KVInit
  /\ pc = "down" /\ created = 0
  /\ pendingInit = 0 /\ startUpCompleted = FALSE
  /\ cache = NoCache
  /\ stops = 0 /\ completedAt = NoCursors

Next ==
  \/ \E k \in Keys, op \in Ops : Update(k, op) /\ UNCHANGED agentVars
  \/ \E w \in Watchers : FirstDelivery(w) /\ UNCHANGED agentVars
  \/ Connect \/ CreateWatcher \/ BeginMonitor \/ Stop
  \/ \E w \in Watchers : Handle(w)

Spec == Init /\ [][Next]_vars

(* A stopped agent is started again; JetStream delivers; the select in     *)
(* each goroutine and in MonitorSettings always takes some ready case, and *)
(* a goroutine blocked on the merged channel is served in turn.            *)
Fairness ==
  /\ WF_vars(Connect) /\ WF_vars(CreateWatcher) /\ WF_vars(BeginMonitor)
  /\ \A w \in Watchers :
       /\ WF_vars(FirstDelivery(w) /\ UNCHANGED agentVars)
       /\ WF_vars(Handle(w))

FairSpec == Spec /\ Fairness

-----------------------------------------------------------------------------
TypeOK ==
  /\ KVTypeOK
  /\ pc \in {"down", "setup", "monitor"}
  /\ created \in 0..Len(WatchList)
  /\ pendingInit \in 0..Len(WatchList)
  /\ startUpCompleted \in BOOLEAN
  /\ cache \in [Keys -> Nat]
  /\ stops \in 0..MaxStops
  /\ completedAt \in [Watchers -> Nat]

(* The revisions of k that w has read so far. *)
ReadBy(w, k) ==
  {r \in 1..watch[w].cursor : r <= Len(log) /\ KeyOf(r) = k /\ SentTo(w, r)}

(* Start-up ends exactly when every watcher has reported its marker, the   *)
(* shared counter notwithstanding: no marker is counted twice, none is     *)
(* missed, and no live update is taken for one.                            *)
StartUpCountsMarkers ==
  pc = "monitor" =>
    /\ pendingInit = Cardinality({w \in AgentWatchers : ~watch[w].marked})
    /\ startUpCompleted <=> \A w \in AgentWatchers : watch[w].marked

(* What the cache holds comes from the newest valid put that was read:     *)
(* merging the watchers loses or reorders no update of a key, and a value  *)
(* that cannot be used leaves the one before it in place.                  *)
NewestPutIsLoaded ==
  pc = "monitor" =>
    \A w \in AgentWatchers : \A k \in Pattern[w] : \A r \in ReadBy(w, k) :
      Usable(r) /\ (\A q \in ReadBy(w, k) : Usable(q) => q <= r)
        => \/ cache[k] = r
           \/ cache[k] = 0 /\ \E q \in ReadBy(w, k) : q > r /\ ~IsPut(q)

(* The cache outlives a removal only if the removal was read before the    *)
(* start-up completed; once it has, every removal takes effect.            *)
StaleOnlyFromStartUp ==
  \A w \in AgentWatchers : \A k \in Pattern[w] : \A r \in ReadBy(w, k) :
    cache[k] # 0 /\ cache[k] < r /\ ~IsPut(r) /\ startUpCompleted
      => r <= completedAt[w]

(* A check or setting that is put and not overwritten reaches the cache of *)
(* the agent, whatever watchers are created, restarted or interleaved.     *)
PutIsLoaded ==
  \A k \in Keys : \A r \in 1..MaxUpdates :
    r \in Revisions /\ KeyOf(r) = k /\ OpOf(r) = "put"
      ~> cache[k] = r \/ ~IsLast(r, Len(log))

(* What the comment in MonitorSettings says: "If the check is removed drop *)
(* from the list of loaded checks".                                        *)
RemovedIsDropped ==
  \A k \in Keys : \A r \in 1..MaxUpdates :
    r \in Revisions /\ KeyOf(r) = k /\ ~IsPut(r)
      ~> cache[k] = 0 \/ ~IsLast(r, Len(log))
=============================================================================
