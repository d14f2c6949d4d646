---------------------------- MODULE BucketProofs ----------------------------
(***************************************************************************)
(* What the bucket and its two kinds of readers guarantee, for all sets of *)
(* keys and watchers and for all bounds.  First what any reader may rely   *)
(* on: the type of the bucket, and that reading an entry adds exactly that *)
(* entry to what a watcher has read.  Then MonitorSettings, though its     *)
(* watchers are merged into one channel: the start-up ends with the last   *)
(* marker, the newest usable value of each key is loaded, and a removal    *)
(* takes effect unless it was read before that.  Then monitorChecks: a     *)
(* check that is there has its job, and a deleted one has none, unless it  *)
(* was deleted before the marker.                                          *)
(***************************************************************************)
EXTENDS SettingsSync, CheckScheduler, SequenceTheorems, FunctionTheorems,
        FiniteSetTheorems, TLAPS

(* A watcher has neither read nor started beyond the end of the log. *)
KVInv ==
  /\ KVTypeOK
  /\ \A w \in Watchers :
       watch[w].cursor <= Len(log) /\ watch[w].start <= Len(log)

(* w has read revision q. *)
HasRead(w, q) == q \in Revisions /\ q <= watch[w].cursor /\ SentTo(w, q)

Watcher == [open : BOOLEAN, start : Nat, bound : Nat, first : BOOLEAN,
            cursor : Nat, marked : BOOLEAN]

(* A bucket starts without revisions and without watchers. *)
LEMMA KVInitInv == KVAssumption /\ KVInit => KVInv
<1> SUFFICES ASSUME KVAssumption, KVInit PROVE KVInv
  OBVIOUS
<1>1. log = <<>> /\ Len(log) = 0 /\ log \in Seq([key : Keys, op : Ops])
  BY EmptySeq DEF KVInit
<1>2. Closed \in Watcher /\ Closed.cursor = 0 /\ Closed.start = 0
  BY DEF Closed, Watcher
<1>3. watch \in [Watchers -> Watcher]
  BY <1>2 DEF KVInit
<1> QED
  BY <1>1, <1>2, <1>3 DEF KVInit, KVInv, KVTypeOK, KVAssumption, Watcher

(* Writing a revision changes none of those before it, and nobody has read *)
(* the new one.                                                            *)
LEMMA UpdateKeeps ==
  ASSUME KVAssumption, KVInv, NEW k \in Keys, NEW op \in Ops, Update(k, op)
  PROVE  /\ KVInv'
         /\ Len(log') = Len(log) + 1
         /\ \A q \in Revisions :
              KeyOf(q)' = KeyOf(q) /\ OpOf(q)' = OpOf(q)
         /\ \A w \in Watchers, q \in Nat : HasRead(w, q)' <=> HasRead(w, q)
<1>1. /\ log \in Seq([key : Keys, op : Ops]) /\ Len(log) \in Nat
      /\ Len(log) < MaxUpdates /\ MaxUpdates \in Nat
  BY LenProperties DEF KVInv, KVTypeOK, Update, KVAssumption
<1>2. /\ log' \in Seq([key : Keys, op : Ops]) /\ Len(log') = Len(log) + 1
      /\ \A q \in 1..Len(log) : log'[q] = log[q]
  BY <1>1, AppendProperties DEF Update
<1>3. KVInv'
  BY <1>1, <1>2 DEF Update, KVInv, KVTypeOK
<1>4. \A q \in Revisions : KeyOf(q)' = KeyOf(q) /\ OpOf(q)' = OpOf(q)
  BY <1>2 DEF Revisions, KeyOf, OpOf
<1>5. ASSUME NEW w \in Watchers, NEW q \in Nat
      PROVE  HasRead(w, q)' <=> HasRead(w, q)
  <2>1. watch'[w] = watch[w] /\ watch[w] \in Watcher
    BY DEF Update, KVInv, KVTypeOK, Watcher
  <2>2. watch[w].cursor <= Len(log) /\ watch[w].start <= Len(log)
    BY DEF KVInv
  <2>3. \A p \in Revisions : IsLast(p, watch[w].start)'
                               <=> IsLast(p, watch[w].start)
    BY <1>1, <1>4, <2>1, <2>2 DEF IsLast, Revisions, Watcher
  <2> QED
    BY <1>1, <1>2, <1>4, <2>1, <2>2, <2>3
    DEF HasRead, SentTo, Revisions, Watcher
<1> QED
  BY <1>2, <1>3, <1>4, <1>5

(* The first delivery to a watcher changes nothing of what was read. *)
LEMMA FirstDeliveryKeeps ==
  ASSUME KVAssumption, KVInv, NEW w \in Watchers, FirstDelivery(w)
  PROVE  /\ KVInv'
         /\ \A v \in Watchers : /\ watch'[v].cursor = watch[v].cursor
                                /\ watch'[v].start = watch[v].start
                                /\ watch'[v].marked = watch[v].marked
         /\ \A v \in Watchers, q \in Nat : HasRead(v, q)' <=> HasRead(v, q)
<1>1. Len(log) \in Nat /\ watch \in [Watchers -> Watcher]
  BY LenProperties DEF KVInv, KVTypeOK, Watcher
<1>2. \A v \in Watchers : /\ watch'[v].cursor = watch[v].cursor
                          /\ watch'[v].start = watch[v].start
                          /\ watch'[v].marked = watch[v].marked
  BY <1>1 DEF FirstDelivery, Watcher
<1>3. watch' \in [Watchers -> Watcher]
  BY <1>1, ZenonT(60) DEF FirstDelivery, Watcher
<1> QED
  BY <1>1, <1>2, <1>3
  DEF FirstDelivery, KVInv, KVTypeOK, HasRead, SentTo, IsLast, Revisions,
      KeyOf, Watcher

(* Reading an entry adds that entry, and no other, to what w has read. *)
LEMMA ReadAdvances ==
  ASSUME KVAssumption, KVInv, NEW w \in Watchers, NEW r \in Revisions,
         NextEntry(w, r), Advance(w, r), log' = log
  PROVE  /\ KVInv'
         /\ \A v \in Watchers : watch'[v].marked = watch[v].marked
         /\ watch'[w].cursor = r
         /\ \A q \in Nat : HasRead(w, q) => q < r
         /\ \A q \in Nat : HasRead(w, q)' <=> HasRead(w, q) \/ q = r
         /\ \A v \in Watchers \ {w} : watch'[v] = watch[v]
         /\ \A v \in Watchers \ {w}, q \in Nat : HasRead(v, q)' <=> HasRead(v,
           q)
         /\ KeyOf(r) \in Pattern[w]
<1>1. Len(log) \in Nat /\ watch \in [Watchers -> Watcher] /\ r \in Nat
  BY LenProperties DEF KVInv, KVTypeOK, Watcher, Revisions
<1>2. PICK limit \in Nat :
        /\ r \in Unread(w, limit)
        /\ \A q \in Unread(w, limit) : r <= q
  BY <1>1 DEF NextEntry, Watcher
<1>3. /\ r > watch[w].cursor /\ SentTo(w, r)
      /\ \A q \in Nat : q > watch[w].cursor /\ q < r => ~SentTo(w, q)
  BY <1>1, <1>2 DEF Unread, Watcher
<1>4. /\ watch' \in [Watchers -> Watcher]
      /\ watch'[w].cursor = r /\ watch'[w].start = watch[w].start
      /\ \A v \in Watchers \ {w} : watch'[v] = watch[v]
      /\ \A v \in Watchers : watch'[v].marked = watch[v].marked
  BY <1>1 DEF Advance, Watcher
<1>5. \A v \in Watchers, q \in Nat : SentTo(v, q)' <=> SentTo(v, q)
  BY <1>4 DEF SentTo, KeyOf, IsLast
<1>6. KVInv'
  <2>1. r <= Len(log)
    BY <1>1 DEF Revisions
  <2>2. \A v \in Watchers :
          watch'[v].cursor <= Len(log) /\ watch'[v].start <= Len(log)
    BY <1>1, <1>4, <2>1 DEF KVInv
  <2> QED
    BY <1>4, <2>2 DEF KVInv, KVTypeOK, Watcher
<1>7. \A q \in Nat : HasRead(w, q)' <=> HasRead(w, q) \/ q = r
  BY <1>1, <1>3, <1>4, <1>5 DEF HasRead, Revisions, Watcher
<1>8. \A v \in Watchers \ {w}, q \in Nat : HasRead(v, q)' <=> HasRead(v, q)
  BY <1>4, <1>5 DEF HasRead, Revisions
<1>9. \A q \in Nat : HasRead(w, q) => q < r
  BY <1>1, <1>3 DEF HasRead, Watcher
<1> QED
  BY <1>3, <1>4, <1>6, <1>7, <1>8, <1>9 DEF SentTo

(* Taking the marker only sets the flag of that watcher. *)
LEMMA MarkerKeeps ==
  ASSUME KVAssumption, KVInv, NEW w \in Watchers, TakeMarker(w), log' = log
  PROVE  /\ KVInv'
         /\ watch[w].marked = FALSE /\ watch'[w].marked = TRUE
         /\ \A v \in Watchers : watch'[v].cursor = watch[v].cursor
         /\ \A v \in Watchers \ {w} : watch'[v] = watch[v]
         /\ \A v \in Watchers, q \in Nat : HasRead(v, q)' <=> HasRead(v, q)
<1>1. Len(log) \in Nat /\ watch \in [Watchers -> Watcher]
  BY LenProperties DEF KVInv, KVTypeOK, Watcher
<1>2. /\ watch' \in [Watchers -> Watcher]
      /\ watch[w].marked = FALSE /\ watch'[w].marked = TRUE
      /\ \A v \in Watchers : /\ watch'[v].cursor = watch[v].cursor
                             /\ watch'[v].start = watch[v].start
      /\ \A v \in Watchers \ {w} : watch'[v] = watch[v]
  BY <1>1 DEF TakeMarker, Watcher
<1> QED
  BY <1>1, <1>2
  DEF KVInv, KVTypeOK, HasRead, SentTo, IsLast, Revisions, KeyOf, Watcher

(* A watcher that is opened or closed has read nothing. *)
LEMMA FreshWatcher ==
  ASSUME KVAssumption, KVInv, NEW w \in Watchers
  PROVE  /\ Opened(w) \in Watcher /\ Opened(w).cursor = 0
         /\ Opened(w).start = Len(log) /\ Opened(w).marked = FALSE
         /\ Closed \in Watcher /\ Closed.cursor = 0 /\ Closed.start = 0
         /\ Closed.marked = FALSE
<1>1. Len(log) \in Nat
  BY LenProperties DEF KVInv, KVTypeOK
<1>2. (\A r \in Revisions : KeyOf(r) \notin Pattern[w]) \in BOOLEAN
  OBVIOUS
<1> QED
  BY <1>1, <1>2 DEF Opened, Closed, Watcher
-----------------------------------------------------------------------------
(* MonitorSettings: the cache of an agent. *)

Unmarked == {w \in AgentWatchers : ~watch[w].marked}

(* Before MonitorSettings starts the agent has read nothing. *)
NothingRead ==
  pc # "monitor" =>
    /\ ~startUpCompleted
    /\ \A w \in AgentWatchers : watch[w].cursor = 0 /\ ~watch[w].marked

SyncInv ==
  /\ KVInv /\ TypeOK
  /\ NothingRead
  /\ StartUpCountsMarkers
  /\ NewestPutIsLoaded
  /\ StaleOnlyFromStartUp

-----------------------------------------------------------------------------
(* The watchers of the agent are as many as there are on its list. *)
LEMMA WatchersCounted ==
  ASSUME SyncAssumption
  PROVE  /\ AgentWatchers \subseteq Watchers
         /\ IsFiniteSet(AgentWatchers)
         /\ Cardinality(AgentWatchers) = Len(WatchList)
         /\ Len(WatchList) \in Nat
<1>1. /\ Len(WatchList) \in Nat /\ DOMAIN WatchList = 1..Len(WatchList)
      /\ WatchList \in [1..Len(WatchList) -> Watchers]
  BY LenProperties DEF SyncAssumption
<1>2. AgentWatchers \subseteq Watchers
  BY <1>1 DEF AgentWatchers
<1>3. WatchList \in Bijection(1..Len(WatchList), AgentWatchers)
  <2>1. WatchList \in [1..Len(WatchList) -> AgentWatchers]
    BY <1>1 DEF AgentWatchers
  <2>2. \A i, j \in 1..Len(WatchList) : WatchList[i] = WatchList[j] => i = j
    BY <1>1 DEF SyncAssumption
  <2>3. \A w \in AgentWatchers : \E i \in 1..Len(WatchList) : WatchList[i] = w
    BY <1>1 DEF AgentWatchers
  <2> QED
    BY <2>1, <2>2, <2>3, Fun_IsBij
<1>4. /\ IsFiniteSet(1..Len(WatchList))
      /\ Cardinality(1..Len(WatchList)) = Len(WatchList)
  <2>1. /\ IsFiniteSet(1..Len(WatchList))
        /\ Cardinality(1..Len(WatchList)) = IF 1 > Len(WatchList) THEN 0
                                            ELSE Len(WatchList) - 1 + 1
    BY <1>1, FS_Interval
  <2> QED
    BY <1>1, <2>1
<1>5. ExistsBijection(1..Len(WatchList), AgentWatchers)
  BY <1>3 DEF ExistsBijection
<1> QED
  BY <1>1, <1>2, <1>4, <1>5, FS_Bijection

(* A pattern belongs to one watcher. *)
LEMMA PatternsApart ==
  ASSUME KVAssumption, SyncAssumption
  PROVE  /\ \A w \in AgentWatchers : Pattern[w] \subseteq Keys
         /\ \A v, w \in AgentWatchers :
              v # w => Pattern[v] \cap Pattern[w] = {}
<1>1. \A w \in AgentWatchers : w \in Watchers
  BY WatchersCounted
<1>2. \A w \in AgentWatchers : Pattern[w] \subseteq Keys
  BY <1>1 DEF KVAssumption
<1>3. \A v, w \in AgentWatchers : v # w => Pattern[v] \cap Pattern[w] = {}
  BY DEF AgentWatchers, SyncAssumption
<1> QED
  BY <1>2, <1>3

(* What was read of a key, before and after a step. *)
LEMMA ReadByIsRead ==
  ASSUME KVInv, KVInv', NEW w \in Watchers, NEW k
  PROVE  /\ \A q : q \in ReadBy(w, k)
                     <=> q \in Nat /\ HasRead(w, q) /\ KeyOf(q) = k
         /\ \A q : q \in ReadBy(w, k)'
                     <=> q \in Nat /\ HasRead(w, q)' /\ KeyOf(q)' = k
<1>1. /\ watch \in [Watchers -> Watcher] /\ Len(log) \in Nat
      /\ watch' \in [Watchers -> Watcher] /\ Len(log') \in Nat
  BY LenProperties DEF KVInv, KVTypeOK, Watcher
<1>2. watch[w].cursor \in Nat /\ watch'[w].cursor \in Nat
  BY <1>1 DEF Watcher
<1>3. \A q : q \in ReadBy(w, k)
               <=> q \in Nat /\ HasRead(w, q) /\ KeyOf(q) = k
  BY <1>1, <1>2 DEF ReadBy, HasRead, Revisions
<1>4. \A q : q \in ReadBy(w, k)'
               <=> q \in Nat /\ HasRead(w, q)' /\ KeyOf(q)' = k
  BY <1>1, <1>2 DEF ReadBy, HasRead, Revisions
<1> QED
  BY <1>3, <1>4

(* A step in which nobody reads leaves what was read as it is. *)
LEMMA SameReads ==
  ASSUME KVInv, KVInv',
         \A w \in Watchers, q \in Nat : HasRead(w, q)' <=> HasRead(w, q),
         \A q \in Revisions : KeyOf(q)' = KeyOf(q) /\ OpOf(q)' = OpOf(q)
  PROVE  \A w \in Watchers, k \in Keys :
           /\ ReadBy(w, k)' = ReadBy(w, k)
           /\ \A q \in ReadBy(w, k) : OpOf(q)' = OpOf(q)
<1> SUFFICES ASSUME NEW w \in Watchers, NEW k \in Keys
             PROVE  /\ ReadBy(w, k)' = ReadBy(w, k)
                    /\ \A q \in ReadBy(w, k) : OpOf(q)' = OpOf(q)
  OBVIOUS
<1>1. /\ \A q : q \in ReadBy(w, k)
                  <=> q \in Nat /\ HasRead(w, q) /\ KeyOf(q) = k
      /\ \A q : q \in ReadBy(w, k)'
                  <=> q \in Nat /\ HasRead(w, q)' /\ KeyOf(q)' = k
  BY ReadByIsRead
<1>2. \A q \in Nat : HasRead(w, q) => q \in Revisions
  BY DEF HasRead
<1>3. ASSUME NEW q PROVE q \in ReadBy(w, k)' <=> q \in ReadBy(w, k)
  BY <1>1, <1>2
<1>4. \A q \in ReadBy(w, k) : OpOf(q)' = OpOf(q)
  BY <1>1, <1>2
<1> QED
  BY <1>3, <1>4

(* So does it leave the two properties about the cache, if the agent       *)
(* itself does nothing.                                                    *)
LEMMA Undisturbed ==
  ASSUME KVAssumption, SyncAssumption, SyncInv, KVInv', UNCHANGED agentVars,
         \A w \in Watchers, q \in Nat : HasRead(w, q)' <=> HasRead(w, q),
         \A q \in Revisions : KeyOf(q)' = KeyOf(q) /\ OpOf(q)' = OpOf(q)
  PROVE  NewestPutIsLoaded' /\ StaleOnlyFromStartUp'
<1>1. /\ AgentWatchers \subseteq Watchers
      /\ \A w \in AgentWatchers : Pattern[w] \subseteq Keys
  BY WatchersCounted, PatternsApart
<1>2. \A w \in AgentWatchers : \A k \in Pattern[w] :
        /\ ReadBy(w, k)' = ReadBy(w, k)
        /\ \A q \in ReadBy(w, k) : OpOf(q)' = OpOf(q)
  <2>1. \A w \in Watchers, k \in Keys :
          /\ ReadBy(w, k)' = ReadBy(w, k)
          /\ \A q \in ReadBy(w, k) : OpOf(q)' = OpOf(q)
    BY SameReads DEF SyncInv
  <2> QED
    BY <1>1, <2>1
<1>3. /\ pc' = pc /\ cache' = cache /\ startUpCompleted' = startUpCompleted
      /\ completedAt' = completedAt
  BY DEF agentVars
<1>4. NewestPutIsLoaded'
  BY <1>2, <1>3 DEF SyncInv, NewestPutIsLoaded, Usable, IsPut
<1>5. StaleOnlyFromStartUp'
  BY <1>2, <1>3 DEF SyncInv, StaleOnlyFromStartUp, IsPut
<1> QED
  BY <1>4, <1>5

-----------------------------------------------------------------------------
(* Reading an entry r: it joins what w has read of its key as the newest,  *)
(* and nothing else changes, since no other watcher matches that key.      *)
LEMMA EntryRead ==
  ASSUME KVAssumption, SyncAssumption, KVInv, NEW w \in AgentWatchers,
         NEW r \in Revisions, NextEntry(w, r), Advance(w, r), log' = log
  PROVE  /\ KVInv'
         /\ KeyOf(r) \in Pattern[w] /\ KeyOf(r) \in Keys /\ r \in Nat
         /\ KeyOf(r)' = KeyOf(r)
         /\ \A v \in Watchers : watch'[v].marked = watch[v].marked
         /\ ReadBy(w, KeyOf(r))' = ReadBy(w, KeyOf(r)) \cup {r}
         /\ \A q \in ReadBy(w, KeyOf(r)) : q \in Nat /\ q < r
         /\ \A v \in AgentWatchers : \A k \in Pattern[v] :
              v # w \/ k # KeyOf(r) =>
                k # KeyOf(r) /\ ReadBy(v, k)' = ReadBy(v, k)
<1>1. w \in Watchers /\ \A v \in AgentWatchers : v \in Watchers
  BY WatchersCounted
<1>2. /\ KVInv'
      /\ \A v \in Watchers : watch'[v].marked = watch[v].marked
      /\ \A q \in Nat : HasRead(w, q) => q < r
      /\ \A q \in Nat : HasRead(w, q)' <=> HasRead(w, q) \/ q = r
      /\ \A v \in Watchers \ {w}, q \in Nat : HasRead(v, q)' <=> HasRead(v, q)
      /\ KeyOf(r) \in Pattern[w]
  BY <1>1, ReadAdvances
<1>3. KeyOf(r) \in Keys /\ r \in Nat
  BY <1>2, PatternsApart DEF Revisions
<1>4. KeyOf(r)' = KeyOf(r) /\ \A q : KeyOf(q)' = KeyOf(q)
  BY DEF KeyOf
<1>5. \A v \in AgentWatchers, k \in Keys :
        /\ \A q : q \in ReadBy(v, k)
                    <=> q \in Nat /\ HasRead(v, q) /\ KeyOf(q) = k
        /\ \A q : q \in ReadBy(v, k)'
                    <=> q \in Nat /\ HasRead(v, q)' /\ KeyOf(q) = k
  BY <1>1, <1>2, <1>4, ReadByIsRead
<1>6. ReadBy(w, KeyOf(r))' = ReadBy(w, KeyOf(r)) \cup {r}
  <2>1. ASSUME NEW q
        PROVE  q \in ReadBy(w, KeyOf(r))'
                 <=> q \in ReadBy(w, KeyOf(r)) \/ q = r
    BY <1>2, <1>3, <1>4, <1>5
  <2> QED
    BY <1>4, <2>1
<1>7. \A q \in ReadBy(w, KeyOf(r)) : q \in Nat /\ q < r
  BY <1>2, <1>3, <1>5
<1>8. ASSUME NEW v \in AgentWatchers, NEW k \in Pattern[v],
             v # w \/ k # KeyOf(r)
      PROVE  k # KeyOf(r) /\ ReadBy(v, k)' = ReadBy(v, k)
  <2>1. k # KeyOf(r) /\ k \in Keys
    BY <1>2, <1>8, PatternsApart
  <2>2. ASSUME NEW q PROVE q \in ReadBy(v, k)' <=> q \in ReadBy(v, k)
    BY <1>1, <1>2, <1>5, <2>1
  <2> QED
    BY <2>1, <2>2
<1> QED
  BY <1>2, <1>3, <1>4, <1>6, <1>7, <1>8

(* The parts of the invariant that a read cannot disturb. *)
LEMMA ReadKeepsCount ==
  ASSUME SyncAssumption, SyncInv, NEW w \in AgentWatchers, pc = "monitor",
         UNCHANGED <<pc, pendingInit, startUpCompleted>>,
         \A v \in Watchers : watch'[v].marked = watch[v].marked
  PROVE  NothingRead' /\ StartUpCountsMarkers'
<1>1. AgentWatchers \subseteq Watchers
  BY WatchersCounted
<1>2. \A v \in AgentWatchers : watch'[v].marked = watch[v].marked
  BY <1>1
<1>3. Unmarked' = Unmarked
  BY <1>2 DEF Unmarked, AgentWatchers
<1> QED
  BY <1>2, <1>3
  DEF SyncInv, NothingRead, StartUpCountsMarkers, Unmarked, AgentWatchers

LEMMA PutKeeps ==
  ASSUME KVAssumption, SyncAssumption, SyncInv, NEW w \in Watchers,
         NEW r \in Revisions, HandlePut(w, r)
  PROVE  SyncInv'
<1>1. /\ pc = "monitor" /\ w \in AgentWatchers
      /\ NextEntry(w, r) /\ Usable(r) /\ Advance(w, r)
      /\ cache' = [cache EXCEPT ![KeyOf(r)] = r]
      /\ UNCHANGED <<log, pc, created, pendingInit, startUpCompleted, stops,
                     completedAt>>
  BY DEF HandlePut, Monitoring
<1>2. /\ KVInv'
      /\ KeyOf(r) \in Pattern[w] /\ KeyOf(r) \in Keys /\ r \in Nat
      /\ KeyOf(r)' = KeyOf(r)
      /\ \A v \in Watchers : watch'[v].marked = watch[v].marked
      /\ ReadBy(w, KeyOf(r))' = ReadBy(w, KeyOf(r)) \cup {r}
      /\ \A q \in ReadBy(w, KeyOf(r)) : q \in Nat /\ q < r
      /\ \A v \in AgentWatchers : \A k \in Pattern[v] :
           v # w \/ k # KeyOf(r) =>
             k # KeyOf(r) /\ ReadBy(v, k)' = ReadBy(v, k)
  BY <1>1, EntryRead DEF SyncInv
<1>3. cache \in [Keys -> Nat] /\ \A v \in AgentWatchers : Pattern[v] \subseteq
  Keys
  BY PatternsApart DEF SyncInv, TypeOK
<1>4. /\ cache'[KeyOf(r)] = r
      /\ \A k \in Keys : k # KeyOf(r) => cache'[k] = cache[k]
  BY <1>1, <1>2, <1>3
<1>5. \A q : OpOf(q)' = OpOf(q)
  BY <1>1 DEF OpOf
<1>6. TypeOK'
  BY <1>1, <1>2, <1>3 DEF SyncInv, TypeOK, KVInv
<1>7. NothingRead' /\ StartUpCountsMarkers'
  BY <1>1, <1>2, ReadKeepsCount
<1>8. NewestPutIsLoaded'
  <2> SUFFICES ASSUME NEW v \in AgentWatchers, NEW k \in Pattern[v],
                      NEW p \in ReadBy(v, k)', Usable(p),
                      \A q \in ReadBy(v, k)' : Usable(q) => q <= p
               PROVE  \/ cache'[k] = p
                      \/ /\ cache'[k] = 0
                         /\ \E q \in ReadBy(v, k)' : q > p /\ ~IsPut(q)
    BY <1>1, <1>5 DEF NewestPutIsLoaded, Usable, IsPut, AgentWatchers
  <2>1. CASE v = w /\ k = KeyOf(r)
    <3>1. r <= p
      BY <1>1, <1>2, <2>1
    <3>2. p = r
      BY <1>2, <2>1, <3>1
    <3> QED
      BY <1>4, <2>1, <3>2
  <2>2. CASE v # w \/ k # KeyOf(r)
    <3>1. ReadBy(v, k)' = ReadBy(v, k) /\ cache'[k] = cache[k]
      BY <1>2, <1>3, <1>4, <2>2
    <3> QED
      BY <1>1, <3>1 DEF SyncInv, NewestPutIsLoaded
  <2> QED
    BY <2>1, <2>2
<1>9. StaleOnlyFromStartUp'
  <2> SUFFICES ASSUME NEW v \in AgentWatchers, NEW k \in Pattern[v],
                      NEW p \in ReadBy(v, k)',
                      cache'[k] # 0, cache'[k] < p, ~IsPut(p),
                      startUpCompleted
               PROVE  p <= completedAt[v]
    BY <1>1, <1>5 DEF StaleOnlyFromStartUp, IsPut, AgentWatchers
  <2>1. CASE v = w /\ k = KeyOf(r)
    BY <1>2, <1>4, <2>1
  <2>2. CASE v # w \/ k # KeyOf(r)
    <3>1. ReadBy(v, k)' = ReadBy(v, k) /\ cache'[k] = cache[k]
      BY <1>2, <1>3, <1>4, <2>2
    <3> QED
      BY <3>1 DEF SyncInv, StaleOnlyFromStartUp
  <2> QED
    BY <2>1, <2>2
<1> QED
  BY <1>2, <1>6, <1>7, <1>8, <1>9 DEF SyncInv

LEMMA SkipKeeps ==
  ASSUME KVAssumption, SyncAssumption, SyncInv, NEW w \in Watchers,
         NEW r \in Revisions, SkipBadEntry(w, r)
  PROVE  SyncInv'
<1>1. /\ pc = "monitor" /\ w \in AgentWatchers
      /\ NextEntry(w, r) /\ OpOf(r) = "bad" /\ Advance(w, r)
      /\ UNCHANGED <<log, pc, created, pendingInit, startUpCompleted, cache,
                     stops, completedAt>>
  BY DEF SkipBadEntry, Monitoring, agentVars
<1>2. /\ KVInv'
      /\ KeyOf(r) \in Pattern[w] /\ KeyOf(r) \in Keys /\ r \in Nat
      /\ KeyOf(r)' = KeyOf(r)
      /\ \A v \in Watchers : watch'[v].marked = watch[v].marked
      /\ ReadBy(w, KeyOf(r))' = ReadBy(w, KeyOf(r)) \cup {r}
      /\ \A q \in ReadBy(w, KeyOf(r)) : q \in Nat /\ q < r
      /\ \A v \in AgentWatchers : \A k \in Pattern[v] :
           v # w \/ k # KeyOf(r) =>
             k # KeyOf(r) /\ ReadBy(v, k)' = ReadBy(v, k)
  BY <1>1, EntryRead DEF SyncInv
<1>3. cache \in [Keys -> Nat] /\ \A v \in AgentWatchers : Pattern[v] \subseteq
  Keys
  BY PatternsApart DEF SyncInv, TypeOK
<1>4. \A q : OpOf(q)' = OpOf(q)
  BY <1>1 DEF OpOf
<1>5. ~Usable(r) /\ IsPut(r)
  BY <1>1 DEF Usable, IsPut
<1>6. TypeOK'
  BY <1>1, <1>2 DEF SyncInv, TypeOK, KVInv
<1>7. NothingRead' /\ StartUpCountsMarkers'
  BY <1>1, <1>2, ReadKeepsCount
<1>8. NewestPutIsLoaded'
  <2> SUFFICES ASSUME NEW v \in AgentWatchers, NEW k \in Pattern[v],
                      NEW p \in ReadBy(v, k)', Usable(p),
                      \A q \in ReadBy(v, k)' : Usable(q) => q <= p
               PROVE  \/ cache'[k] = p
                      \/ /\ cache'[k] = 0
                         /\ \E q \in ReadBy(v, k)' : q > p /\ ~IsPut(q)
    BY <1>1, <1>4 DEF NewestPutIsLoaded, Usable, IsPut, AgentWatchers
  <2>1. CASE v = w /\ k = KeyOf(r)
    <3>1. /\ p \in ReadBy(v, k)
          /\ \A q \in ReadBy(v, k) : Usable(q) => q <= p
      BY <1>2, <1>5, <2>1
    <3>2. \/ cache[k] = p
          \/ cache[k] = 0 /\ \E q \in ReadBy(v, k) : q > p /\ ~IsPut(q)
      BY <1>1, <3>1 DEF SyncInv, NewestPutIsLoaded
    <3> QED
      BY <1>1, <1>2, <2>1, <3>2
  <2>2. CASE v # w \/ k # KeyOf(r)
    <3>1. ReadBy(v, k)' = ReadBy(v, k) /\ cache'[k] = cache[k]
      BY <1>1, <1>2, <1>3, <2>2
    <3> QED
      BY <1>1, <3>1 DEF SyncInv, NewestPutIsLoaded
  <2> QED
    BY <2>1, <2>2
<1>9. StaleOnlyFromStartUp'
  <2> SUFFICES ASSUME NEW v \in AgentWatchers, NEW k \in Pattern[v],
                      NEW p \in ReadBy(v, k)',
                      cache'[k] # 0, cache'[k] < p, ~IsPut(p),
                      startUpCompleted
               PROVE  p <= completedAt[v]
    BY <1>1, <1>4 DEF StaleOnlyFromStartUp, IsPut, AgentWatchers
  <2>1. CASE v = w /\ k = KeyOf(r)
    <3>1. p \in ReadBy(v, k)
      BY <1>2, <1>5, <2>1
    <3> QED
      BY <1>1, <3>1 DEF SyncInv, StaleOnlyFromStartUp
  <2>2. CASE v # w \/ k # KeyOf(r)
    <3>1. ReadBy(v, k)' = ReadBy(v, k) /\ cache'[k] = cache[k]
      BY <1>1, <1>2, <1>3, <2>2
    <3> QED
      BY <1>1, <3>1 DEF SyncInv, StaleOnlyFromStartUp
  <2> QED
    BY <2>1, <2>2
<1> QED
  BY <1>2, <1>6, <1>7, <1>8, <1>9 DEF SyncInv

LEMMA RemoveKeeps ==
  ASSUME KVAssumption, SyncAssumption, SyncInv, NEW w \in Watchers,
         NEW r \in Revisions, HandleRemove(w, r)
  PROVE  SyncInv'
<1>1. /\ pc = "monitor" /\ w \in AgentWatchers
      /\ NextEntry(w, r) /\ ~IsPut(r) /\ Advance(w, r)
      /\ cache' = IF startUpCompleted THEN [cache EXCEPT ![KeyOf(r)] = 0]
                  ELSE cache
      /\ UNCHANGED <<log, pc, created, pendingInit, startUpCompleted, stops,
                     completedAt>>
  BY DEF HandleRemove, Monitoring
<1>2. /\ KVInv'
      /\ KeyOf(r) \in Pattern[w] /\ KeyOf(r) \in Keys /\ r \in Nat
      /\ KeyOf(r)' = KeyOf(r)
      /\ \A v \in Watchers : watch'[v].marked = watch[v].marked
      /\ ReadBy(w, KeyOf(r))' = ReadBy(w, KeyOf(r)) \cup {r}
      /\ \A q \in ReadBy(w, KeyOf(r)) : q \in Nat /\ q < r
      /\ \A v \in AgentWatchers : \A k \in Pattern[v] :
           v # w \/ k # KeyOf(r) =>
             k # KeyOf(r) /\ ReadBy(v, k)' = ReadBy(v, k)
  BY <1>1, EntryRead DEF SyncInv
<1>3. cache \in [Keys -> Nat] /\ \A v \in AgentWatchers : Pattern[v] \subseteq
  Keys
  BY PatternsApart DEF SyncInv, TypeOK
<1>4. \A q : OpOf(q)' = OpOf(q)
  BY <1>1 DEF OpOf
<1>5. ~Usable(r)
  BY <1>1 DEF Usable, IsPut
<1>6. TypeOK'
  BY <1>1, <1>2, <1>3 DEF SyncInv, TypeOK, KVInv
<1>7. NothingRead' /\ StartUpCountsMarkers'
  BY <1>1, <1>2, ReadKeepsCount
<1>8. NewestPutIsLoaded'
  <2> SUFFICES ASSUME NEW v \in AgentWatchers, NEW k \in Pattern[v],
                      NEW p \in ReadBy(v, k)', Usable(p),
                      \A q \in ReadBy(v, k)' : Usable(q) => q <= p
               PROVE  \/ cache'[k] = p
                      \/ /\ cache'[k] = 0
                         /\ \E q \in ReadBy(v, k)' : q > p /\ ~IsPut(q)
    BY <1>1, <1>4 DEF NewestPutIsLoaded, Usable, IsPut, AgentWatchers
  <2>1. CASE v = w /\ k = KeyOf(r)
    <3>1. /\ p \in ReadBy(v, k) /\ p \in Nat /\ p < r
          /\ \A q \in ReadBy(v, k) : Usable(q) => q <= p
          /\ r \in ReadBy(v, k)'
          /\ \A q \in ReadBy(v, k) : q \in ReadBy(v, k)'
      BY <1>2, <1>5, <2>1
    <3>2. CASE startUpCompleted
      BY <1>1, <1>2, <1>3, <2>1, <3>1, <3>2
    <3>3. CASE ~startUpCompleted
      <4>1. \/ cache[k] = p
            \/ cache[k] = 0 /\ \E q \in ReadBy(v, k) : q > p /\ ~IsPut(q)
        BY <1>1, <3>1 DEF SyncInv, NewestPutIsLoaded
      <4> QED
        BY <1>1, <3>1, <3>3, <4>1
    <3> QED
      BY <3>2, <3>3
  <2>2. CASE v # w \/ k # KeyOf(r)
    <3>1. ReadBy(v, k)' = ReadBy(v, k) /\ cache'[k] = cache[k]
      BY <1>1, <1>2, <1>3, <2>2
    <3> QED
      BY <1>1, <3>1 DEF SyncInv, NewestPutIsLoaded
  <2> QED
    BY <2>1, <2>2
<1>9. StaleOnlyFromStartUp'
  <2> SUFFICES ASSUME NEW v \in AgentWatchers, NEW k \in Pattern[v],
                      NEW p \in ReadBy(v, k)',
                      cache'[k] # 0, cache'[k] < p, ~IsPut(p),
                      startUpCompleted
               PROVE  p <= completedAt[v]
    BY <1>1, <1>4 DEF StaleOnlyFromStartUp, IsPut, AgentWatchers
  <2>1. CASE v = w /\ k = KeyOf(r)
    BY <1>1, <1>2, <1>3, <2>1
  <2>2. CASE v # w \/ k # KeyOf(r)
    <3>1. ReadBy(v, k)' = ReadBy(v, k) /\ cache'[k] = cache[k]
      BY <1>1, <1>2, <1>3, <2>2
    <3> QED
      BY <1>1, <3>1 DEF SyncInv, StaleOnlyFromStartUp
  <2> QED
    BY <2>1, <2>2
<1> QED
  BY <1>2, <1>6, <1>7, <1>8, <1>9 DEF SyncInv

-----------------------------------------------------------------------------
(* One watcher fewer has its marker outstanding; with the last marker the  *)
(* cursors of the moment are noted.                                        *)
LEMMA UnmarkedCounted ==
  ASSUME SyncAssumption
  PROVE  /\ IsFiniteSet(Unmarked)
         /\ Cardinality(Unmarked) \in 0..Len(WatchList)
         /\ Cardinality(Unmarked) = 0 <=> Unmarked = {}
<1>1. /\ IsFiniteSet(AgentWatchers) /\ Len(WatchList) \in Nat
      /\ Cardinality(AgentWatchers) = Len(WatchList)
  BY WatchersCounted
<1>2. Unmarked \in SUBSET AgentWatchers
  BY DEF Unmarked
<1>3. IsFiniteSet(Unmarked) /\ Cardinality(Unmarked) <= Len(WatchList)
  BY <1>1, <1>2, FS_Subset
<1>4. Cardinality(Unmarked) \in Nat
  BY <1>3, FS_CardinalityType
<1>5. Cardinality(Unmarked) = 0 <=> Unmarked = {}
  BY <1>3, FS_EmptySet
<1> QED
  BY <1>1, <1>3, <1>4, <1>5

LEMMA MarkerHandled ==
  ASSUME KVAssumption, SyncAssumption, SyncInv, NEW w \in Watchers,
         HandleMarker(w)
  PROVE  SyncInv'
<1>1. /\ pc = "monitor" /\ w \in AgentWatchers /\ TakeMarker(w)
      /\ pendingInit' = pendingInit - 1
      /\ startUpCompleted' = (startUpCompleted \/ pendingInit' = 0)
      /\ completedAt' = IF pendingInit' = 0
                        THEN [v \in Watchers |-> watch[v].cursor]
                        ELSE completedAt
      /\ UNCHANGED <<log, pc, created, cache, stops>>
  BY DEF HandleMarker, Monitoring
<1>2. /\ KVInv'
      /\ watch[w].marked = FALSE /\ watch'[w].marked = TRUE
      /\ \A v \in Watchers : watch'[v].cursor = watch[v].cursor
      /\ \A v \in Watchers \ {w} : watch'[v] = watch[v]
      /\ \A v \in Watchers, q \in Nat : HasRead(v, q)' <=> HasRead(v, q)
  BY <1>1, MarkerKeeps DEF SyncInv
<1>3. /\ AgentWatchers \subseteq Watchers /\ Len(WatchList) \in Nat
      /\ \A v \in AgentWatchers : Pattern[v] \subseteq Keys
  BY WatchersCounted, PatternsApart
<1>4. /\ pendingInit = Cardinality(Unmarked)
      /\ pendingInit \in 0..Len(WatchList)
      /\ pendingInit = 0 <=> Unmarked = {}
      /\ w \in Unmarked /\ ~startUpCompleted
  BY <1>1, <1>2, UnmarkedCounted
  DEF SyncInv, StartUpCountsMarkers, Unmarked
<1>5. Unmarked' = Unmarked \ {w}
  BY <1>2, <1>3 DEF Unmarked, AgentWatchers
<1>6. /\ Cardinality(Unmarked') = Cardinality(Unmarked) - 1
      /\ Cardinality(Unmarked') = 0 <=> Unmarked' = {}
  <2>1. IsFiniteSet(Unmarked)
    BY UnmarkedCounted
  <2>2. /\ IsFiniteSet(Unmarked \ {w})
        /\ Cardinality(Unmarked \ {w}) = Cardinality(Unmarked) - 1
    BY <1>4, <2>1, FS_RemoveElement
  <2> QED
    BY <1>5, <2>2, FS_EmptySet
<1>7. pendingInit' = Cardinality(Unmarked') /\ pendingInit' \in
  0..Len(WatchList)
  BY <1>1, <1>3, <1>4, <1>6
<1>8. startUpCompleted' <=> pendingInit' = 0
  BY <1>1, <1>4
<1>9. StartUpCountsMarkers'
  BY <1>6, <1>7, <1>8 DEF StartUpCountsMarkers, Unmarked, AgentWatchers
<1>10. NothingRead'
  BY <1>1 DEF NothingRead
<1>11. TypeOK'
  <2>1. \A v \in Watchers : watch[v].cursor \in Nat
    BY DEF SyncInv, KVInv, KVTypeOK
  <2>2. completedAt' \in [Watchers -> Nat]
    BY <1>1, <2>1 DEF SyncInv, TypeOK
  <2> QED
    BY <1>1, <1>2, <1>7, <2>2 DEF SyncInv, TypeOK, KVInv
<1>12. \A v \in AgentWatchers : \A k \in Pattern[v] :
         ReadBy(v, k)' = ReadBy(v, k)
  <2>1. \A q : KeyOf(q)' = KeyOf(q) /\ OpOf(q)' = OpOf(q)
    BY <1>1 DEF KeyOf, OpOf
  <2>2. \A v \in Watchers, k \in Keys : ReadBy(v, k)' = ReadBy(v, k)
    BY <1>2, <2>1, SameReads DEF SyncInv
  <2> QED
    BY <1>3, <2>2
<1>13. NewestPutIsLoaded'
  BY <1>1, <1>12
  DEF SyncInv, NewestPutIsLoaded, Usable, IsPut, OpOf, AgentWatchers
<1>14. StaleOnlyFromStartUp'
  <2> SUFFICES ASSUME NEW v \in AgentWatchers, NEW k \in Pattern[v],
                      NEW p \in ReadBy(v, k)', startUpCompleted'
               PROVE  p <= completedAt'[v]
    BY DEF StaleOnlyFromStartUp, AgentWatchers
  <2>1. completedAt'[v] = watch[v].cursor
    BY <1>1, <1>3, <1>8
  <2>2. p \in 1..watch[v].cursor
    BY <1>2, <1>3 DEF ReadBy
  <2> QED
    BY <2>1, <2>2
<1> QED
  BY <1>2, <1>9, <1>10, <1>11, <1>13, <1>14 DEF SyncInv

-----------------------------------------------------------------------------
(* The bucket and the delivery to a watcher. *)
LEMMA UpdateSync ==
  ASSUME KVAssumption, SyncAssumption, SyncInv, NEW k \in Keys, NEW op \in Ops,
         Update(k, op), UNCHANGED agentVars
  PROVE  SyncInv'
<1>1. /\ KVInv' /\ watch' = watch
      /\ \A q \in Revisions : KeyOf(q)' = KeyOf(q) /\ OpOf(q)' = OpOf(q)
      /\ \A w \in Watchers, q \in Nat : HasRead(w, q)' <=> HasRead(w, q)
  BY UpdateKeeps DEF SyncInv, Update
<1>2. NewestPutIsLoaded' /\ StaleOnlyFromStartUp'
  BY <1>1, Undisturbed
<1>3. TypeOK'
  BY <1>1 DEF SyncInv, TypeOK, KVInv, agentVars
<1>4. NothingRead' /\ StartUpCountsMarkers'
  BY <1>1
  DEF SyncInv, NothingRead, StartUpCountsMarkers, agentVars, AgentWatchers
<1> QED
  BY <1>1, <1>2, <1>3, <1>4 DEF SyncInv

LEMMA FirstDeliverySync ==
  ASSUME KVAssumption, SyncAssumption, SyncInv, NEW w \in Watchers,
         FirstDelivery(w), UNCHANGED agentVars
  PROVE  SyncInv'
<1>1. /\ KVInv' /\ log' = log
      /\ \A v \in Watchers : /\ watch'[v].cursor = watch[v].cursor
                             /\ watch'[v].marked = watch[v].marked
      /\ \A v \in Watchers, q \in Nat : HasRead(v, q)' <=> HasRead(v, q)
  BY FirstDeliveryKeeps DEF SyncInv, FirstDelivery
<1>2. \A q : KeyOf(q)' = KeyOf(q) /\ OpOf(q)' = OpOf(q)
  BY <1>1 DEF KeyOf, OpOf
<1>3. NewestPutIsLoaded' /\ StaleOnlyFromStartUp'
  BY <1>1, <1>2, Undisturbed
<1>4. TypeOK'
  BY <1>1 DEF SyncInv, TypeOK, KVInv, agentVars
<1>5. \A v \in AgentWatchers : /\ watch'[v].cursor = watch[v].cursor
                               /\ watch'[v].marked = watch[v].marked
  BY <1>1, WatchersCounted
<1>6. Unmarked' = Unmarked
  BY <1>5 DEF Unmarked, AgentWatchers
<1>7. NothingRead' /\ StartUpCountsMarkers'
  BY <1>5, <1>6
  DEF SyncInv, NothingRead, StartUpCountsMarkers, agentVars, AgentWatchers,
      Unmarked
<1> QED
  BY <1>1, <1>3, <1>4, <1>7 DEF SyncInv

-----------------------------------------------------------------------------
(* Starting and stopping the agent: nothing has been read. *)
LEMMA ConnectSync ==
  ASSUME SyncInv, Connect
  PROVE  SyncInv'
<1>1. /\ pc = "down" /\ pc' = "setup" /\ created' = 0
      /\ UNCHANGED <<log, watch, pendingInit, startUpCompleted, cache, stops,
                     completedAt>>
  BY DEF Connect, kvVars
<1>2. KVInv'
  BY <1>1
  DEF SyncInv, KVInv, KVTypeOK
<1>3. TypeOK'
  BY <1>1, <1>2 DEF SyncInv, TypeOK, KVInv
<1>4. NothingRead'
  BY <1>1 DEF SyncInv, NothingRead, AgentWatchers
<1>5. StartUpCountsMarkers' /\ NewestPutIsLoaded' /\ StaleOnlyFromStartUp'
  BY <1>1, <1>4
  DEF NothingRead, StartUpCountsMarkers, NewestPutIsLoaded,
    StaleOnlyFromStartUp
<1> QED
  BY <1>2, <1>3, <1>4, <1>5 DEF SyncInv

LEMMA CreateWatcherSync ==
  ASSUME KVAssumption, SyncAssumption, SyncInv, CreateWatcher
  PROVE  SyncInv'
<1> DEFINE w == WatchList[created + 1]
<1>1. /\ pc = "setup" /\ created < Len(WatchList) /\ created' = created + 1
      /\ watch' = [watch EXCEPT ![w] = Opened(w)]
      /\ UNCHANGED <<log, pc, pendingInit, startUpCompleted, cache, stops,
                     completedAt>>
  BY DEF CreateWatcher
<1>2. /\ Len(WatchList) \in Nat /\ created \in 0..Len(WatchList)
      /\ watch \in [Watchers -> Watcher] /\ Len(log) \in Nat
      /\ AgentWatchers \subseteq Watchers
  BY WatchersCounted, LenProperties
  DEF SyncInv, TypeOK, KVInv, KVTypeOK, Watcher
<1>3. w \in Watchers
  <2>1. created + 1 \in 1..Len(WatchList)
    BY <1>1, <1>2
  <2> QED
    BY <2>1, ElementOfSeq DEF SyncAssumption
<1>4. /\ Opened(w) \in Watcher /\ Opened(w).cursor = 0
      /\ Opened(w).start = Len(log) /\ Opened(w).marked = FALSE
  BY <1>3, FreshWatcher DEF SyncInv
<1> HIDE DEF w
<1>5. /\ watch' \in [Watchers -> Watcher]
      /\ watch'[w] = Opened(w)
      /\ \A v \in Watchers \ {w} : watch'[v] = watch[v]
  BY <1>1, <1>2, <1>3, <1>4
<1>6. KVInv'
  <2>1. KVTypeOK'
    BY <1>1, <1>5 DEF SyncInv, KVInv, KVTypeOK, Watcher
  <2>2. \A v \in Watchers :
          watch'[v].cursor <= Len(log) /\ watch'[v].start <= Len(log)
    BY <1>2, <1>4, <1>5 DEF SyncInv, KVInv
  <2> QED
    BY <1>1, <2>1, <2>2 DEF KVInv
<1>7. TypeOK'
  BY <1>1, <1>2, <1>6 DEF SyncInv, TypeOK, KVInv
<1>8. NothingRead'
  BY <1>1, <1>2, <1>4, <1>5 DEF SyncInv, NothingRead, AgentWatchers
<1>9. StartUpCountsMarkers' /\ NewestPutIsLoaded' /\ StaleOnlyFromStartUp'
  BY <1>1, <1>8
  DEF NothingRead, StartUpCountsMarkers, NewestPutIsLoaded,
    StaleOnlyFromStartUp
<1> QED
  BY <1>6, <1>7, <1>8, <1>9 DEF SyncInv

LEMMA BeginMonitorSync ==
  ASSUME KVAssumption, SyncAssumption, SyncInv, BeginMonitor
  PROVE  SyncInv'
<1>1. /\ pc = "setup" /\ pc' = "monitor"
      /\ pendingInit' = Len(WatchList)
      /\ startUpCompleted' = (pendingInit' = 0)
      /\ UNCHANGED <<log, watch, created, cache, stops, completedAt>>
  BY DEF BeginMonitor, kvVars
<1>2. /\ AgentWatchers \subseteq Watchers /\ Len(WatchList) \in Nat
      /\ Cardinality(AgentWatchers) = Len(WatchList)
      /\ IsFiniteSet(AgentWatchers)
  BY WatchersCounted
<1>3. KVInv'
  BY <1>1 DEF SyncInv, KVInv, KVTypeOK
<1>4. TypeOK'
  BY <1>1, <1>2, <1>3 DEF SyncInv, TypeOK, KVInv
<1>5. \A w \in AgentWatchers : watch[w].cursor = 0 /\ ~watch[w].marked
  BY <1>1 DEF SyncInv, NothingRead
<1>6. Unmarked = AgentWatchers
  BY <1>5 DEF Unmarked
<1>7. startUpCompleted' <=> \A w \in AgentWatchers : watch[w].marked
  <2>1. Len(WatchList) = 0 <=> AgentWatchers = {}
    BY <1>2, FS_EmptySet
  <2> QED
    BY <1>1, <1>5, <2>1
<1>8. StartUpCountsMarkers'
  BY <1>1, <1>2, <1>6, <1>7
  DEF StartUpCountsMarkers, Unmarked, AgentWatchers
<1>9. \A w \in AgentWatchers : \A k \in Pattern[w] : ReadBy(w, k)' = {}
  BY <1>1, <1>5 DEF ReadBy
<1>10. NothingRead' /\ NewestPutIsLoaded' /\ StaleOnlyFromStartUp'
  BY <1>1, <1>9
  DEF NothingRead, NewestPutIsLoaded, StaleOnlyFromStartUp, AgentWatchers
<1> QED
  BY <1>3, <1>4, <1>8, <1>10 DEF SyncInv

LEMMA StopSync ==
  ASSUME KVAssumption, SyncAssumption, SyncInv, Stop
  PROVE  SyncInv'
<1>1. /\ pc' = "down" /\ stops < MaxStops /\ stops' = stops + 1
      /\ watch' = [w \in Watchers |->
                     IF w \in AgentWatchers THEN Closed ELSE watch[w]]
      /\ created' = 0 /\ pendingInit' = 0 /\ startUpCompleted' = FALSE
      /\ cache' = NoCache /\ completedAt' = NoCursors
      /\ log' = log
  BY DEF Stop
<1>2. /\ Len(WatchList) \in Nat /\ AgentWatchers \subseteq Watchers
      /\ watch \in [Watchers -> Watcher] /\ Len(log) \in Nat
      /\ MaxStops \in Nat
  BY WatchersCounted, LenProperties
  DEF SyncInv, KVInv, KVTypeOK, Watcher, SyncAssumption
<1>3. /\ Closed \in Watcher /\ Closed.cursor = 0 /\ Closed.start = 0
      /\ Closed.marked = FALSE
  BY DEF Closed, Watcher
<1>4. watch' \in [Watchers -> Watcher]
  BY <1>1, <1>2, <1>3
<1>5. KVInv'
  <2>1. KVTypeOK'
    BY <1>1, <1>4 DEF SyncInv, KVInv, KVTypeOK, Watcher
  <2>2. \A v \in Watchers :
          watch'[v].cursor <= Len(log) /\ watch'[v].start <= Len(log)
    BY <1>1, <1>2, <1>3 DEF SyncInv, KVInv
  <2> QED
    BY <1>1, <2>1, <2>2 DEF KVInv
<1>6. TypeOK'
  <2>1. NoCache \in [Keys -> Nat] /\ NoCursors \in [Watchers -> Nat]
    BY DEF NoCache, NoCursors
  <2>2. KVTypeOK'
    BY <1>5 DEF KVInv
  <2>3. stops \in 0..MaxStops
    BY DEF SyncInv, TypeOK
  <2>4. /\ pc' = "down" /\ created' = 0 /\ pendingInit' = 0
        /\ stops' \in 0..MaxStops
        /\ cache' \in [Keys -> Nat] /\ completedAt' \in [Watchers -> Nat]
    BY <1>1, <1>2, <2>1, <2>3
  <2>5. startUpCompleted' \in BOOLEAN
    BY <1>1, ZenonT(60)
  <2> QED
    BY <1>2, <2>2, <2>4, <2>5 DEF TypeOK
<1>7. NothingRead'
  <2>1. \A w \in AgentWatchers : watch'[w] = Closed
    BY <1>1, <1>2
  <2> QED
    BY <1>1, <1>3, <2>1 DEF NothingRead, AgentWatchers
<1>8. StartUpCountsMarkers' /\ NewestPutIsLoaded' /\ StaleOnlyFromStartUp'
  BY <1>1
  DEF StartUpCountsMarkers, NewestPutIsLoaded, StaleOnlyFromStartUp
<1> QED
  BY <1>5, <1>6, <1>7, <1>8 DEF SyncInv

-----------------------------------------------------------------------------
LEMMA SyncInitially ==
  ASSUME KVAssumption, SyncAssumption, Init
  PROVE  SyncInv
<1>1. KVInv /\ watch = [w \in Watchers |-> Closed]
  BY KVInitInv DEF Init, KVInit
<1>2. /\ Len(WatchList) \in Nat /\ AgentWatchers \subseteq Watchers
      /\ MaxStops \in Nat
  BY WatchersCounted DEF SyncAssumption
<1>3. TypeOK
  <2>1. NoCache \in [Keys -> Nat] /\ NoCursors \in [Watchers -> Nat]
    BY DEF NoCache, NoCursors
  <2>2. KVTypeOK
    BY <1>1 DEF KVInv
  <2>3. /\ pc = "down" /\ created = 0 /\ pendingInit = 0
        /\ startUpCompleted \in BOOLEAN /\ stops = 0
        /\ cache \in [Keys -> Nat] /\ completedAt \in [Watchers -> Nat]
    BY <2>1 DEF Init
  <2> QED
    BY <1>2, <2>2, <2>3 DEF TypeOK
<1>4. NothingRead
  BY <1>1, <1>2 DEF Init, NothingRead, Closed
<1>5. StartUpCountsMarkers /\ NewestPutIsLoaded /\ StaleOnlyFromStartUp
  BY DEF Init, StartUpCountsMarkers, NewestPutIsLoaded, StaleOnlyFromStartUp
<1> QED
  BY <1>1, <1>3, <1>4, <1>5 DEF SyncInv

LEMMA SyncStutters ==
  ASSUME KVAssumption, SyncAssumption, SyncInv, UNCHANGED vars
  PROVE  SyncInv'
<1>1. UNCHANGED <<log, watch, pc, created, pendingInit, startUpCompleted,
                  cache, stops, completedAt>>
  BY DEF vars, kvVars, agentVars
<1>2. KVInv'
  BY <1>1 DEF SyncInv, KVInv, KVTypeOK
<1>3. TypeOK'
  BY <1>1, <1>2 DEF SyncInv, TypeOK, KVInv
<1>4. NothingRead' /\ StartUpCountsMarkers'
  BY <1>1 DEF SyncInv, NothingRead, StartUpCountsMarkers, AgentWatchers
<1>5. NewestPutIsLoaded' /\ StaleOnlyFromStartUp'
  <2>1. \A q : KeyOf(q)' = KeyOf(q) /\ OpOf(q)' = OpOf(q)
    BY <1>1 DEF KeyOf, OpOf
  <2>2. \A w \in Watchers, q \in Nat : HasRead(w, q)' <=> HasRead(w, q)
    BY <1>1 DEF HasRead, SentTo, IsLast, Revisions, KeyOf
  <2> QED
    BY <1>1, <1>2, <2>1, <2>2, Undisturbed DEF agentVars
<1> QED
  BY <1>2, <1>3, <1>4, <1>5 DEF SyncInv

LEMMA SyncStep ==
  ASSUME KVAssumption, SyncAssumption, SyncInv, [Next]_vars
  PROVE  SyncInv'
<1>1. CASE UNCHANGED vars
  BY <1>1, SyncStutters
<1>2. CASE \E k \in Keys, op \in Ops : Update(k, op) /\ UNCHANGED agentVars
  BY <1>2, UpdateSync
<1>3. CASE \E w \in Watchers : FirstDelivery(w) /\ UNCHANGED agentVars
  BY <1>3, FirstDeliverySync
<1>4. CASE Connect
  BY <1>4, ConnectSync
<1>5. CASE CreateWatcher
  BY <1>5, CreateWatcherSync
<1>6. CASE BeginMonitor
  BY <1>6, BeginMonitorSync
<1>7. CASE Stop
  BY <1>7, StopSync
<1>8. ASSUME NEW w \in Watchers, Handle(w) PROVE SyncInv'
  <2>1. CASE HandleMarker(w)
    BY <2>1, MarkerHandled
  <2>2. ASSUME NEW r \in Revisions, HandlePut(w, r) PROVE SyncInv'
    BY <2>2, PutKeeps
  <2>3. ASSUME NEW r \in Revisions, SkipBadEntry(w, r) PROVE SyncInv'
    BY <2>3, SkipKeeps
  <2>4. ASSUME NEW r \in Revisions, HandleRemove(w, r) PROVE SyncInv'
    BY <2>4, RemoveKeeps
  <2> QED
    BY <1>8, <2>1, <2>2, <2>3, <2>4 DEF Handle
<1> QED
  BY <1>1, <1>2, <1>3, <1>4, <1>5, <1>6, <1>7, <1>8 DEF Next

(* For all keys, watchers and restarts, each step of the agent or of the   *)
(* bucket preserves the invariant.                                         *)
THEOREM SyncInvariant == Spec => []SyncInv
<1>1. Init => SyncInv
  BY KVAssumption, SyncAssumption, SyncInitially
<1>2. SyncInv /\ [Next]_vars => SyncInv'
  BY KVAssumption, SyncAssumption, SyncStep
<1> QED
  BY <1>1, <1>2, PTL DEF Spec

(* The cache and the start-up counter stay within their types.             *)
THEOREM SyncTypeCorrect == Spec => []TypeOK
<1>1. SyncInv => TypeOK
  BY DEF SyncInv
<1> QED
  BY <1>1, SyncInvariant, PTL

(* The start-up of MonitorSettings ends with the last marker: the counter  *)
(* shared by the watchers is never off, in whatever order they report.     *)
THEOREM SyncCountsMarkers == Spec => []StartUpCountsMarkers
<1>1. SyncInv => StartUpCountsMarkers
  BY DEF SyncInv
<1> QED
  BY <1>1, SyncInvariant, PTL

(* The cache of MonitorSettings holds the newest usable value read of each *)
(* key, unless it was removed later.                                       *)
THEOREM SyncNewestPutIsLoaded == Spec => []NewestPutIsLoaded
<1>1. SyncInv => NewestPutIsLoaded
  BY DEF SyncInv
<1> QED
  BY <1>1, SyncInvariant, PTL

(* A value survives its removal in the cache only if MonitorSettings read  *)
(* the removal before the start-up had completed.                          *)
THEOREM SyncStaleOnlyFromStartUp == Spec => []StaleOnlyFromStartUp
<1>1. SyncInv => StaleOnlyFromStartUp
  BY DEF SyncInv
<1> QED
  BY <1>1, SyncInvariant, PTL
-----------------------------------------------------------------------------
(* monitorChecks: the jobs of the server. *)

(* A server that is down has no jobs, and its watcher has read nothing. *)
NothingWhenDown == ~up => jobs = {} /\ ~initialized /\ Cursor = 0

(* What monitorChecks has read as put and not as deleted since has a job.  *)
ReadIsScheduled ==
  \A r \in Read : OpOf(r) = "put" /\ DeletedAfter(r) = {} => r \in jobs

SchedulerInv ==
  /\ KVInv /\ SchedulerTypeOK
  /\ NothingWhenDown
  /\ ReadIsScheduled
  /\ DeletedHasNoJobs

-----------------------------------------------------------------------------
(* What monitorChecks has read, before and after a step. *)
LEMMA ReadIsHasRead ==
  ASSUME SchedulerAssumption, KVInv, KVInv'
  PROVE  /\ \A q : q \in Read <=> q \in Nat /\ HasRead(SW, q)
         /\ \A q : q \in Read' <=> q \in Nat /\ HasRead(SW, q)'
<1>1. /\ watch \in [Watchers -> Watcher] /\ Len(log) \in Nat
      /\ watch' \in [Watchers -> Watcher] /\ Len(log') \in Nat
  BY LenProperties DEF KVInv, KVTypeOK, Watcher
<1>2. watch[SW].cursor \in Nat /\ watch'[SW].cursor \in Nat
  BY <1>1 DEF Watcher, SchedulerAssumption, SW
<1>3. \A q : q \in Read <=> q \in Nat /\ HasRead(SW, q)
  BY <1>1, <1>2 DEF Read, HasRead, Revisions, Cursor
<1>4. \A q : q \in Read' <=> q \in Nat /\ HasRead(SW, q)'
  BY <1>1, <1>2 DEF Read, HasRead, Revisions, Cursor, SW
<1> QED
  BY <1>3, <1>4

(* A step that reads nothing and touches no job keeps both properties. *)
LEMMA NothingReadKeeps ==
  ASSUME SchedulerAssumption, SchedulerInv, KVInv',
         jobs' = jobs, initialized' = initialized, initAt' = initAt,
         \A q \in Nat : HasRead(SW, q)' <=> HasRead(SW, q),
         \A q \in Revisions : KeyOf(q)' = KeyOf(q) /\ OpOf(q)' = OpOf(q)
  PROVE  ReadIsScheduled' /\ DeletedHasNoJobs'
<1>1. /\ \A q : q \in Read <=> q \in Nat /\ HasRead(SW, q)
      /\ \A q : q \in Read' <=> q \in Nat /\ HasRead(SW, q)'
  BY ReadIsHasRead DEF SchedulerInv
<1>2. Read' = Read
  <2>1. ASSUME NEW q PROVE q \in Read' <=> q \in Read
    BY <1>1
  <2> QED
    BY <2>1
<1>3. Read \subseteq Revisions /\ jobs \subseteq Revisions
  BY <1>1 DEF HasRead, SchedulerInv, SchedulerTypeOK
<1>4. \A r \in Revisions : DeletedAfter(r)' = DeletedAfter(r)
  BY <1>2, <1>3 DEF DeletedAfter
<1>5. ReadIsScheduled'
  BY <1>2, <1>3, <1>4 DEF SchedulerInv, ReadIsScheduled
<1>6. DeletedHasNoJobs'
  BY <1>3, <1>4 DEF SchedulerInv, DeletedHasNoJobs
<1> QED
  BY <1>5, <1>6

(* Reading r adds it as the newest of the revisions read. *)
LEMMA RevisionRead ==
  ASSUME KVAssumption, SchedulerAssumption, SchedulerInv,
         NEW r \in Revisions, NextEntry(SW, r), Advance(SW, r), log' = log
  PROVE  /\ KVInv' /\ Revisions' = Revisions
         /\ r \in Nat /\ Read' = Read \cup {r}
         /\ \A q \in Read : q \in Nat /\ q < r
         /\ \A q : KeyOf(q)' = KeyOf(q) /\ OpOf(q)' = OpOf(q)
         /\ \A p \in Nat : DeletedAfter(p)' =
              IF p < r /\ KeyOf(p) = KeyOf(r) /\ OpOf(r) = "delete"
              THEN DeletedAfter(p) \cup {r} ELSE DeletedAfter(p)
         /\ DeletedAfter(r)' = {}
<1>1. SW \in Watchers
  BY DEF SW, SchedulerAssumption
<1>2. /\ KVInv'
      /\ \A q \in Nat : HasRead(SW, q) => q < r
      /\ \A q \in Nat : HasRead(SW, q)' <=> HasRead(SW, q) \/ q = r
  BY <1>1, ReadAdvances DEF SchedulerInv
<1>3. r \in Nat /\ Revisions' = Revisions
  BY DEF Revisions
<1>4. /\ \A q : q \in Read <=> q \in Nat /\ HasRead(SW, q)
      /\ \A q : q \in Read' <=> q \in Nat /\ HasRead(SW, q)'
  BY <1>2, ReadIsHasRead DEF SchedulerInv
<1>5. Read' = Read \cup {r} /\ \A q \in Read : q \in Nat /\ q < r
  <2>1. ASSUME NEW q PROVE q \in Read' <=> q \in Read \/ q = r
    BY <1>2, <1>3, <1>4
  <2> QED
    BY <1>2, <1>4, <2>1
<1>6. \A q : KeyOf(q)' = KeyOf(q) /\ OpOf(q)' = OpOf(q)
  BY DEF KeyOf, OpOf
<1>7. \A p \in Nat : DeletedAfter(p)' =
        IF p < r /\ KeyOf(p) = KeyOf(r) /\ OpOf(r) = "delete"
        THEN DeletedAfter(p) \cup {r} ELSE DeletedAfter(p)
  BY <1>3, <1>5, <1>6 DEF DeletedAfter
<1>8. DeletedAfter(r)' = {}
  BY <1>3, <1>5 DEF DeletedAfter
<1> QED
  BY <1>2, <1>3, <1>5, <1>6, <1>7, <1>8

(* A check that is put gets its job, and keeps those it has. *)
LEMMA PutKeepsJobs ==
  ASSUME KVAssumption, SchedulerAssumption, SchedulerInv,
         NEW r \in Revisions, SchedulePut(r)
  PROVE  SchedulerInv'
<1>1. /\ up /\ NextEntry(SW, r) /\ OpOf(r) = "put" /\ Advance(SW, r)
      /\ jobs' = jobs \cup {r}
      /\ UNCHANGED <<log, up, initialized, running, triggered, restarts,
                     toggles, initAt>>
  BY DEF SchedulePut
<1>2. /\ KVInv' /\ Revisions' = Revisions
      /\ r \in Nat /\ Read' = Read \cup {r}
      /\ \A q \in Read : q \in Nat /\ q < r
      /\ \A q : KeyOf(q)' = KeyOf(q) /\ OpOf(q)' = OpOf(q)
      /\ \A p \in Nat : DeletedAfter(p)' = DeletedAfter(p)
      /\ DeletedAfter(r)' = {}
  BY <1>1, RevisionRead
<1>3. jobs \subseteq Revisions /\ Revisions \subseteq Nat
  BY DEF SchedulerInv, SchedulerTypeOK, Revisions
<1>4. SchedulerTypeOK'
  BY <1>1, <1>2 DEF SchedulerInv, SchedulerTypeOK, KVInv
<1>5. NothingWhenDown'
  BY <1>1 DEF NothingWhenDown
<1>6. ReadIsScheduled'
  BY <1>1, <1>2 DEF SchedulerInv, ReadIsScheduled
<1>7. DeletedHasNoJobs'
  BY <1>1, <1>2, <1>3 DEF SchedulerInv, DeletedHasNoJobs
<1> QED
  BY <1>2, <1>4, <1>5, <1>6, <1>7 DEF SchedulerInv

LEMMA SkipKeepsJobs ==
  ASSUME KVAssumption, SchedulerAssumption, SchedulerInv,
         NEW r \in Revisions, SkipEntry(r)
  PROVE  SchedulerInv'
<1>1. /\ up /\ NextEntry(SW, r) /\ OpOf(r) \in {"bad", "freq0", "purge"}
      /\ Advance(SW, r)
      /\ UNCHANGED <<log, up, initialized, jobs, running, triggered, restarts,
                     toggles, initAt>>
  BY DEF SkipEntry, serverVars
<1>2. /\ KVInv' /\ Revisions' = Revisions
      /\ r \in Nat /\ Read' = Read \cup {r}
      /\ \A q \in Read : q \in Nat /\ q < r
      /\ \A q : KeyOf(q)' = KeyOf(q) /\ OpOf(q)' = OpOf(q)
      /\ \A p \in Nat : DeletedAfter(p)' = DeletedAfter(p)
  BY <1>1, RevisionRead
<1>3. jobs \subseteq Revisions /\ Revisions \subseteq Nat
  BY DEF SchedulerInv, SchedulerTypeOK, Revisions
<1>4. SchedulerTypeOK'
  BY <1>1, <1>2 DEF SchedulerInv, SchedulerTypeOK, KVInv
<1>5. NothingWhenDown'
  BY <1>1 DEF NothingWhenDown
<1>6. ReadIsScheduled'
  BY <1>1, <1>2 DEF SchedulerInv, ReadIsScheduled
<1>7. DeletedHasNoJobs'
  BY <1>1, <1>2, <1>3 DEF SchedulerInv, DeletedHasNoJobs
<1> QED
  BY <1>2, <1>4, <1>5, <1>6, <1>7 DEF SchedulerInv

(* After a delete no job of the check is left, and those of others stay. *)
LEMMA DeleteRemovesJobs ==
  ASSUME KVAssumption, SchedulerAssumption, SchedulerInv,
         NEW r \in Revisions, HandleDelete(r)
  PROVE  SchedulerInv'
<1>1. /\ up /\ NextEntry(SW, r) /\ OpOf(r) = "delete" /\ Advance(SW, r)
      /\ jobs' = IF initialized THEN RemoveJobs(KeyOf(r)) ELSE jobs
      /\ UNCHANGED <<log, up, initialized, running, triggered, restarts,
                     toggles, initAt>>
  BY DEF HandleDelete
<1>2. /\ KVInv' /\ Revisions' = Revisions
      /\ r \in Nat /\ Read' = Read \cup {r}
      /\ \A q \in Read : q \in Nat /\ q < r
      /\ \A q : KeyOf(q)' = KeyOf(q) /\ OpOf(q)' = OpOf(q)
      /\ \A p \in Nat : DeletedAfter(p)' =
           IF p < r /\ KeyOf(p) = KeyOf(r)
           THEN DeletedAfter(p) \cup {r} ELSE DeletedAfter(p)
  BY <1>1, RevisionRead
<1>3. jobs \subseteq Revisions /\ Revisions \subseteq Nat
  BY DEF SchedulerInv, SchedulerTypeOK, Revisions
<1>4. jobs' \subseteq jobs
  BY <1>1 DEF RemoveJobs
<1>5. SchedulerTypeOK'
  BY <1>1, <1>2, <1>4 DEF SchedulerInv, SchedulerTypeOK, KVInv
<1>6. NothingWhenDown'
  BY <1>1 DEF NothingWhenDown
<1>7. ReadIsScheduled'
  <2> SUFFICES ASSUME NEW p \in Read', OpOf(p) = "put", DeletedAfter(p)' = {}
               PROVE  p \in jobs'
    BY <1>2 DEF ReadIsScheduled
  <2>1. p \in Read /\ p < r /\ p \in Nat
    BY <1>1, <1>2
  <2>2. KeyOf(p) # KeyOf(r) /\ DeletedAfter(p) = {}
    BY <1>2, <2>1
  <2>3. p \in jobs
    BY <2>1, <2>2 DEF SchedulerInv, ReadIsScheduled
  <2> QED
    BY <1>1, <2>2, <2>3 DEF RemoveJobs, JobsOf
<1>8. DeletedHasNoJobs'
  <2> SUFFICES ASSUME NEW p \in jobs', NEW q \in DeletedAfter(p)', initialized
               PROVE  q <= initAt
    BY <1>1 DEF DeletedHasNoJobs
  <2>1. p \in jobs /\ p \in Nat /\ KeyOf(p) # KeyOf(r)
    BY <1>1, <1>3 DEF RemoveJobs, JobsOf
  <2>2. q \in DeletedAfter(p)
    BY <1>2, <2>1
  <2> QED
    BY <2>1, <2>2 DEF SchedulerInv, DeletedHasNoJobs
<1> QED
  BY <1>2, <1>5, <1>6, <1>7, <1>8 DEF SchedulerInv

(* At the marker nothing read lies beyond the cursor. *)
LEMMA MarkerKeepsJobs ==
  ASSUME KVAssumption, SchedulerAssumption, SchedulerInv, SchedulerMarker
  PROVE  SchedulerInv'
<1>1. /\ up /\ TakeMarker(SW) /\ initAt' = Cursor
      /\ UNCHANGED <<log, up, jobs, running, triggered, restarts, toggles>>
  BY DEF SchedulerMarker
<1>2. /\ initialized' \in BOOLEAN /\ SW \in Watchers
      /\ \A q : KeyOf(q)' = KeyOf(q) /\ OpOf(q)' = OpOf(q)
  BY <1>1 DEF SchedulerMarker, KeyOf, OpOf, SW, SchedulerAssumption
<1>3. /\ KVInv'
      /\ \A q \in Nat : HasRead(SW, q)' <=> HasRead(SW, q)
  BY <1>1, <1>2, MarkerKeeps DEF SchedulerInv
<1>4. Cursor \in Nat
  BY <1>2 DEF SchedulerInv, KVInv, KVTypeOK, Cursor
<1>5. SchedulerTypeOK'
  <2>1. KVTypeOK' /\ Revisions' = Revisions
    BY <1>1, <1>3 DEF KVInv, Revisions
  <2> QED
    BY <1>1, <1>2, <1>4, <2>1 DEF SchedulerInv, SchedulerTypeOK
<1>6. NothingWhenDown'
  BY <1>1 DEF NothingWhenDown
<1>7. Read' = Read
  <2>1. /\ \A q : q \in Read <=> q \in Nat /\ HasRead(SW, q)
        /\ \A q : q \in Read' <=> q \in Nat /\ HasRead(SW, q)'
    BY <1>3, ReadIsHasRead DEF SchedulerInv
  <2>2. ASSUME NEW q PROVE q \in Read' <=> q \in Read
    BY <1>3, <2>1
  <2> QED
    BY <2>2
<1>8. \A p : DeletedAfter(p)' = DeletedAfter(p)
  BY <1>2, <1>7 DEF DeletedAfter
<1>9. ReadIsScheduled'
  BY <1>1, <1>2, <1>7, <1>8 DEF SchedulerInv, ReadIsScheduled
<1>10. DeletedHasNoJobs'
  <2>1. \A q \in Read : q <= Cursor
    BY <1>4 DEF Read
  <2>2. \A p : DeletedAfter(p) \subseteq Read
    BY DEF DeletedAfter
  <2> QED
    BY <1>1, <1>8, <2>1, <2>2 DEF DeletedHasNoJobs
<1> QED
  BY <1>3, <1>5, <1>6, <1>9, <1>10 DEF SchedulerInv

-----------------------------------------------------------------------------
(* The bucket and the delivery to the server's watcher. *)
LEMMA UpdateKeepsJobs ==
  ASSUME KVAssumption, SchedulerAssumption, SchedulerInv,
         NEW k \in Keys, NEW op \in Ops, Update(k, op), UNCHANGED serverVars
  PROVE  SchedulerInv'
<1>1. /\ KVInv' /\ Len(log') = Len(log) + 1 /\ watch' = watch
      /\ \A q \in Revisions : KeyOf(q)' = KeyOf(q) /\ OpOf(q)' = OpOf(q)
      /\ \A w \in Watchers, q \in Nat : HasRead(w, q)' <=> HasRead(w, q)
  BY UpdateKeeps DEF SchedulerInv, Update
<1>2. SW \in Watchers /\ Len(log) \in Nat
  BY LenProperties
  DEF SW, SchedulerAssumption, SchedulerInv, KVInv, KVTypeOK
<1>3. ReadIsScheduled' /\ DeletedHasNoJobs'
  BY <1>1, <1>2, NothingReadKeeps DEF serverVars
<1>4. SchedulerTypeOK'
  <2>1. KVTypeOK' /\ Revisions \subseteq Revisions'
    BY <1>1, <1>2 DEF KVInv, Revisions
  <2> QED
    BY <2>1 DEF SchedulerInv, SchedulerTypeOK, serverVars
<1>5. NothingWhenDown'
  BY <1>1 DEF SchedulerInv, NothingWhenDown, Cursor, serverVars
<1> QED
  BY <1>1, <1>3, <1>4, <1>5 DEF SchedulerInv

LEMMA FirstDeliveryKeepsJobs ==
  ASSUME KVAssumption, SchedulerAssumption, SchedulerInv, FirstDelivery(SW),
         UNCHANGED serverVars
  PROVE  SchedulerInv'
<1>1. SW \in Watchers
  BY DEF SW, SchedulerAssumption
<1>2. /\ KVInv' /\ log' = log /\ watch'[SW].cursor = watch[SW].cursor
      /\ \A q \in Nat : HasRead(SW, q)' <=> HasRead(SW, q)
  BY <1>1, FirstDeliveryKeeps DEF SchedulerInv, FirstDelivery
<1>3. \A q : KeyOf(q)' = KeyOf(q) /\ OpOf(q)' = OpOf(q)
  BY <1>2 DEF KeyOf, OpOf
<1>4. ReadIsScheduled' /\ DeletedHasNoJobs'
  BY <1>2, <1>3, NothingReadKeeps DEF serverVars
<1>5. SchedulerTypeOK'
  <2>1. KVTypeOK' /\ Revisions' = Revisions
    BY <1>2 DEF KVInv, Revisions
  <2> QED
    BY <2>1 DEF SchedulerInv, SchedulerTypeOK, serverVars
<1>6. NothingWhenDown'
  BY <1>2 DEF SchedulerInv, NothingWhenDown, Cursor, SW, serverVars
<1> QED
  BY <1>2, <1>4, <1>5, <1>6 DEF SchedulerInv

-----------------------------------------------------------------------------
(* A watcher whose cursor is 0 has read nothing. *)
LEMMA FreshServer ==
  ASSUME KVInv', jobs' = {}, Cursor' = 0
  PROVE  ReadIsScheduled' /\ DeletedHasNoJobs'
<1>1. Read' = {}
  BY DEF Read
<1> QED
  BY <1>1 DEF ReadIsScheduled, DeletedHasNoJobs

(* Replacing the server's watcher by a new or a closed one. *)
LEMMA WatcherReplaced ==
  ASSUME KVAssumption, SchedulerAssumption, SchedulerInv,
         NEW new \in {Opened(SW), Closed},
         watch' = [watch EXCEPT ![SW] = new], log' = log
  PROVE  KVInv' /\ Cursor' = 0
<1>1. SW \in Watchers
  BY DEF SW, SchedulerAssumption
<1>2. /\ watch \in [Watchers -> Watcher] /\ Len(log) \in Nat
      /\ new \in Watcher /\ new.cursor = 0 /\ new.start <= Len(log)
  <2>1. watch \in [Watchers -> Watcher] /\ Len(log) \in Nat
    BY LenProperties DEF SchedulerInv, KVInv, KVTypeOK, Watcher
  <2>2. /\ Opened(SW) \in Watcher /\ Opened(SW).cursor = 0
        /\ Opened(SW).start = Len(log)
        /\ Closed \in Watcher /\ Closed.cursor = 0 /\ Closed.start = 0
    BY <1>1, FreshWatcher DEF SchedulerInv
  <2> QED
    BY <2>1, <2>2
<1>3. /\ watch' \in [Watchers -> Watcher] /\ watch'[SW] = new
      /\ \A v \in Watchers \ {SW} : watch'[v] = watch[v]
  BY <1>1, <1>2
<1>4. \A v \in Watchers :
        watch'[v].cursor <= Len(log) /\ watch'[v].start <= Len(log)
  BY <1>2, <1>3 DEF SchedulerInv, KVInv
<1>5. KVTypeOK'
  BY <1>3 DEF SchedulerInv, KVInv, KVTypeOK, Watcher
<1> QED
  BY <1>2, <1>3, <1>4, <1>5 DEF KVInv, Cursor, SW

LEMMA BootKeepsJobs ==
  ASSUME KVAssumption, SchedulerAssumption, SchedulerInv, Boot
  PROVE  SchedulerInv'
<1>1. /\ up' = TRUE /\ jobs = {}
      /\ watch' = [watch EXCEPT ![SW] = Opened(SW)]
      /\ UNCHANGED <<log, initialized, jobs, running, triggered, restarts,
                     toggles, initAt>>
  BY DEF Boot, SchedulerInv, NothingWhenDown
<1>2. KVInv' /\ Cursor' = 0
  BY <1>1, WatcherReplaced
<1>3. ReadIsScheduled' /\ DeletedHasNoJobs'
  BY <1>1, <1>2, FreshServer
<1>4. SchedulerTypeOK'
  BY <1>1, <1>2 DEF SchedulerInv, SchedulerTypeOK, KVInv
<1>5. NothingWhenDown'
  BY <1>1 DEF NothingWhenDown
<1> QED
  BY <1>2, <1>3, <1>4, <1>5 DEF SchedulerInv

LEMMA ShutdownKeepsJobs ==
  ASSUME KVAssumption, SchedulerAssumption, SchedulerInv, Shutdown
  PROVE  SchedulerInv'
<1>1. /\ restarts < MaxRestarts /\ restarts' = restarts + 1
      /\ initAt' = 0 /\ jobs' = {}
      /\ watch' = [watch EXCEPT ![SW] = Closed]
      /\ UNCHANGED <<log, triggered, toggles>>
  BY DEF Shutdown
<1>2. up' \in BOOLEAN /\ initialized' \in BOOLEAN /\ running' \in BOOLEAN
  BY ZenonT(60) DEF Shutdown
<1>3. KVInv' /\ Cursor' = 0
  BY <1>1, WatcherReplaced
<1>4. ReadIsScheduled' /\ DeletedHasNoJobs'
  BY <1>1, <1>3, FreshServer
<1>5. SchedulerTypeOK'
  <2>1. restarts' \in 0..MaxRestarts
    BY <1>1 DEF SchedulerInv, SchedulerTypeOK, SchedulerAssumption
  <2>2. KVTypeOK'
    BY <1>3 DEF KVInv
  <2> QED
    BY <1>1, <1>2, <2>1, <2>2 DEF SchedulerInv, SchedulerTypeOK
<1>6. NothingWhenDown'
  <2>1. ~initialized'
    BY DEF Shutdown
  <2> QED
    BY <1>1, <1>3, <2>1 DEF NothingWhenDown
<1> QED
  BY <1>3, <1>4, <1>5, <1>6 DEF SchedulerInv

-----------------------------------------------------------------------------
(* Starting, stopping, firing and handling read nothing and leave the jobs *)
(* as they are: the scheduler keeps its jobs while it is stopped.          *)
LEMMA ClockKeepsJobs ==
  ASSUME KVAssumption, SchedulerAssumption, SchedulerInv, SchedulerTypeOK',
         UNCHANGED <<kvVars, up, initialized, jobs, initAt>>
  PROVE  SchedulerInv'
<1>1. log' = log /\ watch' = watch
  BY DEF kvVars
<1>2. KVInv'
  BY <1>1 DEF SchedulerInv, KVInv, KVTypeOK
<1>3. \A q \in Nat : HasRead(SW, q)' <=> HasRead(SW, q)
  BY <1>1 DEF HasRead, SentTo, IsLast, Revisions, KeyOf, SW
<1>4. \A q : KeyOf(q)' = KeyOf(q) /\ OpOf(q)' = OpOf(q)
  BY <1>1 DEF KeyOf, OpOf
<1>5. ReadIsScheduled' /\ DeletedHasNoJobs'
  BY <1>2, <1>3, <1>4, NothingReadKeeps
<1>6. NothingWhenDown'
  BY <1>1 DEF SchedulerInv, NothingWhenDown, Cursor, SW
<1> QED
  BY <1>2, <1>5, <1>6 DEF SchedulerInv

LEMMA ClockSteps ==
  ASSUME KVAssumption, SchedulerAssumption, SchedulerInv,
         \/ StartScoringCron
         \/ StopScoringCron
         \/ \E r \in Revisions : Fire(r)
         \/ \E k \in Keys : Trigger(k)
         \/ UNCHANGED schedulerVars
  PROVE  SchedulerInv'
<1>1. UNCHANGED <<kvVars, up, initialized, jobs, restarts, initAt>>
  BY DEF StartScoringCron, StopScoringCron, Fire, Trigger, schedulerVars,
    serverVars
<1>2. running' \in BOOLEAN
  <2>1. running \in BOOLEAN
    BY DEF SchedulerInv, SchedulerTypeOK
  <2> QED
    BY <2>1, ZenonT(60)
    DEF StartScoringCron, StopScoringCron, Fire, Trigger, schedulerVars,
      serverVars
<1>3. toggles' \in 0..MaxToggles
  BY DEF StartScoringCron, StopScoringCron, Fire, Trigger, schedulerVars,
    serverVars, SchedulerInv, SchedulerTypeOK, SchedulerAssumption
<1>4. triggered' \subseteq Keys
  <2>1. \A r \in Revisions : KeyOf(r) \in Keys
    <3>1. log \in Seq([key : Keys, op : Ops])
      BY DEF SchedulerInv, KVInv, KVTypeOK
    <3>2. \A r \in 1..Len(log) : log[r] \in [key : Keys, op : Ops]
      BY <3>1, ElementOfSeq
    <3> QED
      BY <3>2 DEF Revisions, KeyOf
  <2> QED
    BY <2>1
    DEF StartScoringCron, StopScoringCron, Fire, Trigger, schedulerVars,
      serverVars, SchedulerInv, SchedulerTypeOK
<1>5. SchedulerTypeOK'
  <2>1. KVTypeOK' /\ Revisions' = Revisions
    BY <1>1 DEF SchedulerInv, KVInv, KVTypeOK, kvVars, Revisions
  <2> QED
    BY <1>1, <1>2, <1>3, <1>4, <2>1 DEF SchedulerInv, SchedulerTypeOK
<1> QED
  BY <1>1, <1>5, ClockKeepsJobs

-----------------------------------------------------------------------------
LEMMA SchedulerInitially ==
  ASSUME KVAssumption, SchedulerAssumption, SchedulerInit
  PROVE  SchedulerInv
<1>1. /\ KVInv /\ watch = [w \in Watchers |-> Closed]
      /\ SW \in Watchers
  BY KVInitInv DEF SchedulerInit, KVInit, SW, SchedulerAssumption
<1>2. Cursor = 0
  BY <1>1 DEF Cursor, Closed
<1>3. SchedulerTypeOK
  <2>1. up \in BOOLEAN /\ initialized \in BOOLEAN /\ running \in BOOLEAN
    BY ZenonT(60) DEF SchedulerInit
  <2>2. /\ jobs = {} /\ triggered = {} /\ restarts = 0 /\ toggles = 0
        /\ initAt = 0 /\ KVTypeOK
    BY <1>1 DEF SchedulerInit, KVInv
  <2> QED
    BY <2>1, <2>2 DEF SchedulerTypeOK, SchedulerAssumption
<1>4. NothingWhenDown
  BY <1>2 DEF SchedulerInit, NothingWhenDown
<1>5. ReadIsScheduled /\ DeletedHasNoJobs
  <2>1. Read = {}
    BY <1>2 DEF Read
  <2> QED
    BY <2>1 DEF SchedulerInit, ReadIsScheduled, DeletedHasNoJobs
<1> QED
  BY <1>1, <1>3, <1>4, <1>5 DEF SchedulerInv

LEMMA SchedulerStep ==
  ASSUME KVAssumption, SchedulerAssumption, SchedulerInv,
         [SchedulerNext]_schedulerVars
  PROVE  SchedulerInv'
<1>1. CASE \/ StartScoringCron
           \/ StopScoringCron
           \/ \E r \in Revisions : Fire(r)
           \/ \E k \in Keys : Trigger(k)
           \/ UNCHANGED schedulerVars
  BY <1>1, ClockSteps
<1>2. CASE \E k \in Keys, op \in Ops : Update(k, op) /\ UNCHANGED serverVars
  BY <1>2, UpdateKeepsJobs
<1>3. CASE FirstDelivery(SW) /\ UNCHANGED serverVars
  BY <1>3, FirstDeliveryKeepsJobs
<1>4. CASE Boot
  BY <1>4, BootKeepsJobs
<1>5. CASE Shutdown
  BY <1>5, ShutdownKeepsJobs
<1>6. CASE MonitorChecks
  <2>1. CASE SchedulerMarker
    BY <2>1, MarkerKeepsJobs
  <2>2. ASSUME NEW r \in Revisions, SchedulePut(r) PROVE SchedulerInv'
    BY <2>2, PutKeepsJobs
  <2>3. ASSUME NEW r \in Revisions, SkipEntry(r) PROVE SchedulerInv'
    BY <2>3, SkipKeepsJobs
  <2>4. ASSUME NEW r \in Revisions, HandleDelete(r) PROVE SchedulerInv'
    BY <2>4, DeleteRemovesJobs
  <2> QED
    BY <1>6, <2>1, <2>2, <2>3, <2>4 DEF MonitorChecks
<1> QED
  BY <1>1, <1>2, <1>3, <1>4, <1>5, <1>6 DEF SchedulerNext

(* For all checks, restarts and presses of start and stop, each step of    *)
(* monitorChecks, of the scheduler or of the bucket keeps the invariant.   *)
THEOREM SchedulerInvariant == SchedulerSpec => []SchedulerInv
<1>1. SchedulerInit => SchedulerInv
  BY KVAssumption, SchedulerAssumption, SchedulerInitially
<1>2. SchedulerInv /\ [SchedulerNext]_schedulerVars => SchedulerInv'
  BY KVAssumption, SchedulerAssumption, SchedulerStep
<1> QED
  BY <1>1, <1>2, PTL DEF SchedulerSpec

(* The scheduler and its jobs stay within their types. *)
THEOREM SchedulerTypeCorrect == SchedulerSpec => []SchedulerTypeOK
<1>1. SchedulerInv => SchedulerTypeOK
  BY DEF SchedulerInv
<1> QED
  BY <1>1, SchedulerInvariant, PTL

(* A put that is not deleted since was read, unless the check was written  *)
(* again before the watcher was opened.                                    *)
LEMMA PutIsRead ==
  ASSUME SchedulerAssumption, SchedulerInv
  PROVE  PutIsScheduled
<1>1. /\ watch \in [Watchers -> Watcher] /\ Len(log) \in Nat
      /\ SW \in Watchers /\ watch[SW].cursor <= Len(log)
      /\ watch[SW].start <= Len(log)
  BY LenProperties
  DEF SchedulerInv, KVInv, KVTypeOK, Watcher, SchedulerAssumption, SW
<1>2. Cursor \in Nat /\ watch[SW].start \in Nat
  BY <1>1 DEF Watcher, Cursor
<1> SUFFICES ASSUME NEW r \in 1..Cursor, OpOf(r) = "put",
                    KeyOf(r) \in Pattern[SW], ~Superseded(r),
                    \A q \in (r + 1)..Cursor :
                      KeyOf(q) = KeyOf(r) => OpOf(q) # "delete"
             PROVE  r \in jobs
  BY DEF PutIsScheduled
<1>3. IsLast(r, watch[SW].start)
  BY <1>2 DEF IsLast, Superseded
<1>4. r \in Read
  BY <1>1, <1>2, <1>3 DEF Read, SentTo, Cursor
<1>5. DeletedAfter(r) = {}
  BY <1>2 DEF DeletedAfter, Read
<1> QED
  BY <1>4, <1>5 DEF SchedulerInv, ReadIsScheduled

(* A check that was put and not deleted since has a job for that value, in *)
(* any run of the server that began before the check was written again:    *)
(* whatever is written to the bucket while the server runs.                *)
THEOREM SchedulerPutIsScheduled == SchedulerSpec => []PutIsScheduled
<1>1. SchedulerAssumption /\ SchedulerInv => PutIsScheduled
  BY PutIsRead
<1> QED
  BY <1>1, SchedulerAssumption, SchedulerInvariant, PTL

(* A delete that monitorChecks read after the marker leaves no job of the  *)
(* check, however many were added for it.                                  *)
THEOREM SchedulerDeletedHasNoJobs == SchedulerSpec => []DeletedHasNoJobs
<1>1. SchedulerInv => DeletedHasNoJobs
  BY DEF SchedulerInv
<1> QED
  BY <1>1, SchedulerInvariant, PTL
=============================================================================
