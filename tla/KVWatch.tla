------------------------------ MODULE KVWatch ------------------------------
(***************************************************************************)
(* The "settings" bucket of JetStream and the watchers opened on it with   *)
(* kv.Watch (external: modelled from how cmd/server, cmd/agent and         *)
(* internal/settings use them).                                            *)
(*                                                                         *)
(* A bucket is a log of revisions.  A watcher first gets the last revision *)
(* of each key it matches, then a nil entry (its "initial sync done"       *)
(* marker), then every later revision; all of it in order.  What has been  *)
(* sent and not yet read is the part of the log beyond the cursor.         *)
(***************************************************************************)
EXTENDS Naturals, Sequences, FiniteSets

CONSTANTS
  Keys,       \* the keys of the bucket
  Ops,        \* the kinds of revision written (a subset of AllOps)
  Watchers,   \* the watchers that may be opened
  Pattern,    \* the keys each watcher matches
  MaxUpdates  \* bound: revisions written to the bucket

(* put: a valid value; freq0: a check whose frequency is 0; bad: a value   *)
(* that does not unmarshal, or an oversized one; the rest are markers.     *)
AllOps == {"put", "freq0", "bad", "delete", "purge"}

ASSUME KVAssumption ==
  /\ Pattern \in [Watchers -> SUBSET Keys]
  /\ Ops \subseteq AllOps
  /\ MaxUpdates \in Nat

VARIABLES
  log,   \* the revisions of the bucket: revision r is log[r]
  watch  \* the watchers

kvVars == <<log, watch>>

Revisions == 1..Len(log)
KeyOf(r) == log[r].key
OpOf(r) == log[r].op
IsPut(r) == OpOf(r) \in {"put", "freq0", "bad"}

(* r is the last revision of its key among the first n. *)
IsLast(r, n) == \A q \in (r + 1)..n : KeyOf(q) # KeyOf(r)

(* The revisions w is sent: the snapshot and what came after it. *)
SentTo(w, r) ==
  /\ KeyOf(r) \in Pattern[w]
  /\ r > watch[w].start \/ IsLast(r, watch[w].start)

(* What w has still to read of the revisions up to n. *)
Unread(w, n) == {r \in (watch[w].cursor + 1)..n : SentTo(w, r)}

Closed == [open |-> FALSE, start |-> 0, bound |-> 0, first |-> FALSE,
           cursor |-> 0, marked |-> FALSE]

(* kv.Watch: if nothing matches, the marker is sent before all else. *)
Opened(w) ==
  [Closed EXCEPT !.open = TRUE, !.start = Len(log), !.bound = Len(log),
                 !.first = \A r \in Revisions : KeyOf(r) \notin Pattern[w]]

(* The first message reaches the watcher.  The number of messages pending  *)
(* behind it tells where the marker goes: updates that were written in the *)
(* meantime come before it.                                                *)
FirstDelivery(w) ==
  /\ watch[w].open /\ ~watch[w].first
  /\ watch' = [watch EXCEPT ![w].first = TRUE, ![w].bound = Len(log)]
  /\ UNCHANGED log

(* The next entry, or the marker, is read from Updates(). *)
NextEntry(w, r) ==
  LET limit == IF watch[w].marked THEN Len(log) ELSE watch[w].bound
  IN  /\ watch[w].open /\ watch[w].first
      /\ r \in Unread(w, limit)
      /\ \A q \in Unread(w, limit) : r <= q

Advance(w, r) == watch' = [watch EXCEPT ![w].cursor = r]

TakeMarker(w) ==
  /\ watch[w].open /\ watch[w].first /\ ~watch[w].marked
  /\ Unread(w, watch[w].bound) = {}
  /\ watch' = [watch EXCEPT ![w].marked = TRUE]

(* kv.Put and kv.Delete by the command line tools and the web interface; a *)
(* delete marker is written whether or not the key exists.                 *)
Update(k, op) ==
  /\ Len(log) < MaxUpdates
  /\ log' = Append(log, [key |-> k, op |-> op])
  /\ UNCHANGED watch

KVInit ==
  /\ log = <<>>
  /\ watch = [w \in Watchers |-> Closed]

KVTypeOK ==
  /\ log \in Seq([key : Keys, op : Ops])
  /\ Len(log) <= MaxUpdates
  /\ watch \in [Watchers -> [open : BOOLEAN, start : Nat, bound : Nat,
                             first : BOOLEAN, cursor : Nat,
                             marked : BOOLEAN]]
=============================================================================
