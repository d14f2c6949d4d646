------------------------- MODULE MCCheckScheduler --------------------------
(* The server's watcher on a bucket with two checks, or with one. *)
EXTENDS CheckScheduler

MCChecks == {"check.a", "check.b"}
MCOneCheck == {"check.a"}
MCPattern == [w \in Watchers |-> Keys]
=============================================================================
