---------------------------- MODULE MCNatsStore ----------------------------
(* A page that a team and an administrator use in turn, and the results of *)
(* two teams.  The two outcomes of the first team's check are alike to the *)
(* store but for their subjects; the other team's check always ends alike. *)
EXTENDS NatsStore, TLC

CONSTANTS passed, failed

MCCellsOf == [j \in Jwts |-> IF j = "admin" THEN {} ELSE {"1.web"}]
MCOutcomes == {passed, failed, "down"}
MCResults == {[cell |-> "1.web", outcome |-> passed],
              [cell |-> "1.web", outcome |-> failed],
              [cell |-> "2.web", outcome |-> "down"]}
Symmetry == Permutations(Slots) \cup Permutations({passed, failed})
=============================================================================
