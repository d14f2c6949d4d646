----------------------------- MODULE MCCommands -----------------------------
(* The commands with few callers and names.  The model values that the     *)
(* symmetry permutes serve both accounts and bucket: runs of the CLI are   *)
(* the callers of either, and the names of accounts are the contents of    *)
(* checks, which need only differ.                                         *)
EXTENDS Commands, TLC

MCCheckList == <<"dns", "web">>

(* The first team passes either check for equal points, the second fails   *)
(* one; and there is a malformed result.                                   *)
MCTeamOf == [http1 |-> "1", dns1 |-> "1", failed2 |-> "2"]
MCCheckOf == [http1 |-> "http", dns1 |-> "dns", failed2 |-> "dns"]
MCPoints == [http1 |-> 5, dns1 |-> 5, failed2 |-> 0]

(* A plain name of a check and one with a dot. *)
MCCheckSubjects == {<<"dns">>, <<"web", "up">>}

Symmetry == Permutations(Clients) \cup Permutations(Names)
              \cup Permutations(Teams) \cup Permutations(Passwords)
=============================================================================
