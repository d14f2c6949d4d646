------------------------------- MODULE MCWeb --------------------------------
(* The pages with two teams.  The model values that the symmetry permutes  *)
(* serve each part: two fields of the settings page, two tabs, two         *)
(* services.  The settings page is one, for the saves of pages that the    *)
(* user has left act as those of other pages; the browser's clock is       *)
(* right; and the buffer of results holds less than what is published.     *)
EXTENDS Web, TLC

Symmetry == Permutations(Tabs) \cup Permutations(Teams)
=============================================================================
