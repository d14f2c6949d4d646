--------------------------- MODULE MCScoreEvents ---------------------------
(* One agent for two teams. *)
EXTENDS ScoreEvents

MCTeamsOf == [a \in Agents |-> Teams]
=============================================================================
