-------------------------- MODULE MCResultsSink ----------------------------
(* Small instances of ResultsSink and its refinement of ResultsLedger. *)
EXTENDS ResultsSinkLedger

CONSTANTS good, bad   \* a result that parses and one that does not

MCMessages == {good, bad}
MCParseable == {good}
=============================================================================
