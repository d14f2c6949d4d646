------------------------- MODULE MCServerLifecycle -------------------------
(* The server with a small number of connection attempts. *)
EXTENDS ServerLifecycle
=============================================================================
