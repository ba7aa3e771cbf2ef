------------------------- MODULE MCRuntimeSnapshot -------------------------
(* One process with one or two administration calls, for TLC. *)
EXTENDS RuntimeSnapshot
=============================================================================
