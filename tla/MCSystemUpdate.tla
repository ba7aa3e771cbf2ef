--------------------------- MODULE MCSystemUpdate ---------------------------
(* TLC instances of SystemUpdate. *)
EXTENDS SystemUpdate
=============================================================================
