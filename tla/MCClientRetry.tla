--------------------------- MODULE MCClientRetry ---------------------------
(* Three requests of one client turn, for TLC. *)
EXTENDS ClientRetry, TLC

Symmetry == Permutations(Requests)
=============================================================================
