--------------------------- MODULE MCHostShutdown ---------------------------
(* Two connections and two owners, for TLC. *)
EXTENDS HostShutdown
=============================================================================
