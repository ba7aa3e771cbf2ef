--------------------------- MODULE MCWorkerLease ---------------------------
(* Two processes, for TLC. *)
EXTENDS WorkerLease
=============================================================================
