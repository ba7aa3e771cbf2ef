--------------------------- MODULE MCCapacityWait ---------------------------
(* Instances of CapacityWait for TLC. *)
EXTENDS CapacityWait, TLC

CONSTANTS T1, T2

TwoTokens == {T1, T2}
Symmetry == Permutations(Tokens)
=============================================================================
