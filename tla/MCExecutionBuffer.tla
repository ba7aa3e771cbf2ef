------------------------- MODULE MCExecutionBuffer -------------------------
(* Instances of ExecutionBuffer for TLC.                                     *)
EXTENDS ExecutionBuffer, TLC

CONSTANTS R1, R2

OneRequest  == {R1}
TwoRequests == {R1, R2}
Symmetry == Permutations(TwoRequests)

(* Every observation is one byte: the items are the limit.                   *)
UnitSize == [k \in Kinds |-> 1]
(* Those that carry texts are larger: the bytes are the limit.               *)
TextSize == [k \in Kinds |-> IF k \in {"CreateWithAttempt", "Finalize"} THEN 2 ELSE 1]
=============================================================================
