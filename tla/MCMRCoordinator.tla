--------------------------- MODULE MCMRCoordinator ---------------------------
(* Three workers, two map tasks and two reduce tasks; the second map task    *)
(* emits no key for reduce task 0.                                           *)
EXTENDS MRCoordinator

CONSTANTS w1, w2, w3

EmitsSome == [m \in 0..1 |-> IF m = 0 THEN {0, 1} ELSE {1}]
=============================================================================
