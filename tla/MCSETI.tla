------------------------------- MODULE MCSETI -------------------------------
(* The state without the history of the inserts would suffice for most     *)
(* runs; moving objects are interchangeable.                               *)
EXTENDS SETI
Objects == Permutations(MO)
=============================================================================
