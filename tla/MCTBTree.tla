----------------------------- MODULE MCTBTree -----------------------------
(* Two boxes apart from each other, so that nodes differ in what they need *)
(* to take one in.                                                         *)
EXTENDS TBTree
TwoBoxes ==
  {[x |-> [lo |-> 0, hi |-> 1], t |-> [lo |-> 0, hi |-> 1]],
   [x |-> [lo |-> 2, hi |-> 5], t |-> [lo |-> 2, hi |-> 3]]}
=============================================================================
