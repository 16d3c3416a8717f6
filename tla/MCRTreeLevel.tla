---------------------------- MODULE MCRTreeLevel ----------------------------
(* Boxes whose keys in cells of width 1 differ, and are one in wider cells;*)
(* the last two together are wider than each.                              *)
EXTENDS RTreeLevel
Boxes == {[lo |-> 0, hi |-> 1], [lo |-> 0, hi |-> 3], [lo |-> 2, hi |-> 6]}
=============================================================================
