-------------------------- MODULE MCTBTreeFilter --------------------------
(* Three boxes apart from each other, and a query for each of the          *)
(* conditions and one with distances that are refused.                     *)
EXTENDS TBTreeFilter
At(x1, x2, t1, t2) == [x |-> [lo |-> x1, hi |-> x2], t |-> [lo |-> t1, hi |-> t2]]
UnitBoxes == {At(0, 1, 0, 1), At(1, 3, 1, 2), At(6, 7, 2, 4)}
Within(rect, d1, d2) == [rect |-> rect, dist1 |-> d1, dist2 |-> d2, inf |-> FALSE]
From(rect, d1) == [rect |-> rect, dist1 |-> d1, dist2 |-> 0, inf |-> TRUE]
Queries == {Within(At(0, 1, 0, 4), 0, 2), Within(At(4, 4, 0, 3), 1, 2),
            From(At(0, 0, 0, 2), 2), From(At(3, 3, 1, 4), 0), Within(At(0, 1, 0, 4), 2, 1)}
=============================================================================
