---------------------------- MODULE Rectangles ----------------------------
(***************************************************************************)
(* Bounding boxes (Rectangle in src/Rectangle/RectangleAlgebra.h) as the   *)
(* trees and the filters use them: a closed interval in space and one in   *)
(* time.  The two dimensions of space are treated alike by every operation *)
(* and are one here.  Coordinates are integers; what the code allows for   *)
(* rounding (AlmostEqual) is left out.                                     *)
(***************************************************************************)
EXTENDS Integers

Dim == {"x", "t"}

Box == [Dim -> [lo : Nat, hi : Nat]]

Proper(b) == \A d \in Dim : b[d].lo <= b[d].hi

Lesser(m, n) == IF m <= n THEN m ELSE n

Greater(m, n) == IF m >= n THEN m ELSE n

Union(a, b) ==
  [d \in Dim |-> [lo |-> Lesser(a[d].lo, b[d].lo), hi |-> Greater(a[d].hi, b[d].hi)]]

ContainsBox(a, b) == \A d \in Dim : a[d].lo <= b[d].lo /\ b[d].hi <= a[d].hi

Intersects(a, b) == \A d \in Dim : b[d].lo <= a[d].hi /\ a[d].lo <= b[d].hi

Area(a) == (a["x"].hi - a["x"].lo) * (a["t"].hi - a["t"].lo)

(* What a box grows by when it takes in another.                           *)
Enlargement(a, b) == Area(Union(a, b)) - Area(a)

(* Distances in space.                                                     *)
MaxDist(a, b) == Greater(a["x"].hi - b["x"].lo, b["x"].hi - a["x"].lo)

MinDist(a, b) ==
  Greater(0, Greater(b["x"].lo - a["x"].hi, a["x"].lo - b["x"].hi))
=============================================================================
