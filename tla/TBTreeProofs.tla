---------------------------- MODULE TBTreeProofs ----------------------------
(***************************************************************************)
(* Proofs about the TB-tree. insertLeaf goes down to a leaf and up again,  *)
(* splits nodes and may return a new root; searchNode and updatePath go    *)
(* down to the last leaf of a trajectory. Levels of the nodes are what     *)
(* makes these recursions end, and the inductive invariant says that there *)
(* are levels: Standing for the tree in the file, HeldOK for the leaves the*)
(* bulk load keeps in memory. From it follow the types, the sizes of the   *)
(* nodes and the balance of the tree.                                      *)
(*                                                                         *)
(* Three more invariants build on it: what the leaves hold and how they are*)
(* chained (LeavesOK, Bundled), that every node is below the root or below *)
(* one that a bulk load forgot (Hung), and that boxes cover what is below  *)
(* them (Roomy). Each follows the same way down and up of insertLeaf and   *)
(* says after every turn what the part of the tree that is done has kept.  *)
(***************************************************************************)
EXTENDS TBTree, SequenceLemmas

-----------------------------------------------------------------------------
(* The places of a sequence are those from 1 to its length.                *)
LEMMA Places ==
  ASSUME NEW S, NEW s \in Seq(S)
  PROVE  /\ Len(s) \in Nat /\ DOMAIN s = 1 .. Len(s) /\ \A i \in 1 .. Len(s) : s[i] \in S
         /\ s # << >> => Len(s) # 0 /\ 1 \in 1 .. Len(s) /\ Len(s) \in 1 .. Len(s)
  OBVIOUS

(* An entry refers to something and has a box.                             *)
LEMMA EntryParts == \A e \in Entry : e.ref \in Nat \ {0} /\ e.box \in Box
  BY DEF Entry

(* The union of two boxes is a box.                                        *)
LEMMA UnionType == \A a, b \in Box : Union(a, b) \in Box
  BY DEF Union, Box, Dim, Lesser, Greater

(* The box of a node is made up entry by entry.                            *)
LEMMA BoxFold ==
  ASSUME NEW es \in Seq(Entry), es # << >>
  PROVE  \E h \in [0 .. Len(es) -> Box] :
           /\ h[0] = es[1].box /\ BoxOf(es) = h[Len(es)]
           /\ \A k \in 0 .. Len(es) - 1 : h[k + 1] = Union(h[k], es[k + 1].box)
<1> DEFINE n == Len(es)
           base == es[1].box
           Step(iter) == [s \in SUBSET DOMAIN es |->
                            IF s = {} THEN base
                            ELSE Union(iter[s \ {Max(s)}], es[Max(s)].box)]
           F == CHOOSE iter : iter = Step(iter)
           step == [x \in Box \X Entry |-> Union(x[1], x[2].box)]
<1>1. /\ n \in Nat /\ n # 0 /\ DOMAIN es = 1 .. n /\ base \in Box
      /\ \A i \in 1 .. n : es[i] \in Entry /\ es[i].box \in Box
  <2>1. \A e \in Entry : e.box \in Box
    BY DEF Entry
  <2>2. n \in Nat /\ n # 0 /\ DOMAIN es = 1 .. n /\ \A i \in 1 .. n : es[i] \in Entry
    OBVIOUS
  <2>3. 1 \in 1 .. n
    BY <2>2
  <2> QED BY <2>1, <2>2, <2>3
<1>2. step \in [Box \X Entry -> Box]
  BY UnionType DEF Entry
<1> HIDE DEF base
<1>3. FoldStep(Box, Entry, es, base, step)
  BY <1>1, <1>2 DEF FoldStep
<1>4. PICK it : Folds(it, Box, es, base, step)
  <2> HIDE DEF step
  <2> QED BY <1>3, FoldExists, Zenon
<1> HIDE DEF n
<1>5. it = Step(it)
  <2>1. ASSUME NEW s \in SUBSET DOMAIN es, s # {}
        PROVE  it[s] = Union(it[s \ {Max(s)}], es[Max(s)].box)
    <3>1. Max(s) \in 1 .. n
      BY <1>1, <2>1, MaxIn
    <3>2. it[s \ {Max(s)}] \in Box /\ es[Max(s)] \in Entry
      BY <1>1, <1>4, <3>1 DEF Folds
    <3> QED BY <1>4, <2>1, <3>2 DEF Folds
  <2> HIDE DEF step
  <2>2. ASSUME NEW s \in SUBSET DOMAIN es
        PROVE  it[s] = IF s = {} THEN base ELSE Union(it[s \ {Max(s)}], es[Max(s)].box)
    <3>1. it[{}] = base
      BY <1>4 DEF Folds
    <3> QED BY <2>1, <3>1
  <2>3. it \in [SUBSET DOMAIN es -> Box]
    BY <1>4 DEF Folds
  <2> QED BY <2>2, <2>3
<1>6. F = Step(F)
  BY <1>5, Zenon
<1>7. BoxOf(es) = F[DOMAIN es]
  BY Zenon DEF BoxOf, FoldLeft, MapThenFoldSet, base
<1> HIDE DEF F
<1> DEFINE h == [k \in 0 .. n |-> F[1 .. k]]
<1>8. F[{}] = base /\ 1 .. 0 = {}
  BY <1>6
<1>9. ASSUME NEW k \in 0 .. n - 1 PROVE F[1 .. k + 1] = Union(F[1 .. k], es[k + 1].box)
  <2>0. k \in Nat /\ k + 1 \in 1 .. k + 1 /\ 1 .. k + 1 \subseteq 1 .. n
    <3>1. n \in Nat /\ k \in 0 .. n - 1
      BY <1>1
    <3> QED BY ONLY <3>1
  <2>1. 1 .. k + 1 \in SUBSET DOMAIN es /\ 1 .. k + 1 # {} /\ k \in Nat
    BY <1>1, <2>0
  <2>2. Max(1 .. k + 1) = k + 1 /\ (1 .. k + 1) \ {k + 1} = 1 .. k
    BY <2>1, MaxUpTo
  <2> QED BY <1>6, <2>1, <2>2
<1>10. h[0] = base /\ h[n] = F[1 .. n] /\ \A k \in 0 .. n - 1 : h[k] = F[1 .. k] /\ h[k + 1] = F[1 .. k + 1]
  BY <1>1, <1>8
<1>11. \A k \in 0 .. n - 1 : h[k + 1] = Union(h[k], es[k + 1].box)
  <2> HIDE DEF h
  <2> QED BY <1>9, <1>10
<1>12. \A k \in 0 .. n : h[k] \in Box
  <2> DEFINE G == {k \in 0 .. n : h[k] \in Box}
  <2> HIDE DEF h
  <2>1. 0 \in G
    BY <1>1, <1>10
  <2>2. \A k \in 0 .. n - 1 : k \in G => k + 1 \in G
    BY <1>1, <1>11, UnionType
  <2>3. \A k \in 0 .. n : k \in G
    <3> HIDE DEF G
    <3> QED BY <1>1, <2>1, <2>2, FromZero
  <2> QED BY <2>3
<1>13. h \in [0 .. n -> Box]
  <2>1. h = [k \in 0 .. n |-> h[k]]
    OBVIOUS
  <2> HIDE DEF h
  <2> QED BY <1>12, <2>1
<1> HIDE DEF h
<1> QED BY <1>1, <1>7, <1>10, <1>11, <1>13 DEF base, n

(* The box of a node that has entries is a box.                            *)
LEMMA BoxOfType ==
  ASSUME NEW es \in Seq(Entry), es # << >>
  PROVE  BoxOf(es) \in Box
<1>1. PICK h \in [0 .. Len(es) -> Box] : BoxOf(es) = h[Len(es)]
  BY BoxFold
<1>2. Len(es) \in 0 .. Len(es)
  OBVIOUS
<1> QED BY <1>1, <1>2

(* A box that holds two holds their union, and the union holds both.       *)
LEMMA UnionHolds ==
  ASSUME NEW a \in Box, NEW b \in Box, NEW c \in Box
  PROVE  /\ ContainsBox(c, Union(a, b)) <=> ContainsBox(c, a) /\ ContainsBox(c, b)
         /\ ContainsBox(Union(a, b), a) /\ ContainsBox(Union(a, b), b)
<1>1. \A d \in Dim : /\ a[d].lo \in Nat /\ a[d].hi \in Nat /\ b[d].lo \in Nat /\ b[d].hi \in Nat
                     /\ c[d].lo \in Nat /\ c[d].hi \in Nat
                     /\ Union(a, b)[d].lo = Lesser(a[d].lo, b[d].lo)
                     /\ Union(a, b)[d].hi = Greater(a[d].hi, b[d].hi)
  BY DEF Box, Union
<1> QED BY <1>1 DEF ContainsBox, Lesser, Greater

(* Holding is transitive.                                                  *)
LEMMA HoldsOn ==
  ASSUME NEW a \in Box, NEW b \in Box, NEW c \in Box, ContainsBox(a, b), ContainsBox(b, c)
  PROVE  ContainsBox(a, c)
<1>1. ASSUME NEW d \in Dim PROVE a[d].lo <= c[d].lo /\ c[d].hi <= a[d].hi
  <2>1. /\ a[d].lo \in Nat /\ a[d].hi \in Nat /\ b[d].lo \in Nat /\ b[d].hi \in Nat
        /\ c[d].lo \in Nat /\ c[d].hi \in Nat
    BY DEF Box
  <2>2. a[d].lo <= b[d].lo /\ b[d].hi <= a[d].hi /\ b[d].lo <= c[d].lo /\ c[d].hi <= b[d].hi
    BY DEF ContainsBox
  <2> QED BY <2>1, <2>2
<1> QED BY <1>1 DEF ContainsBox

Holds(b, es) == \A i \in 1 .. Len(es) : ContainsBox(b, es[i].box)

(* A box holds the box of a node when it holds the boxes of all entries.   *)
LEMMA BoxHeld ==
  ASSUME NEW es \in Seq(Entry), es # << >>, NEW b \in Box
  PROVE  ContainsBox(b, BoxOf(es)) <=> Holds(b, es)
<1>1. PICK n : n = Len(es)
  OBVIOUS
<1>2. n \in Nat /\ n # 0 /\ \A i \in 1 .. n : es[i].box \in Box
  BY <1>1, Places, EntryParts
<1>3. PICK h \in [0 .. n -> Box] :
        /\ h[0] = es[1].box /\ BoxOf(es) = h[n]
        /\ \A k \in 0 .. n - 1 : h[k + 1] = Union(h[k], es[k + 1].box)
  BY <1>1, BoxFold
<1>4. \A k \in 0 .. n : h[k] \in Box
  BY <1>3
<1>5. ASSUME NEW k \in 0 .. n - 1
      PROVE  ContainsBox(b, h[k + 1]) <=> ContainsBox(b, h[k]) /\ ContainsBox(b, es[k + 1].box)
  <2>1. h[k] \in Box /\ es[k + 1].box \in Box /\ h[k + 1] = Union(h[k], es[k + 1].box)
    <3>1. k \in 0 .. n /\ k + 1 \in 1 .. n
      BY <1>2
    <3> QED BY <1>2, <1>3, <1>4, <3>1
  <2> QED BY <2>1, UnionHolds
<1>6. ContainsBox(b, h[n]) => Holds(b, es)
  <2> DEFINE G == {m \in 0 .. n : ContainsBox(b, h[n - m]) /\ \A i \in 1 .. n : i > n - m => ContainsBox(b, es[i].box)}
  <2> SUFFICES ASSUME ContainsBox(b, h[n]) PROVE Holds(b, es)
    OBVIOUS
  <2>1. 0 \in G
    <3>1. n - 0 = n /\ 0 \in 0 .. n /\ \A i \in 1 .. n : ~(i > n)
      BY <1>2
    <3> QED BY <3>1
  <2>2. ASSUME NEW m \in 0 .. n - 1, m \in G PROVE m + 1 \in G
    <3>1. PICK k \in 0 .. n - 1 : k = n - (m + 1)
      BY <1>2
    <3>2. k + 1 = n - m /\ m + 1 \in 0 .. n /\ \A i \in 1 .. n : i > k => i > n - m \/ i = k + 1
      BY <1>2, <3>1
    <3>3. ContainsBox(b, h[k]) /\ ContainsBox(b, es[k + 1].box)
      BY <1>5, <2>2, <3>2
    <3> QED BY <2>2, <3>1, <3>2, <3>3
  <2>3. \A m \in 0 .. n : m \in G
    <3> HIDE DEF G
    <3> QED BY <1>2, <2>1, <2>2, FromZero
  <2>4. n \in 0 .. n /\ \A i \in 1 .. n : i > n - n
    BY <1>2
  <2> QED BY <1>1, <2>3, <2>4 DEF Holds
<1>7. Holds(b, es) => ContainsBox(b, h[n])
  <2> DEFINE G == {m \in 0 .. n : ContainsBox(b, h[m])}
  <2> SUFFICES ASSUME Holds(b, es) PROVE ContainsBox(b, h[n])
    OBVIOUS
  <2>1. 0 \in G
    <3>1. 1 \in 1 .. n /\ 0 \in 0 .. n
      BY <1>2
    <3> QED BY <1>1, <1>3, <3>1 DEF Holds
  <2>2. ASSUME NEW m \in 0 .. n - 1, m \in G PROVE m + 1 \in G
    <3>1. m + 1 \in 1 .. n /\ m + 1 \in 0 .. n
      BY <1>2
    <3> QED BY <1>1, <1>5, <2>2, <3>1 DEF Holds
  <2>3. \A m \in 0 .. n : m \in G
    <3> HIDE DEF G
    <3> QED BY <1>2, <2>1, <2>2, FromZero
  <2>4. n \in 0 .. n
    BY <1>2
  <2> QED BY <2>3, <2>4
<1> QED BY <1>3, <1>6, <1>7

(* The area of a box is a number.                                          *)
LEMMA AreaType == \A b \in Box : Area(b) \in Int
<1> SUFFICES ASSUME NEW b \in Box PROVE Area(b) \in Int
  OBVIOUS
<1>1. b["x"].lo \in Nat /\ b["x"].hi \in Nat /\ b["t"].lo \in Nat /\ b["t"].hi \in Nat
  BY DEF Box, Dim
<1>2. \A m, n \in Int : m * n \in Int
  OBVIOUS
<1>3. b["x"].hi - b["x"].lo \in Int /\ b["t"].hi - b["t"].lo \in Int
  BY <1>1
<1> QED BY <1>2, <1>3 DEF Area

(* Enlargement and waste are numbers, so that one can be least.            *)
LEMMA BoxNumbers ==
  ASSUME NEW a \in Box, NEW b \in Box
  PROVE  Enlargement(a, b) \in Int /\ Waste(a, b) \in Int
<1>1. Area(a) \in Int /\ Area(b) \in Int /\ Area(Union(a, b)) \in Int
  BY UnionType, AreaType
<1> QED BY <1>1 DEF Enlargement, Waste

(* The choices of the tree are among the entries.                          *)
LEMMA BestNodeIn ==
  ASSUME NEW es \in Seq(Entry), es # << >>, NEW rect \in Box
  PROVE  BestNode(es, rect) \in DOMAIN es
<1> DEFINE n == Len(es)
           f == [i \in 1 .. n |-> Enlargement(es[i].box, rect)]
<1>1. n \in Nat /\ n # 0 /\ DOMAIN es = 1 .. n /\ \A i \in 1 .. n : es[i].box \in Box
  BY Places, EntryParts
<1> HIDE DEF n
<1>2. f \in [1 .. n -> Int]
  BY <1>1, BoxNumbers
<1>3. 1 .. n \in SUBSET (1 .. n) /\ 1 .. n # {}
  BY <1>1
<1>4. PICK i \in 1 .. n : \A j \in 1 .. n : f[i] < f[j] \/ (f[i] = f[j] /\ i <= j)
  <2> HIDE DEF f
  <2> QED BY <1>1, <1>2, <1>3, FirstOfLeast
<1>5. \E k \in DOMAIN es : \A j \in DOMAIN es :
        LET di == Enlargement(es[k].box, rect)
            dj == Enlargement(es[j].box, rect)
        IN  di < dj \/ (di = dj /\ k <= j)
  BY <1>1, <1>4
<1> QED BY <1>5 DEF BestNode

(* pickNext takes one of the entries of the rest.                          *)
LEMMA PickNextIn ==
  ASSUME NEW rest \in Seq(Entry), rest # << >>,
         NEW g1 \in Seq(Entry), g1 # << >>, NEW g2 \in Seq(Entry), g2 # << >>
  PROVE  PickNext(rest, g1, g2) \in DOMAIN rest
<1> DEFINE n == Len(rest)
           size(i, g) == Area(Union(rest[i].box, BoxOf(g)))
           diff(i) == Greater(size(i, g1) - size(i, g2), size(i, g2) - size(i, g1))
           f == [i \in 1 .. n |-> 0 - diff(i)]
<1>1. n \in Nat /\ n # 0 /\ DOMAIN rest = 1 .. n /\ \A i \in 1 .. n : rest[i].box \in Box
  BY Places, EntryParts
<1> HIDE DEF n
<1>2. ASSUME NEW i \in 1 .. n PROVE diff(i) \in Int
  <2>1. BoxOf(g1) \in Box /\ BoxOf(g2) \in Box
    BY BoxOfType
  <2>2. size(i, g1) \in Int /\ size(i, g2) \in Int
    BY <1>1, <2>1, UnionType, AreaType
  <2> HIDE DEF size
  <2> QED BY <2>2 DEF Greater
<1> HIDE DEF diff
<1>3. f \in [1 .. n -> Int] /\ \A i \in 1 .. n : f[i] = 0 - diff(i)
  BY <1>2
<1>4. 1 .. n \in SUBSET (1 .. n) /\ 1 .. n # {}
  <2>1. 1 \in 1 .. n
    BY <1>1
  <2> QED BY <2>1
<1>5. PICK i \in 1 .. n : \A j \in 1 .. n : f[i] < f[j] \/ (f[i] = f[j] /\ i <= j)
  <2> HIDE DEF f
  <2> QED BY <1>1, <1>3, <1>4, FirstOfLeast
<1>6. ASSUME NEW j \in 1 .. n PROVE diff(j) < diff(i) \/ (diff(j) = diff(i) /\ i <= j)
  <2> HIDE DEF f
  <2> QED BY <1>2, <1>3, <1>5
<1>7. \E k \in DOMAIN rest :
        \A j \in DOMAIN rest : diff(j) < diff(k) \/ (diff(j) = diff(k) /\ k <= j)
  BY <1>1, <1>6
<1> QED BY <1>7 DEF PickNext, diff


(* pickSeeds takes two entries, the first of them before the second.       *)
LEMMA SeedsIn ==
  ASSUME NEW es \in Seq(Entry), Len(es) >= 2
  PROVE  \E i, j \in 1 .. Len(es) : i < j /\ Seeds(es) = <<i, j>>
<1> DEFINE n == Len(es)
           pairs == {p \in (DOMAIN es) \X (DOMAIN es) : p[1] < p[2]}
           waste(p) == Waste(es[p[1]].box, es[p[2]].box)
           w(i, j) == waste(<<i, j>>)
           First(p) == \A q \in pairs :
               \/ waste(q) < waste(p)
               \/ /\ waste(q) = waste(p)
                  /\ p[1] < q[1] \/ (p[1] = q[1] /\ p[2] <= q[2])
<1>1. n \in Nat /\ n >= 2 /\ DOMAIN es = 1 .. n /\ \A i \in 1 .. n : es[i].box \in Box
  BY Places, EntryParts
<1> HIDE DEF n
<1>2. \A i, j \in 1 .. n : w(i, j) \in Int
  BY <1>1, BoxNumbers
<1>3. \A p \in pairs : waste(p) = w(p[1], p[2])
  OBVIOUS
<1>4. \A i, j \in 1 .. n : i < j => <<i, j>> \in pairs
  BY <1>1
<1>5. \A q \in pairs : q[1] \in 1 .. n - 1 /\ q[2] \in q[1] + 1 .. n /\ q[2] \in 1 .. n
  BY <1>1
<1> HIDE DEF waste
<1>6. ASSUME NEW i \in 1 .. n - 1
      PROVE  \E j \in i + 1 .. n : \A k \in i + 1 .. n :
               w(i, k) < w(i, j) \/ (w(i, k) = w(i, j) /\ j <= k)
  <2> DEFINE f == [j \in 1 .. n |-> 0 - w(i, j)]
  <2> HIDE DEF w
  <2>1. i \in 1 .. n /\ i + 1 .. n \in SUBSET (1 .. n) /\ i + 1 \in i + 1 .. n
    BY <1>1
  <2>2. f \in [1 .. n -> Int] /\ \A j \in 1 .. n : f[j] = 0 - w(i, j)
    BY <1>2, <2>1
  <2> HIDE DEF f
  <2>3. i + 1 .. n # {}
    BY <2>1
  <2>4. PICK j \in i + 1 .. n : \A k \in i + 1 .. n : f[j] < f[k] \/ (f[j] = f[k] /\ j <= k)
    BY <1>1, <2>1, <2>2, <2>3, FirstOfLeast
  <2>5. ASSUME NEW k \in i + 1 .. n PROVE w(i, k) < w(i, j) \/ (w(i, k) = w(i, j) /\ j <= k)
    <3>1. w(i, k) \in Int /\ w(i, j) \in Int /\ f[j] = 0 - w(i, j) /\ f[k] = 0 - w(i, k)
      BY <1>2, <2>1, <2>2
    <3> QED BY <2>4, <3>1
  <2> QED BY <2>5
<1> DEFINE Best(i, j) == \A k \in i + 1 .. n : w(i, k) < w(i, j) \/ (w(i, k) = w(i, j) /\ j <= k)
           b == [i \in 1 .. n - 1 |-> CHOOSE j \in i + 1 .. n : Best(i, j)]
           h == [i \in 1 .. n |-> IF i < n THEN 0 - w(i, b[i]) ELSE 0]
<1>7. \A i \in 1 .. n - 1 : b[i] \in i + 1 .. n /\ Best(i, b[i])
  <2>1. ASSUME NEW i \in 1 .. n - 1 PROVE b[i] \in i + 1 .. n /\ Best(i, b[i])
    <3>1. \E j \in i + 1 .. n : Best(i, j)
      BY <1>6
    <3> HIDE DEF Best
    <3> QED BY <3>1
  <2> QED BY <2>1
<1> HIDE DEF b
<1>8. ASSUME NEW i \in 1 .. n - 1
      PROVE  i \in 1 .. n /\ b[i] \in 1 .. n /\ i < b[i] /\ b[i] \in Nat
  <2>1. b[i] \in i + 1 .. n
    BY <1>7
  <2>2. PICK j : j = b[i]
    OBVIOUS
  <2>3. i \in 1 .. n /\ j \in 1 .. n /\ i < j /\ j \in Nat
    BY <1>1, <2>1, <2>2
  <2> QED BY <2>2, <2>3
<1>9. /\ h \in [1 .. n -> Int] /\ \A i \in 1 .. n - 1 : h[i] = 0 - w(i, b[i])
  <2>0. \A i \in 1 .. n : i < n => i \in 1 .. n - 1
    BY <1>1
  <2>1. \A i \in 1 .. n : i < n => i \in 1 .. n - 1 /\ b[i] \in 1 .. n
    BY <1>8, <2>0
  <2>2. \A i \in 1 .. n : i < n => w(i, b[i]) \in Int
    BY <1>2, <2>1
  <2>3. \A i \in 1 .. n - 1 : i \in 1 .. n /\ i < n
    BY <1>1
  <2> HIDE DEF w
  <2> QED BY <2>2, <2>3
<1>10. PICK i \in 1 .. n - 1 : \A k \in 1 .. n - 1 : h[i] < h[k] \/ (h[i] = h[k] /\ i <= k)
  <2> HIDE DEF h
  <2>1. 1 .. n - 1 \in SUBSET (1 .. n) /\ 1 \in 1 .. n - 1
    BY <1>1
  <2>2. 1 .. n - 1 # {}
    BY <2>1
  <2> QED BY <1>1, <1>9, <2>1, <2>2, FirstOfLeast
<1>11. i \in 1 .. n /\ b[i] \in 1 .. n /\ i < b[i] /\ b[i] \in Nat
  BY <1>8
<1> DEFINE p == <<i, b[i]>>
<1>12. ASSUME NEW q \in pairs
       PROVE  \/ waste(q) < waste(p)
              \/ /\ waste(q) = waste(p)
                 /\ i < q[1] \/ (i = q[1] /\ b[i] <= q[2])
  <2>1. q[1] \in 1 .. n - 1 /\ q[2] \in q[1] + 1 .. n /\ q[1] \in 1 .. n /\ q[2] \in 1 .. n
    BY <1>1, <1>5
  <2>2. waste(q) = w(q[1], q[2]) /\ waste(p) = w(i, b[i])
    BY <1>3
  <2>3. PICK x, y, z : x = w(q[1], q[2]) /\ y = w(q[1], b[q[1]]) /\ z = w(i, b[i])
    OBVIOUS
  <2>4. x \in Int /\ y \in Int /\ z \in Int
    BY <1>1, <1>2, <1>7, <1>11, <2>1, <2>3
  <2>5. x < y \/ (x = y /\ b[q[1]] <= q[2])
    BY <1>7, <2>1, <2>3
  <2>6. 0 - z < 0 - y \/ (0 - z = 0 - y /\ i <= q[1])
    BY <1>9, <1>10, <2>1, <2>3
  <2> HIDE DEF w, p, pairs
  <2> QED BY <1>11, <2>1, <2>2, <2>3, <2>4, <2>5, <2>6
<1>13. p \in pairs /\ First(p) /\ p[1] = i /\ p[2] = b[i]
  BY <1>4, <1>11, <1>12
<1>14. CASE \A q \in pairs : waste(q) = 0
  <2>1. Seeds(es) = <<1, n>>
    BY <1>14 DEF Seeds, n, waste
  <2>2. 1 \in 1 .. n /\ n \in 1 .. n /\ 1 < n
    BY <1>1
  <2> QED BY <2>1, <2>2 DEF n
<1>15. CASE ~ \A q \in pairs : waste(q) = 0
  <2>1. Seeds(es) = CHOOSE q \in pairs : First(q)
    BY <1>15 DEF Seeds, waste
  <2>2. Seeds(es) \in pairs
    <3> HIDE DEF First, pairs
    <3> QED BY <1>13, <2>1
  <2>3. PICK q \in pairs : Seeds(es) = q
    BY <2>2
  <2>4. q[1] \in 1 .. n /\ q[2] \in 1 .. n /\ q[1] < q[2] /\ q = <<q[1], q[2]>>
    BY <1>1
  <2> QED BY <2>3, <2>4 DEF n
<1> QED BY <1>14, <1>15

-----------------------------------------------------------------------------
(***************************************************************************)
(* References                                                              *)
(***************************************************************************)

Distinct(s) == \A i, j \in 1 .. Len(s) : s[i].ref = s[j].ref => i = j

Apart(s, t) == \A i \in 1 .. Len(s), j \in 1 .. Len(t) : s[i].ref # t[j].ref

(* What a concatenation consists of.                                       *)
LEMMA ConcatParts ==
  ASSUME NEW S, NEW s \in Seq(S), NEW t \in Seq(S)
  PROVE  /\ s \o t \in Seq(S) /\ Len(s \o t) = Len(s) + Len(t)
         /\ \A k \in 1 .. Len(s) + Len(t) :
              (s \o t)[k] = IF k <= Len(s) THEN s[k] ELSE t[k - Len(s)]
  OBVIOUS

(* What is left when an element is removed.                                *)
LEMMA RemoveAtParts ==
  ASSUME NEW S, NEW s \in Seq(S), NEW i \in 1 .. Len(s)
  PROVE  /\ RemoveAt(s, i) \in Seq(S) /\ Len(RemoveAt(s, i)) = Len(s) - 1
         /\ \A k \in 1 .. Len(s) - 1 : RemoveAt(s, i)[k] = IF k < i THEN s[k] ELSE s[k + 1]
<1> DEFINE a == SubSeq(s, 1, i - 1)
           b == SubSeq(s, i + 1, Len(s))
<1>1. /\ Len(s) \in Nat /\ i \in Nat /\ i <= Len(s) /\ i > 0
  OBVIOUS
<1>2. a \in Seq(S) /\ Len(a) = i - 1 /\ \A k \in 1 .. i - 1 : a[k] = s[k]
  BY <1>1
<1>3. b \in Seq(S) /\ Len(b) = Len(s) - i /\ \A k \in 1 .. Len(s) - i : b[k] = s[i + k]
  <2>1. CASE i = Len(s)
    BY <1>1, <2>1
  <2>2. CASE i < Len(s)
    BY <1>1, <2>2
  <2> QED BY <1>1, <2>1, <2>2
<1> HIDE DEF a, b
<1>4. /\ a \o b \in Seq(S) /\ Len(a \o b) = Len(s) - 1
      /\ \A k \in 1 .. Len(s) - 1 : (a \o b)[k] = IF k <= i - 1 THEN a[k] ELSE b[k - (i - 1)]
  <2>1. (i - 1) + (Len(s) - i) = Len(s) - 1
    BY <1>1
  <2>2. /\ a \o b \in Seq(S) /\ Len(a \o b) = Len(a) + Len(b)
        /\ \A k \in 1 .. Len(a) + Len(b) :
             (a \o b)[k] = IF k <= Len(a) THEN a[k] ELSE b[k - Len(a)]
    BY <1>2, <1>3, ConcatParts
  <2>3. Len(a) + Len(b) = Len(s) - 1 /\ Len(a) = i - 1
    BY <1>2, <1>3, <2>1
  <2> QED BY <2>2, <2>3
<1>5. ASSUME NEW k \in 1 .. Len(s) - 1
      PROVE  (a \o b)[k] = IF k < i THEN s[k] ELSE s[k + 1]
  <2>0. k \in Nat
    OBVIOUS
  <2>1. CASE k < i
    BY <1>1, <1>2, <1>4, <2>1
  <2>2. CASE k >= i
    <3>1. k - (i - 1) \in 1 .. Len(s) - i /\ i + (k - (i - 1)) = k + 1 /\ ~ (k <= i - 1) /\ ~ (k < i)
      BY <1>1, <2>2
    <3>2. (a \o b)[k] = b[k - (i - 1)]
      BY <1>4, <3>1
    <3>3. b[k - (i - 1)] = s[i + (k - (i - 1))]
      BY <1>3, <3>1
    <3> QED BY <3>1, <3>2, <3>3
  <2>3. k < i \/ k >= i
    BY <1>1, <2>0
  <2> QED BY <2>1, <2>2, <2>3
<1> QED BY <1>4, <1>5 DEF RemoveAt, a, b

(* The entries left, and what they refer to, when one is removed.          *)
LEMMA RemoveAtRefs ==
  ASSUME NEW s \in Seq(Entry), NEW i \in 1 .. Len(s), NEW r, r = RemoveAt(s, i)
  PROVE  /\ r \in Seq(Entry) /\ Len(r) = Len(s) - 1
         /\ ToSet(s) = ToSet(r) \cup {s[i]}
         /\ \A t : Apart(s, t) => Apart(r, t) /\ Apart(<<s[i]>>, t)
         /\ Distinct(s) => Distinct(r) /\ Apart(r, <<s[i]>>)
<1> DEFINE at(k) == IF k < i THEN k ELSE k + 1
           n == Len(s)
<1>1. n \in Nat /\ i \in 1 .. n /\ DOMAIN s = 1 .. n
  OBVIOUS
<1>2. r \in Seq(Entry) /\ Len(r) = n - 1 /\ \A k \in 1 .. n - 1 : r[k] = s[at(k)]
  BY RemoveAtParts
<1>3. DOMAIN r = 1 .. n - 1
  BY <1>1, <1>2
<1> HIDE DEF n
<1>4. \A k \in 1 .. n - 1 : at(k) \in 1 .. n /\ at(k) # i
  BY <1>1
<1>5. \A k, l \in 1 .. n - 1 : at(k) = at(l) => k = l
  BY <1>1
<1>6. ASSUME NEW m \in 1 .. n, m # i PROVE \E k \in 1 .. n - 1 : m = at(k)
  <2>1. CASE m < i
    BY <1>1, <2>1
  <2>2. CASE m > i
    <3>1. m - 1 \in 1 .. n - 1 /\ at(m - 1) = m
      BY <1>1, <2>2
    <3> QED BY <3>1
  <2> QED BY <1>1, <1>6, <2>1, <2>2
<1> HIDE DEF at
<1>7. ToSet(s) = ToSet(r) \cup {s[i]}
  <2>1. ASSUME NEW e \in ToSet(s) PROVE e \in ToSet(r) \cup {s[i]}
    <3>1. PICK m \in 1 .. n : e = s[m]
      BY <1>1 DEF ToSet
    <3>2. CASE m = i
      BY <3>1, <3>2
    <3>3. CASE m # i
      BY <1>2, <1>3, <1>6, <3>1, <3>3 DEF ToSet
    <3> QED BY <3>2, <3>3
  <2>2. ASSUME NEW e \in ToSet(r) PROVE e \in ToSet(s)
    BY <1>1, <1>2, <1>3, <1>4 DEF ToSet
  <2>3. s[i] \in ToSet(s)
    BY <1>1 DEF ToSet
  <2> QED BY <2>1, <2>2, <2>3
<1>8. Len(<<s[i]>>) = 1 /\ <<s[i]>>[1] = s[i]
  OBVIOUS
<1>9. ASSUME NEW t, Apart(s, t) PROVE Apart(r, t) /\ Apart(<<s[i]>>, t)
  <2>1. \A k \in 1 .. n, j \in 1 .. Len(t) : s[k].ref # t[j].ref
    BY <1>9 DEF Apart, n
  <2>2. Apart(r, t)
    BY <1>2, <1>4, <2>1 DEF Apart
  <2>3. Apart(<<s[i]>>, t)
    BY <1>1, <1>8, <2>1 DEF Apart
  <2> QED BY <2>2, <2>3
<1>10. ASSUME Distinct(s) PROVE Distinct(r) /\ Apart(r, <<s[i]>>)
  <2>1. \A k, l \in 1 .. n : s[k].ref = s[l].ref => k = l
    BY <1>10 DEF Distinct, n
  <2>2. ASSUME NEW k \in 1 .. n - 1, NEW l \in 1 .. n - 1, r[k].ref = r[l].ref
        PROVE  k = l
    <3>1. s[at(k)].ref = s[at(l)].ref
      BY <1>2, <2>2
    <3> QED BY <1>4, <1>5, <2>1, <3>1
  <2>3. Distinct(r)
    BY <1>2, <2>2 DEF Distinct
  <2>4. Apart(r, <<s[i]>>)
    BY <1>1, <1>2, <1>4, <1>8, <2>1 DEF Apart
  <2> QED BY <2>3, <2>4
<1> QED BY <1>2, <1>7, <1>9, <1>10 DEF n

(* Being apart is symmetric.                                               *)
LEMMA ApartSwap == \A s, t : Apart(s, t) => Apart(t, s)
  BY DEF Apart

(* The entries of a concatenation, and what they refer to.                 *)
LEMMA ConcatRefs ==
  ASSUME NEW s \in Seq(Entry), NEW t \in Seq(Entry)
  PROVE  /\ s \o t \in Seq(Entry) /\ Len(s \o t) = Len(s) + Len(t)
         /\ ToSet(s \o t) = ToSet(s) \cup ToSet(t)
         /\ Distinct(s) /\ Distinct(t) /\ Apart(s, t) => Distinct(s \o t)
         /\ \A u : Apart(s, u) /\ Apart(t, u) => Apart(s \o t, u)
<1> DEFINE m == Len(s)
           n == Len(t)
           c == s \o t
<1>1. /\ m \in Nat /\ n \in Nat /\ c \in Seq(Entry) /\ Len(c) = m + n
      /\ \A k \in 1 .. m + n : c[k] = IF k <= m THEN s[k] ELSE t[k - m]
  OBVIOUS
<1>2. ToSet(c) = ToSet(s) \cup ToSet(t)
  BY ConcatMembers
<1> HIDE DEF c, m, n
<1>3. ASSUME NEW k \in 1 .. m + n
      PROVE  \/ k \in 1 .. m /\ c[k] = s[k]
             \/ k - m \in 1 .. n /\ c[k] = t[k - m]
  <2>1. CASE k <= m
    BY <1>1, <2>1
  <2>2. CASE k > m
    BY <1>1, <2>2
  <2> QED BY <1>1, <2>1, <2>2
<1>4. ASSUME Distinct(s), Distinct(t), Apart(s, t) PROVE Distinct(c)
  <2>1. /\ \A i, j \in 1 .. m : s[i].ref = s[j].ref => i = j
        /\ \A i, j \in 1 .. n : t[i].ref = t[j].ref => i = j
        /\ \A i \in 1 .. m, j \in 1 .. n : s[i].ref # t[j].ref
    BY <1>4 DEF Distinct, Apart, m, n
  <2>2. ASSUME NEW i \in 1 .. m + n, NEW j \in 1 .. m + n, c[i].ref = c[j].ref
        PROVE  i = j
    <3>1. i \in Int /\ j \in Int
      OBVIOUS
    <3>2. CASE i \in 1 .. m /\ c[i] = s[i]
      BY <1>3, <2>1, <2>2, <3>2
    <3>3. CASE i - m \in 1 .. n /\ c[i] = t[i - m]
      <4>1. j - m \in 1 .. n /\ c[j] = t[j - m]
        BY <1>3, <2>1, <2>2, <3>3
      <4>2. i - m = j - m
        BY <2>1, <2>2, <3>3, <4>1
      <4> QED BY <1>1, <3>1, <4>2
    <3> QED BY <1>3, <3>2, <3>3
  <2> QED BY <1>1, <2>2 DEF Distinct
<1>5. ASSUME NEW u, Apart(s, u), Apart(t, u) PROVE Apart(c, u)
  <2>1. /\ \A i \in 1 .. m, j \in 1 .. Len(u) : s[i].ref # u[j].ref
        /\ \A i \in 1 .. n, j \in 1 .. Len(u) : t[i].ref # u[j].ref
    BY <1>5 DEF Apart, m, n
  <2>2. \A i \in 1 .. m + n, j \in 1 .. Len(u) : c[i].ref # u[j].ref
    BY <1>3, <2>1
  <2> QED BY <1>1, <2>2 DEF Apart
<1> QED BY <1>1, <1>2, <1>4, <1>5 DEF c, m, n

(* The entries when one is appended, and what they refer to.               *)
LEMMA AppendRefs ==
  ASSUME NEW s \in Seq(Entry), NEW e \in Entry
  PROVE  /\ Append(s, e) \in Seq(Entry) /\ Len(Append(s, e)) = Len(s) + 1
         /\ ToSet(Append(s, e)) = ToSet(s) \cup {e}
         /\ Distinct(s) /\ Apart(s, <<e>>) => Distinct(Append(s, e))
         /\ \A u : Apart(s, u) /\ Apart(<<e>>, u) => Apart(Append(s, e), u)
<1>1. <<e>> \in Seq(Entry) /\ Append(s, e) = s \o <<e>> /\ Len(<<e>>) = 1
  OBVIOUS
<1>2. Distinct(<<e>>)
  BY <1>1 DEF Distinct
<1>3. ToSet(<<e>>) = {e}
  BY OneMember
<1> QED BY <1>1, <1>2, <1>3, ConcatRefs

-----------------------------------------------------------------------------
(***************************************************************************)
(* splitNode                                                               *)
(***************************************************************************)

Filled == Seq(Entry) \ {<< >>}

Groups == [rest : Seq(Entry), g1 : Filled, g2 : Filled]

(* The rest and the groups share the entries es.                           *)
Shares(es, s) ==
  /\ s \in Groups
  /\ Len(s.rest) + Len(s.g1) + Len(s.g2) = Len(es)
  /\ ToSet(es) = ToSet(s.rest) \cup ToSet(s.g1) \cup ToSet(s.g2)
  /\ Distinct(es) =>
       /\ Distinct(s.rest) /\ Distinct(s.g1) /\ Distinct(s.g2)
       /\ Apart(s.rest, s.g1) /\ Apart(s.rest, s.g2) /\ Apart(s.g1, s.g2)

(* Each group can reach the least size.                                    *)
Reaches(s) ==
  Len(s.rest) + Len(s.g1) >= InnerMin /\ Len(s.rest) + Len(s.g2) >= InnerMin

TakesRest(s, t) ==
  \/ t = [rest |-> << >>, g1 |-> s.g1 \o s.rest, g2 |-> s.g2]
     /\ Len(s.rest) + Len(s.g1) = InnerMin
  \/ t = [rest |-> << >>, g1 |-> s.g1, g2 |-> s.g2 \o s.rest]
     /\ Len(s.rest) + Len(s.g2) = InnerMin

TakesOne(s, t) ==
  /\ Len(s.rest) + Len(s.g1) # InnerMin /\ Len(s.rest) + Len(s.g2) # InnerMin
  /\ \E i \in 1 .. Len(s.rest) :
       \/ t = [rest |-> RemoveAt(s.rest, i), g1 |-> Append(s.g1, s.rest[i]), g2 |-> s.g2]
       \/ t = [rest |-> RemoveAt(s.rest, i), g1 |-> s.g1, g2 |-> Append(s.g2, s.rest[i])]

(* A round of splitNode gives a group all the rest or one entry of it.     *)
LEMMA DistributeCases ==
  ASSUME NEW s \in Groups
  PROVE  \/ s.rest = << >> /\ Distribute(s) = s
         \/ s.rest # << >> /\ (TakesRest(s, Distribute(s)) \/ TakesOne(s, Distribute(s)))
<1>1. /\ s.rest \in Seq(Entry) /\ s.g1 \in Seq(Entry) /\ s.g2 \in Seq(Entry)
      /\ s.g1 # << >> /\ s.g2 # << >>
      /\ s = [rest |-> s.rest, g1 |-> s.g1, g2 |-> s.g2]
  BY DEF Groups, Filled
<1>2. CASE s.rest = << >>
  <2>1. s.g1 \o << >> = s.g1 /\ s.g2 \o << >> = s.g2
    BY <1>1
  <2>2. Distribute(s) = s
    BY <1>1, <1>2, <2>1 DEF Distribute
  <2> QED BY <1>2, <2>2
<1>3. CASE s.rest # << >>
  <2> DEFINE i == PickNext(s.rest, s.g1, s.g2)
  <2>1. i \in 1 .. Len(s.rest)
    BY <1>1, <1>3, PickNextIn, Places
  <2> HIDE DEF i
  <2> DEFINE one == [rest |-> RemoveAt(s.rest, i), g1 |-> Append(s.g1, s.rest[i]), g2 |-> s.g2]
             two == [rest |-> RemoveAt(s.rest, i), g1 |-> s.g1, g2 |-> Append(s.g2, s.rest[i])]
             all1 == [rest |-> << >>, g1 |-> s.g1 \o s.rest, g2 |-> s.g2]
             all2 == [rest |-> << >>, g1 |-> s.g1, g2 |-> s.g2 \o s.rest]
             A == Len(s.rest) + Len(s.g1) = InnerMin
             B == Len(s.rest) + Len(s.g2) = InnerMin
  <2>2. Distribute(s) = CASE s.rest = << >> -> s
                          [] A -> all1
                          [] B -> all2
                          [] OTHER -> IF PicksFirst(s.rest, i, s.g1, s.g2) THEN one ELSE two
    BY DEF Distribute, i
  <2> HIDE DEF one, two, all1, all2, A, B
  <2>3. \/ A /\ Distribute(s) = all1
        \/ B /\ Distribute(s) = all2
        \/ ~A /\ ~B /\ Distribute(s) \in {one, two}
    BY <1>3, <2>2
  <2>4. A /\ Distribute(s) = all1 => TakesRest(s, Distribute(s))
    BY DEF A, all1, TakesRest
  <2>5. B /\ Distribute(s) = all2 => TakesRest(s, Distribute(s))
    BY DEF B, all2, TakesRest
  <2>6. ~A /\ ~B /\ Distribute(s) \in {one, two} => TakesOne(s, Distribute(s))
    BY <2>1 DEF A, B, one, two, TakesOne
  <2> QED BY <1>3, <2>3, <2>4, <2>5, <2>6
<1> QED BY <1>2, <1>3

(* A group that takes all the rest keeps what is shared.                   *)
LEMMA TakesRestShares ==
  ASSUME NEW es \in Seq(Entry), NEW s, NEW t, Shares(es, s), TakesRest(s, t)
  PROVE  Shares(es, t) /\ t.rest = << >>
<1>1. PICK r, a, b : r = s.rest /\ a = s.g1 /\ b = s.g2
  OBVIOUS
<1>2. /\ r \in Seq(Entry) /\ a \in Seq(Entry) /\ b \in Seq(Entry) /\ a # << >> /\ b # << >>
      /\ Len(r) + Len(a) + Len(b) = Len(es) /\ ToSet(es) = ToSet(r) \cup ToSet(a) \cup ToSet(b)
      /\ Distinct(es) => /\ Distinct(r) /\ Distinct(a) /\ Distinct(b)
                         /\ Apart(r, a) /\ Apart(r, b) /\ Apart(a, b)
      /\ Len(r) \in Nat /\ Len(a) \in Nat /\ Len(b) \in Nat
  BY <1>1 DEF Shares, Groups, Filled
<1>3. /\ << >> \in Seq(Entry) /\ Len(<< >>) = 0 /\ ToSet(<< >>) = {} /\ Distinct(<< >>)
      /\ \A u : Apart(<< >>, u)
  BY OneMember DEF Distinct, Apart
<1>4. ASSUME t = [rest |-> << >>, g1 |-> a \o r, g2 |-> b]
      PROVE  Shares(es, t) /\ t.rest = << >>
  <2>1. t.rest = << >> /\ t.g1 = a \o r /\ t.g2 = b
    BY <1>4
  <2>2. /\ a \o r \in Seq(Entry) /\ Len(a \o r) = Len(a) + Len(r)
        /\ ToSet(a \o r) = ToSet(a) \cup ToSet(r)
        /\ Distinct(es) => Distinct(a \o r) /\ Apart(a \o r, b)
    BY <1>2, ConcatRefs, ApartSwap
  <2>3. a \o r # << >>
    BY <1>2, <2>2
  <2>4. t \in Groups
    BY <1>2, <1>3, <1>4, <2>2, <2>3 DEF Groups, Filled
  <2>5. Len(<< >>) + Len(a \o r) + Len(b) = Len(es)
    BY <1>2, <1>3, <2>2
  <2> QED BY <1>2, <1>3, <2>1, <2>2, <2>4, <2>5 DEF Shares
<1>5. ASSUME t = [rest |-> << >>, g1 |-> a, g2 |-> b \o r]
      PROVE  Shares(es, t) /\ t.rest = << >>
  <2>1. t.rest = << >> /\ t.g1 = a /\ t.g2 = b \o r
    BY <1>5
  <2>2. /\ b \o r \in Seq(Entry) /\ Len(b \o r) = Len(b) + Len(r)
        /\ ToSet(b \o r) = ToSet(b) \cup ToSet(r)
        /\ Distinct(es) => Distinct(b \o r) /\ Apart(a, b \o r)
    BY <1>2, ConcatRefs, ApartSwap
  <2>3. b \o r # << >>
    BY <1>2, <2>2
  <2>4. t \in Groups
    BY <1>2, <1>3, <1>5, <2>2, <2>3 DEF Groups, Filled
  <2>5. Len(<< >>) + Len(a) + Len(b \o r) = Len(es)
    BY <1>2, <1>3, <2>2
  <2> QED BY <1>2, <1>3, <2>1, <2>2, <2>4, <2>5 DEF Shares
<1> QED BY <1>1, <1>4, <1>5 DEF TakesRest

(* A group that takes one entry keeps what is shared.                      *)
LEMMA TakesOneShares ==
  ASSUME NEW es \in Seq(Entry), NEW s, NEW t, Shares(es, s), TakesOne(s, t)
  PROVE  Shares(es, t) /\ Len(t.rest) = Len(s.rest) - 1
<1>1. PICK r, a, b : r = s.rest /\ a = s.g1 /\ b = s.g2
  OBVIOUS
<1>2. /\ r \in Seq(Entry) /\ a \in Seq(Entry) /\ b \in Seq(Entry) /\ a # << >> /\ b # << >>
      /\ Len(r) + Len(a) + Len(b) = Len(es) /\ ToSet(es) = ToSet(r) \cup ToSet(a) \cup ToSet(b)
      /\ Distinct(es) => /\ Distinct(r) /\ Distinct(a) /\ Distinct(b)
                         /\ Apart(r, a) /\ Apart(r, b) /\ Apart(a, b)
      /\ Len(r) \in Nat /\ Len(a) \in Nat /\ Len(b) \in Nat
  BY <1>1 DEF Shares, Groups, Filled
<1>3. PICK i \in 1 .. Len(r) :
        \/ t = [rest |-> RemoveAt(r, i), g1 |-> Append(a, r[i]), g2 |-> b]
        \/ t = [rest |-> RemoveAt(r, i), g1 |-> a, g2 |-> Append(b, r[i])]
  BY <1>1 DEF TakesOne
<1>4. PICK q, e : q = RemoveAt(r, i) /\ e = r[i]
  OBVIOUS
<1>5. e \in Entry
  BY <1>2, <1>3, <1>4, Places
<1>6. /\ q \in Seq(Entry) /\ Len(q) = Len(r) - 1 /\ ToSet(r) = ToSet(q) \cup {e}
      /\ \A u : Apart(r, u) => Apart(q, u) /\ Apart(<<e>>, u)
      /\ Distinct(r) => Distinct(q) /\ Apart(q, <<e>>)
  BY <1>2, <1>3, <1>4, RemoveAtRefs
<1>7. ASSUME NEW x, NEW y, x \in Seq(Entry), y \in Seq(Entry),
             Distinct(es) => /\ Distinct(x) /\ Apart(r, x) /\ Apart(r, y) /\ Apart(x, y)
      PROVE  /\ Append(x, e) \in Seq(Entry) /\ Append(x, e) # << >>
             /\ Len(Append(x, e)) = Len(x) + 1 /\ ToSet(Append(x, e)) = ToSet(x) \cup {e}
             /\ Distinct(es) => /\ Distinct(Append(x, e)) /\ Apart(q, Append(x, e))
                                /\ Apart(Append(x, e), y)
  <2>1. /\ Append(x, e) \in Seq(Entry) /\ Len(Append(x, e)) = Len(x) + 1
        /\ ToSet(Append(x, e)) = ToSet(x) \cup {e}
        /\ Distinct(x) /\ Apart(x, <<e>>) => Distinct(Append(x, e))
        /\ \A u : Apart(x, u) /\ Apart(<<e>>, u) => Apart(Append(x, e), u)
    BY <1>5, <1>7, AppendRefs
  <2>2. Append(x, e) # << >>
    BY <1>7
  <2>3. ASSUME Distinct(es)
        PROVE  /\ Distinct(Append(x, e)) /\ Apart(q, Append(x, e)) /\ Apart(Append(x, e), y)
    <3>1. /\ Distinct(x) /\ Apart(r, x) /\ Apart(r, y) /\ Apart(x, y) /\ Distinct(r)
      BY <1>2, <1>7, <2>3
    <3>2. /\ Apart(q, x) /\ Apart(<<e>>, x) /\ Apart(<<e>>, y) /\ Apart(q, <<e>>)
      BY <1>6, <3>1
    <3>3. Apart(x, <<e>>) /\ Apart(x, q) /\ Apart(<<e>>, q)
      BY <3>2, ApartSwap
    <3>4. Apart(Append(x, e), q) /\ Apart(Append(x, e), y) /\ Distinct(Append(x, e))
      BY <2>1, <3>1, <3>2, <3>3
    <3> QED BY <3>4, ApartSwap
  <2> QED BY <2>1, <2>2, <2>3
<1>8. CASE t = [rest |-> q, g1 |-> Append(a, e), g2 |-> b]
  <2>1. t.rest = q /\ t.g1 = Append(a, e) /\ t.g2 = b
    BY <1>8
  <2>2. PICK x : x = Append(a, e)
    OBVIOUS
  <2>3. /\ x \in Seq(Entry) /\ x # << >> /\ Len(x) = Len(a) + 1 /\ ToSet(x) = ToSet(a) \cup {e}
        /\ Distinct(es) => /\ Distinct(x) /\ Apart(q, x) /\ Apart(x, b)
    BY <1>2, <1>7, <2>2
  <2>4. t \in Groups
    BY <1>2, <1>6, <1>8, <2>2, <2>3 DEF Groups, Filled
  <2>5. Len(q) + Len(x) + Len(b) = Len(es)
    <3>1. PICK k, l, m : k = Len(r) /\ l = Len(a) /\ m = Len(b)
      OBVIOUS
    <3>2. k \in Nat /\ l \in Nat /\ m \in Nat /\ k + l + m = Len(es)
      BY <1>2, <3>1
    <3>3. Len(q) = k - 1 /\ Len(x) = l + 1 /\ Len(b) = m
      BY <1>6, <2>3, <3>1
    <3>4. (k - 1) + (l + 1) + m = k + l + m
      BY <3>2
    <3> QED BY <3>2, <3>3, <3>4
  <2>6. Distinct(es) => /\ Distinct(q) /\ Distinct(x) /\ Distinct(b)
                        /\ Apart(q, x) /\ Apart(q, b) /\ Apart(x, b)
    BY <1>2, <1>6, <2>3
  <2>7. ToSet(es) = ToSet(q) \cup ToSet(x) \cup ToSet(b)
    BY <1>2, <1>6, <2>3
  <2> QED BY <1>1, <1>6, <2>1, <2>2, <2>4, <2>5, <2>6, <2>7 DEF Shares
<1>9. CASE t = [rest |-> q, g1 |-> a, g2 |-> Append(b, e)]
  <2>1. t.rest = q /\ t.g1 = a /\ t.g2 = Append(b, e)
    BY <1>9
  <2>2. PICK x : x = Append(b, e)
    OBVIOUS
  <2>3. /\ x \in Seq(Entry) /\ x # << >> /\ Len(x) = Len(b) + 1 /\ ToSet(x) = ToSet(b) \cup {e}
        /\ Distinct(es) => /\ Distinct(x) /\ Apart(q, x) /\ Apart(a, x)
    BY <1>2, <1>7, <2>2, ApartSwap
  <2>4. t \in Groups
    BY <1>2, <1>6, <1>9, <2>2, <2>3 DEF Groups, Filled
  <2>5. Len(q) + Len(a) + Len(x) = Len(es)
    <3>1. PICK k, l, m : k = Len(r) /\ l = Len(a) /\ m = Len(b)
      OBVIOUS
    <3>2. k \in Nat /\ l \in Nat /\ m \in Nat /\ k + l + m = Len(es)
      BY <1>2, <3>1
    <3>3. Len(q) = k - 1 /\ Len(x) = m + 1 /\ Len(a) = l
      BY <1>6, <2>3, <3>1
    <3>4. (k - 1) + l + (m + 1) = k + l + m
      BY <3>2
    <3> QED BY <3>2, <3>3, <3>4
  <2>6. Distinct(es) => /\ Distinct(q) /\ Distinct(a) /\ Distinct(x)
                        /\ Apart(q, a) /\ Apart(q, x) /\ Apart(a, x)
    BY <1>2, <1>6, <2>3
  <2>7. ToSet(es) = ToSet(q) \cup ToSet(a) \cup ToSet(x)
    BY <1>2, <1>6, <2>3
  <2> QED BY <1>1, <1>6, <2>1, <2>2, <2>4, <2>5, <2>6, <2>7 DEF Shares
<1> QED BY <1>3, <1>4, <1>8, <1>9

(* A round keeps what the groups share, and what they can reach.           *)
Sharing(es) == {s \in Groups : Shares(es, s) /\ Reaches(s)}

(* A round keeps the groups able to reach their least size.                *)
LEMMA RoundReaches ==
  ASSUME NEW es \in Seq(Entry), Len(es) >= 2 * InnerMin, NEW s \in Sharing(es)
  PROVE  /\ Distribute(s) \in Sharing(es)
         /\ Distribute(s).rest = << >> \/ Len(Distribute(s).rest) = Len(s.rest) - 1
<1>1. s \in Groups /\ Shares(es, s) /\ Reaches(s)
  BY DEF Sharing
<1>2. PICK t : t = Distribute(s)
  OBVIOUS
<1>3. PICK r, a, b : r = Len(s.rest) /\ a = Len(s.g1) /\ b = Len(s.g2)
  OBVIOUS
<1>4. /\ r \in Nat /\ a \in Nat /\ b \in Nat /\ InnerMin \in Nat
      /\ r + a + b = Len(es) /\ r + a >= InnerMin /\ r + b >= InnerMin
      /\ s.rest \in Seq(Entry) /\ s.g1 \in Seq(Entry) /\ s.g2 \in Seq(Entry)
  BY <1>1, <1>3, TBTreeAssumption DEF Shares, Reaches, Groups, Filled
<1>5. r + a + b >= 2 * InnerMin
  BY <1>4
<1>6. CASE s.rest = << >> /\ t = s
  BY <1>1, <1>2, <1>6 DEF Sharing
<1>7. CASE TakesRest(s, t)
  <2>1. Shares(es, t) /\ t.rest = << >>
    BY <1>1, <1>7, TakesRestShares
  <2>2. ASSUME t = [rest |-> << >>, g1 |-> s.g1 \o s.rest, g2 |-> s.g2], r + a = InnerMin
        PROVE  Reaches(t)
    <3>1. Len(t.rest) = 0 /\ Len(t.g1) = a + r /\ Len(t.g2) = b
      BY <1>3, <1>4, <2>2
    <3>2. 0 + (a + r) >= InnerMin /\ 0 + b >= InnerMin
      BY <1>4, <1>5, <2>2
    <3> QED BY <3>1, <3>2 DEF Reaches
  <2>3. ASSUME t = [rest |-> << >>, g1 |-> s.g1, g2 |-> s.g2 \o s.rest], r + b = InnerMin
        PROVE  Reaches(t)
    <3>1. Len(t.rest) = 0 /\ Len(t.g1) = a /\ Len(t.g2) = b + r
      BY <1>3, <1>4, <2>3
    <3>2. 0 + a >= InnerMin /\ 0 + (b + r) >= InnerMin
      BY <1>4, <1>5, <2>3
    <3> QED BY <3>1, <3>2 DEF Reaches
  <2>4. Reaches(t)
    BY <1>3, <1>7, <2>2, <2>3 DEF TakesRest
  <2> QED BY <1>2, <2>1, <2>4 DEF Sharing, Shares
<1>8. CASE TakesOne(s, t)
  <2>1. Shares(es, t) /\ Len(t.rest) = r - 1
    BY <1>1, <1>3, <1>8, TakesOneShares
  <2>2. r + a # InnerMin /\ r + b # InnerMin
    BY <1>3, <1>8 DEF TakesOne
  <2>3. (Len(t.g1) = a + 1 /\ Len(t.g2) = b) \/ (Len(t.g1) = a /\ Len(t.g2) = b + 1)
    <3>1. PICK i \in 1 .. Len(s.rest) :
            \/ t = [rest |-> RemoveAt(s.rest, i), g1 |-> Append(s.g1, s.rest[i]), g2 |-> s.g2]
            \/ t = [rest |-> RemoveAt(s.rest, i), g1 |-> s.g1, g2 |-> Append(s.g2, s.rest[i])]
      BY <1>8 DEF TakesOne
    <3>2. \/ t.g1 = Append(s.g1, s.rest[i]) /\ t.g2 = s.g2
          \/ t.g1 = s.g1 /\ t.g2 = Append(s.g2, s.rest[i])
      BY <3>1
    <3>3. s.rest[i] \in Entry
      BY <1>4, Places
    <3>4. Len(Append(s.g1, s.rest[i])) = a + 1 /\ Len(Append(s.g2, s.rest[i])) = b + 1
      BY <1>3, <1>4, <3>3, AppendRefs
    <3> QED BY <1>3, <3>2, <3>4
  <2>4. Reaches(t)
    BY <1>4, <2>1, <2>2, <2>3 DEF Reaches
  <2> QED BY <1>2, <1>3, <2>1, <2>4 DEF Sharing, Shares
<1> QED BY <1>1, <1>2, <1>6, <1>7, <1>8, DistributeCases

Rounds(es, start) == FoldLeft(LAMBDA s, i : Distribute(s), start, es)

(* The rounds of splitNode, one after the other.                           *)
LEMMA SplitFold ==
  ASSUME NEW es \in Seq(Entry), Len(es) >= 2 * InnerMin, NEW start \in Sharing(es)
  PROVE  \E h \in [0 .. Len(es) -> Sharing(es)] :
           /\ h[0] = start
           /\ Rounds(es, start) = h[Len(es)]
           /\ \A k \in 0 .. Len(es) - 1 : h[k + 1] = Distribute(h[k])
<1> DEFINE n == Len(es)
           S == Sharing(es)
           Step(iter) == [s \in SUBSET DOMAIN es |->
                            IF s = {} THEN start ELSE Distribute(iter[s \ {Max(s)}])]
           F == CHOOSE iter : iter = Step(iter)
           step == [x \in S \X Entry |-> Distribute(x[1])]
<1>1. n \in Nat /\ DOMAIN es = 1 .. n /\ \A i \in 1 .. n : es[i] \in Entry
  BY Places
<1> HIDE DEF n, S
<1>2. step \in [S \X Entry -> S]
  <2>1. \A x \in S \X Entry : Distribute(x[1]) \in S
    BY RoundReaches DEF S
  <2> QED BY <2>1
<1>3. FoldStep(S, Entry, es, start, step)
  BY <1>2 DEF FoldStep, S
<1>4. PICK it : Folds(it, S, es, start, step)
  <2> HIDE DEF step
  <2> QED BY <1>3, FoldExists, Zenon
<1>5. it = Step(it)
  <2>1. ASSUME NEW s \in SUBSET DOMAIN es, s # {}
        PROVE  it[s] = Distribute(it[s \ {Max(s)}])
    <3>1. Max(s) \in 1 .. n
      BY <1>1, <2>1, MaxIn
    <3>2. it[s \ {Max(s)}] \in S /\ es[Max(s)] \in Entry
      BY <1>1, <1>4, <3>1 DEF Folds
    <3> QED BY <1>4, <2>1, <3>2 DEF Folds
  <2> HIDE DEF step
  <2> QED BY <1>4, <2>1 DEF Folds
<1>6. F = Step(F)
  BY <1>5, Zenon
<1>7. Rounds(es, start) = F[DOMAIN es]
  BY Zenon DEF Rounds, FoldLeft, MapThenFoldSet
<1> HIDE DEF F
<1> DEFINE h == [k \in 0 .. n |-> F[1 .. k]]
<1>8. F[{}] = start /\ 1 .. 0 = {}
  BY <1>6
<1>9. ASSUME NEW k \in 0 .. n - 1 PROVE F[1 .. k + 1] = Distribute(F[1 .. k])
  <2>1. 1 .. k + 1 \in SUBSET DOMAIN es /\ 1 .. k + 1 # {} /\ k \in Nat
    BY <1>1
  <2>2. Max(1 .. k + 1) = k + 1 /\ (1 .. k + 1) \ {k + 1} = 1 .. k
    BY <2>1, MaxUpTo
  <2> QED BY <1>6, <2>1, <2>2
<1>10. /\ h[0] = start /\ h[n] = F[1 .. n]
       /\ \A k \in 0 .. n - 1 : h[k] = F[1 .. k] /\ h[k + 1] = F[1 .. k + 1]
  BY <1>1, <1>8
<1>11. \A k \in 0 .. n - 1 : h[k + 1] = Distribute(h[k])
  <2> HIDE DEF h
  <2> QED BY <1>9, <1>10
<1>12. \A k \in 0 .. n : h[k] \in S
  <2> DEFINE G == {k \in 0 .. n : h[k] \in S}
  <2> HIDE DEF h
  <2>1. 0 \in G
    BY <1>1, <1>10 DEF S
  <2>2. ASSUME NEW k \in 0 .. n - 1, k \in G PROVE k + 1 \in G
    <3>1. Distribute(h[k]) \in S
      BY <2>2, RoundReaches DEF S
    <3> QED BY <1>1, <1>11, <3>1
  <2>3. \A k \in 0 .. n : k \in G
    <3> HIDE DEF G
    <3> QED BY <1>1, <2>1, <2>2, FromZero
  <2> QED BY <2>3
<1>13. h \in [0 .. n -> S]
  <2>1. h = [k \in 0 .. n |-> h[k]]
    OBVIOUS
  <2> HIDE DEF h
  <2> QED BY <1>12, <2>1
<1> HIDE DEF h
<1> QED BY <1>1, <1>7, <1>10, <1>11, <1>13 DEF n, S

(* splitNode makes two nodes of legal size that share the entries.         *)
Halves(es, h) ==
  /\ h.g1 \in Filled /\ h.g2 \in Filled
  /\ Len(h.g1) \in InnerMin .. InnerMax /\ Len(h.g2) \in InnerMin .. InnerMax
  /\ ToSet(es) = ToSet(h.g1) \cup ToSet(h.g2)
  /\ Distinct(es) => Distinct(h.g1) /\ Distinct(h.g2) /\ Apart(h.g1, h.g2)

(* splitNode makes two nodes of legal size, which share the entries.       *)
LEMMA SplitNodeHalves ==
  ASSUME NEW es \in Seq(Entry), Len(es) = InnerMax + 1
  PROVE  Halves(es, SplitNode(es))
<1>1. PICK n, m : n = Len(es) /\ m = InnerMin
  OBVIOUS
<1>2. n \in Nat /\ m \in Nat /\ m >= 1 /\ n >= 2 * m /\ n >= 2 /\ InnerMax = n - 1
  BY <1>1, TBTreeAssumption
<1>3. PICK i, j \in 1 .. n : i < j /\ Seeds(es) = <<i, j>>
  BY <1>1, <1>2, SeedsIn
<1>4. PICK q, u, v : q = RemoveAt(es, j) /\ u = es[i] /\ v = es[j]
  OBVIOUS
<1>5. /\ q \in Seq(Entry) /\ Len(q) = n - 1 /\ ToSet(es) = ToSet(q) \cup {v} /\ v \in Entry
      /\ Distinct(es) => Distinct(q) /\ Apart(q, <<v>>)
  BY <1>1, <1>3, <1>4, RemoveAtRefs, Places
<1>6. i \in 1 .. Len(q) /\ q[i] = u
  <2>1. \A k \in 1 .. Len(es) - 1 : q[k] = IF k < j THEN es[k] ELSE es[k + 1]
    BY <1>1, <1>3, <1>4, RemoveAtParts
  <2> QED BY <1>2, <1>3, <1>4, <1>5, <2>1
<1>7. PICK r : r = RemoveAt(q, i)
  OBVIOUS
<1>8. /\ r \in Seq(Entry) /\ Len(r) = n - 2 /\ ToSet(q) = ToSet(r) \cup {u} /\ u \in Entry
      /\ \A w : Apart(q, w) => Apart(r, w) /\ Apart(<<u>>, w)
      /\ Distinct(q) => Distinct(r) /\ Apart(r, <<u>>)
  <2>1. u \in Entry
    BY <1>5, <1>6, Places
  <2>2. PICK k \in 1 .. Len(q) : k = i
    BY <1>6
  <2>3. /\ r \in Seq(Entry) /\ Len(r) = Len(q) - 1 /\ ToSet(q) = ToSet(r) \cup {u}
        /\ \A w : Apart(q, w) => Apart(r, w) /\ Apart(<<u>>, w)
        /\ Distinct(q) => Distinct(r) /\ Apart(r, <<u>>)
    BY <1>5, <1>6, <1>7, <2>2, RemoveAtRefs
  <2>4. Len(r) = n - 2
    BY <1>2, <1>5, <2>3
  <2> QED BY <2>1, <2>3, <2>4
<1> DEFINE start == [rest |-> r, g1 |-> <<u>>, g2 |-> <<v>>]
<1>9. /\ <<u>> \in Filled /\ <<v>> \in Filled /\ Len(<<u>>) = 1 /\ Len(<<v>>) = 1
      /\ ToSet(<<u>>) = {u} /\ ToSet(<<v>>) = {v} /\ Distinct(<<u>>) /\ Distinct(<<v>>)
  <2>1. \A x : Len(<<x>>) = 1 /\ <<x>> # << >> /\ Distinct(<<x>>)
    BY DEF Distinct
  <2>2. \A x : ToSet(<<x>>) = {x}
    BY OneMember
  <2>3. <<u>> \in Seq(Entry) /\ <<v>> \in Seq(Entry)
    BY <1>5, <1>8
  <2> QED BY <2>1, <2>2, <2>3 DEF Filled
<1>10. start \in Sharing(es)
  <2>1. start \in Groups /\ start.rest = r /\ start.g1 = <<u>> /\ start.g2 = <<v>>
    BY <1>8, <1>9 DEF Groups
  <2>2. Len(r) + Len(<<u>>) + Len(<<v>>) = Len(es)
    BY <1>1, <1>2, <1>8, <1>9
  <2>3. Distinct(es) => /\ Distinct(r) /\ Apart(r, <<u>>) /\ Apart(r, <<v>>) /\ Apart(<<u>>, <<v>>)
    BY <1>5, <1>8
  <2>4. ToSet(es) = ToSet(r) \cup ToSet(<<u>>) \cup ToSet(<<v>>)
    BY <1>5, <1>8, <1>9
  <2>5. Shares(es, start)
    <3> HIDE DEF start
    <3> QED BY <1>9, <2>1, <2>2, <2>3, <2>4 DEF Shares
  <2>6. Reaches(start)
    <3>1. Len(r) + 1 >= m
      BY <1>2, <1>8
    <3> HIDE DEF start
    <3> QED BY <1>1, <1>9, <2>1, <3>1 DEF Reaches
  <2> QED BY <2>1, <2>5, <2>6 DEF Sharing
<1>11. SplitNode(es) = Rounds(es, start)
  <2>1. Seeds(es)[1] = i /\ Seeds(es)[2] = j
    BY <1>3
  <2> QED BY <1>4, <1>7, <2>1, Zenon DEF SplitNode, Rounds
<1> HIDE DEF start
<1>12. PICK h \in [0 .. n -> Sharing(es)] :
         /\ h[0] = start /\ SplitNode(es) = h[n]
         /\ \A k \in 0 .. n - 1 : h[k + 1] = Distribute(h[k])
  <2>1. Len(es) >= 2 * InnerMin
    BY <1>1, <1>2
  <2> QED BY <1>1, <1>10, <1>11, <2>1, SplitFold
<1>13. \A k \in 0 .. n : h[k].rest = << >> \/ Len(h[k].rest) <= n - k
  <2> DEFINE G == {k \in 0 .. n : h[k].rest = << >> \/ Len(h[k].rest) <= n - k}
  <2>1. 0 \in G
    <3>1. h[0].rest = r
      BY <1>12 DEF start
    <3> QED BY <1>2, <1>8, <3>1
  <2>2. ASSUME NEW k \in 0 .. n - 1, k \in G PROVE k + 1 \in G
    <3>0. k \in 0 .. n /\ k + 1 \in 0 .. n /\ n - (k + 1) = (n - k) - 1
      BY <1>2
    <3>1. PICK s, t : s = h[k] /\ t = h[k + 1]
      OBVIOUS
    <3>2. s \in Sharing(es) /\ t = Distribute(s)
      BY <1>12, <3>0, <3>1
    <3>3. t.rest = << >> \/ Len(t.rest) = Len(s.rest) - 1
      BY <1>1, <1>2, <3>2, RoundReaches
    <3>4. s.rest = << >> => t.rest = << >>
      <4>1. s \in Groups
        BY <3>2 DEF Sharing
      <4>2. s.rest = << >> => ~ TakesOne(s, t)
        BY DEF TakesOne
      <4>3. TakesRest(s, t) => t.rest = << >>
        <5>1. TakesRest(s, t) => \E x, y : t = [rest |-> << >>, g1 |-> x, g2 |-> y]
          BY Zenon DEF TakesRest
        <5> QED BY <5>1
      <4> QED BY <3>2, <4>1, <4>2, <4>3, DistributeCases
    <3>5. Len(s.rest) \in Nat
      BY <3>2 DEF Sharing, Groups
    <3>6. CASE s.rest = << >>
      BY <3>0, <3>1, <3>4, <3>6
    <3>7. CASE Len(s.rest) <= n - k
      <4>1. PICK c, e : c = Len(s.rest) /\ e = Len(t.rest)
        OBVIOUS
      <4>2. t.rest = << >> \/ e <= n - (k + 1)
        BY <1>2, <3>0, <3>3, <3>5, <3>7, <4>1
      <4> QED BY <3>0, <3>1, <4>1, <4>2
    <3> QED BY <2>2, <3>1, <3>6, <3>7
  <2> HIDE DEF G
  <2>3. \A k \in 0 .. n : k \in G
    BY <1>2, <2>1, <2>2, FromZero
  <2> QED BY <2>3 DEF G
<1>14. PICK t : t = SplitNode(es)
  OBVIOUS
<1>15. n \in 0 .. n /\ n - n = 0
  BY <1>2
<1>16. t \in Groups /\ Shares(es, t) /\ Reaches(t) /\ (t.rest = << >> \/ Len(t.rest) <= 0)
  BY <1>12, <1>13, <1>14, <1>15 DEF Sharing
<1>17. t.rest = << >> /\ Len(t.rest) = 0 /\ ToSet(t.rest) = {}
  <2>1. Len(t.rest) \in Nat /\ (t.rest # << >> => Len(t.rest) # 0)
    BY <1>16, Places DEF Groups
  <2>2. t.rest = << >>
    BY <1>16, <2>1
  <2> QED BY <2>2, OneMember
<1>18. PICK a, b : a = Len(t.g1) /\ b = Len(t.g2)
  OBVIOUS
<1>19. a \in Nat /\ b \in Nat /\ 0 + a + b = n /\ 0 + a >= m /\ 0 + b >= m
  BY <1>1, <1>16, <1>17, <1>18 DEF Shares, Reaches, Groups, Filled
<1>20. a \in m .. InnerMax /\ b \in m .. InnerMax
  BY <1>2, <1>19
<1> QED BY <1>1, <1>14, <1>16, <1>17, <1>18, <1>20 DEF Halves, Shares, Groups

-----------------------------------------------------------------------------
(***************************************************************************)
(* The shape of the tree                                                   *)
(***************************************************************************)

RefsOf(x) == {x[i].ref : i \in 1 .. Len(x)}

(* References go with the entries.                                         *)
LEMMA MembersRefs ==
  ASSUME NEW x \in Seq(Entry), NEW y \in Seq(Entry)
  PROVE  /\ ToSet(x) \subseteq ToSet(y) => RefsOf(x) \subseteq RefsOf(y)
         /\ Apart(x, y) => RefsOf(x) \cap RefsOf(y) = {}
<1>1. DOMAIN x = 1 .. Len(x) /\ DOMAIN y = 1 .. Len(y)
  BY Places
<1>2. ASSUME ToSet(x) \subseteq ToSet(y), NEW i \in 1 .. Len(x)
      PROVE  x[i].ref \in RefsOf(y)
  <2>1. x[i] \in ToSet(y)
    BY <1>1, <1>2 DEF ToSet
  <2>2. PICK j \in 1 .. Len(y) : x[i] = y[j]
    BY <1>1, <2>1 DEF ToSet
  <2> QED BY <2>2 DEF RefsOf
<1>3. ToSet(x) \subseteq ToSet(y) => RefsOf(x) \subseteq RefsOf(y)
  BY <1>2 DEF RefsOf
<1>4. Apart(x, y) => RefsOf(x) \cap RefsOf(y) = {}
  BY DEF Apart, RefsOf
<1> QED BY <1>3, <1>4

(* Entries that are in two parts refer to what the parts refer to.         *)
LEMMA UnionRefs ==
  ASSUME NEW x \in Seq(Entry), NEW y \in Seq(Entry), NEW z \in Seq(Entry),
         ToSet(y) \cup ToSet(z) = ToSet(x)
  PROVE  RefsOf(x) = RefsOf(y) \cup RefsOf(z)
<1>1. RefsOf(y) \subseteq RefsOf(x) /\ RefsOf(z) \subseteq RefsOf(x)
  BY MembersRefs
<1>2. DOMAIN x = 1 .. Len(x) /\ DOMAIN y = 1 .. Len(y) /\ DOMAIN z = 1 .. Len(z)
  BY Places
<1>3. ASSUME NEW i \in 1 .. Len(x) PROVE x[i].ref \in RefsOf(y) \cup RefsOf(z)
  <2>1. x[i] \in ToSet(y) \cup ToSet(z)
    BY <1>2 DEF ToSet
  <2> QED BY <1>2, <2>1 DEF ToSet, RefsOf
<1>4. RefsOf(x) \subseteq RefsOf(y) \cup RefsOf(z)
  BY <1>3 DEF RefsOf
<1> QED BY <1>1, <1>4

(* An entry is exchanged for one that refers to the same node.             *)
LEMMA ExchangeRefs ==
  ASSUME NEW x \in Seq(Entry), NEW i \in 1 .. Len(x), NEW e \in Entry, e.ref = x[i].ref
  PROVE  /\ [x EXCEPT ![i] = e] \in Seq(Entry) /\ Len([x EXCEPT ![i] = e]) = Len(x)
         /\ RefsOf([x EXCEPT ![i] = e]) = RefsOf(x)
         /\ Distinct(x) => Distinct([x EXCEPT ![i] = e])
<1> DEFINE y == [x EXCEPT ![i] = e]
<1>1. y \in Seq(Entry) /\ Len(y) = Len(x) /\ \A j \in 1 .. Len(x) : y[j].ref = x[j].ref
  OBVIOUS
<1> HIDE DEF y
<1>2. RefsOf(y) = RefsOf(x)
  BY <1>1 DEF RefsOf
<1>3. Distinct(x) => Distinct(y)
  BY <1>1 DEF Distinct
<1> QED BY <1>1, <1>2, <1>3 DEF y

(* An entry more is a reference more.                                      *)
LEMMA AddRef ==
  ASSUME NEW x \in Seq(Entry), NEW e \in Entry
  PROVE  /\ Append(x, e) \in Filled /\ Len(Append(x, e)) = Len(x) + 1
         /\ RefsOf(Append(x, e)) = RefsOf(x) \cup {e.ref}
         /\ Distinct(x) /\ e.ref \notin RefsOf(x) => Distinct(Append(x, e))
<1>1. PICK y : y = Append(x, e)
  OBVIOUS
<1>2. /\ y \in Seq(Entry) /\ y # << >> /\ Len(y) = Len(x) + 1 /\ Len(x) \in Nat
      /\ \A j \in 1 .. Len(x) : y[j] = x[j]
      /\ y[Len(x) + 1] = e
  BY <1>1
<1>3. 1 .. Len(y) = (1 .. Len(x)) \cup {Len(x) + 1}
  BY <1>2
<1>4. RefsOf(y) = RefsOf(x) \cup {e.ref}
  BY <1>2, <1>3 DEF RefsOf
<1>5. ASSUME Distinct(x), e.ref \notin RefsOf(x) PROVE Distinct(y)
  <2>1. \A j \in 1 .. Len(x) : x[j].ref # e.ref
    BY <1>5 DEF RefsOf
  <2>2. \A i, j \in 1 .. Len(x) : x[i].ref = x[j].ref => i = j
    BY <1>5 DEF Distinct
  <2> QED BY <1>2, <1>3, <2>1, <2>2 DEF Distinct
<1> QED BY <1>1, <1>2, <1>4, <1>5 DEF Filled

(* The halves of a node refer to what it referred to, each to its part.    *)
LEMMA HalvesRefs ==
  ASSUME NEW es \in Seq(Entry), NEW h, Halves(es, h)
  PROVE  /\ RefsOf(h.g1) \subseteq RefsOf(es) /\ RefsOf(h.g2) \subseteq RefsOf(es)
         /\ Distinct(es) => RefsOf(h.g1) \cap RefsOf(h.g2) = {}
<1>1. /\ h.g1 \in Seq(Entry) /\ h.g2 \in Seq(Entry)
      /\ ToSet(h.g1) \subseteq ToSet(es) /\ ToSet(h.g2) \subseteq ToSet(es)
      /\ Distinct(es) => Apart(h.g1, h.g2)
  BY DEF Halves, Filled
<1> QED BY <1>1, MembersRefs

(* The fields of a node.                                                   *)
LEMMA NodeParts ==
  \A n \in Node : n.leaf \in BOOLEAN /\ n.entries \in Seq(Entry) /\ n.next \in Nat /\ n.trj \in Nat
  BY DEF Node

NewEntries(f, p, x, g) ==
  /\ g \in Seq(Node) /\ Len(g) = Len(f) /\ DOMAIN g = DOMAIN f
  /\ g[p].entries = x /\ g[p].leaf = f[p].leaf
  /\ g[p].next = f[p].next /\ g[p].trj = f[p].trj
  /\ \A id \in DOMAIN f : id # p => g[id] = f[id]

(* What differs when a node gets other entries.                            *)
LEMMA NodeReplaced ==
  ASSUME NEW f \in Seq(Node), NEW p \in DOMAIN f, NEW x \in Seq(Entry),
         NEW g, g = [f EXCEPT ![p].entries = x]
  PROVE  NewEntries(f, p, x, g)
<1>1. [f[p] EXCEPT !.entries = x] \in Node
  <2>1. f[p] \in Node
    OBVIOUS
  <2> QED BY <2>1 DEF Node
<1>2. /\ f[p] \in Node /\ p \in 1 .. Len(f)
  OBVIOUS
<1>3. /\ g \in Seq(Node) /\ Len(g) = Len(f) /\ DOMAIN g = DOMAIN f
      /\ g[p] = [f[p] EXCEPT !.entries = x]
      /\ \A id \in DOMAIN f : id # p => g[id] = f[id]
  BY <1>1, <1>2
<1> QED BY <1>2, <1>3 DEF Node, NewEntries

(* What differs when a node comes to the end of the file.                  *)
LEMMA NodeAppended ==
  ASSUME NEW f \in Seq(Node), NEW n \in Node, NEW g, g = Append(f, n)
  PROVE  /\ g \in Seq(Node) /\ Len(f) \in Nat /\ Len(g) = Len(f) + 1
         /\ DOMAIN f = 1 .. Len(f) /\ DOMAIN g = (DOMAIN f) \cup {Len(f) + 1}
         /\ Len(f) + 1 \notin DOMAIN f
         /\ g[Len(f) + 1] = n /\ \A id \in DOMAIN f : g[id] = f[id]
<1>1. /\ g \in Seq(Node) /\ Len(f) \in Nat /\ Len(g) = Len(f) + 1
      /\ DOMAIN f = 1 .. Len(f) /\ DOMAIN g = 1 .. Len(f) + 1
      /\ g[Len(f) + 1] = n /\ \A id \in DOMAIN f : g[id] = f[id]
  OBVIOUS
<1>2. 1 .. Len(f) + 1 = (1 .. Len(f)) \cup {Len(f) + 1} /\ Len(f) + 1 \notin 1 .. Len(f)
  BY <1>1
<1> QED BY <1>1, <1>2

(* lv gives the nodes their levels: the leaves are at 0, the sons of an    *)
(* inner node one below it.  No node of gone is a son, and every son has   *)
(* entries.                                                                *)
Son(u, f, lv, l, gone) == u \in DOMAIN f /\ u \notin gone /\ lv[u] + 1 = l /\ f[u].entries # << >>

Levelled(f, lv, gone) ==
  /\ f \in Seq(Node) /\ lv \in [DOMAIN f -> Nat]
  /\ \A id \in DOMAIN f :
       /\ f[id].leaf => lv[id] = 0
       /\ ~f[id].leaf => /\ f[id].entries # << >>
                         /\ \A u \in RefsOf(f[id].entries) : Son(u, f, lv, lv[id], gone)

(* An inner node has a level above 0, and sons one below it.               *)
LEMMA InnerLevel ==
  ASSUME NEW f, NEW lv, NEW gone, Levelled(f, lv, gone), NEW id \in DOMAIN f, ~f[id].leaf
  PROVE  /\ lv[id] \in Nat \ {0} /\ f[id].entries \in Filled
         /\ \A i \in 1 .. Len(f[id].entries) :
              /\ f[id].entries[i] \in Entry /\ f[id].entries[i].ref \in RefsOf(f[id].entries)
              /\ Son(f[id].entries[i].ref, f, lv, lv[id], gone)
<1>1. /\ f \in Seq(Node) /\ lv \in [DOMAIN f -> Nat] /\ f[id].entries # << >>
      /\ \A u \in RefsOf(f[id].entries) : Son(u, f, lv, lv[id], gone)
  BY DEF Levelled
<1>2. f[id] \in Node
  BY <1>1
<1>3. PICK x : x = f[id].entries
  OBVIOUS
<1>4. x \in Seq(Entry) /\ x # << >>
  BY <1>1, <1>2, <1>3, NodeParts
<1>5. \A i \in 1 .. Len(x) : x[i] \in Entry /\ x[i].ref \in RefsOf(x)
  BY <1>4, Places DEF RefsOf
<1>6. 1 \in 1 .. Len(x)
  BY <1>4, Places
<1>7. Son(x[1].ref, f, lv, lv[id], gone)
  BY <1>1, <1>3, <1>5, <1>6
<1>8. lv[x[1].ref] \in Nat /\ lv[id] \in Nat /\ lv[x[1].ref] + 1 = lv[id]
  BY <1>1, <1>7 DEF Son
<1>9. lv[id] # 0
  BY <1>8
<1> QED BY <1>1, <1>3, <1>4, <1>5, <1>8, <1>9 DEF Filled

(* Levels stay when a node gets other sons of the level below.             *)
LEMMA LevelledReplaced ==
  ASSUME NEW f, NEW lv, NEW gone, Levelled(f, lv, gone),
         NEW p \in DOMAIN f, ~f[p].leaf, NEW x \in Filled,
         \A u \in RefsOf(x) : Son(u, f, lv, lv[p], gone),
         NEW g, g = [f EXCEPT ![p].entries = x]
  PROVE  Levelled(g, lv, gone)
<1>1. /\ f \in Seq(Node) /\ lv \in [DOMAIN f -> Nat] /\ x \in Seq(Entry) /\ x # << >>
  BY DEF Levelled, Filled
<1>2. /\ g \in Seq(Node) /\ DOMAIN g = DOMAIN f /\ g[p].entries = x /\ g[p].leaf = f[p].leaf
      /\ \A id \in DOMAIN f : id # p => g[id] = f[id]
  <2>1. NewEntries(f, p, x, g)
    BY <1>1, NodeReplaced
  <2> QED BY <2>1 DEF NewEntries
<1>3. \A u \in DOMAIN f : f[u].entries # << >> => g[u].entries # << >>
  BY <1>1, <1>2
<1>4. \A u, l : Son(u, f, lv, l, gone) => Son(u, g, lv, l, gone)
  BY <1>2, <1>3 DEF Son
<1>5. ASSUME NEW id \in DOMAIN g
      PROVE  /\ g[id].leaf => lv[id] = 0
             /\ ~g[id].leaf => /\ g[id].entries # << >>
                               /\ \A u \in RefsOf(g[id].entries) : Son(u, g, lv, lv[id], gone)
  <2>1. CASE id = p
    BY <1>1, <1>2, <1>4, <2>1
  <2>2. CASE id # p
    BY <1>2, <1>4, <2>2 DEF Levelled
  <2> QED BY <2>1, <2>2
<1> QED BY <1>1, <1>2, <1>5 DEF Levelled

(* A node more, of level l.                                                *)
More(f, lv, l) == [id \in (DOMAIN f) \cup {Len(f) + 1} |-> IF id \in DOMAIN f THEN lv[id] ELSE l]

LevelledMore(f, lv, gone, l, g) ==
  /\ Levelled(g, More(f, lv, l), gone)
  /\ Levelled(g, More(f, lv, l), gone \cup {Len(f) + 1})
  /\ More(f, lv, l)[Len(f) + 1] = l /\ \A id \in DOMAIN f : More(f, lv, l)[id] = lv[id]

(* What a node of level l must be.                                         *)
Fitted(n, f, lv, gone, l) ==
  /\ n \in Node /\ l \in Nat
  /\ n.leaf => l = 0
  /\ ~n.leaf => n.entries # << >> /\ \A u \in RefsOf(n.entries) : Son(u, f, lv, l, gone)

(* Levels stay when a node comes to the end of the file.                   *)
LEMMA LevelledAppended ==
  ASSUME NEW f, NEW lv, NEW gone, Levelled(f, lv, gone), NEW n, NEW l, Fitted(n, f, lv, gone, l),
         NEW g, g = Append(f, n)
  PROVE  LevelledMore(f, lv, gone, l, g)
<1>1. f \in Seq(Node) /\ lv \in [DOMAIN f -> Nat] /\ n \in Node /\ l \in Nat
  BY DEF Levelled, Fitted
<1>2. PICK m, mv : m = Len(f) + 1 /\ mv = More(f, lv, l)
  OBVIOUS
<1>3. /\ g \in Seq(Node) /\ DOMAIN g = (DOMAIN f) \cup {m} /\ m \notin DOMAIN f
      /\ g[m] = n /\ \A id \in DOMAIN f : g[id] = f[id]
  BY <1>1, <1>2, NodeAppended
<1>4. mv \in [DOMAIN g -> Nat] /\ mv[m] = l /\ \A id \in DOMAIN f : mv[id] = lv[id]
  BY <1>1, <1>2, <1>3 DEF More
<1>5. \A u, k : Son(u, f, lv, k, gone) => Son(u, g, mv, k, gone) /\ Son(u, g, mv, k, gone \cup {m})
  BY <1>3, <1>4 DEF Son
<1>6. ASSUME NEW id \in DOMAIN g, NEW far \in {gone, gone \cup {m}}
      PROVE  /\ g[id].leaf => mv[id] = 0
             /\ ~g[id].leaf => /\ g[id].entries # << >>
                               /\ \A u \in RefsOf(g[id].entries) : Son(u, g, mv, mv[id], far)
  <2>1. CASE id = m
    BY <1>3, <1>4, <1>5, <1>6, <2>1 DEF Fitted
  <2>2. CASE id \in DOMAIN f
    <3>1. g[id] = f[id] /\ mv[id] = lv[id]
      BY <1>3, <1>4, <2>2
    <3>2. \A u, k : Son(u, f, lv, k, gone) => Son(u, g, mv, k, far)
      BY <1>5, <1>6
    <3>3. f[id].leaf => lv[id] = 0
      BY <2>2 DEF Levelled
    <3>4. ~f[id].leaf => /\ f[id].entries # << >>
                         /\ \A u \in RefsOf(f[id].entries) : Son(u, f, lv, lv[id], gone)
      BY <2>2 DEF Levelled
    <3> QED BY ONLY <3>1, <3>2, <3>3, <3>4
  <2> QED BY <1>3, <2>1, <2>2
<1>7. Levelled(g, mv, gone) /\ Levelled(g, mv, gone \cup {m})
  BY <1>3, <1>4, <1>6 DEF Levelled
<1> QED BY <1>2, <1>4, <1>7 DEF LevelledMore

(* The sizes of the nodes; those of small may have a root's.               *)
Fits(n, id, small) ==
  IF n.leaf THEN Len(n.entries) \in 0 .. LeafMax - 1
  ELSE Len(n.entries) \in (IF id \in small THEN Lesser(2, InnerMin) ELSE InnerMin) .. InnerMax

Sized(f, small) == \A id \in DOMAIN f : Fits(f[id], id, small)

(* More nodes may have the size of a root.                                 *)
LEMMA SizedMore ==
  ASSUME NEW f, NEW small, NEW more, Sized(f, small), small \subseteq more
  PROVE  Sized(f, more)
<1>1. ASSUME NEW id \in DOMAIN f PROVE Fits(f[id], id, more)
  <2>1. Fits(f[id], id, small)
    BY DEF Sized
  <2>2. CASE f[id].leaf \/ (id \in small <=> id \in more)
    BY <2>1, <2>2 DEF Fits
  <2>3. CASE ~f[id].leaf /\ id \in more /\ id \notin small
    <3>1. PICK k : k = Len(f[id].entries)
      OBVIOUS
    <3>2. k \in InnerMin .. InnerMax
      BY <2>1, <2>3, <3>1 DEF Fits
    <3>3. k \in Lesser(2, InnerMin) .. InnerMax
      BY <3>2, TBTreeAssumption DEF Lesser
    <3> QED BY <2>3, <3>1, <3>3 DEF Fits
  <2> QED BY <2>2, <2>3
<1> QED BY <1>1 DEF Sized

(* No node is the son of two nodes or at two places, gone left aside.      *)
Inners(f, gone) == {id \in DOMAIN f : id \notin gone /\ ~f[id].leaf}

Used(f, gone) == UNION {RefsOf(f[id].entries) : id \in Inners(f, gone)}

(* What is referred to is in the file and has entries.                     *)
LEMMA UsedInFile ==
  ASSUME NEW f, NEW lv, NEW gone, Levelled(f, lv, gone)
  PROVE  \A u \in Used(f, gone) : u \in DOMAIN f /\ u \notin gone /\ f[u].entries # << >>
BY DEF Levelled, Used, Inners, Son

Once(f, gone) ==
  \A a \in Inners(f, gone) :
    /\ Distinct(f[a].entries)
    /\ \A b \in Inners(f, gone) :
         b # a => RefsOf(f[a].entries) \cap RefsOf(f[b].entries) = {}

OnceWith(f, gone, p, x, g) ==
  /\ Used(f, gone) = Used(f, gone \cup {p}) \cup RefsOf(f[p].entries)
  /\ Once(f, gone) => Used(f, gone \cup {p}) \cap RefsOf(f[p].entries) = {}
  /\ Used(g, gone) = Used(f, gone \cup {p}) \cup RefsOf(x)
  /\ Once(f, gone) /\ Distinct(x) /\ Used(f, gone \cup {p}) \cap RefsOf(x) = {} => Once(g, gone)

(* The nodes referred to when a node gets other entries.                   *)
LEMMA OnceReplaced ==
  ASSUME NEW f \in Seq(Node), NEW gone, NEW p \in DOMAIN f, p \notin gone, ~f[p].leaf,
         NEW x \in Seq(Entry), NEW g, g = [f EXCEPT ![p].entries = x]
  PROVE  OnceWith(f, gone, p, x, g)
<1>1. /\ DOMAIN g = DOMAIN f /\ g[p].entries = x /\ g[p].leaf = f[p].leaf
      /\ \A id \in DOMAIN f : id # p => g[id] = f[id]
  <2>1. NewEntries(f, p, x, g)
    BY NodeReplaced
  <2> QED BY <2>1 DEF NewEntries
<1>2. /\ Inners(f, gone) = Inners(f, gone \cup {p}) \cup {p} /\ p \notin Inners(f, gone \cup {p})
      /\ Inners(g, gone) = Inners(f, gone)
      /\ \A id \in Inners(f, gone \cup {p}) : g[id] = f[id]
  BY <1>1 DEF Inners
<1>3. PICK J : J = Inners(f, gone \cup {p})
  OBVIOUS
<1>4. Used(f, gone) = Used(f, gone \cup {p}) \cup RefsOf(f[p].entries)
  BY <1>2, Zenon DEF Used
<1>5. Used(g, gone) = Used(f, gone \cup {p}) \cup RefsOf(x)
  <2>1. {RefsOf(g[id].entries) : id \in J} = {RefsOf(f[id].entries) : id \in J}
    BY <1>2, <1>3
  <2>2. Used(g, gone) = UNION {RefsOf(g[id].entries) : id \in J \cup {p}}
    BY <1>2, <1>3 DEF Used
  <2>3. Used(g, gone) = (UNION {RefsOf(g[id].entries) : id \in J}) \cup RefsOf(g[p].entries)
    BY <2>2, Zenon
  <2> QED BY <1>1, <1>3, <2>1, <2>3 DEF Used
<1>6. Once(f, gone) => Used(f, gone \cup {p}) \cap RefsOf(f[p].entries) = {}
  <2>1. ASSUME Once(f, gone), NEW a \in J PROVE RefsOf(f[a].entries) \cap RefsOf(f[p].entries) = {}
    BY <1>2, <1>3, <2>1 DEF Once
  <2> QED BY <1>3, <2>1 DEF Used
<1>7. ASSUME Once(f, gone), Distinct(x), Used(f, gone \cup {p}) \cap RefsOf(x) = {}
      PROVE  Once(g, gone)
  <2>1. \A a \in J : RefsOf(f[a].entries) \cap RefsOf(x) = {}
    BY <1>3, <1>7 DEF Used
  <2>2. \A a \in J : /\ Distinct(f[a].entries)
                     /\ \A b \in J : b # a => RefsOf(f[a].entries) \cap RefsOf(f[b].entries) = {}
    BY <1>2, <1>3, <1>7 DEF Once
  <2>3. Inners(g, gone) = J \cup {p} /\ \A a \in J : g[a] = f[a] /\ a # p
    BY <1>2, <1>3
  <2>4. ASSUME NEW a \in J \cup {p}, NEW b \in J \cup {p}
        PROVE  /\ Distinct(g[a].entries)
               /\ b # a => RefsOf(g[a].entries) \cap RefsOf(g[b].entries) = {}
    <3>1. CASE a = p
      BY <1>1, <1>7, <2>1, <2>3, <3>1
    <3>2. CASE b = p /\ a # p
      BY <1>1, <2>1, <2>2, <2>3, <3>2
    <3>3. CASE a # p /\ b # p
      BY <2>2, <2>3, <3>3
    <3> QED BY <3>1, <3>2, <3>3
  <2> QED BY <2>3, <2>4 DEF Once
<1> QED BY <1>4, <1>5, <1>6, <1>7 DEF OnceWith

OnceMore(f, gone, n, g) ==
  /\ Used(g, gone \cup {Len(f) + 1}) = Used(f, gone)
  /\ Once(f, gone) => Once(g, gone \cup {Len(f) + 1})
  /\ n.leaf => Used(g, gone) = Used(f, gone) /\ (Once(f, gone) => Once(g, gone))
  /\ ~n.leaf => /\ Used(g, gone) = Used(f, gone) \cup RefsOf(n.entries)
                /\ Once(f, gone) /\ Distinct(n.entries)
                     /\ Used(f, gone) \cap RefsOf(n.entries) = {} => Once(g, gone)

(* The nodes referred to when a node comes to the end of the file.         *)
LEMMA OnceAppended ==
  ASSUME NEW f \in Seq(Node), NEW gone \in SUBSET DOMAIN f, NEW n \in Node, NEW g, g = Append(f, n)
  PROVE  OnceMore(f, gone, n, g)
<1>1. PICK m, J : m = Len(f) + 1 /\ J = Inners(f, gone)
  OBVIOUS
<1>2. /\ DOMAIN g = (DOMAIN f) \cup {m} /\ m \notin DOMAIN f /\ g[m] = n
      /\ \A id \in DOMAIN f : g[id] = f[id]
  BY <1>1, NodeAppended
<1>3. /\ Inners(g, gone \cup {m}) = J /\ \A id \in J : g[id] = f[id] /\ id # m
      /\ n.leaf => Inners(g, gone) = J
      /\ ~n.leaf => Inners(g, gone) = J \cup {m}
  BY <1>1, <1>2 DEF Inners
<1>4. {RefsOf(g[id].entries) : id \in J} = {RefsOf(f[id].entries) : id \in J}
  BY <1>3
<1>5. Once(f, gone) =>
        \A a \in J : /\ Distinct(g[a].entries)
                     /\ \A b \in J : b # a => RefsOf(g[a].entries) \cap RefsOf(g[b].entries) = {}
  BY <1>1, <1>3 DEF Once
<1>6. /\ Used(g, gone \cup {m}) = Used(f, gone)
      /\ Once(f, gone) => Once(g, gone \cup {m})
  <2>1. Used(g, gone \cup {m}) = Used(f, gone)
    BY <1>1, <1>3, <1>4 DEF Used
  <2> QED BY <1>3, <1>5, <2>1 DEF Once
<1>7. n.leaf => Used(g, gone) = Used(f, gone) /\ (Once(f, gone) => Once(g, gone))
  BY <1>1, <1>3, <1>4, <1>5 DEF Used, Once
<1>8. ASSUME ~n.leaf
      PROVE  /\ Used(g, gone) = Used(f, gone) \cup RefsOf(n.entries)
             /\ Once(f, gone) /\ Distinct(n.entries)
                  /\ Used(f, gone) \cap RefsOf(n.entries) = {} => Once(g, gone)
  <2>1. Used(g, gone) = UNION {RefsOf(g[id].entries) : id \in J \cup {m}}
    BY <1>3, <1>8 DEF Used
  <2>2. Used(g, gone) = (UNION {RefsOf(g[id].entries) : id \in J}) \cup RefsOf(g[m].entries)
    BY <2>1, Zenon
  <2>3. Used(g, gone) = Used(f, gone) \cup RefsOf(n.entries)
    BY <1>1, <1>2, <1>4, <2>2 DEF Used
  <2>4. ASSUME Once(f, gone), Distinct(n.entries), Used(f, gone) \cap RefsOf(n.entries) = {}
        PROVE  Once(g, gone)
    <3>1. \A a \in J : RefsOf(g[a].entries) \cap RefsOf(n.entries) = {}
      BY <1>1, <1>3, <2>4 DEF Used
    <3>2. ASSUME NEW a \in J \cup {m}, NEW b \in J \cup {m}
          PROVE  /\ Distinct(g[a].entries)
                 /\ b # a => RefsOf(g[a].entries) \cap RefsOf(g[b].entries) = {}
      <4>0. \A c \in J : c # m
        BY <1>3
      <4>1. CASE a = m
        BY <1>2, <2>4, <3>1, <4>0, <4>1
      <4>2. CASE b = m /\ a # m
        BY <1>2, <1>5, <2>4, <3>1, <4>2
      <4>3. CASE a # m /\ b # m
        BY <1>5, <2>4, <4>3
      <4> QED BY <4>1, <4>2, <4>3
    <3> QED BY <1>3, <1>8, <3>2 DEF Once
  <2> QED BY <2>3, <2>4
<1> QED BY <1>1, <1>6, <1>7, <1>8 DEF OnceMore

-----------------------------------------------------------------------------
(***************************************************************************)
(* insertLeaf: one step up                                                 *)
(***************************************************************************)

(* What the way up has kept when it is at level k: the nodes of f above it *)
(* and the leaves are as they were, and the new nodes are inner ones.      *)
Kept(f, lv, g, l2, k) ==
  /\ DOMAIN f \subseteq DOMAIN g
  /\ \A x \in DOMAIN f : /\ l2[x] = lv[x] /\ g[x].leaf = f[x].leaf /\ g[x].next = f[x].next
                         /\ lv[x] = 0 \/ lv[x] > k => g[x] = f[x]
  /\ \A x \in DOMAIN g : x \notin DOMAIN f => ~g[x].leaf /\ g[x].next = 0

Risen(f, lv, gone, small, id, k, g, l2) ==
  /\ Levelled(g, l2, gone) /\ Kept(f, lv, g, l2, k)
  /\ Sized(g, small) /\ Once(g, gone)
  /\ \A u \in Used(g, gone) : u \in Used(f, gone) \/ u = id \/ u \notin DOMAIN f

(* A node that comes new into the tree under a node of level l.            *)
Fresh(u, f, id, g, l2, l, gone) ==
  Son(u, g, l2, l, gone) /\ u \notin Used(g, gone) /\ (u = id \/ u \notin DOMAIN f)

(* What is kept up to a level is kept up to the next.                      *)
LEMMA KeptHigher ==
  ASSUME NEW f, NEW lv, NEW g, NEW l2, NEW k \in Nat, Kept(f, lv, g, l2, k),
         lv \in [DOMAIN f -> Nat]
  PROVE  Kept(f, lv, g, l2, k + 1)
<1>1. \A x \in DOMAIN f : lv[x] > k + 1 => lv[x] > k
  OBVIOUS
<1> QED BY <1>1 DEF Kept

(* The entries x that node q is to have, with sons of N that are new.      *)
Successor(f, lv, gone, id, k, g, l2, q, N, x) ==
  /\ q \in DOMAIN f /\ q \notin gone /\ lv[q] = k + 1
  /\ \A u \in N : Fresh(u, f, id, g, l2, k + 1, gone)
  /\ x \in Filled /\ Distinct(x) /\ RefsOf(x) \subseteq RefsOf(g[q].entries) \cup N
  /\ Len(x) \in InnerMin .. InnerMax \/ Len(x) \in Len(g[q].entries) .. InnerMax

Succeeded(gone, g, q, x, h) ==
  NewEntries(g, q, x, h) /\ Used(h, gone) = Used(g, gone \cup {q}) \cup RefsOf(x)

(* A node on the way up gets its new entries.                              *)
LEMMA RisenReplaced ==
  ASSUME NEW f, NEW lv \in [DOMAIN f -> Nat], NEW gone, NEW small, NEW id, NEW k \in Nat, NEW g, NEW l2,
         Risen(f, lv, gone, small, id, k, g, l2),
         NEW q, NEW N, NEW x, Successor(f, lv, gone, id, k, g, l2, q, N, x),
         NEW h, h = [g EXCEPT ![q].entries = x]
  PROVE  /\ Risen(f, lv, gone, small, id, k + 1, h, l2)
         /\ Succeeded(gone, g, q, x, h)
<1> USE DEF Successor
<1>1. /\ Levelled(g, l2, gone) /\ Kept(f, lv, g, l2, k) /\ Sized(g, small) /\ Once(g, gone)
      /\ g \in Seq(Node)
  BY DEF Risen, Levelled
<1>2. q \in DOMAIN g /\ l2[q] = k + 1 /\ ~g[q].leaf
  <2>1. q \in DOMAIN g /\ l2[q] = k + 1
    BY <1>1 DEF Kept
  <2> QED BY <1>1, <2>1 DEF Levelled
<1>3. x \in Seq(Entry) /\ x # << >>
  BY DEF Filled
<1>4. NewEntries(g, q, x, h)
  BY <1>1, <1>2, <1>3, NodeReplaced
<1>5. /\ DOMAIN h = DOMAIN g /\ h[q].entries = x /\ ~h[q].leaf
      /\ h[q].next = g[q].next /\ \A y \in DOMAIN g : y # q => h[y] = g[y]
  BY <1>2, <1>4 DEF NewEntries
<1>6. /\ Used(g, gone) = Used(g, gone \cup {q}) \cup RefsOf(g[q].entries)
      /\ Used(g, gone \cup {q}) \cap RefsOf(g[q].entries) = {}
      /\ Used(h, gone) = Used(g, gone \cup {q}) \cup RefsOf(x)
      /\ Used(g, gone \cup {q}) \cap RefsOf(x) = {} => Once(h, gone)
  <2>1. OnceWith(g, gone, q, x, h)
    BY <1>1, <1>2, <1>3, OnceReplaced
  <2> QED BY <1>1, <2>1 DEF OnceWith
<1>7. Levelled(h, l2, gone)
  <2>1. \A u \in RefsOf(g[q].entries) : Son(u, g, l2, l2[q], gone)
    BY <1>1, <1>2 DEF Levelled
  <2>2. \A u \in N : Son(u, g, l2, l2[q], gone)
    BY <1>2 DEF Fresh
  <2>3. \A u \in RefsOf(x) : Son(u, g, l2, l2[q], gone)
    BY <2>1, <2>2
  <2> QED BY <1>1, <1>2, <2>3, LevelledReplaced
<1>8. Once(h, gone)
  <2>1. \A u \in N : u \notin Used(g, gone)
    BY DEF Fresh
  <2> QED BY <1>6, <2>1
<1>9. Kept(f, lv, h, l2, k + 1)
  <2>1. ASSUME NEW y \in DOMAIN f
        PROVE  /\ l2[y] = lv[y] /\ h[y].leaf = f[y].leaf /\ h[y].next = f[y].next
               /\ lv[y] = 0 \/ lv[y] > k + 1 => h[y] = f[y]
    <3>1. /\ lv[y] \in Nat /\ y \in DOMAIN g /\ l2[y] = lv[y]
          /\ g[y].leaf = f[y].leaf /\ g[y].next = f[y].next
      BY <1>1 DEF Kept
    <3>2. lv[y] = 0 \/ lv[y] > k + 1 => g[y] = f[y] /\ y # q
      BY <1>1, <3>1 DEF Kept
    <3>3. h[y].leaf = g[y].leaf /\ h[y].next = g[y].next
      BY <1>2, <1>5, <3>1
    <3> QED BY <1>5, <3>1, <3>2, <3>3
  <2>2. \A y \in DOMAIN h : y \notin DOMAIN f => ~h[y].leaf /\ h[y].next = 0
    BY <1>1, <1>5 DEF Kept
  <2>3. DOMAIN f \subseteq DOMAIN h
    BY <1>1, <1>5 DEF Kept
  <2> QED BY <2>1, <2>2, <2>3 DEF Kept
<1>10. Sized(h, small)
  <2>1. ASSUME NEW y \in DOMAIN h PROVE Fits(h[y], y, small)
    <3>1. Fits(g[y], y, small)
      BY <1>1, <1>5 DEF Sized
    <3>2. CASE y # q
      BY <1>5, <3>1, <3>2
    <3>3. CASE y = q
      <4>1. PICK m, l : m = Len(x) /\ l = Len(g[q].entries)
        OBVIOUS
      <4>2. PICK least \in {Lesser(2, InnerMin), InnerMin} :
              /\ l \in least .. InnerMax
              /\ least = IF y \in small THEN Lesser(2, InnerMin) ELSE InnerMin
        BY <1>2, <3>1, <3>3, <4>1 DEF Fits
      <4>3. m \in InnerMin .. InnerMax \/ m \in l .. InnerMax
        BY <4>1
      <4>4. InnerMin \in Nat /\ InnerMax \in Nat /\ least \in Nat /\ least <= InnerMin
        BY TBTreeAssumption DEF Lesser
      <4>5. m \in least .. InnerMax
        BY <4>2, <4>3, <4>4
      <4> QED BY <1>5, <3>3, <4>1, <4>2, <4>5 DEF Fits
    <3> QED BY <3>2, <3>3
  <2> QED BY <2>1 DEF Sized
<1>11. ASSUME NEW u \in Used(h, gone)
       PROVE  u \in Used(f, gone) \/ u = id \/ u \notin DOMAIN f
  <2>1. u \in Used(g, gone) \/ u \in N
    BY <1>6
  <2> QED BY <2>1 DEF Risen, Fresh
<1> QED BY <1>4, <1>6, <1>7, <1>8, <1>9, <1>10, <1>11 DEF Risen, Succeeded

(* The fields of a new inner node.                                         *)
LEMMA InnerNode ==
  ASSUME NEW x \in Seq(Entry)
  PROVE  Inner(x) \in Node /\ Inner(x).entries = x /\ ~Inner(x).leaf /\ Inner(x).next = 0
BY TBTreeAssumption DEF Inner, Node

(* The entries x of an inner node of level l that comes new into the file. *)
Neighbour(f, gone, id, g, l2, l, x) ==
  /\ l \in Nat /\ x \in Filled /\ Distinct(x) /\ Len(x) \in InnerMin .. InnerMax
  /\ \A u \in RefsOf(x) :
       /\ Son(u, g, l2, l, gone) /\ u \notin Used(g, gone)
       /\ u \in Used(f, gone) \/ u = id \/ u \notin DOMAIN f

RisenMore(f, lv, gone, small, id, k, g, l2, l, x, h) ==
  /\ Risen(f, lv, gone, small, id, k, h, More(g, l2, l))
  /\ Used(h, gone) = Used(g, gone) \cup RefsOf(x)

(* The second half of a node that was split comes into the file.           *)
LEMMA RisenAppended ==
  ASSUME NEW f, NEW lv, NEW gone \in SUBSET DOMAIN f, NEW small, NEW id, NEW k \in Nat, NEW g, NEW l2,
         Risen(f, lv, gone, small, id, k, g, l2),
         NEW l, NEW x, Neighbour(f, gone, id, g, l2, l, x),
         NEW h, h = Append(g, Inner(x))
  PROVE  RisenMore(f, lv, gone, small, id, k, g, l2, l, x, h)
<1> USE DEF Neighbour
<1>1. /\ Levelled(g, l2, gone) /\ Kept(f, lv, g, l2, k) /\ Sized(g, small) /\ Once(g, gone)
      /\ g \in Seq(Node) /\ x \in Seq(Entry) /\ x # << >> /\ DOMAIN f \subseteq DOMAIN g
  BY DEF Risen, Levelled, Filled, Kept
<1>2. PICK n, m, mv : n = Inner(x) /\ m = Len(g) + 1 /\ mv = More(g, l2, l)
  OBVIOUS
<1>3. n \in Node /\ n.entries = x /\ ~n.leaf /\ n.next = 0
  BY <1>1, <1>2, InnerNode
<1>4. /\ DOMAIN h = (DOMAIN g) \cup {m} /\ m \notin DOMAIN g /\ h[m] = n
      /\ \A y \in DOMAIN g : h[y] = g[y]
  BY <1>1, <1>2, <1>3, NodeAppended
<1>5. Levelled(h, mv, gone) /\ mv[m] = l /\ \A y \in DOMAIN g : mv[y] = l2[y]
  <2>1. Fitted(n, g, l2, gone, l)
    BY <1>1, <1>3 DEF Fitted
  <2>2. LevelledMore(g, l2, gone, l, h)
    BY <1>1, <1>2, <2>1, LevelledAppended
  <2> QED BY <1>2, <2>2 DEF LevelledMore
<1>6. /\ Used(h, gone) = Used(g, gone) \cup RefsOf(x)
      /\ Used(g, gone) \cap RefsOf(x) = {} => Once(h, gone)
  <2>1. gone \in SUBSET DOMAIN g
    BY <1>1
  <2>2. OnceMore(g, gone, n, h)
    BY <1>1, <1>2, <1>3, <2>1, OnceAppended
  <2> QED BY <1>1, <1>3, <2>2 DEF OnceMore
<1>7. Once(h, gone)
  BY <1>6
<1>8. Kept(f, lv, h, mv, k)
  BY <1>1, <1>3, <1>4, <1>5 DEF Kept
<1>9. Sized(h, small)
  <2>1. Fits(n, m, small)
    <3>1. PICK a : a = Len(x)
      OBVIOUS
    <3>2. a \in InnerMin .. InnerMax /\ a \in Lesser(2, InnerMin) .. InnerMax
      BY <3>1, TBTreeAssumption DEF Lesser
    <3> QED BY <1>3, <3>1, <3>2 DEF Fits
  <2> QED BY <1>1, <1>4, <2>1 DEF Sized
<1>10. \A u \in Used(h, gone) : u \in Used(f, gone) \/ u = id \/ u \notin DOMAIN f
  BY <1>6 DEF Risen
<1> QED BY <1>2, <1>5, <1>6, <1>7, <1>8, <1>9, <1>10 DEF Risen, RisenMore

WayChanged(g, a, b, d, s, x, y, z) ==
  /\ [s EXCEPT !.first = x, !.narrow = y] = [file |-> g, first |-> x, second |-> b, narrow |-> y]
  /\ [s EXCEPT !.first = x, !.narrow = z, !.file = y] = [file |-> y, first |-> x, second |-> b, narrow |-> z]
  /\ [s EXCEPT !.file = y, !.first = x] = [file |-> y, first |-> x, second |-> b, narrow |-> d]
  /\ [s EXCEPT !.file = y, !.first = x, !.second = z] = [file |-> y, first |-> x, second |-> z, narrow |-> d]

(* What the records of the way up are after each kind of update.           *)
LEMMA WayChanges ==
  ASSUME NEW g, NEW a, NEW b, NEW d, NEW s, s = [file |-> g, first |-> a, second |-> b, narrow |-> d],
         NEW x, NEW y, NEW z
  PROVE  WayChanged(g, a, b, d, s, x, y, z)
<1>1. \A v : [s EXCEPT !.first = v] = [file |-> g, first |-> v, second |-> b, narrow |-> d]
  OBVIOUS
<1>2. [s EXCEPT !.file = y] = [file |-> y, first |-> a, second |-> b, narrow |-> d]
  OBVIOUS
<1>3. PICK t, u : t = [s EXCEPT !.first = x] /\ u = [s EXCEPT !.file = y]
  OBVIOUS
<1>4. t = [file |-> g, first |-> x, second |-> b, narrow |-> d]
  BY <1>1, <1>3
<1>5. u = [file |-> y, first |-> a, second |-> b, narrow |-> d]
  BY <1>2, <1>3
<1>6. /\ [t EXCEPT !.narrow = y] = [file |-> g, first |-> x, second |-> b, narrow |-> y]
      /\ [[t EXCEPT !.narrow = z] EXCEPT !.file = y] = [file |-> y, first |-> x, second |-> b, narrow |-> z]
  <2>1. [t EXCEPT !.narrow = y] = [file |-> g, first |-> x, second |-> b, narrow |-> y]
    BY <1>4
  <2>2. PICK w : w = [t EXCEPT !.narrow = z]
    OBVIOUS
  <2>3. w = [file |-> g, first |-> x, second |-> b, narrow |-> z]
    <3>1. [t EXCEPT !.narrow = z] = [file |-> g, first |-> x, second |-> b, narrow |-> z]
      BY <1>4
    <3> QED BY <2>2, <3>1
  <2>4. [w EXCEPT !.file = y] = [file |-> y, first |-> x, second |-> b, narrow |-> z]
    BY <2>3
  <2> QED BY <2>1, <2>2, <2>4
<1>7. PICK v : v = [u EXCEPT !.first = x]
  OBVIOUS
<1>8. v = [file |-> y, first |-> x, second |-> b, narrow |-> d]
  <2>1. [u EXCEPT !.first = x] = [file |-> y, first |-> x, second |-> b, narrow |-> d]
    BY <1>5
  <2> QED BY <1>7, <2>1
<1>13. [v EXCEPT !.second = z] = [file |-> y, first |-> x, second |-> z, narrow |-> d]
  BY <1>8
<1>9. [s EXCEPT !.first = x, !.narrow = y] = [t EXCEPT !.narrow = y]
  BY <1>3
<1>10. [s EXCEPT !.first = x, !.narrow = z, !.file = y] = [[t EXCEPT !.narrow = z] EXCEPT !.file = y]
  BY <1>3
<1>11. [s EXCEPT !.file = y, !.first = x] = [u EXCEPT !.first = x]
  BY <1>3
<1>12. [s EXCEPT !.file = y, !.first = x, !.second = z] = [v EXCEPT !.second = z]
  BY <1>3, <1>7
<1> QED BY <1>6, <1>7, <1>8, <1>13, <1>9, <1>10, <1>11, <1>12 DEF WayChanged

(* The way up at level k: first is the node of the way, second, if there   *)
(* is one, is to be its neighbour.                                         *)
Way(s) == s = [file |-> s.file, first |-> s.first, second |-> s.second, narrow |-> s.narrow]

Pending(f, id, gone, k, s, l2) ==
  /\ s.second # 0 /\ s.second # s.first
  /\ Fresh(s.second, f, id, s.file, l2, k + 1, gone)
  /\ k # 0 => Len(s.file[s.first].entries) >= InnerMin

AtLevel(f, lv, gone, small, id, k, s, l2) ==
  /\ Risen(f, lv, gone, small, id, k, s.file, l2) /\ Way(s)
  /\ s.first \in DOMAIN f /\ s.first \notin gone /\ lv[s.first] = k
  /\ s.file[s.first].entries # << >>
  /\ s.second = 0 \/ Pending(f, id, gone, k, s, l2)
  /\ s.narrow \subseteq DOMAIN s.file

(* A turn of the way at a node above first.                                *)
TurnTo(f, lv, gone, k, p, first) ==
  /\ p.id \in DOMAIN f /\ p.id \notin gone /\ lv[p.id] = k + 1
  /\ p.at \in 1 .. Len(f[p.id].entries) /\ f[p.id].entries[p.at].ref = first

(* The entry for a node refers to it.                                      *)
LEMMA EntryForType ==
  ASSUME NEW f \in Seq(Node), NEW id \in DOMAIN f, f[id].entries # << >>
  PROVE  EntryFor(f, id) \in Entry /\ EntryFor(f, id).ref = id
<1>1. f[id] \in Node /\ id \in Nat \ {0}
  OBVIOUS
<1>2. BoxOf(f[id].entries) \in Box
  BY <1>1, NodeParts, BoxOfType
<1> QED BY <1>1, <1>2 DEF EntryFor, Entry

(* What is known of the node of a turn.                                    *)
TurnFacts(f, lv, gone, k, s, l2, p) ==
  /\ p.id \in DOMAIN s.file /\ s.file[p.id] = f[p.id] /\ ~f[p.id].leaf /\ l2[p.id] = k + 1
  /\ s.file[p.id].entries \in Filled /\ s.file \in Seq(Node)
  /\ Distinct(s.file[p.id].entries) /\ RefsOf(s.file[p.id].entries) \subseteq Used(s.file, gone)
  /\ s.file[p.id].entries[p.at] \in Entry
  /\ Len(s.file[p.id].entries) \in 1 .. InnerMax

(* The node of the next turn is as it was on the way down.                 *)
LEMMA TurnNode ==
  ASSUME NEW f, NEW lv \in [DOMAIN f -> Nat], NEW gone, NEW small, NEW id, NEW k \in Nat, NEW s, NEW l2,
         AtLevel(f, lv, gone, small, id, k, s, l2), NEW p, TurnTo(f, lv, gone, k, p, s.first)
  PROVE  TurnFacts(f, lv, gone, k, s, l2, p)
<1>1. PICK g, q : g = s.file /\ q = p.id
  OBVIOUS
<1>2. /\ Levelled(g, l2, gone) /\ Kept(f, lv, g, l2, k) /\ Sized(g, small) /\ Once(g, gone)
      /\ g \in Seq(Node) /\ q \in DOMAIN f /\ q \notin gone /\ lv[q] = k + 1
  BY <1>1 DEF AtLevel, Risen, Levelled, TurnTo
<1>3. q \in DOMAIN g /\ g[q] = f[q] /\ l2[q] = k + 1
  BY <1>2 DEF Kept
<1>4. ~g[q].leaf
  BY <1>2, <1>3 DEF Levelled
<1>5. /\ g[q].entries \in Filled
      /\ \A i \in 1 .. Len(g[q].entries) : g[q].entries[i] \in Entry
  BY <1>2, <1>3, <1>4, InnerLevel
<1>6. q \in Inners(g, gone)
  BY <1>2, <1>3, <1>4 DEF Inners
<1>7. Distinct(g[q].entries) /\ RefsOf(g[q].entries) \subseteq Used(g, gone)
  BY <1>2, <1>6 DEF Once, Used
<1>8. Len(g[q].entries) \in 1 .. InnerMax
  <2>1. Fits(g[q], q, small)
    BY <1>2, <1>3 DEF Sized
  <2>2. PICK m : m = Len(g[q].entries)
    OBVIOUS
  <2>3. m <= InnerMax
    BY <1>4, <2>1, <2>2 DEF Fits
  <2>4. m \in Nat /\ m # 0
    BY <1>5, <2>2, Places DEF Filled
  <2> QED BY <2>2, <2>3, <2>4, TBTreeAssumption
<1> QED BY <1>1, <1>2, <1>3, <1>4, <1>5, <1>7, <1>8 DEF TurnTo, TurnFacts

(* The entry e has room for the node it refers to, one of nr left aside.   *)
Encloses(f, nr, e) == e.ref \in nr \/ ContainsBox(e.box, BoxOf(f[e.ref].entries))

(* The entries of a set are old ones that do not refer to first, or have   *)
(* room for their nodes.                                                   *)
Renewed(s, nr, q, E) ==
  \A e \in E : \/ e \in ToSet(s.file[q].entries) /\ e.ref # s.first
              \/ Encloses(s.file, nr, e)

(* An entry made for a node has room for it.                               *)
LEMMA EntryForEncloses ==
  ASSUME NEW f \in Seq(Node), NEW id \in DOMAIN f, f[id].entries # << >>, NEW nr
  PROVE  Encloses(f, nr, EntryFor(f, id))
<1>1. PICK e, b : e = EntryFor(f, id) /\ b = BoxOf(f[id].entries)
  OBVIOUS
<1>2. e.ref = id /\ e.box = b /\ b \in Box
  <2>1. f[id].entries \in Seq(Entry)
    BY NodeParts
  <2> QED BY <1>1, <2>1, BoxOfType DEF EntryFor
<1>3. ContainsBox(b, b)
  BY <1>2 DEF ContainsBox, Box
<1> QED BY <1>1, <1>2, <1>3 DEF Encloses

(* A turn of the way up: node p.id has the entries x, and those of y are   *)
(* in a second node, when there are any.                                   *)
Turned(s, p, t) ==
  \E x, y \in Seq(Entry) : \E h :
    /\ NewEntries(s.file, p.id, x, h) /\ s.narrow \subseteq t.narrow /\ t.first = p.id
    /\ \/ y = << >> /\ t.file = h /\ t.second = 0
       \/ y # << >> /\ t.file = Append(h, Inner(y)) /\ t.second = Len(h) + 1
    /\ RefsOf(s.file[p.id].entries) \subseteq RefsOf(x) \cup RefsOf(y)
    /\ s.second = 0 \/ s.second \in RefsOf(x) \cup RefsOf(y)
    /\ RefsOf(x) \cup RefsOf(y) \subseteq RefsOf(s.file[p.id].entries) \cup {s.second}
    /\ Renewed(s, t.narrow, p.id, ToSet(x) \cup ToSet(y))

(* A turn of the way up without a second node.                             *)
LEMMA TurnedOne ==
  ASSUME NEW s, NEW p, NEW t, NEW x \in Seq(Entry), NewEntries(s.file, p.id, x, t.file),
         s.narrow \subseteq t.narrow, t.first = p.id, t.second = 0,
         RefsOf(s.file[p.id].entries) \subseteq RefsOf(x), s.second = 0 \/ s.second \in RefsOf(x),
         RefsOf(x) \subseteq RefsOf(s.file[p.id].entries) \cup {s.second},
         Renewed(s, t.narrow, p.id, ToSet(x))
  PROVE  Turned(s, p, t)
<1>1. PICK y, h : y = << >> /\ h = t.file
  OBVIOUS
<1>2. y \in Seq(Entry) /\ RefsOf(y) = {} /\ ToSet(y) = {}
  BY <1>1 DEF RefsOf, ToSet
<1>3. /\ NewEntries(s.file, p.id, x, h)
      /\ RefsOf(s.file[p.id].entries) \subseteq RefsOf(x) \cup RefsOf(y)
      /\ s.second = 0 \/ s.second \in RefsOf(x) \cup RefsOf(y)
      /\ RefsOf(x) \cup RefsOf(y) \subseteq RefsOf(s.file[p.id].entries) \cup {s.second}
      /\ Renewed(s, t.narrow, p.id, ToSet(x) \cup ToSet(y))
  <2>1. ToSet(x) \cup ToSet(y) = ToSet(x) /\ RefsOf(x) \cup RefsOf(y) = RefsOf(x)
    BY <1>2
  <2> QED BY <1>1, <2>1
<1> QED BY <1>1, <1>2, <1>3 DEF Turned

(* An entry that was exchanged, and those that were not.                   *)
LEMMA RenewedAt ==
  ASSUME NEW s, NEW nr, NEW q, NEW x, x = s.file[q].entries, x \in Seq(Entry), Distinct(x),
         NEW i \in 1 .. Len(x), x[i].ref = s.first, NEW e \in Entry, Encloses(s.file, nr, e)
  PROVE  Renewed(s, nr, q, ToSet([x EXCEPT ![i] = e]))
<1>1. PICK y : y = [x EXCEPT ![i] = e]
  OBVIOUS
<1>2. DOMAIN y = 1 .. Len(x) /\ DOMAIN x = 1 .. Len(x) /\ y[i] = e /\ \A j \in 1 .. Len(x) : j # i => y[j] = x[j]
  BY <1>1
<1>3. ASSUME NEW j \in 1 .. Len(x)
      PROVE  (y[j] \in ToSet(x) /\ y[j].ref # s.first) \/ Encloses(s.file, nr, y[j])
  <2>1. CASE j = i
    BY <1>2, <2>1
  <2>2. CASE j # i
    <3>1. y[j] = x[j] /\ x[j] \in ToSet(x)
      BY <1>2, <2>2 DEF ToSet
    <3>2. x[j].ref # x[i].ref
      BY <2>2 DEF Distinct
    <3> QED BY <3>1, <3>2
  <2> QED BY <2>1, <2>2
<1>4. \A d \in ToSet(y) : \E j \in 1 .. Len(x) : d = y[j]
  BY <1>2 DEF ToSet
<1> QED BY <1>1, <1>3, <1>4 DEF Renewed

Climbs(f, lv, gone, small, id, k, p, t) ==
  (\E l2 : AtLevel(f, lv, gone, small, id, k + 1, t, l2)) /\ t.first = p.id

(* Without a second node the way goes on one level up.                     *)
LEMMA EnlargeRises ==
  ASSUME NEW f, NEW lv \in [DOMAIN f -> Nat], NEW gone, NEW small, NEW id, NEW k \in Nat, NEW s, NEW l2,
         AtLevel(f, lv, gone, small, id, k, s, l2), s.second = 0,
         NEW p, TurnTo(f, lv, gone, k, p, s.first), NEW rect \in Box
  PROVE  /\ Climbs(f, lv, gone, small, id, k, p, Enlarge(s, p, rect))
         /\ Turned(s, p, Enlarge(s, p, rect))
<1>1. PICK g, q, x, i : g = s.file /\ q = p.id /\ x = s.file[p.id].entries /\ i = p.at
  OBVIOUS
<1>2. /\ q \in DOMAIN g /\ g[q] = f[q] /\ ~f[q].leaf /\ x \in Filled /\ g \in Seq(Node)
      /\ Distinct(x) /\ x[i] \in Entry /\ q \in DOMAIN f /\ q \notin gone /\ lv[q] = k + 1
      /\ i \in 1 .. Len(x) /\ x[i].ref = s.first /\ x = g[q].entries /\ x # << >> /\ x \in Seq(Entry)
      /\ Len(x) \in 1 .. InnerMax
  <2>1. TurnFacts(f, lv, gone, k, s, l2, p)
    BY TurnNode
  <2> QED BY <1>1, <2>1 DEF TurnTo, TurnFacts, Filled
<1>3. /\ Risen(f, lv, gone, small, id, k, g, l2) /\ s.first \in DOMAIN f /\ s.narrow \subseteq DOMAIN g
      /\ s = [file |-> g, first |-> s.first, second |-> 0, narrow |-> s.narrow]
      /\ Kept(f, lv, g, l2, k) /\ s.first \in DOMAIN g
  BY <1>1 DEF AtLevel, Way, Risen, Kept
<1>4. ASSUME NEW h, Risen(f, lv, gone, small, id, k + 1, h, l2), DOMAIN h = DOMAIN g,
             h[q].entries # << >>, NEW nw, nw \subseteq DOMAIN g,
             NEW t, t = [file |-> h, first |-> q, second |-> 0, narrow |-> nw]
      PROVE  AtLevel(f, lv, gone, small, id, k + 1, t, l2) /\ t.first = q
  <2>1. t.file = h /\ t.first = q /\ t.second = 0 /\ t.narrow = nw
    BY <1>4
  <2> QED BY <1>2, <1>4, <2>1 DEF AtLevel, Way
<1>5. PICK c : c = IF ContainsBox(BoxOf(x), rect) THEN x[i].box ELSE Union(BoxOf(x), rect)
  OBVIOUS
<1>6. PICK nw : nw = IF ContainsBox(c, BoxOf(s.file[x[i].ref].entries))
                     THEN s.narrow ELSE s.narrow \cup {x[i].ref}
  OBVIOUS
<1>7. nw \subseteq DOMAIN g /\ s.narrow \subseteq nw
  BY <1>2, <1>3, <1>6
<1>8. c \in Box
  <2>1. Union(BoxOf(x), rect) \in Box
    BY <1>2, BoxOfType, UnionType
  <2> QED BY <1>2, <1>5, <2>1, EntryParts
<1>9. PICK e : e = [x[i] EXCEPT !.box = c]
  OBVIOUS
<1>10. e \in Entry /\ e.ref = x[i].ref /\ e.box = c
  BY <1>2, <1>8, <1>9 DEF Entry
<1>11. PICK y : y = [x EXCEPT ![i] = e]
  OBVIOUS
<1>12. /\ y \in Seq(Entry) /\ Len(y) = Len(x) /\ RefsOf(y) = RefsOf(x) /\ Distinct(y)
  BY <1>2, <1>10, <1>11, ExchangeRefs
<1>13. Renewed(s, nw, q, ToSet(y))
  <2>1. Encloses(s.file, nw, e)
    BY <1>6, <1>10 DEF Encloses
  <2>2. x = s.file[q].entries
    BY <1>1
  <2> QED BY <1>2, <1>10, <1>11, <2>1, <2>2, RenewedAt
<1>14. CASE ContainsBox(BoxOf(x), rect)
  <2>3. Enlarge(s, p, rect) = [s EXCEPT !.first = q, !.narrow = nw]
    BY <1>1, <1>5, <1>6, <1>14, Zenon DEF Enlarge
  <2>4. Enlarge(s, p, rect) = [file |-> g, first |-> q, second |-> 0, narrow |-> nw]
    <3>1. PICK a, d : a = s.first /\ d = s.narrow
      OBVIOUS
    <3>2. s = [file |-> g, first |-> a, second |-> 0, narrow |-> d]
      BY <1>3, <3>1
    <3>3. WayChanged(g, a, 0, d, s, q, nw, 0)
      BY <3>2, WayChanges
    <3> QED BY <2>3, <3>3, Zenon DEF WayChanged
  <2>5. Risen(f, lv, gone, small, id, k + 1, g, l2)
    BY <1>3, KeptHigher DEF Risen
  <2>6. g[q].entries # << >>
    BY <1>2
  <2>7. PICK t : t = Enlarge(s, p, rect)
    OBVIOUS
  <2>8. t.file = g /\ t.first = q /\ t.second = 0 /\ t.narrow = nw
    BY <2>4, <2>7
  <2>9. Turned(s, p, t)
    <3>1. e = x[i] /\ y = x
      <4>1. c = x[i].box
        BY <1>5, <1>14
      <4>2. e = x[i]
        BY <1>2, <1>9, <4>1 DEF Entry
      <4> QED BY <1>2, <1>11, <4>2
    <3>2. NewEntries(g, q, x, g)
      BY <1>2 DEF NewEntries
    <3>3. Renewed(s, nw, q, ToSet(x))
      BY <1>13, <3>1
    <3> QED BY <1>1, <1>2, <1>7, <2>8, <3>2, <3>3, TurnedOne
  <2> QED BY <1>1, <1>4, <1>7, <2>4, <2>5, <2>6, <2>7, <2>9 DEF Climbs
<1>15. CASE ~ContainsBox(BoxOf(x), rect)
  <2>3. PICK h : h = [g EXCEPT ![q].entries = y]
    OBVIOUS
  <2>4. y \in Filled
    BY <1>2, <1>12 DEF Filled
  <2>6. Len(y) \in Len(g[q].entries) .. InnerMax
    BY <1>2, <1>12
  <2>7. RefsOf(y) \subseteq RefsOf(g[q].entries) \cup {}
    BY <1>2, <1>12
  <2>8. Risen(f, lv, gone, small, id, k + 1, h, l2) /\ NewEntries(g, q, y, h)
    <3>1. \A u \in {} : Fresh(u, f, id, g, l2, k + 1, gone)
      OBVIOUS
    <3>2. Successor(f, lv, gone, id, k, g, l2, q, {}, y)
      BY <1>2, <1>12, <2>4, <2>6, <2>7, <3>1 DEF Successor
    <3>3. Risen(f, lv, gone, small, id, k + 1, h, l2) /\ Succeeded(gone, g, q, y, h)
      BY <1>3, <2>3, <3>2, RisenReplaced
    <3> QED BY <3>3 DEF Succeeded
  <2>9. DOMAIN h = DOMAIN g /\ h[q].entries # << >>
    BY <2>4, <2>8 DEF NewEntries, Filled
  <2>10. Enlarge(s, p, rect) = [s EXCEPT !.first = q, !.narrow = nw, !.file[q].entries[i].box = c]
    BY <1>1, <1>5, <1>6, <1>15, Zenon DEF Enlarge
  <2>11. Enlarge(s, p, rect) = [s EXCEPT !.first = q, !.narrow = nw, !.file = h]
    BY <1>1, <1>2, <1>3, <1>9, <1>11, <2>3, <2>10
  <2>12. Enlarge(s, p, rect) = [file |-> h, first |-> q, second |-> 0, narrow |-> nw]
    <3>1. PICK a, d : a = s.first /\ d = s.narrow
      OBVIOUS
    <3>2. s = [file |-> g, first |-> a, second |-> 0, narrow |-> d]
      BY <1>3, <3>1
    <3>3. WayChanged(g, a, 0, d, s, q, h, nw)
      BY <3>2, WayChanges
    <3> QED BY <2>11, <3>3, Zenon DEF WayChanged
  <2>13. PICK t : t = Enlarge(s, p, rect)
    OBVIOUS
  <2>14. t.file = h /\ t.first = q /\ t.second = 0 /\ t.narrow = nw
    BY <2>12, <2>13
  <2>15. Turned(s, p, t)
    <3>1. s.file = g /\ p.id = q /\ s.second = 0 /\ RefsOf(g[q].entries) = RefsOf(y)
      BY <1>1, <1>2, <1>12
    <3> QED BY <1>7, <1>12, <1>13, <2>8, <2>14, <3>1, TurnedOne
  <2> QED BY <1>1, <1>4, <1>7, <2>8, <2>9, <2>12, <2>13, <2>15 DEF Climbs
<1> QED BY <1>14, <1>15

(* With a second node too, and a node that is split hands one on.          *)
LEMMA TakeSecondRises ==
  ASSUME NEW f \in Seq(Node), NEW lv \in [DOMAIN f -> Nat], NEW gone \in SUBSET DOMAIN f,
         NEW small, NEW id, NEW k \in Nat, NEW s, NEW l2,
         AtLevel(f, lv, gone, small, id, k, s, l2), Pending(f, id, gone, k, s, l2),
         NEW p, TurnTo(f, lv, gone, k, p, s.first)
  PROVE  /\ Climbs(f, lv, gone, small, id, k, p, TakeSecond(s, p))
         /\ Turned(s, p, TakeSecond(s, p))
<1>1. PICK g, q, x, i : g = s.file /\ q = p.id /\ x = s.file[p.id].entries /\ i = p.at
  OBVIOUS
<1>2. PICK a, b, d : a = s.first /\ b = s.second /\ d = s.narrow
  OBVIOUS
<1>3. /\ q \in DOMAIN g /\ l2[q] = k + 1 /\ x \in Filled /\ g \in Seq(Node)
      /\ Distinct(x) /\ x[i] \in Entry /\ q \in DOMAIN f /\ q \notin gone /\ lv[q] = k + 1
      /\ i \in 1 .. Len(x) /\ x[i].ref = a /\ x = g[q].entries /\ x # << >> /\ x \in Seq(Entry)
      /\ Len(x) \in 1 .. InnerMax /\ RefsOf(x) \subseteq Used(g, gone)
  <2>1. TurnFacts(f, lv, gone, k, s, l2, p)
    BY TurnNode
  <2> QED BY <1>1, <1>2, <2>1 DEF TurnTo, TurnFacts, Filled
<1>4. /\ Risen(f, lv, gone, small, id, k, g, l2) /\ a \in DOMAIN f /\ d \subseteq DOMAIN g
      /\ s = [file |-> g, first |-> a, second |-> b, narrow |-> d]
      /\ Kept(f, lv, g, l2, k) /\ a \in DOMAIN g /\ g[a].entries # << >> /\ DOMAIN f \subseteq DOMAIN g
  BY <1>1, <1>2 DEF AtLevel, Way, Risen, Kept
<1>5. /\ b \in DOMAIN g /\ g[b].entries # << >> /\ b \notin Used(g, gone)
      /\ Fresh(b, f, id, g, l2, k + 1, gone)
  BY <1>1, <1>2 DEF Pending, Fresh, Son
<1>6. PICK e1, e2 : e1 = EntryFor(g, a) /\ e2 = EntryFor(g, b)
  OBVIOUS
<1>7. e1 \in Entry /\ e1.ref = a /\ e2 \in Entry /\ e2.ref = b
  BY <1>3, <1>4, <1>5, <1>6, EntryForType
<1>8. PICK y : y = [x EXCEPT ![i] = e1]
  OBVIOUS
<1>9. y \in Seq(Entry) /\ Len(y) = Len(x) /\ RefsOf(y) = RefsOf(x) /\ Distinct(y)
  BY SMTT(60), <1>3, <1>7, <1>8, ExchangeRefs
<1>10. PICK es : es = Append(y, e2)
  OBVIOUS
<1>11. /\ es \in Filled /\ es \in Seq(Entry) /\ Len(es) = Len(x) + 1
       /\ RefsOf(es) = RefsOf(x) \cup {b} /\ Distinct(es)
  <2>1. b \notin RefsOf(y)
    BY <1>3, <1>5, <1>9
  <2> QED BY <1>7, <1>9, <1>10, <2>1, AddRef DEF Filled
<1>12. \A u \in {b} : Fresh(u, f, id, g, l2, k + 1, gone)
  BY <1>5
<1>15. Renewed(s, d, q, ToSet(es))
  <2>1. Encloses(g, d, e1) /\ Encloses(g, d, e2)
    BY <1>3, <1>4, <1>5, <1>6, EntryForEncloses
  <2>2. Renewed(s, d, q, ToSet(y))
    <3>1. x = s.file[q].entries /\ x[i].ref = s.first /\ Encloses(s.file, d, e1)
      BY <1>1, <1>2, <1>3, <2>1
    <3> QED BY <1>3, <1>7, <1>8, <3>1, RenewedAt
  <2>3. ToSet(es) \subseteq ToSet(y) \cup {e2}
    <3>1. \A j \in DOMAIN es : es[j] = e2 \/ (j \in DOMAIN y /\ es[j] = y[j])
      BY <1>7, <1>9, <1>10
    <3> QED BY <3>1 DEF ToSet
  <2> QED BY <1>1, <2>1, <2>2, <2>3 DEF Renewed
<1>13. CASE Len(es) <= InnerMax
  <2>1. PICK h : h = [g EXCEPT ![q].entries = es]
    OBVIOUS
  <2>2. TakeSecond(s, p) = [s EXCEPT !.file[p.id].entries = es, !.first = p.id, !.second = 0]
    BY <1>1, <1>2, <1>6, <1>8, <1>10, <1>13, Zenon DEF TakeSecond
  <2>3. TakeSecond(s, p) = [s EXCEPT !.file = h, !.first = q, !.second = 0]
    BY <1>1, <1>4, <2>1, <2>2
  <2>4. TakeSecond(s, p) = [file |-> h, first |-> q, second |-> 0, narrow |-> d]
    <3>1. WayChanged(g, a, b, d, s, q, h, 0)
      BY <1>4, WayChanges
    <3> QED BY <2>3, <3>1, Zenon DEF WayChanged
  <2>5. Successor(f, lv, gone, id, k, g, l2, q, {b}, es)
    <3>1. Len(es) \in Len(x) .. InnerMax
      BY <1>3, <1>11, <1>13, TBTreeAssumption
    <3>2. RefsOf(es) \subseteq RefsOf(g[q].entries) \cup {b}
      BY <1>3, <1>11
    <3> QED BY <1>3, <1>11, <1>12, <3>1, <3>2 DEF Successor
  <2>6. Risen(f, lv, gone, small, id, k + 1, h, l2) /\ NewEntries(g, q, es, h)
    BY <1>4, <2>1, <2>5, RisenReplaced DEF Succeeded
  <2>7. DOMAIN h = DOMAIN g /\ h[q].entries # << >>
    BY <1>11, <2>6 DEF NewEntries, Filled
  <2>8. PICK t : t = TakeSecond(s, p)
    OBVIOUS
  <2>9. t.file = h /\ t.first = q /\ t.second = 0 /\ t.narrow = d /\ Way(t)
    BY <2>4, <2>8 DEF Way
  <2>10. AtLevel(f, lv, gone, small, id, k + 1, t, l2)
    BY <1>3, <1>4, <2>6, <2>7, <2>9 DEF AtLevel
  <2>11. Turned(s, p, t)
    <3>1. /\ NewEntries(s.file, p.id, es, t.file) /\ s.narrow \subseteq t.narrow
          /\ t.first = p.id /\ t.second = 0
          /\ RefsOf(s.file[p.id].entries) \subseteq RefsOf(es) /\ s.second \in RefsOf(es)
          /\ RefsOf(es) \subseteq RefsOf(s.file[p.id].entries) \cup {s.second}
          /\ Renewed(s, t.narrow, p.id, ToSet(es))
      BY <1>1, <1>2, <1>11, <1>15, <2>6, <2>9
    <3> QED BY <1>11, <3>1, TurnedOne
  <2> QED BY <1>1, <2>8, <2>9, <2>10, <2>11 DEF Climbs
<1>14. CASE ~ (Len(es) <= InnerMax)
  <2>1. Len(es) = InnerMax + 1
    <3>1. PICK n : n = Len(x)
      OBVIOUS
    <3>2. n \in 1 .. InnerMax /\ Len(es) = n + 1 /\ ~ (n + 1 <= InnerMax) /\ InnerMax \in Nat
      BY <1>3, <1>11, <1>14, <3>1, TBTreeAssumption
    <3>3. n + 1 = InnerMax + 1
      BY <3>2
    <3> QED BY <3>2, <3>3
  <2>2. PICK m : m = SplitNode(es)
    OBVIOUS
  <2>3. Halves(es, m)
    BY <1>11, <2>1, <2>2, SplitNodeHalves
  <2>4. PICK x1, x2 : x1 = m.g1 /\ x2 = m.g2
    OBVIOUS
  <2>5. /\ x1 \in Filled /\ x2 \in Filled /\ Distinct(x1) /\ Distinct(x2)
        /\ Len(x1) \in InnerMin .. InnerMax /\ Len(x2) \in InnerMin .. InnerMax
        /\ RefsOf(x1) \subseteq RefsOf(es) /\ RefsOf(x2) \subseteq RefsOf(es)
        /\ RefsOf(x1) \cap RefsOf(x2) = {}
    BY <1>11, <2>3, <2>4, HalvesRefs DEF Halves
  <2>6. PICK h, j : h = [g EXCEPT ![q].entries = x1] /\ j = Append(h, Inner(x2))
    OBVIOUS
  <2>7. TakeSecond(s, p) = [s EXCEPT !.file = j, !.first = q, !.second = Len(g) + 1]
    BY <1>1, <1>2, <1>6, <1>8, <1>10, <1>14, <2>2, <2>4, <2>6, Zenon DEF TakeSecond
  <2>8. TakeSecond(s, p) = [file |-> j, first |-> q, second |-> Len(g) + 1, narrow |-> d]
    <3>1. WayChanged(g, a, b, d, s, q, j, Len(g) + 1)
      BY <1>4, WayChanges
    <3> QED BY <2>7, <3>1, Zenon DEF WayChanged
  <2>9. Successor(f, lv, gone, id, k, g, l2, q, {b}, x1)
    <3>1. RefsOf(x1) \subseteq RefsOf(g[q].entries) \cup {b}
      BY <1>3, <1>11, <2>5
    <3> QED BY <1>3, <1>12, <2>5, <3>1 DEF Successor
  <2>10. /\ Risen(f, lv, gone, small, id, k + 1, h, l2) /\ NewEntries(g, q, x1, h)
         /\ Used(h, gone) = Used(g, gone \cup {q}) \cup RefsOf(x1)
    <3>1. Risen(f, lv, gone, small, id, k + 1, h, l2) /\ Succeeded(gone, g, q, x1, h)
      BY <1>4, <2>6, <2>9, RisenReplaced
    <3> QED BY <3>1 DEF Succeeded
  <2>11. /\ h \in Seq(Node) /\ Len(h) = Len(g) /\ DOMAIN h = DOMAIN g /\ h[q].entries = x1 /\ x1 # << >>
         /\ \A u \in DOMAIN g : g[u].entries # << >> => h[u].entries # << >>
    BY <1>3, <2>5, <2>10 DEF NewEntries, Filled
  <2>12. ASSUME NEW u \in RefsOf(x2)
         PROVE  /\ Son(u, h, l2, k + 1, gone) /\ u \notin Used(h, gone)
                /\ u \in Used(f, gone) \/ u = id \/ u \notin DOMAIN f
    <3>1. u \in RefsOf(x) \/ u = b
      BY <1>11, <2>5
    <3>2. Son(u, g, l2, k + 1, gone)
      <4>1. \A v \in RefsOf(x) : Son(v, g, l2, l2[q], gone)
        <5>1. Levelled(g, l2, gone) /\ ~g[q].leaf
          <6>1. Levelled(g, l2, gone) /\ l2[q] # 0
            BY <1>3, <1>4 DEF Risen
          <6> QED BY <1>3, <6>1 DEF Levelled
        <5> QED BY <1>3, <5>1 DEF Levelled
      <4>2. Son(b, g, l2, k + 1, gone)
        BY <1>5 DEF Fresh
      <4> QED BY <1>3, <3>1, <4>1, <4>2
    <3>3. Son(u, h, l2, k + 1, gone)
      BY <2>11, <3>2 DEF Son
    <3>4. u \notin Used(g, gone \cup {q})
      <4>1. OnceWith(g, gone, q, x1, h)
        <5>1. g \in Seq(Node) /\ q \in DOMAIN g /\ q \notin gone /\ ~g[q].leaf /\ x1 \in Seq(Entry)
          <6>1. Levelled(g, l2, gone) /\ l2[q] # 0
            BY <1>3, <1>4 DEF Risen
          <6> QED BY <1>3, <2>5, <6>1 DEF Levelled, Filled
        <5> QED BY <2>6, <5>1, OnceReplaced
      <4>2. Once(g, gone)
        BY <1>4 DEF Risen
      <4>3. /\ Used(g, gone) = Used(g, gone \cup {q}) \cup RefsOf(g[q].entries)
            /\ Used(g, gone \cup {q}) \cap RefsOf(g[q].entries) = {}
        BY <4>1, <4>2 DEF OnceWith
      <4> QED BY <1>3, <1>5, <3>1, <4>3
    <3>5. u \notin Used(h, gone)
      BY <2>5, <2>10, <3>4
    <3>6. u \in Used(f, gone) \/ u = id \/ u \notin DOMAIN f
      <4>1. u \in Used(g, gone) \/ u = b
        BY <1>3, <3>1
      <4> QED BY <1>4, <1>5, <4>1 DEF Risen, Fresh
    <3> QED BY <3>3, <3>5, <3>6
  <2>13. Neighbour(f, gone, id, h, l2, k + 1, x2)
    BY <2>5, <2>12 DEF Neighbour
  <2>14. PICK l3 : l3 = More(h, l2, k + 1)
    OBVIOUS
  <2>15. /\ Risen(f, lv, gone, small, id, k + 1, j, l3)
         /\ Used(j, gone) = Used(h, gone) \cup RefsOf(x2)
    <3>1. k + 1 \in Nat
      OBVIOUS
    <3>2. RisenMore(f, lv, gone, small, id, k + 1, h, l2, k + 1, x2, j)
      BY <2>6, <2>10, <2>13, <3>1, RisenAppended
    <3> QED BY <2>14, <3>2 DEF RisenMore
  <2>16. PICK c : c = Len(g) + 1
    OBVIOUS
  <2>17. /\ DOMAIN j = (DOMAIN g) \cup {c} /\ c \notin DOMAIN g /\ j[c].entries = x2
         /\ j[q].entries = x1 /\ l3[c] = k + 1 /\ c # 0
    <3>1. x2 \in Seq(Entry)
      BY <2>5 DEF Filled
    <3>2. Inner(x2) \in Node /\ Inner(x2).entries = x2
      BY <3>1, InnerNode
    <3>3. /\ DOMAIN j = (DOMAIN h) \cup {Len(h) + 1} /\ Len(h) + 1 \notin DOMAIN h /\ Len(h) \in Nat
          /\ j[Len(h) + 1] = Inner(x2) /\ \A u \in DOMAIN h : j[u] = h[u]
      BY <2>6, <2>11, <3>2, NodeAppended
    <3>4. c = Len(h) + 1 /\ c # 0
      BY <2>11, <2>16, <3>3
    <3>5. l3[c] = k + 1
      BY <2>14, <3>3, <3>4 DEF More
    <3> QED BY <1>3, <2>11, <3>2, <3>3, <3>4, <3>5
  <2>18. PICK t : t = TakeSecond(s, p)
    OBVIOUS
  <2>19. t.file = j /\ t.first = q /\ t.second = c /\ t.narrow = d /\ Way(t)
    BY <2>8, <2>16, <2>18 DEF Way
  <2>20. c \notin Used(j, gone)
    <3>1. \A u \in RefsOf(x2) : u \in DOMAIN h
      BY <2>12 DEF Son
    <3>2. Used(h, gone) \subseteq DOMAIN h
      <4>1. Levelled(h, l2, gone)
        BY <2>10 DEF Risen
      <4>2. ASSUME NEW v \in Inners(h, gone) PROVE RefsOf(h[v].entries) \subseteq DOMAIN h
        BY <4>1, <4>2 DEF Inners, Levelled, Son
      <4> QED BY <4>2 DEF Used
    <3> QED BY <2>11, <2>15, <2>17, <3>1, <3>2
  <2>21. Pending(f, id, gone, k + 1, t, l3)
    <3>1. c # q /\ c \notin gone /\ c \notin DOMAIN f
      BY <1>3, <1>4, <2>17
    <3>2. j[c].entries # << >>
      BY <2>5, <2>17 DEF Filled
    <3>3. Son(c, j, l3, (k + 1) + 1, gone)
      BY <2>17, <3>1, <3>2 DEF Son
    <3>4. Len(j[q].entries) >= InnerMin
      BY <2>5, <2>17, TBTreeAssumption
    <3> QED BY <2>17, <2>19, <2>20, <3>1, <3>3, <3>4 DEF Pending, Fresh
  <2>22. AtLevel(f, lv, gone, small, id, k + 1, t, l3)
    <3>1. j[q].entries # << >> /\ d \subseteq DOMAIN j
      BY <1>4, <2>5, <2>17 DEF Filled
    <3> QED BY <1>3, <2>15, <2>19, <2>21, <3>1 DEF AtLevel
  <2>23. Turned(s, p, t)
    <3>1. x1 \in Seq(Entry) /\ x2 \in Seq(Entry) /\ x2 # << >>
      BY <2>5 DEF Filled
    <3>2. ToSet(x1) \cup ToSet(x2) = ToSet(es)
      BY <2>3, <2>4 DEF Halves
    <3>3. RefsOf(es) = RefsOf(x1) \cup RefsOf(x2)
      BY <1>11, <3>1, <3>2, UnionRefs
    <3>4. NewEntries(s.file, p.id, x1, h) /\ s.narrow \subseteq t.narrow /\ t.first = p.id
      BY <1>1, <1>2, <2>10, <2>19
    <3>5. t.file = Append(h, Inner(x2)) /\ t.second = Len(h) + 1
      BY <2>6, <2>11, <2>16, <2>19
    <3>6. /\ RefsOf(s.file[p.id].entries) \subseteq RefsOf(x1) \cup RefsOf(x2)
          /\ s.second \in RefsOf(x1) \cup RefsOf(x2)
          /\ RefsOf(x1) \cup RefsOf(x2) \subseteq RefsOf(s.file[p.id].entries) \cup {s.second}
      BY <1>1, <1>2, <1>11, <3>3
    <3>7. Renewed(s, t.narrow, p.id, ToSet(x1) \cup ToSet(x2))
      BY <1>1, <1>15, <2>19, <3>2
    <3> QED BY ONLY <3>1, <3>4, <3>5, <3>6, <3>7 DEF Turned
  <2> QED BY <1>1, <2>18, <2>19, <2>22, <2>23 DEF Climbs
<1> QED BY <1>13, <1>14

(* Every entry has room for its node, but those that refer to one node.    *)
Covered(f, nr, gone, but) ==
  \A q \in Inners(f, gone) : \A e \in ToSet(f[q].entries) : e.ref # but => Encloses(f, nr, e)

(* The node that got new entries, as the update writes it.                 *)
LEMMA NewEntriesOnly ==
  ASSUME NEW f \in Seq(Node), NEW p \in DOMAIN f, NEW x \in Seq(Entry), NEW g, NewEntries(f, p, x, g)
  PROVE  g = [f EXCEPT ![p].entries = x]
<1>1. PICK h : h = [f EXCEPT ![p].entries = x]
  OBVIOUS
<1>2. NewEntries(f, p, x, h)
  BY <1>1, NodeReplaced
<1>3. /\ g \in Seq(Node) /\ h \in Seq(Node) /\ DOMAIN g = DOMAIN f /\ DOMAIN h = DOMAIN f
      /\ Len(g) = Len(f) /\ Len(h) = Len(f) /\ DOMAIN f = 1 .. Len(f)
  BY <1>2, Places DEF NewEntries
<1>4. g[p] = h[p]
  <2>1. g[p] \in Node /\ h[p] \in Node
    BY <1>3
  <2>2. g[p].leaf = h[p].leaf /\ g[p].entries = h[p].entries /\ g[p].next = h[p].next /\ g[p].trj = h[p].trj
    BY <1>2 DEF NewEntries
  <2>3. \A n \in Node : n = [leaf |-> n.leaf, entries |-> n.entries, next |-> n.next, trj |-> n.trj]
    BY DEF Node
  <2> QED BY <2>1, <2>2, <2>3
<1>5. \A id \in DOMAIN f : g[id] = h[id]
  BY <1>2, <1>4 DEF NewEntries
<1>6. g \in [1 .. Len(f) -> Node] /\ h \in [1 .. Len(f) -> Node]
  BY <1>3
<1>7. g = h
  BY <1>3, <1>5, <1>6
<1> QED BY <1>1, <1>7

(* The nodes of a turn: q is as it was but for its entries, c is new.      *)
TurnedAt(g, q, x, y, t) ==
  /\ g \in Seq(Node) /\ q \in DOMAIN g /\ ~g[q].leaf
  /\ \/ DOMAIN t.file = DOMAIN g /\ t.second = 0 /\ y = << >>
     \/ /\ t.second \notin DOMAIN g /\ DOMAIN t.file = (DOMAIN g) \cup {t.second}
        /\ t.file[t.second].entries = y
  /\ t.file[q].entries = x /\ \A u \in DOMAIN g : u # q => t.file[u] = g[u]
  /\ Used(t.file, {}) = Used(g, {q}) \cup RefsOf(x) \cup RefsOf(y)
  /\ Used(g, {}) = Used(g, {q}) \cup RefsOf(g[q].entries)

(* What a turn changes.                                                    *)
LEMMA TurnedFile ==
  ASSUME NEW s, NEW p, NEW t, s.file \in Seq(Node), p.id \in DOMAIN s.file, ~s.file[p.id].leaf,
         Turned(s, p, t)
  PROVE  \E x, y \in Seq(Entry) :
           /\ TurnedAt(s.file, p.id, x, y, t)
           /\ s.narrow \subseteq t.narrow /\ t.first = p.id
           /\ RefsOf(s.file[p.id].entries) \subseteq RefsOf(x) \cup RefsOf(y)
           /\ s.second = 0 \/ s.second \in RefsOf(x) \cup RefsOf(y)
           /\ RefsOf(x) \cup RefsOf(y) \subseteq RefsOf(s.file[p.id].entries) \cup {s.second}
           /\ Renewed(s, t.narrow, p.id, ToSet(x) \cup ToSet(y))
<1>1. PICK g, q : g = s.file /\ q = p.id
  OBVIOUS
<1>2. PICK x, y \in Seq(Entry) : \E h :
        /\ NewEntries(s.file, p.id, x, h) /\ s.narrow \subseteq t.narrow /\ t.first = p.id
        /\ \/ y = << >> /\ t.file = h /\ t.second = 0
           \/ y # << >> /\ t.file = Append(h, Inner(y)) /\ t.second = Len(h) + 1
        /\ RefsOf(s.file[p.id].entries) \subseteq RefsOf(x) \cup RefsOf(y)
        /\ s.second = 0 \/ s.second \in RefsOf(x) \cup RefsOf(y)
        /\ RefsOf(x) \cup RefsOf(y) \subseteq RefsOf(s.file[p.id].entries) \cup {s.second}
        /\ Renewed(s, t.narrow, p.id, ToSet(x) \cup ToSet(y))
  BY DEF Turned
<1>3. PICK h : /\ NewEntries(g, q, x, h)
               /\ \/ y = << >> /\ t.file = h /\ t.second = 0
                  \/ y # << >> /\ t.file = Append(h, Inner(y)) /\ t.second = Len(h) + 1
  BY <1>1, <1>2
<1>4. g \in Seq(Node) /\ q \in DOMAIN g /\ ~g[q].leaf
  BY <1>1
<1>5. h \in Seq(Node) /\ DOMAIN h = DOMAIN g /\ h[q].entries = x /\ \A u \in DOMAIN g : u # q => h[u] = g[u]
  BY <1>3, <1>4 DEF NewEntries
<1>6. Used(g, {}) = Used(g, {q}) \cup RefsOf(g[q].entries) /\ Used(h, {}) = Used(g, {q}) \cup RefsOf(x)
  <2>1. OnceWith(g, {}, q, x, h)
    <3>1. h = [g EXCEPT ![q].entries = x]
      BY <1>3, <1>4, NewEntriesOnly
    <3> QED BY <1>4, <3>1, OnceReplaced
  <2>2. {} \cup {q} = {q}
    OBVIOUS
  <2> QED BY <2>1, <2>2 DEF OnceWith
<1>7. CASE y = << >> /\ t.file = h /\ t.second = 0
  <2>1. RefsOf(y) = {}
    BY <1>7 DEF RefsOf
  <2>2. TurnedAt(g, q, x, y, t)
    BY <1>4, <1>5, <1>6, <1>7, <2>1 DEF TurnedAt
  <2> QED BY <1>1, <1>2, <2>2
<1>8. CASE y # << >> /\ t.file = Append(h, Inner(y)) /\ t.second = Len(h) + 1
  <2>1. Inner(y) \in Node /\ Inner(y).entries = y /\ ~Inner(y).leaf
    BY InnerNode
  <2>2. PICK j, c : j = t.file /\ c = t.second
    OBVIOUS
  <2>3. /\ DOMAIN j = (DOMAIN h) \cup {c} /\ c \notin DOMAIN h
        /\ j[c] = Inner(y) /\ \A u \in DOMAIN h : j[u] = h[u]
    BY <1>5, <1>8, <2>1, <2>2, NodeAppended
  <2>4. Used(j, {}) = Used(h, {}) \cup RefsOf(y)
    <3>1. {} \in SUBSET DOMAIN h /\ j = Append(h, Inner(y))
      BY <1>8, <2>2
    <3>2. OnceMore(h, {}, Inner(y), j)
      BY <1>5, <2>1, <3>1, OnceAppended
    <3> QED BY <2>1, <3>2 DEF OnceMore
  <2>5. TurnedAt(g, q, x, y, t)
    <3>1. c \notin DOMAIN g /\ DOMAIN j = (DOMAIN g) \cup {c} /\ j[c].entries = y /\ j[q].entries = x
      BY <1>4, <1>5, <2>1, <2>3
    <3>2. \A u \in DOMAIN g : u # q => j[u] = g[u]
      BY <1>5, <2>3
    <3>3. Used(j, {}) = Used(g, {q}) \cup RefsOf(x) \cup RefsOf(y)
      BY <1>6, <2>4
    <3> QED BY <1>4, <1>6, <2>2, <3>1, <3>2, <3>3 DEF TurnedAt
  <2> QED BY <1>1, <1>2, <2>5
<1> QED BY <1>3, <1>7, <1>8

(* A turn of the way up leaves room in the entries for the nodes below.    *)
LEMMA CoverUp ==
  ASSUME NEW f, NEW lv \in [DOMAIN f -> Nat], NEW gone, NEW small, NEW id, NEW k \in Nat, NEW s, NEW l2,
         AtLevel(f, lv, gone, small, id, k, s, l2),
         NEW p, TurnTo(f, lv, gone, k, p, s.first),
         NEW t, NEW l3, AtLevel(f, lv, gone, small, id, k + 1, t, l3), Turned(s, p, t),
         NEW nr, Covered(s.file, nr, gone, s.first)
  PROVE  Covered(t.file, nr \cup t.narrow, gone, t.first)
<1>1. PICK g, q, j : g = s.file /\ q = p.id /\ j = t.file
  OBVIOUS
<1>2. /\ q \in DOMAIN g /\ q \notin gone /\ ~g[q].leaf /\ g \in Seq(Node) /\ Once(g, gone)
      /\ s.first \in RefsOf(g[q].entries)
  <2>1. TurnFacts(f, lv, gone, k, s, l2, p)
    BY TurnNode
  <2> QED BY <1>1, <2>1 DEF TurnTo, TurnFacts, AtLevel, Risen, RefsOf
<1>3. PICK x, y \in Seq(Entry) : /\ TurnedAt(g, q, x, y, t) /\ t.first = q
                                 /\ Renewed(s, t.narrow, q, ToSet(x) \cup ToSet(y))
  BY <1>1, <1>2, TurnedFile
<1>4. \A u \in Used(j, gone) : u \in DOMAIN g
  <2>1. \A u \in Used(j, gone) : u \in DOMAIN j
    BY <1>1, UsedInFile DEF AtLevel, Risen
  <2>2. t.second # 0 => t.second \notin Used(j, gone)
    BY <1>1 DEF AtLevel, Pending, Fresh
  <2>3. 0 \notin DOMAIN g
    BY <1>2
  <2>4. DOMAIN j = DOMAIN g \/ (t.second # 0 /\ DOMAIN j = (DOMAIN g) \cup {t.second}) \/ DOMAIN j = (DOMAIN g) \cup {0}
    BY <1>1, <1>3 DEF TurnedAt
  <2>5. \A u \in DOMAIN j : u # 0
    BY <1>1 DEF AtLevel, Risen, Levelled
  <2> QED BY <2>1, <2>2, <2>4, <2>5
<1>5. ASSUME NEW e, e.ref \in Used(j, gone), e.ref # q, Encloses(g, nr, e) \/ Encloses(g, t.narrow, e)
      PROVE  Encloses(j, nr \cup t.narrow, e)
  <2>1. j[e.ref] = g[e.ref]
    BY <1>1, <1>3, <1>4, <1>5 DEF TurnedAt
  <2> QED BY <1>5, <2>1 DEF Encloses
<1>6. ASSUME NEW v \in Inners(j, gone), NEW e \in ToSet(j[v].entries), e.ref # q
      PROVE  Encloses(j, nr \cup t.narrow, e)
  <2>1. e.ref \in Used(j, gone)
    <3>1. j \in Seq(Node)
      BY <1>1 DEF AtLevel, Risen, Levelled
    <3>2. j[v].entries \in Seq(Entry)
      BY <3>1, NodeParts DEF Inners
    <3>3. e.ref \in RefsOf(j[v].entries)
      BY <3>2, Places DEF ToSet, RefsOf
    <3> QED BY <3>3 DEF Used
  <2>2. CASE e \in ToSet(x) \cup ToSet(y)
    <3>1. \/ e \in ToSet(g[q].entries) /\ e.ref # s.first
          \/ Encloses(g, t.narrow, e)
      BY <1>1, <1>3, <2>2 DEF Renewed
    <3>2. q \in Inners(g, gone)
      BY <1>2 DEF Inners
    <3>3. Encloses(g, nr, e) \/ Encloses(g, t.narrow, e)
      BY <1>1, <3>1, <3>2 DEF Covered
    <3> QED BY <1>5, <1>6, <2>1, <3>3
  <2>3. CASE v \in DOMAIN g /\ v # q
    <3>1. j[v] = g[v] /\ v \in Inners(g, gone) /\ q \in Inners(g, gone)
      BY <1>1, <1>2, <1>3, <2>3 DEF TurnedAt, Inners
    <3>2. e.ref \in RefsOf(g[v].entries)
      <4>1. g[v].entries \in Seq(Entry)
        BY <1>2, <2>3, NodeParts
      <4> QED BY <1>6, <3>1, <4>1, Places DEF ToSet, RefsOf
    <3>3. RefsOf(g[v].entries) \cap RefsOf(g[q].entries) = {}
      BY <1>2, <2>3, <3>1 DEF Once
    <3>4. e.ref # s.first
      BY <1>2, <3>2, <3>3
    <3>5. Encloses(g, nr, e)
      BY <1>1, <1>6, <3>1, <3>4 DEF Covered
    <3> QED BY <1>5, <1>6, <2>1, <3>5
  <2>4. v \in DOMAIN g \/ v = t.second
    BY <1>1, <1>3 DEF Inners, TurnedAt
  <2>5. v = q \/ (v \notin DOMAIN g /\ v = t.second) => e \in ToSet(x) \cup ToSet(y)
    BY <1>1, <1>2, <1>3, <1>6 DEF Inners, TurnedAt
  <2> QED BY <2>2, <2>3, <2>4, <2>5
<1> QED BY <1>1, <1>3, <1>6 DEF Covered

(* The node that u is in g is the half of in f: new nodes are split off.   *)
Origin(f, half, u) == IF u \in DOMAIN f THEN u ELSE half[u]

(* A son in g but id comes from a son of what its father comes from.       *)
SonsFrom(f, gone, id, g, gone2, half) ==
  \A x \in Inners(g, gone2) :
    /\ Origin(f, half, x) \in Inners(f, gone)
    /\ \A u \in RefsOf(g[x].entries) :
         u = id \/ Origin(f, half, u) \in RefsOf(f[Origin(f, half, x)].entries)

(* On the way up the node that waits for an entry comes from the last one  *)
(* of the way.                                                             *)
WayFrom(f, gone, id, s) ==
  \E half : /\ SonsFrom(f, gone, id, s.file, gone, half)
            /\ s.second = 0 \/ s.second = id \/ Origin(f, half, s.second) = s.first

(* A file comes from itself.                                               *)
LEMMA SonsFromSelf ==
  ASSUME NEW f, NEW lv, NEW gone, Levelled(f, lv, gone), NEW id, NEW half
  PROVE  SonsFrom(f, gone, id, f, gone, half)
<1>1. \A u \in Used(f, gone) : u \in DOMAIN f
  BY UsedInFile
<1>2. ASSUME NEW x \in Inners(f, gone), NEW u \in RefsOf(f[x].entries)
      PROVE  x \in DOMAIN f /\ u \in DOMAIN f
  BY <1>1 DEF Used, Inners
<1>3. \A x \in Inners(f, gone) : x \in DOMAIN f
  BY DEF Inners
<1> QED BY <1>2, <1>3 DEF SonsFrom, Origin

(* A turn of the way up: the second half, when the node was split, comes   *)
(* from the node.                                                          *)
LEMMA SonsFromUp ==
  ASSUME NEW f, NEW lv \in [DOMAIN f -> Nat], NEW gone, NEW small, NEW id, NEW k \in Nat, NEW s, NEW l2,
         AtLevel(f, lv, gone, small, id, k, s, l2),
         NEW p, TurnTo(f, lv, gone, k, p, s.first),
         NEW t, NEW l3, AtLevel(f, lv, gone, small, id, k + 1, t, l3), Turned(s, p, t),
         WayFrom(f, gone, id, s)
  PROVE  WayFrom(f, gone, id, t)
<1> PICK half : /\ SonsFrom(f, gone, id, s.file, gone, half)
                /\ s.second = 0 \/ s.second = id \/ Origin(f, half, s.second) = s.first
  BY DEF WayFrom
<1>1. PICK g, q, j, c : g = s.file /\ q = p.id /\ j = t.file /\ c = t.second
  OBVIOUS
<1>2. /\ q \in DOMAIN g /\ q \in Inners(f, gone) /\ q \in Inners(g, gone) /\ g[q] = f[q]
      /\ g \in Seq(Node) /\ s.first \in RefsOf(f[q].entries) /\ DOMAIN f \subseteq DOMAIN g
  <2>1. TurnFacts(f, lv, gone, k, s, l2, p)
    BY TurnNode
  <2>2. q \in DOMAIN g /\ g[q] = f[q] /\ ~f[q].leaf /\ g \in Seq(Node)
    BY <1>1, <2>1 DEF TurnFacts
  <2>3. q \in DOMAIN f /\ q \notin gone /\ s.first \in RefsOf(f[q].entries)
    BY <1>1 DEF TurnTo, RefsOf
  <2>4. DOMAIN f \subseteq DOMAIN g
    BY <1>1 DEF AtLevel, Risen, Kept
  <2> QED BY <2>2, <2>3, <2>4 DEF Inners
<1>3. PICK x, y \in Seq(Entry) :
        /\ TurnedAt(g, q, x, y, t) /\ t.first = q
        /\ RefsOf(x) \cup RefsOf(y) \subseteq RefsOf(f[q].entries) \cup {s.second}
  <2>1. s.file \in Seq(Node) /\ p.id \in DOMAIN s.file /\ ~s.file[p.id].leaf
    BY <1>1, <1>2 DEF Inners
  <2>2. PICK x, y \in Seq(Entry) :
          /\ TurnedAt(s.file, p.id, x, y, t) /\ t.first = p.id
          /\ RefsOf(x) \cup RefsOf(y) \subseteq RefsOf(s.file[p.id].entries) \cup {s.second}
    BY <2>1, TurnedFile
  <2> QED BY <1>1, <1>2, <2>2
<1>4. /\ j[q].entries = x /\ \A u \in DOMAIN g : u # q => j[u] = g[u]
      /\ \/ DOMAIN j = DOMAIN g /\ c = 0
         \/ c \notin DOMAIN g /\ DOMAIN j = (DOMAIN g) \cup {c} /\ j[c].entries = y
  BY <1>1, <1>3 DEF TurnedAt
<1>5. c \notin DOMAIN g /\ c \notin DOMAIN f
  BY <1>2, <1>4
<1>6. \A u \in Used(g, gone) : u \in DOMAIN g
  BY <1>1, UsedInFile DEF AtLevel, Risen
<1>7. PICK new : new = [u \in DOMAIN j |-> IF u = c THEN q ELSE half[u]]
  OBVIOUS
<1>8. \A u \in DOMAIN g : Origin(f, new, u) = Origin(f, half, u)
  BY <1>4, <1>5, <1>7 DEF Origin
<1>9. c # 0 => Origin(f, new, c) = q
  BY <1>4, <1>5, <1>7 DEF Origin
<1>10. Origin(f, half, q) = q
  BY <1>2 DEF Origin, Inners
<1>11. ASSUME NEW u \in RefsOf(x) \cup RefsOf(y)
       PROVE  u = id \/ Origin(f, new, u) \in RefsOf(f[q].entries)
  <2>1. u # 0
    BY EntryParts DEF RefsOf
  <2>2. CASE u \in RefsOf(g[q].entries)
    <3>1. u \in DOMAIN g
      BY <1>2, <1>6, <2>2 DEF Used
    <3> QED BY <1>1, <1>2, <1>8, <1>10, <2>2, <3>1 DEF SonsFrom
  <2>3. CASE u = s.second
    <3>1. u \in DOMAIN g
      BY <1>1, <2>1, <2>3 DEF AtLevel, Pending, Fresh, Son
    <3> QED BY <1>2, <1>8, <2>1, <2>3, <3>1
  <2> QED BY <1>2, <1>3, <2>2, <2>3
<1>12. ASSUME NEW v \in Inners(j, gone)
       PROVE  /\ Origin(f, new, v) \in Inners(f, gone)
              /\ \A u \in RefsOf(j[v].entries) :
                   u = id \/ Origin(f, new, u) \in RefsOf(f[Origin(f, new, v)].entries)
  <2>1. CASE v \in DOMAIN g /\ v # q
    <3>1. v \in Inners(g, gone) /\ j[v] = g[v]
      BY <1>4, <2>1 DEF Inners
    <3>2. \A u \in RefsOf(g[v].entries) : u \in DOMAIN g
      BY <1>6, <3>1 DEF Used
    <3> QED BY <1>1, <1>8, <2>1, <3>1, <3>2 DEF SonsFrom
  <2>2. CASE v = q
    BY <1>2, <1>4, <1>8, <1>10, <1>11, <2>2
  <2>3. CASE v = c /\ v \notin DOMAIN g
    <3>1. j[c].entries = y /\ Origin(f, new, c) = q
      BY <1>4, <1>5, <1>7, <2>3 DEF Inners, Origin
    <3> QED BY <1>2, <1>11, <2>3, <3>1
  <2> QED BY <1>4, <2>1, <2>2, <2>3 DEF Inners
<1>13. SonsFrom(f, gone, id, j, gone, new)
  BY <1>12 DEF SonsFrom
<1> QED BY <1>1, <1>3, <1>9, <1>13 DEF WayFrom

(* What the way up brings along: what was a son stays one, what is new is  *)
(* one or about to be, entries have room, and sons stay where they were.   *)
Carried(f, gone, id, s) ==
  /\ Used(f, {}) \subseteq Used(s.file, {})
  /\ \A x \in DOMAIN s.file : x \in DOMAIN f \/ x \in Used(s.file, {}) \/ x = s.second
  /\ (id \in Used(s.file, {}) \/ id = s.second) /\ narrow \subseteq s.narrow
  /\ \A nr : Covered(f, nr, gone, 0) => Covered(s.file, nr \cup s.narrow, gone, s.first)
  /\ WayFrom(f, gone, id, s)

(* A turn brings it along.                                                 *)
LEMMA CarriedUp ==
  ASSUME NEW f, NEW lv \in [DOMAIN f -> Nat], NEW gone, NEW small, NEW id \in DOMAIN f, NEW k \in Nat, NEW s, NEW l2,
         AtLevel(f, lv, gone, small, id, k, s, l2), Carried(f, gone, id, s),
         NEW p, TurnTo(f, lv, gone, k, p, s.first),
         NEW t, NEW l3, AtLevel(f, lv, gone, small, id, k + 1, t, l3), Turned(s, p, t)
  PROVE  Carried(f, gone, id, t)
<1>1. PICK g, q, b : g = s.file /\ q = p.id /\ b = s.second
  OBVIOUS
<1>2. q \in DOMAIN g /\ ~g[q].leaf /\ g \in Seq(Node)
  <2>1. TurnFacts(f, lv, gone, k, s, l2, p)
    BY TurnNode
  <2> QED BY <1>1, <2>1 DEF TurnFacts
<1>3. PICK x, y \in Seq(Entry) : /\ TurnedAt(g, q, x, y, t) /\ s.narrow \subseteq t.narrow
                                 /\ RefsOf(g[q].entries) \subseteq RefsOf(x) \cup RefsOf(y)
                                 /\ b = 0 \/ b \in RefsOf(x) \cup RefsOf(y)
  BY <1>1, <1>2, TurnedFile
<1>4. PICK U, V : U = Used(g, {}) /\ V = Used(t.file, {})
  OBVIOUS
<1>5. U \subseteq V /\ (b = 0 \/ b \in V)
  BY <1>3, <1>4 DEF TurnedAt
<1>6. ASSUME NEW u \in DOMAIN t.file PROVE u \in DOMAIN f \/ u \in V \/ u = t.second
  <2>1. u = t.second \/ u \in DOMAIN g
    BY <1>3 DEF TurnedAt
  <2>2. u # 0
    BY DEF AtLevel, Risen, Levelled
  <2> QED BY <1>1, <1>4, <1>5, <2>1, <2>2 DEF Carried
<1>7. id \in V
  <2>1. id # 0
    BY <1>1, <1>2 DEF AtLevel, Risen, Kept
  <2> QED BY <1>1, <1>4, <1>5, <2>1 DEF Carried
<1>8. ASSUME NEW nr, Covered(f, nr, gone, 0)
      PROVE  Covered(t.file, nr \cup t.narrow, gone, t.first)
  <2>1. PICK m : m = nr \cup s.narrow
    OBVIOUS
  <2>2. Covered(s.file, m, gone, s.first)
    BY <1>8, <2>1 DEF Carried
  <2>3. Covered(t.file, m \cup t.narrow, gone, t.first)
    BY <2>2, CoverUp
  <2>4. m \cup t.narrow = nr \cup t.narrow
    BY <1>3, <2>1
  <2> QED BY <2>3, <2>4
<1>9. Used(f, {}) \subseteq V /\ narrow \subseteq t.narrow
  BY <1>1, <1>3, <1>4, <1>5 DEF Carried
<1>10. WayFrom(f, gone, id, t)
  BY SonsFromUp DEF Carried
<1> QED BY <1>4, <1>6, <1>7, <1>8, <1>9, <1>10 DEF Carried

(* More nodes may be left aside.                                           *)
LEMMA CoveredMore ==
  ASSUME NEW f \in Seq(Node), NEW nr, NEW mr, NEW gone, NEW but, Covered(f, nr, gone, 0), nr \subseteq mr
  PROVE  Covered(f, mr, gone, but)
<1>1. ASSUME NEW q \in Inners(f, gone), NEW e \in ToSet(f[q].entries), e.ref # but
      PROVE  Encloses(f, mr, e)
  <2>1. f[q].entries \in Seq(Entry)
    BY NodeParts DEF Inners
  <2>2. e.ref # 0
    BY <1>1, <2>1, Places, EntryParts DEF ToSet
  <2> QED BY <1>1, <2>2 DEF Covered, Encloses
<1> QED BY <1>1 DEF Covered

-----------------------------------------------------------------------------
(***************************************************************************)
(* insertLeaf: the way down and up again                                   *)
(***************************************************************************)

(* The levels of finitely many nodes have a bound.                         *)
LEMMA LevelsBounded ==
  ASSUME NEW n \in Nat, NEW lv \in [1 .. n -> Nat]
  PROVE  \E k \in Nat : \A i \in 1 .. n : lv[i] <= k
<1> DEFINE G == {m \in 0 .. n : \E k \in Nat : \A i \in 1 .. m : lv[i] <= k}
<1>1. 0 \in G
  OBVIOUS
<1>2. ASSUME NEW m \in 0 .. n - 1, m \in G PROVE m + 1 \in G
  <2>1. PICK k \in Nat : \A i \in 1 .. m : lv[i] <= k
    BY <1>2
  <2>2. m + 1 \in 1 .. n /\ m + 1 \in 0 .. n /\ \A i \in 1 .. m + 1 : i \in 1 .. m \/ i = m + 1
    OBVIOUS
  <2>3. PICK l \in Nat : l = lv[m + 1]
    BY <2>2
  <2>4. k + l \in Nat /\ k <= k + l /\ l <= k + l
    OBVIOUS
  <2>5. \A i \in 1 .. m + 1 : lv[i] <= k + l
    <3>1. \A i \in 1 .. m : lv[i] \in Nat
      BY <2>2
    <3> QED BY <2>1, <2>2, <2>3, <2>4, <3>1
  <2> QED BY <2>2, <2>4, <2>5
<1>3. \A m \in 0 .. n : m \in G
  <2> HIDE DEF G
  <2> QED BY <1>1, <1>2, FromZero
<1>4. n \in 0 .. n
  OBVIOUS
<1> QED BY <1>3, <1>4

Turn == [id : Nat, at : Nat]

(* A way from r down to a node above a leaf.                               *)
Turns(f, lv, r, path) ==
  /\ path \in Seq(Turn) /\ Len(path) = lv[r]
  /\ \A j \in 1 .. lv[r] : /\ path[j].id \in DOMAIN f /\ lv[path[j].id] = (lv[r] - j) + 1
                           /\ path[j].at \in 1 .. Len(f[path[j].id].entries)
  /\ lv[r] # 0 => path[1].id = r
  /\ \A j \in 1 .. lv[r] - 1 : path[j + 1].id = f[path[j].id].entries[path[j].at].ref

(* A way down becomes longer by a turn at its top.                         *)
LEMMA TurnsLonger ==
  ASSUME NEW f, NEW lv, NEW gone, Levelled(f, lv, gone), NEW id \in DOMAIN f, ~f[id].leaf,
         NEW i \in 1 .. Len(f[id].entries), NEW son, son = f[id].entries[i].ref,
         NEW q, Turns(f, lv, son, q)
  PROVE  Turns(f, lv, id, <<[id |-> id, at |-> i]>> \o q)
<1>1. PICK t, path : t = [id |-> id, at |-> i] /\ path = <<t>> \o q
  OBVIOUS
<1>2. /\ f \in Seq(Node) /\ lv \in [DOMAIN f -> Nat] /\ Son(son, f, lv, lv[id], gone)
  BY InnerLevel DEF Levelled
<1>3. PICK n, m : n = lv[id] /\ m = lv[son]
  OBVIOUS
<1>4. n \in Nat /\ m \in Nat /\ n = m + 1 /\ son \in DOMAIN f
  BY <1>2, <1>3 DEF Son
<1>5. t \in Turn /\ t.id = id /\ t.at = i
  <2>1. id \in Nat /\ i \in Nat
    BY <1>2
  <2> QED BY <1>1, <2>1 DEF Turn
<1>6. q \in Seq(Turn) /\ Len(q) = m
  BY <1>3 DEF Turns
<1>7. /\ path \in Seq(Turn) /\ Len(path) = n /\ path[1] = t
      /\ \A j \in 1 .. m : path[j + 1] = q[j]
  BY <1>1, <1>4, <1>5, <1>6
<1>8. \A j \in 1 .. n : j = 1 \/ (j - 1 \in 1 .. m /\ (j - 1) + 1 = j)
  BY <1>4
<1>9. ASSUME NEW j \in 1 .. n
      PROVE  /\ path[j].id \in DOMAIN f /\ lv[path[j].id] = (n - j) + 1
             /\ path[j].at \in 1 .. Len(f[path[j].id].entries)
  <2>1. CASE j = 1
    <3>1. (n - 1) + 1 = n
      BY <1>4
    <3> QED BY <1>3, <1>5, <1>7, <2>1, <3>1
  <2>2. CASE j - 1 \in 1 .. m /\ (j - 1) + 1 = j
    <3>1. path[j] = q[j - 1]
      BY <1>7, <2>2
    <3>2. (m - (j - 1)) + 1 = (n - j) + 1
      BY <1>4
    <3> QED BY <1>3, <2>2, <3>1, <3>2 DEF Turns
  <2> QED BY <1>8, <2>1, <2>2
<1>10. ASSUME NEW j \in 1 .. n - 1 PROVE path[j + 1].id = f[path[j].id].entries[path[j].at].ref
  <2>1. j \in 1 .. m /\ path[j + 1] = q[j]
    BY <1>4, <1>7
  <2>2. CASE j = 1
    <3>1. m # 0
      BY <1>4, <2>1
    <3>2. q[1].id = son
      BY <1>3, <3>1 DEF Turns
    <3> QED BY <1>5, <1>7, <2>1, <2>2, <3>2
  <2>3. CASE j - 1 \in 1 .. m /\ (j - 1) + 1 = j
    <3>1. path[j] = q[j - 1] /\ j - 1 \in 1 .. m - 1
      BY <1>4, <1>7, <2>3
    <3>2. q[(j - 1) + 1].id = f[q[j - 1].id].entries[q[j - 1].at].ref
      BY <1>3, <3>1 DEF Turns
    <3> QED BY <2>1, <2>3, <3>1, <3>2
  <2> QED BY <1>4, <1>8, <2>2, <2>3
<1>11. path[1].id = id
  BY <1>5, <1>7
<1> QED BY <1>1, <1>3, <1>7, <1>9, <1>10, <1>11 DEF Turns

(* The way down of insertLeaf takes a turn at every level.                 *)
LEMMA BestPathTurns ==
  ASSUME NEW f, NEW lv, NEW gone, Levelled(f, lv, gone), NEW r \in DOMAIN f, NEW rect \in Box
  PROVE  Turns(f, lv, r, BestPath(f, r, rect))
<1> DEFINE D == DOMAIN f
           V == Seq(Turn)
           best(id) == BestNode(f[id].entries, rect)
           son(id) == f[id].entries[best(id)].ref
           turn(id) == [id |-> id, at |-> best(id)]
           Step(g) == [id \in DOMAIN f |->
                         IF f[id].leaf THEN << >>
                         ELSE LET i == BestNode(f[id].entries, rect)
                              IN  <<[id |-> id, at |-> i]>> \o g[f[id].entries[i].ref]]
           P == CHOOSE g : g = Step(g)
           step == [x \in D \X [D -> V] |-> IF f[x[1]].leaf THEN << >>
                                             ELSE <<turn(x[1])>> \o x[2][son(x[1])]]
<1>1. f \in Seq(Node) /\ lv \in [D -> Nat] /\ D = 1 .. Len(f) /\ Len(f) \in Nat
  BY DEF Levelled
<1>2. ASSUME NEW id \in D, ~f[id].leaf
      PROVE  /\ best(id) \in 1 .. Len(f[id].entries) /\ turn(id) \in Turn
             /\ son(id) \in D /\ lv[son(id)] + 1 = lv[id]
  <2>1. /\ f[id].entries \in Filled
        /\ \A i \in 1 .. Len(f[id].entries) : Son(f[id].entries[i].ref, f, lv, lv[id], gone)
    BY <1>2, InnerLevel
  <2>2. best(id) \in 1 .. Len(f[id].entries)
    BY <2>1, BestNodeIn, Places DEF Filled
  <2>3. turn(id) \in Turn
    BY <1>1, <2>2 DEF Turn
  <2> QED BY <2>1, <2>2, <2>3 DEF Son
<1>3. PICK K \in Nat : \A i \in D : lv[i] <= K
  BY <1>1, LevelsBounded
<1> HIDE DEF best, turn, son
<1>4. ASSUME NEW d \in D, NEW g \in [D -> V]
      PROVE  /\ step[<<d, g>>] = IF f[d].leaf THEN << >> ELSE <<turn(d)>> \o g[son(d)]
             /\ step[<<d, g>>] \in V
  <2>1. <<d, g>> \in D \X [D -> V] /\ <<d, g>>[1] = d /\ <<d, g>>[2] = g
    OBVIOUS
  <2>2. step[<<d, g>>] = IF f[d].leaf THEN << >> ELSE <<turn(d)>> \o g[son(d)]
    BY <2>1, Zenon
  <2>3. ~f[d].leaf => <<turn(d)>> \o g[son(d)] \in V
    <3>1. ~f[d].leaf => turn(d) \in Turn /\ g[son(d)] \in Seq(Turn)
      BY <1>2
    <3> QED BY <3>1
  <2> HIDE DEF step
  <2>4. << >> \in V
    OBVIOUS
  <2> QED BY <2>2, <2>3, <2>4
<1>5. step \in [D \X [D -> V] -> V]
  <2>1. ASSUME NEW x \in D \X [D -> V]
        PROVE  (IF f[x[1]].leaf THEN << >> ELSE <<turn(x[1])>> \o x[2][son(x[1])]) \in V
    <3>1. PICK d \in D, g \in [D -> V] : x[1] = d /\ x[2] = g
      OBVIOUS
    <3>2. (IF f[d].leaf THEN << >> ELSE <<turn(d)>> \o g[son(d)]) \in V
      <4> HIDE DEF step
      <4> QED BY <1>4
    <3> QED BY <3>1, <3>2
  <2> QED BY <2>1
<1> HIDE DEF step
<1>6. StepsDown(D, V, lv, K, step)
  <2>1. ASSUME NEW d \in D, NEW g \in [D -> V], NEW h \in [D -> V],
               \A e \in D : lv[e] < lv[d] => g[e] = h[e]
        PROVE  step[<<d, g>>] = step[<<d, h>>]
    <3>1. CASE f[d].leaf
      BY <1>4, <3>1
    <3>2. CASE ~f[d].leaf
      <4>1. son(d) \in D /\ lv[son(d)] < lv[d]
        <5>1. son(d) \in D /\ lv[son(d)] + 1 = lv[d]
          BY <1>2, <3>2
        <5>2. lv[son(d)] \in Nat /\ lv[d] \in Nat
          BY <1>1, <5>1
        <5> QED BY <5>1, <5>2
      <4>2. g[son(d)] = h[son(d)]
        BY <2>1, <4>1
      <4> QED BY <1>4, <3>2, <4>2
    <3> QED BY <3>1, <3>2
  <2>2. V # {}
    <3>1. << >> \in V
      OBVIOUS
    <3> HIDE DEF V
    <3> QED BY <3>1
  <2> HIDE DEF V, D
  <2> QED BY <1>1, <1>3, <1>5, <2>1, <2>2 DEF StepsDown
<1>7. PICK p \in [D -> V] : \A d \in D : p[d] = step[<<d, p>>]
  <2>1. \E p : Follows(p, D, V, step)
    <3> HIDE DEF V, D
    <3> QED BY <1>3, <1>6, RecursionExists, Zenon
  <2> QED BY <2>1 DEF Follows
<1>8. p = Step(p)
  <2>1. \A d \in DOMAIN f : p[d] = IF f[d].leaf THEN << >> ELSE <<turn(d)>> \o p[son(d)]
    BY <1>4, <1>7
  <2> QED BY <1>7, <2>1 DEF turn, son, best
<1>9. P = Step(P)
  BY <1>8, Zenon
<1>10. BestPath(f, r, rect) = P[r]
  BY Zenon DEF BestPath
<1> HIDE DEF P
<1>11. \A d \in D : P[d] = IF f[d].leaf THEN << >> ELSE <<turn(d)>> \o P[son(d)]
  <2>1. ASSUME NEW d \in D
        PROVE  P[d] = IF f[d].leaf THEN << >> ELSE <<turn(d)>> \o P[son(d)]
    BY <1>9, Zenon DEF turn, son, best
  <2> QED BY <2>1
<1> DEFINE G == {id \in D : Turns(f, lv, id, P[id])}
<1>12. ASSUME NEW d \in D, \A e \in D : lv[e] < lv[d] => e \in G PROVE d \in G
  <2>1. CASE f[d].leaf
    <3>1. lv[d] = 0 /\ P[d] = << >>
      BY <1>11, <2>1 DEF Levelled
    <3>2. P[d] \in Seq(Turn) /\ Len(P[d]) = 0 /\ 1 .. 0 = {} /\ 1 .. 0 - 1 = {}
      BY <3>1
    <3>3. Turns(f, lv, d, P[d])
      BY <3>1, <3>2 DEF Turns
    <3> QED BY <3>3
  <2>2. CASE ~f[d].leaf
    <3>1. son(d) \in D /\ lv[son(d)] + 1 = lv[d] /\ best(d) \in 1 .. Len(f[d].entries)
      BY <1>2, <2>2
    <3>2. lv[son(d)] \in Nat /\ lv[d] \in Nat
      BY <1>1, <3>1
    <3>3. Turns(f, lv, son(d), P[son(d)])
      BY <1>12, <3>1, <3>2
    <3>4. Turns(f, lv, d, <<[id |-> d, at |-> best(d)]>> \o P[son(d)])
      BY <2>2, <3>1, <3>3, TurnsLonger DEF son
    <3> QED BY <1>11, <2>2, <3>4 DEF turn
  <2> QED BY <2>1, <2>2
<1>13. \A d \in D : d \in G
  <2>1. \A d \in D : (\A e \in D : lv[e] < lv[d] => e \in G) => d \in G
    <3> HIDE DEF G, D
    <3> QED BY <1>12
  <2>2. lv \in [D -> Nat]
    BY <1>1
  <2> HIDE DEF G, D
  <2> QED BY <2>1, <2>2, ByLevel
<1> QED BY <1>10, <1>13

(* The way from below: turn k is at level k, and the first one is above    *)
(* the leaf.                                                               *)
Upwards(f, lv, gone, n, up, leaf) ==
  /\ Len(up) = n /\ up \in Seq(Turn)
  /\ leaf \in DOMAIN f /\ leaf \notin gone /\ lv[leaf] = 0 /\ f[leaf].entries # << >>
  /\ leaf \in Used(f, gone)
  /\ \A k \in 0 .. n - 1 : TurnTo(f, lv, gone, k, up[k + 1], IF k = 0 THEN leaf ELSE up[k].id)

(* The way down, taken in reverse, goes up level by level.                 *)
LEMMA TurnsUpwards ==
  ASSUME NEW f, NEW lv, NEW gone, Levelled(f, lv, gone),
         NEW r \in DOMAIN f, r \notin gone, ~f[r].leaf,
         NEW path, Turns(f, lv, r, path)
  PROVE  /\ path # << >> /\ lv[r] \in Nat \ {0}
         /\ Upwards(f, lv, gone, lv[r], Reverse(path), LeafBelow(f, r, path))
         /\ Reverse(path)[lv[r]].id = r
<1>1. PICK n : n = lv[r]
  OBVIOUS
<1>2. n \in Nat \ {0}
  BY <1>1, InnerLevel
<1>3. /\ path \in Seq(Turn) /\ Len(path) = n /\ path[1].id = r /\ path # << >>
      /\ \A j \in 1 .. n : /\ path[j].id \in DOMAIN f /\ lv[path[j].id] = (n - j) + 1
                           /\ path[j].at \in 1 .. Len(f[path[j].id].entries)
      /\ \A j \in 1 .. n - 1 : path[j + 1].id = f[path[j].id].entries[path[j].at].ref
  <2>1. path \in Seq(Turn) /\ Len(path) = n
    BY <1>1 DEF Turns
  <2>2. path # << >>
    BY <1>2, <2>1
  <2> QED BY <1>1, <1>2, <2>1, <2>2 DEF Turns
<1>4. PICK up : up = Reverse(path)
  OBVIOUS
<1>5. /\ up \in Seq(Turn) /\ Len(up) = n
      /\ \A k \in 0 .. n - 1 : up[k + 1] = path[n - k]
      /\ \A k \in 1 .. n - 1 : up[k] = path[(n - k) + 1]
  <2>1. up = [i \in 1 .. n |-> path[(n - i) + 1]]
    BY <1>3, <1>4 DEF Reverse
  <2>2. \A i \in 1 .. n : (n - i) + 1 \in 1 .. n
    BY <1>2
  <2>3. \A i \in 1 .. n : path[(n - i) + 1] \in Turn
    BY <1>3, <2>2
  <2>4. up \in Seq(Turn) /\ Len(up) = n
    BY <1>2, <2>1, <2>3
  <2>5. \A k \in 0 .. n - 1 : k + 1 \in 1 .. n /\ (n - (k + 1)) + 1 = n - k
    BY <1>2
  <2>6. \A k \in 1 .. n - 1 : k \in 1 .. n
    BY <1>2
  <2> QED BY <2>1, <2>4, <2>5, <2>6
<1>6. PICK leaf : leaf = LeafBelow(f, r, path)
  OBVIOUS
<1>7. leaf = f[path[n].id].entries[path[n].at].ref
  BY <1>3, <1>6 DEF LeafBelow, Last
<1>8. \A j \in 1 .. n : /\ ~f[path[j].id].leaf
                        /\ Son(f[path[j].id].entries[path[j].at].ref, f, lv, lv[path[j].id], gone)
                        /\ f[path[j].id].entries[path[j].at].ref \in RefsOf(f[path[j].id].entries)
  <2>1. ASSUME NEW j \in 1 .. n
        PROVE  /\ ~f[path[j].id].leaf
               /\ Son(f[path[j].id].entries[path[j].at].ref, f, lv, lv[path[j].id], gone)
               /\ f[path[j].id].entries[path[j].at].ref \in RefsOf(f[path[j].id].entries)
    <3>1. PICK d, i : d = path[j].id /\ i = path[j].at
      OBVIOUS
    <3>2. d \in DOMAIN f /\ lv[d] = (n - j) + 1 /\ i \in 1 .. Len(f[d].entries)
      BY <1>3, <3>1
    <3>3. lv[d] # 0
      BY <1>2, <3>2
    <3>4. ~f[d].leaf
      BY <3>2, <3>3 DEF Levelled
    <3>5. /\ Son(f[d].entries[i].ref, f, lv, lv[d], gone)
          /\ f[d].entries[i].ref \in RefsOf(f[d].entries)
      BY <3>2, <3>4, InnerLevel
    <3> QED BY <3>1, <3>4, <3>5
  <2> QED BY <2>1
<1>9. \A j \in 1 .. n : path[j].id \notin gone
  <2>1. ASSUME NEW j \in 1 .. n PROVE path[j].id \notin gone
    <3>1. CASE j = 1
      BY <1>3, <3>1
    <3>2. CASE j # 1
      <4>1. j - 1 \in 1 .. n - 1 /\ (j - 1) + 1 = j /\ j - 1 \in 1 .. n
        BY <1>2, <3>2
      <4>2. path[j].id = f[path[j - 1].id].entries[path[j - 1].at].ref
        BY <1>3, <4>1
      <4> QED BY <1>8, <4>1, <4>2 DEF Son
    <3> QED BY <3>1, <3>2
  <2> QED BY <2>1
<1>10. /\ leaf \in DOMAIN f /\ leaf \notin gone /\ lv[leaf] = 0 /\ f[leaf].entries # << >>
       /\ leaf \in Used(f, gone)
  <2>1. n \in 1 .. n /\ (n - n) + 1 = 1
    BY <1>2
  <2>2. Son(leaf, f, lv, 1, gone)
    BY <1>3, <1>7, <1>8, <2>1
  <2>3. lv[leaf] \in Nat
    BY <2>2 DEF Son, Levelled
  <2>4. lv[leaf] = 0
    BY <2>2, <2>3 DEF Son
  <2>5. path[n].id \in Inners(f, gone)
    BY <1>3, <1>8, <1>9, <2>1 DEF Inners
  <2>6. leaf \in Used(f, gone)
    BY <1>7, <1>8, <2>1, <2>5 DEF Used
  <2> QED BY <2>2, <2>4, <2>6 DEF Son
<1>11. ASSUME NEW k \in 0 .. n - 1
       PROVE  TurnTo(f, lv, gone, k, up[k + 1], IF k = 0 THEN leaf ELSE up[k].id)
  <2>1. n - k \in 1 .. n /\ (n - (n - k)) + 1 = k + 1 /\ up[k + 1] = path[n - k]
    BY <1>2, <1>5
  <2>2. (IF k = 0 THEN leaf ELSE up[k].id) = f[path[n - k].id].entries[path[n - k].at].ref
    <3>1. CASE k = 0
      <4>1. n - k = n
        BY <1>2, <3>1
      <4> QED BY <1>7, <3>1, <4>1
    <3>2. CASE k # 0
      <4>1. k \in 1 .. n - 1 /\ n - k \in 1 .. n - 1
        BY <1>2, <3>2
      <4>2. up[k] = path[(n - k) + 1]
        BY <1>5, <4>1
      <4> QED BY <1>3, <3>2, <4>1, <4>2
    <3> QED BY <3>1, <3>2
  <2> QED BY <1>3, <1>9, <2>1, <2>2 DEF TurnTo
<1>12. up[n].id = r
  <2>1. n - 1 \in 0 .. n - 1 /\ (n - 1) + 1 = n /\ n - (n - 1) = 1
    BY <1>2
  <2> QED BY <1>3, <1>5, <2>1
<1> QED BY <1>1, <1>2, <1>3, <1>4, <1>5, <1>6, <1>10, <1>11, <1>12 DEF Upwards

(* The sets of at most k places, on which a fold goes up.                  *)
Small(n, k) == {s \in SUBSET (1 .. n) : Cardinality(s) <= k}

(* Facts about the sets of at most k places.                               *)
LEMMA SmallSets ==
  ASSUME NEW n \in Nat
  PROVE  /\ \A k \in Nat : \A s \in Small(n, k + 1) : s # {} => s \ {Max(s)} \in Small(n, k)
         /\ \A k \in Nat : Small(n, k) \subseteq Small(n, k + 1)
         /\ \A s \in Small(n, 0) : s = {}
         /\ Small(n, n) = SUBSET (1 .. n)
<1>1. IsFiniteSet(1 .. n) /\ Cardinality(1 .. n) = n
  BY FS_Interval
<1>2. \A s \in SUBSET (1 .. n) : IsFiniteSet(s) /\ Cardinality(s) \in Nat /\ Cardinality(s) <= n
  BY <1>1, FS_Subset, FS_CardinalityType
<1>3. ASSUME NEW k \in Nat, NEW s \in Small(n, k + 1), s # {}
      PROVE  s \ {Max(s)} \in Small(n, k)
  <2>1. s \in SUBSET (1 .. n) /\ Cardinality(s) <= k + 1
    BY DEF Small
  <2>2. Max(s) \in s
    BY <1>3, <2>1, MaxIn
  <2>3. Cardinality(s \ {Max(s)}) = Cardinality(s) - 1
    BY <1>2, <2>1, <2>2, FS_RemoveElement
  <2>4. Cardinality(s \ {Max(s)}) <= k
    BY <1>2, <2>1, <2>3
  <2> QED BY <2>1, <2>4 DEF Small
<1>4. \A k \in Nat : Small(n, k) \subseteq Small(n, k + 1)
  BY <1>2 DEF Small
<1>5. ASSUME NEW s \in Small(n, 0) PROVE s = {}
  <2>1. IsFiniteSet(s) /\ Cardinality(s) = 0
    BY <1>2 DEF Small
  <2> QED BY <2>1, FS_EmptySet
<1>6. Small(n, n) = SUBSET (1 .. n)
  BY <1>2 DEF Small
<1> QED BY <1>3, <1>4, <1>5, <1>6

UpOne(s, p, rect) == IF s.second = 0 THEN Enlarge(s, p, rect) ELSE TakeSecond(s, p)

UpAll(base, up, rect) == FoldLeft(LAMBDA s, p : UpOne(s, p, rect), base, up)

(* The turns on the way up, one after the other.                           *)
LEMMA UpFold ==
  ASSUME NEW base, NEW up, NEW n \in Nat, DOMAIN up = 1 .. n, NEW rect
  PROVE  \E h : /\ h[0] = base /\ UpAll(base, up, rect) = h[n]
                /\ \A k \in 0 .. n - 1 : h[k + 1] = UpOne(h[k], up[k + 1], rect)
<1> DEFINE next(it, s) == IF s = {} THEN base ELSE UpOne(it[s \ {Max(s)}], up[Max(s)], rect)
           Step(it) == [s \in SUBSET DOMAIN up |->
                          IF s = {} THEN base ELSE UpOne(it[s \ {Max(s)}], up[Max(s)], rect)]
           F == CHOOSE it : it = Step(it)
           G == {k \in 0 .. n : \E it : it = [s \in Small(n, k) |-> next(it, s)]}
<1>1. 0 \in G
  <2> DEFINE it == [s \in Small(n, 0) |-> base]
  <2>1. it = [s \in Small(n, 0) |-> next(it, s)]
    <3>1. \A s \in Small(n, 0) : next(it, s) = base
      BY SmallSets
    <3> HIDE DEF next
    <3> QED BY <3>1
  <2> HIDE DEF it, next
  <2> QED BY <2>1
<1>2. ASSUME NEW k \in 0 .. n - 1, k \in G PROVE k + 1 \in G
  <2>1. PICK it : it = [s \in Small(n, k) |-> next(it, s)]
    BY <1>2
  <2> DEFINE more == [s \in Small(n, k + 1) |-> next(it, s)]
  <2>2. k \in Nat /\ k + 1 \in 0 .. n
    OBVIOUS
  <2>3. \A s \in Small(n, k) : more[s] = it[s]
    <3>1. \A s \in Small(n, k) : s \in Small(n, k + 1)
      BY <2>2, SmallSets
    <3> HIDE DEF next
    <3> QED BY <2>1, <3>1
  <2>4. \A s \in Small(n, k + 1) : next(more, s) = next(it, s)
    <3>1. \A s \in Small(n, k + 1) : s # {} => s \ {Max(s)} \in Small(n, k)
      BY <2>2, SmallSets
    <3> HIDE DEF more
    <3> QED BY <2>3, <3>1
  <2>5. more = [s \in Small(n, k + 1) |-> next(more, s)]
    <3> HIDE DEF next
    <3> QED BY <2>4
  <2> HIDE DEF more, next
  <2> QED BY <2>2, <2>5
<1>3. n \in G
  <2>1. \A k \in 0 .. n : k \in G
    <3> HIDE DEF G
    <3> QED BY <1>1, <1>2, FromZero
  <2>2. n \in 0 .. n
    OBVIOUS
  <2> HIDE DEF G
  <2> QED BY <2>1, <2>2
<1>4. PICK it : it = [s \in SUBSET (1 .. n) |-> next(it, s)]
  <2>1. PICK it : it = [s \in Small(n, n) |-> next(it, s)]
    BY <1>3
  <2>2. Small(n, n) = SUBSET (1 .. n)
    BY SmallSets
  <2> HIDE DEF next
  <2> QED BY <2>1, <2>2
<1>5. it = Step(it)
  BY <1>4
<1>6. F = Step(F)
  BY <1>5, Zenon
<1>7. UpAll(base, up, rect) = F[DOMAIN up]
  BY Zenon DEF UpAll, FoldLeft, MapThenFoldSet
<1> HIDE DEF F
<1> DEFINE h == [k \in 0 .. n |-> F[1 .. k]]
<1>8. F[{}] = base /\ 1 .. 0 = {}
  BY <1>6
<1>9. ASSUME NEW k \in 0 .. n - 1 PROVE F[1 .. k + 1] = UpOne(F[1 .. k], up[k + 1], rect)
  <2>1. 1 .. k + 1 \in SUBSET DOMAIN up /\ 1 .. k + 1 # {} /\ k \in Nat
    <3>1. k \in Nat /\ 1 .. k + 1 \subseteq 1 .. n /\ 1 \in 1 .. k + 1
      OBVIOUS
    <3> QED BY <3>1
  <2>2. Max(1 .. k + 1) = k + 1 /\ (1 .. k + 1) \ {k + 1} = 1 .. k
    BY <2>1, MaxUpTo
  <2> QED BY <1>6, <2>1, <2>2
<1>10. /\ h[0] = base /\ h[n] = F[1 .. n]
       /\ \A k \in 0 .. n - 1 : h[k] = F[1 .. k] /\ h[k + 1] = F[1 .. k + 1]
  BY <1>8
<1>11. \A k \in 0 .. n - 1 : h[k + 1] = UpOne(h[k], up[k + 1], rect)
  <2> HIDE DEF h
  <2> QED BY <1>9, <1>10
<1> HIDE DEF h
<1> QED BY <1>7, <1>10, <1>11

(* What insertLeaf is called with: the root r and the leaf id.             *)
Insertable(f, lv, gone, small, r, id) ==
  /\ Levelled(f, lv, gone) /\ gone \in SUBSET DOMAIN f /\ Sized(f, small) /\ Once(f, gone)
  /\ r \in DOMAIN f /\ r \notin gone /\ f[r].entries # << >>
  /\ id \in DOMAIN f /\ id \notin gone /\ f[id].leaf /\ f[id].entries # << >>
  /\ narrow \subseteq DOMAIN f

(* insertLeafRec comes up to the root with everything kept.                *)
LEMMA InsertRecRises ==
  ASSUME NEW f, NEW lv, NEW gone, NEW small, NEW r, NEW id, Insertable(f, lv, gone, small, r, id),
         NEW rect \in Box, ~f[r].leaf, id \notin Used(f, gone)
  PROVE  /\ \E l2 : AtLevel(f, lv, gone, small, id, lv[r], InsertLeafRec(f, r, id, rect), l2)
         /\ InsertLeafRec(f, r, id, rect).first = r
         /\ Carried(f, gone, id, InsertLeafRec(f, r, id, rect))
<1> USE DEF Insertable
<1>1. PICK path : path = BestPath(f, r, rect)
  OBVIOUS
<1>2. Turns(f, lv, r, path)
  BY <1>1, BestPathTurns
<1>3. PICK n, up, leaf : n = lv[r] /\ up = Reverse(path) /\ leaf = LeafBelow(f, r, path)
  OBVIOUS
<1>4. n \in Nat \ {0} /\ Upwards(f, lv, gone, n, up, leaf) /\ up[n].id = r
  BY <1>2, <1>3, TurnsUpwards
<1>5. PICK base : base = [file |-> f, first |-> leaf, second |-> id, narrow |-> narrow]
  OBVIOUS
<1>6. InsertLeafRec(f, r, id, rect) = UpAll(base, up, rect)
  BY <1>1, <1>3, <1>5, Zenon DEF InsertLeafRec, UpAll, UpOne
<1>7. DOMAIN up = 1 .. n
  BY <1>4, Places DEF Upwards
<1>8. PICK h : /\ h[0] = base /\ UpAll(base, up, rect) = h[n]
               /\ \A k \in 0 .. n - 1 : h[k + 1] = UpOne(h[k], up[k + 1], rect)
  BY <1>4, <1>7, UpFold
<1>9. f \in Seq(Node) /\ lv \in [DOMAIN f -> Nat]
  BY DEF Levelled
<1> DEFINE first(k) == IF k = 0 THEN leaf ELSE up[k].id
           G == {k \in 0 .. n : /\ \E l2 : AtLevel(f, lv, gone, small, id, k, h[k], l2)
                                /\ h[k].first = first(k) /\ Carried(f, gone, id, h[k])}
<1>10. 0 \in G
  <2>1. Risen(f, lv, gone, small, id, 0, f, lv)
    BY DEF Risen, Kept
  <2>2. /\ base.file = f /\ base.first = leaf /\ base.second = id /\ base.narrow = narrow /\ Way(base)
    BY <1>5 DEF Way
  <2>3. Pending(f, id, gone, 0, base, lv)
    <3>1. id # 0 /\ id # leaf
      BY <1>4, <1>9 DEF Upwards
    <3>2. lv[id] = 0
      BY DEF Levelled
    <3>3. Son(id, f, lv, 0 + 1, gone)
      BY <3>2 DEF Son
    <3> QED BY <2>2, <3>1, <3>3 DEF Pending, Fresh
  <2>4. AtLevel(f, lv, gone, small, id, 0, base, lv)
    BY <1>4, <2>1, <2>2, <2>3 DEF AtLevel, Upwards
  <2>5. 0 \in 0 .. n
    BY <1>4
  <2>6. Carried(f, gone, id, base)
    <3>1. ASSUME NEW nr, Covered(f, nr, gone, 0)
          PROVE  Covered(base.file, nr \cup base.narrow, gone, base.first)
      BY <1>9, <2>2, <3>1, CoveredMore
    <3>2. WayFrom(f, gone, id, base)
      BY <1>9, <2>2, SonsFromSelf DEF WayFrom
    <3> QED BY <2>2, <3>1, <3>2 DEF Carried
  <2> QED BY <1>8, <2>2, <2>4, <2>5, <2>6
<1>11. ASSUME NEW k \in 0 .. n - 1, k \in G PROVE k + 1 \in G
  <2>1. PICK l2 : AtLevel(f, lv, gone, small, id, k, h[k], l2)
    BY <1>11
  <2>2. PICK s, p : s = h[k] /\ p = up[k + 1]
    OBVIOUS
  <2>3. /\ AtLevel(f, lv, gone, small, id, k, s, l2) /\ TurnTo(f, lv, gone, k, p, s.first)
        /\ h[k + 1] = UpOne(s, p, rect) /\ k \in Nat /\ k + 1 \in 0 .. n /\ first(k + 1) = p.id
    <3>1. TurnTo(f, lv, gone, k, p, first(k))
      BY <1>4, <2>2 DEF Upwards
    <3>2. s.first = first(k)
      BY <1>11, <2>2
    <3>3. k \in Nat /\ k + 1 \in 0 .. n /\ k + 1 # 0
      BY <1>4
    <3> QED BY <1>8, <2>1, <2>2, <3>1, <3>2, <3>3
  <2>4. PICK t : t = UpOne(s, p, rect)
    OBVIOUS
  <2>5. Climbs(f, lv, gone, small, id, k, p, t) /\ Turned(s, p, t)
    <3>1. CASE s.second = 0
      <4>1. t = Enlarge(s, p, rect)
        BY <2>4, <3>1 DEF UpOne
      <4>2. /\ Climbs(f, lv, gone, small, id, k, p, Enlarge(s, p, rect))
            /\ Turned(s, p, Enlarge(s, p, rect))
        BY <1>9, <2>3, <3>1, EnlargeRises
      <4> QED BY <4>1, <4>2
    <3>2. CASE s.second # 0
      <4>1. t = TakeSecond(s, p)
        BY <2>4, <3>2 DEF UpOne
      <4>2. Pending(f, id, gone, k, s, l2)
        BY <2>3, <3>2 DEF AtLevel
      <4>3. /\ Climbs(f, lv, gone, small, id, k, p, TakeSecond(s, p))
            /\ Turned(s, p, TakeSecond(s, p))
        BY <1>9, <2>3, <4>2, TakeSecondRises
      <4> QED BY <4>1, <4>3
    <3> QED BY <3>1, <3>2
  <2>6. h[k + 1] = t
    BY <2>3, <2>4
  <2>7. PICK l3 : AtLevel(f, lv, gone, small, id, k + 1, t, l3) /\ t.first = p.id
    BY <2>5 DEF Climbs
  <2>8. Carried(f, gone, id, t)
    <3>1. Carried(f, gone, id, s)
      BY <1>11, <2>2
    <3> QED BY <1>9, <2>3, <2>5, <2>7, <3>1, CarriedUp
  <2>9. /\ \E l4 : AtLevel(f, lv, gone, small, id, k + 1, h[k + 1], l4)
        /\ h[k + 1].first = first(k + 1) /\ Carried(f, gone, id, h[k + 1])
    BY <2>3, <2>6, <2>7, <2>8, Zenon
  <2> QED BY <2>3, <2>9
<1>12. \A k \in 0 .. n : k \in G
  <2> HIDE DEF G
  <2> QED BY <1>4, <1>10, <1>11, FromZero
<1>13. n \in 0 .. n /\ n # 0
  BY <1>4
<1> QED BY <1>3, <1>4, <1>6, <1>8, <1>12, <1>13

-----------------------------------------------------------------------------
(***************************************************************************)
(* insertLeaf: the new root                                                *)
(***************************************************************************)

(* What is known of the records: gone are the roots that were dropped, and *)
(* small those that may have the entries of a root.                        *)
Shape(f, lv, gone, small) ==
  /\ Levelled(f, lv, gone) /\ gone \in SUBSET DOMAIN f
  /\ Sized(f, small) /\ Once(f, gone)

(* A root over the nodes a and b of level k - 1.                           *)
RootOver(f, a, b) == Inner(<<EntryFor(f, a), EntryFor(f, b)>>)

Topped(f, lv, gone, small, k, a, b, g) ==
  /\ Levelled(g, More(f, lv, k), gone)
  /\ Shape(g, More(f, lv, k), gone \cup {Len(f) + 1}, small \cup {Len(f) + 1})
  /\ Used(g, gone \cup {Len(f) + 1}) = Used(f, gone)
  /\ a # b /\ a \notin Used(f, gone) /\ b \notin Used(f, gone) =>
       /\ Shape(g, More(f, lv, k), gone, small \cup {Len(f) + 1})
       /\ Used(g, gone) = Used(f, gone) \cup {a, b}
       /\ Len(f) + 1 \notin Used(g, gone)

(* A new root over two nodes of one level.                                 *)
LEMMA RootTops ==
  ASSUME NEW f, NEW lv, NEW gone, NEW small, Shape(f, lv, gone, small),
         NEW k \in Nat, NEW a, NEW b, Son(a, f, lv, k, gone), Son(b, f, lv, k, gone),
         NEW g, g = Append(f, RootOver(f, a, b))
  PROVE  /\ Topped(f, lv, gone, small, k, a, b, g)
         /\ RootOver(f, a, b) \in Node /\ ~RootOver(f, a, b).leaf /\ RootOver(f, a, b).next = 0
         /\ RootOver(f, a, b).entries # << >>
<1>1. PICK c, l3, x, n : /\ c = Len(f) + 1 /\ l3 = More(f, lv, k)
                         /\ x = <<EntryFor(f, a), EntryFor(f, b)>> /\ n = Inner(x)
  OBVIOUS
<1>2. /\ Levelled(f, lv, gone) /\ gone \in SUBSET DOMAIN f /\ Sized(f, small) /\ Once(f, gone)
      /\ f \in Seq(Node) /\ a \in DOMAIN f /\ b \in DOMAIN f
      /\ f[a].entries # << >> /\ f[b].entries # << >>
  BY DEF Shape, Levelled, Son
<1>3. EntryFor(f, a) \in Entry /\ EntryFor(f, a).ref = a /\ EntryFor(f, b) \in Entry /\ EntryFor(f, b).ref = b
  BY <1>2, EntryForType
<1>4. x \in Seq(Entry) /\ Len(x) = 2 /\ x # << >> /\ x[1].ref = a /\ x[2].ref = b
  BY <1>1, <1>3
<1>5. 1 .. 2 = {1, 2}
  OBVIOUS
<1>6. RefsOf(x) = {a, b} /\ (a # b => Distinct(x))
  BY <1>4, <1>5 DEF RefsOf, Distinct
<1>7. n \in Node /\ n.entries = x /\ ~n.leaf /\ n.next = 0
  BY <1>1, <1>4, InnerNode
<1>8. g = Append(f, n)
  BY <1>1 DEF RootOver
<1>9. Levelled(g, l3, gone) /\ Levelled(g, l3, gone \cup {c})
  <2>1. Fitted(n, f, lv, gone, k)
    BY <1>4, <1>6, <1>7 DEF Fitted
  <2>2. LevelledMore(f, lv, gone, k, g)
    BY <1>2, <1>8, <2>1, LevelledAppended
  <2> QED BY <1>1, <2>2 DEF LevelledMore
<1>10. /\ Used(g, gone \cup {c}) = Used(f, gone) /\ Once(g, gone \cup {c})
       /\ Used(g, gone) = Used(f, gone) \cup {a, b}
       /\ a # b /\ Used(f, gone) \cap {a, b} = {} => Once(g, gone)
  <2>1. OnceMore(f, gone, n, g)
    BY <1>2, <1>7, <1>8, OnceAppended
  <2> QED BY <1>1, <1>2, <1>6, <1>7, <2>1 DEF OnceMore
<1>11. /\ DOMAIN g = (DOMAIN f) \cup {c} /\ c \notin DOMAIN f
       /\ g[c] = n /\ \A id \in DOMAIN f : g[id] = f[id]
  BY <1>1, <1>2, <1>7, <1>8, NodeAppended
<1>12. Sized(g, small \cup {c})
  <2>1. Sized(f, small \cup {c})
    BY <1>2, SizedMore
  <2>2. Fits(n, c, small \cup {c})
    <3>1. 2 \in Lesser(2, InnerMin) .. InnerMax
      BY TBTreeAssumption DEF Lesser
    <3> QED BY <1>4, <1>7, <3>1 DEF Fits
  <2> QED BY <1>11, <2>1, <2>2 DEF Sized
<1>13. c \notin Used(g, gone)
  <2>1. \A u \in Used(f, gone) : u \in DOMAIN f
    BY <1>2, UsedInFile
  <2> QED BY <1>2, <1>10, <1>11, <2>1
<1>14. Shape(g, l3, gone \cup {c}, small \cup {c})
  BY <1>2, <1>9, <1>10, <1>11, <1>12 DEF Shape
<1>15. a # b /\ a \notin Used(f, gone) /\ b \notin Used(f, gone) => Shape(g, l3, gone, small \cup {c})
  BY <1>2, <1>9, <1>10, <1>11, <1>12 DEF Shape
<1>16. Topped(f, lv, gone, small, k, a, b, g)
  BY <1>1, <1>9, <1>10, <1>13, <1>14, <1>15 DEF Topped
<1> QED BY <1>1, <1>4, <1>7, <1>16 DEF RootOver

(* What insertLeaf leaves as it was.                                       *)
LeavesKept(f, lv, g, l2) ==
  /\ DOMAIN f \subseteq DOMAIN g
  /\ \A x \in DOMAIN f : /\ l2[x] = lv[x] /\ g[x].leaf = f[x].leaf /\ g[x].next = f[x].next
                         /\ f[x].leaf => g[x] = f[x]
  /\ \A x \in DOMAIN g : x \notin DOMAIN f => ~g[x].leaf /\ g[x].next = 0

UsedBy(f, gone, id, g, gone2) ==
  \A u \in Used(g, gone2) : u \in Used(f, gone) \/ u = id \/ u \notin DOMAIN f

(* insertLeaf grew a root s.first over the old one, r.                     *)
NewRoot(f, lv, gone, small, r, id, s, l2) ==
  /\ s.first \in DOMAIN s.file /\ s.first \notin DOMAIN f
  /\ ~s.file[s.first].leaf /\ s.file[s.first].entries # << >> /\ l2[s.first] = lv[r] + 1
  /\ Shape(s.file, l2, gone \cup {s.first}, (small \ {r}) \cup {s.first})
  /\ UsedBy(f, gone, id, s.file, gone \cup {s.first})
  /\ f[r].leaf => Used(s.file, gone \cup {s.first}) = Used(f, gone)
  /\ r # id => Shape(s.file, l2, gone, (small \ {r}) \cup {s.first}) /\ s.first \notin Used(s.file, gone)

(* Below the new root, if there is one, sons come from sons.               *)
TreeFrom(f, gone, r, id, s) ==
  \E half : SonsFrom(f, gone, id, s.file, gone \cup ({s.first} \ {r}), half)

(* No son is lost, the new leaf is one, and so is a root that got a root   *)
(* over it; entries have room.                                             *)
Hangs(f, gone, r, id, s) ==
  /\ Used(f, {}) \subseteq Used(s.file, {})
  /\ \A x \in DOMAIN s.file : x \in DOMAIN f \/ x \in Used(s.file, {}) \/ x = s.first
  /\ id \in Used(s.file, {})
  /\ (s.first = r \/ r \in Used(s.file, {})) /\ narrow \subseteq s.narrow
  /\ \A nr : Covered(f, nr, gone, 0) => Covered(s.file, nr \cup s.narrow, gone, 0)
  /\ TreeFrom(f, gone, r, id, s)

Inserted(f, lv, gone, small, r, id, s, l2) ==
  /\ LeavesKept(f, lv, s.file, l2) /\ Hangs(f, gone, r, id, s)
  /\ s.narrow \subseteq DOMAIN s.file /\ s.file[r].entries # << >>
  /\ \/ s.first = r /\ ~f[r].leaf /\ Shape(s.file, l2, gone, small) /\ UsedBy(f, gone, id, s.file, gone)
     \/ NewRoot(f, lv, gone, small, r, id, s, l2)

(* What the last step of insertLeaf returns.                               *)
LEMMA GrownParts ==
  ASSUME NEW g, NEW a, NEW b, NEW d, NEW s, s = [file |-> g, first |-> a, second |-> b, narrow |-> d]
  PROVE  /\ b = 0 => Grown(s) = s
         /\ b # 0 => /\ Grown(s).file = Append(g, RootOver(g, a, b))
                     /\ Grown(s).first = Len(g) + 1 /\ Grown(s).narrow = d
<1>1. s.file = g /\ s.first = a /\ s.second = b
  OBVIOUS
<1>2. b = 0 => Grown(s) = s
  BY <1>1 DEF Grown
<1>3. ASSUME b # 0
      PROVE  Grown(s) = [file |-> Append(g, RootOver(g, a, b)), first |-> Len(g) + 1,
                         second |-> b, narrow |-> d]
  <2>1. PICK x, y : x = Len(g) + 1 /\ y = Append(g, RootOver(g, a, b))
    OBVIOUS
  <2>2. Grown(s) = [s EXCEPT !.file = y, !.first = x]
    BY <1>1, <1>3, <2>1, Zenon DEF Grown, RootOver
  <2>3. WayChanged(g, a, b, d, s, x, y, 0)
    BY WayChanges
  <2> QED BY <2>1, <2>2, <2>3, Zenon DEF WayChanged
<1>4. b # 0 => /\ Grown(s).file = Append(g, RootOver(g, a, b))
               /\ Grown(s).first = Len(g) + 1 /\ Grown(s).narrow = d
  BY <1>3
<1> QED BY <1>2, <1>4

(* What the way up to a root brings along is in the tree at its end.       *)
LEMMA GrownHangs ==
  ASSUME NEW f, NEW gone \in SUBSET DOMAIN f, NEW r, NEW id \in DOMAIN f, NEW t, NEW lt, Way(t),
         Levelled(t.file, lt, gone), t.first = r, r \in DOMAIN t.file, t.file[r].entries # << >>,
         r \notin Used(t.file, gone), DOMAIN f \subseteq DOMAIN t.file,
         t.second = 0 \/ (t.second \in DOMAIN t.file /\ t.file[t.second].entries # << >>),
         Carried(f, gone, id, t)
  PROVE  Hangs(f, gone, r, id, Grown(t))
<1>1. PICK g, b, d : g = t.file /\ b = t.second /\ d = t.narrow
  OBVIOUS
<1>2. PICK s : s = Grown(t)
  OBVIOUS
<1>3. t = [file |-> g, first |-> r, second |-> b, narrow |-> d]
  BY <1>1 DEF Way
<1>4. g \in Seq(Node) /\ 0 \notin DOMAIN g /\ r \in DOMAIN g /\ g[r].entries # << >> /\ id # 0
  BY <1>1 DEF Levelled
<1>5. \A u \in Used(g, gone) : u \in DOMAIN g /\ u # r
  BY <1>1, UsedInFile
<1>6. ASSUME NEW v \in Inners(g, gone), NEW e \in ToSet(g[v].entries) PROVE e.ref \in Used(g, gone)
  <2>1. g[v].entries \in Seq(Entry)
    BY <1>4, NodeParts DEF Inners
  <2> QED BY <2>1, Places DEF ToSet, RefsOf, Used
<1>7. CASE b = 0
  <2>1. s = t
    BY <1>2, <1>3, <1>7, GrownParts
  <2>2. ASSUME NEW nr, Covered(f, nr, gone, 0) PROVE Covered(g, nr \cup d, gone, 0)
    <3>1. Covered(g, nr \cup d, gone, r)
      BY <1>1, <2>2 DEF Carried
    <3> QED BY <1>5, <1>6, <3>1 DEF Covered
  <2>3. ASSUME NEW x \in DOMAIN g PROVE x \in DOMAIN f \/ x \in Used(g, {})
    BY <1>1, <1>4, <1>7 DEF Carried
  <2>4. TreeFrom(f, gone, r, id, s)
    <3>1. gone \cup ({s.first} \ {r}) = gone
      BY <2>1
    <3> QED BY <2>1, <3>1 DEF TreeFrom, Carried, WayFrom
  <2> QED BY <1>1, <1>2, <1>4, <1>7, <2>1, <2>2, <2>3, <2>4 DEF Carried, Hangs
<1>8. CASE b # 0
  <2>1. b \in DOMAIN g /\ g[b].entries # << >>
    BY <1>1, <1>8
  <2>2. PICK e1, e2, x : e1 = EntryFor(g, r) /\ e2 = EntryFor(g, b) /\ x = <<e1, e2>>
    OBVIOUS
  <2>3. /\ e1 \in Entry /\ e1.ref = r /\ e2 \in Entry /\ e2.ref = b
        /\ \A nr : Encloses(g, nr, e1) /\ Encloses(g, nr, e2)
    BY <1>4, <2>1, <2>2, EntryForType, EntryForEncloses
  <2>4. x \in Seq(Entry) /\ RefsOf(x) = {r, b} /\ ToSet(x) = {e1, e2}
    <3>1. x \in Seq(Entry) /\ Len(x) = 2 /\ x[1] = e1 /\ x[2] = e2 /\ DOMAIN x = 1 .. 2
      BY <2>2, <2>3
    <3>2. 1 .. 2 = {1, 2}
      OBVIOUS
    <3> QED BY <2>3, <3>1, <3>2 DEF RefsOf, ToSet
  <2>5. Inner(x) \in Node /\ Inner(x).entries = x /\ ~Inner(x).leaf
    BY <2>4, InnerNode
  <2>6. PICK j, c : j = s.file /\ c = s.first
    OBVIOUS
  <2>7. j = Append(g, Inner(x)) /\ c = Len(g) + 1 /\ s.narrow = d
    BY <1>2, <1>3, <1>8, <2>2, <2>6, GrownParts DEF RootOver
  <2>8. /\ DOMAIN j = (DOMAIN g) \cup {c} /\ c \notin DOMAIN g
        /\ j[c] = Inner(x) /\ \A u \in DOMAIN g : j[u] = g[u]
    BY <1>4, <2>5, <2>7, NodeAppended
  <2>9. Used(j, {}) = Used(g, {}) \cup {r, b}
    <3>1. {} \in SUBSET DOMAIN g
      OBVIOUS
    <3>2. OnceMore(g, {}, Inner(x), j)
      BY <1>4, <2>5, <2>7, <3>1, OnceAppended
    <3> QED BY <2>4, <2>5, <3>2 DEF OnceMore
  <2>10. ASSUME NEW e, NEW mr, e.ref \in DOMAIN g, Encloses(g, mr, e) PROVE Encloses(j, mr, e)
    BY <2>8, <2>10 DEF Encloses
  <2>11. ASSUME NEW nr, Covered(f, nr, gone, 0) PROVE Covered(j, nr \cup d, gone, 0)
    <3>1. Covered(g, nr \cup d, gone, r)
      BY <1>1, <2>11 DEF Carried
    <3>2. ASSUME NEW v \in Inners(j, gone), NEW e \in ToSet(j[v].entries)
          PROVE  Encloses(j, nr \cup d, e)
      <4>1. CASE v = c
        <5>1. e = e1 \/ e = e2
          BY <2>4, <2>5, <2>8, <3>2, <4>1
        <5> QED BY <1>4, <2>1, <2>3, <2>10, <5>1
      <4>2. CASE v \in DOMAIN g
        <5>1. v \in Inners(g, gone) /\ e \in ToSet(g[v].entries)
          BY <2>8, <3>2, <4>2 DEF Inners
        <5>2. e.ref \in DOMAIN g /\ Encloses(g, nr \cup d, e)
          BY <1>5, <1>6, <3>1, <5>1 DEF Covered
        <5> QED BY <2>10, <5>2
      <4> QED BY <2>8, <4>1, <4>2 DEF Inners
    <3> QED BY <3>2 DEF Covered
  <2>12. ASSUME NEW u \in DOMAIN j PROVE u \in DOMAIN f \/ u \in Used(j, {}) \/ u = c
    BY <1>1, <2>8, <2>9 DEF Carried
  <2>13. Used(f, {}) \subseteq Used(j, {}) /\ id \in Used(j, {}) /\ r \in Used(j, {})
         /\ narrow \subseteq d
    BY <1>1, <2>9 DEF Carried
  <2>14. TreeFrom(f, gone, r, id, s)
    <3>1. PICK half : SonsFrom(f, gone, id, g, gone, half)
      BY <1>1 DEF Carried, WayFrom
    <3>2. ASSUME NEW v \in Inners(j, gone \cup ({c} \ {r})) PROVE v \in Inners(g, gone) /\ j[v] = g[v]
      <4>1. c # r
        BY <1>4, <2>8
      <4> QED BY <2>8, <4>1 DEF Inners
    <3>3. SonsFrom(f, gone, id, j, gone \cup ({c} \ {r}), half)
      BY <3>1, <3>2 DEF SonsFrom
    <3> QED BY <2>6, <3>3 DEF TreeFrom
  <2> QED BY <1>2, <2>6, <2>7, <2>11, <2>12, <2>13, <2>14 DEF Hangs
<1> QED BY <1>7, <1>8

(* A node that has the least number of entries need not be excepted.       *)
LEMMA SizedLess ==
  ASSUME NEW f, NEW small, Sized(f, small), NEW r,
         r \in DOMAIN f /\ ~f[r].leaf => Len(f[r].entries) >= InnerMin
  PROVE  Sized(f, small \ {r})
<1>1. ASSUME NEW id \in DOMAIN f PROVE Fits(f[id], id, small \ {r})
  <2>1. Fits(f[id], id, small)
    BY DEF Sized
  <2>2. CASE f[id].leaf \/ id # r
    BY <2>1, <2>2 DEF Fits
  <2>3. CASE ~f[id].leaf /\ id = r
    <3>1. PICK k : k = Len(f[id].entries)
      OBVIOUS
    <3>2. PICK least \in {Lesser(2, InnerMin), InnerMin} : k \in least .. InnerMax
      BY <2>1, <2>3, <3>1 DEF Fits
    <3>3. k >= InnerMin
      BY <2>3, <3>1
    <3>4. k \in InnerMin .. InnerMax
      BY <3>2, <3>3, TBTreeAssumption DEF Lesser
    <3> QED BY <2>3, <3>1, <3>4 DEF Fits
  <2> QED BY <2>2, <2>3
<1> QED BY <1>1 DEF Sized

(* The root is a leaf: it gets a root over itself and the new leaf.        *)
LEMMA LeafInserted ==
  ASSUME NEW f, NEW lv, NEW gone, NEW small, NEW r, NEW id, Insertable(f, lv, gone, small, r, id),
         NEW rect \in Box, f[r].leaf, id \notin Used(f, gone), r \notin Used(f, gone)
  PROVE  \E l2 : Inserted(f, lv, gone, small, r, id, InsertLeaf(f, r, id, rect), l2)
<1> USE DEF Insertable
<1>1. PICK base, path : /\ base = [file |-> f, first |-> r, second |-> id, narrow |-> narrow]
                        /\ path = BestPath(f, r, rect)
  OBVIOUS
<1>2. lv[r] = 0 /\ lv[id] = 0 /\ f \in Seq(Node) /\ lv \in [DOMAIN f -> Nat] /\ id # 0
  BY DEF Levelled
<1>3. path = << >>
  <2>1. Turns(f, lv, r, path)
    BY <1>1, BestPathTurns
  <2> QED BY <1>2, <2>1 DEF Turns
<1>4. InsertLeafRec(f, r, id, rect) = base
  <2>1. LeafBelow(f, r, path) = r
    BY <1>3 DEF LeafBelow
  <2>2. PICK up : up = Reverse(path)
    OBVIOUS
  <2>3. DOMAIN up = 1 .. 0
    BY <1>3, <2>2 DEF Reverse
  <2>4. InsertLeafRec(f, r, id, rect) = UpAll(base, up, rect)
    BY <1>1, <2>1, <2>2, Zenon DEF InsertLeafRec, UpAll, UpOne
  <2>5. \E h : h[0] = base /\ UpAll(base, up, rect) = h[0]
    BY <2>3, UpFold
  <2> QED BY <2>4, <2>5
<1>5. PICK s, c, l2 : s = InsertLeaf(f, r, id, rect) /\ c = Len(f) + 1 /\ l2 = More(f, lv, 1)
  OBVIOUS
<1>6. s.file = Append(f, RootOver(f, r, id)) /\ s.first = c /\ s.narrow = narrow
  <2>1. s = Grown(base)
    BY <1>4, <1>5 DEF InsertLeaf
  <2>2. PICK d : d = narrow
    OBVIOUS
  <2>3. base = [file |-> f, first |-> r, second |-> id, narrow |-> d]
    BY <1>1, <2>2
  <2>4. /\ Grown(base).file = Append(f, RootOver(f, r, id))
        /\ Grown(base).first = Len(f) + 1 /\ Grown(base).narrow = d
    <3>1. id # 0
      BY <1>2
    <3>2. id # 0 => /\ Grown(base).file = Append(f, RootOver(f, r, id))
                    /\ Grown(base).first = Len(f) + 1 /\ Grown(base).narrow = d
      BY ONLY <2>3, GrownParts
    <3> QED BY <3>1, <3>2
  <2> QED BY <1>5, <2>1, <2>2, <2>4
<1>7. Shape(f, lv, gone, small) /\ Shape(f, lv, gone, small \ {r})
  BY SizedLess DEF Shape
<1>8. Son(r, f, lv, 1, gone) /\ Son(id, f, lv, 1, gone)
  BY <1>2 DEF Son
<1>9. /\ Topped(f, lv, gone, small \ {r}, 1, r, id, s.file)
      /\ RootOver(f, r, id) \in Node /\ ~RootOver(f, r, id).leaf /\ RootOver(f, r, id).next = 0
      /\ RootOver(f, r, id).entries # << >>
  <2>1. PICK g, o : g = s.file /\ o = small \ {r}
    OBVIOUS
  <2>2. g = Append(f, RootOver(f, r, id)) /\ 1 \in Nat
    BY <1>6, <2>1
  <2>3. Shape(f, lv, gone, o)
    BY <1>7, <2>1
  <2>4. /\ Topped(f, lv, gone, o, 1, r, id, g)
        /\ RootOver(f, r, id) \in Node /\ ~RootOver(f, r, id).leaf /\ RootOver(f, r, id).next = 0
        /\ RootOver(f, r, id).entries # << >>
    BY ONLY <1>8, <2>2, <2>3, RootTops
  <2> QED BY ONLY <2>1, <2>4
<1>10. /\ DOMAIN s.file = (DOMAIN f) \cup {c} /\ c \notin DOMAIN f
       /\ s.file[c] = RootOver(f, r, id) /\ \A x \in DOMAIN f : s.file[x] = f[x]
  BY <1>2, <1>5, <1>6, <1>9, NodeAppended
<1>11. l2[c] = 1 /\ \A x \in DOMAIN f : l2[x] = lv[x]
  BY <1>5, <1>10 DEF More
<1>12. LeavesKept(f, lv, s.file, l2)
  BY <1>9, <1>10, <1>11 DEF LeavesKept
<1>13. NewRoot(f, lv, gone, small, r, id, s, l2)
  <2>1. /\ Shape(s.file, l2, gone \cup {c}, (small \ {r}) \cup {c})
        /\ Used(s.file, gone \cup {c}) = Used(f, gone)
        /\ r # id => /\ Shape(s.file, l2, gone, (small \ {r}) \cup {c})
                     /\ c \notin Used(s.file, gone)
    BY <1>5, <1>9 DEF Topped
  <2>2. UsedBy(f, gone, id, s.file, gone \cup {c})
    BY <2>1 DEF UsedBy
  <2>3. c \in DOMAIN s.file /\ ~s.file[c].leaf /\ s.file[c].entries # << >> /\ l2[c] = lv[r] + 1
    BY <1>2, <1>9, <1>10, <1>11
  <2> QED BY <1>6, <1>10, <2>1, <2>2, <2>3 DEF NewRoot
<1>14. s.narrow \subseteq DOMAIN s.file /\ s.file[r].entries # << >>
  BY <1>6, <1>10
<1>15. Hangs(f, gone, r, id, s)
  <2>1. /\ base.file = f /\ base.first = r /\ base.second = id /\ base.narrow = narrow /\ Way(base)
    BY <1>1 DEF Way
  <2>2. Carried(f, gone, id, base)
    <3>1. ASSUME NEW nr, Covered(f, nr, gone, 0)
          PROVE  Covered(base.file, nr \cup base.narrow, gone, base.first)
      BY <1>2, <2>1, <3>1, CoveredMore
    <3>2. WayFrom(f, gone, id, base)
      BY <2>1, SonsFromSelf DEF WayFrom, Shape
    <3> QED BY <2>1, <3>1, <3>2 DEF Carried
  <2>3. s = Grown(base)
    BY <1>4, <1>5 DEF InsertLeaf
  <2> QED BY <2>1, <2>2, <2>3, GrownHangs
<1> QED BY <1>5, <1>12, <1>13, <1>14, <1>15 DEF Inserted

(* The root is an inner node: the new leaf goes below it.                  *)
LEMMA InnerInserted ==
  ASSUME NEW f, NEW lv, NEW gone, NEW small, NEW r, NEW id, Insertable(f, lv, gone, small, r, id),
         NEW rect \in Box, ~f[r].leaf, id \notin Used(f, gone), r \notin Used(f, gone)
  PROVE  \E l2 : Inserted(f, lv, gone, small, r, id, InsertLeaf(f, r, id, rect), l2)
<1> USE DEF Insertable
<1>1. PICK t, k : t = InsertLeafRec(f, r, id, rect) /\ k = lv[r]
  OBVIOUS
<1>2. PICK lt : AtLevel(f, lv, gone, small, id, k, t, lt) /\ t.first = r
  BY <1>1, InsertRecRises
<1>12. Carried(f, gone, id, t)
  BY <1>1, InsertRecRises
<1>3. PICK g, b, d : g = t.file /\ b = t.second /\ d = t.narrow
  OBVIOUS
<1>4. /\ Risen(f, lv, gone, small, id, k, g, lt)
      /\ t = [file |-> g, first |-> r, second |-> b, narrow |-> d]
      /\ g[r].entries # << >> /\ d \subseteq DOMAIN g
      /\ b = 0 \/ Pending(f, id, gone, k, t, lt)
  BY <1>2, <1>3 DEF AtLevel, Way
<1>5. /\ Levelled(g, lt, gone) /\ Kept(f, lv, g, lt, k) /\ Sized(g, small) /\ Once(g, gone)
      /\ UsedBy(f, gone, id, g, gone) /\ g \in Seq(Node) /\ lt \in [DOMAIN g -> Nat]
  BY <1>4 DEF Risen, Levelled, UsedBy
<1>6. LeavesKept(f, lv, g, lt) /\ gone \in SUBSET DOMAIN g
  <2>1. \A x \in DOMAIN f : f[x].leaf => lv[x] = 0
    BY DEF Levelled
  <2> QED BY <1>5, <2>1 DEF Kept, LeavesKept
<1>7. k \in Nat /\ k # 0 /\ lt[r] = k /\ r # id /\ r \in DOMAIN g /\ ~g[r].leaf
  <2>1. k \in Nat /\ k # 0
    BY <1>1, InnerLevel
  <2> QED BY <1>1, <1>6, <2>1 DEF LeavesKept
<1>8. PICK s : s = InsertLeaf(f, r, id, rect)
  OBVIOUS
<1>9. s = Grown(t)
  BY <1>1, <1>8 DEF InsertLeaf
<1>13. Hangs(f, gone, r, id, s)
  <2>1. r \notin Used(g, gone) /\ DOMAIN f \subseteq DOMAIN g
    BY <1>5, <1>6, <1>7 DEF UsedBy, LeavesKept
  <2>2. t.second = 0 \/ (t.second \in DOMAIN g /\ g[t.second].entries # << >>)
    BY <1>2, <1>3 DEF AtLevel, Pending, Fresh, Son
  <2>3. Way(t) /\ t.first = r
    BY <1>2 DEF AtLevel
  <2> QED BY <1>3, <1>4, <1>5, <1>7, <1>9, <1>12, <2>1, <2>2, <2>3, GrownHangs
<1>10. CASE b = 0
  <2>1. s = t
    BY <1>4, <1>9, <1>10, GrownParts
  <2>2. s.file = g /\ s.first = r /\ s.narrow = d
    BY <1>2, <1>3, <2>1
  <2>3. Shape(s.file, lt, gone, small)
    BY <1>5, <1>6, <2>2 DEF Shape
  <2>4. Inserted(f, lv, gone, small, r, id, s, lt)
    BY <1>4, <1>5, <1>6, <1>13, <2>2, <2>3 DEF Inserted
  <2> QED BY <1>8, <2>4
<1>11. CASE b # 0
  <2>1. PICK c, l2 : c = Len(g) + 1 /\ l2 = More(g, lt, k + 1)
    OBVIOUS
  <2>2. s.file = Append(g, RootOver(g, r, b)) /\ s.first = c /\ s.narrow = d
    BY <1>4, <1>9, <1>11, <2>1, GrownParts
  <2>3. Pending(f, id, gone, k, t, lt)
    BY <1>4, <1>11
  <2>4. b # r /\ Fresh(b, f, id, g, lt, k + 1, gone) /\ Len(g[r].entries) >= InnerMin
    BY <1>2, <1>3, <1>7, <2>3 DEF Pending
  <2>5. Shape(g, lt, gone, small \ {r})
    BY <1>5, <1>6, <2>4, SizedLess DEF Shape
  <2>6. Son(r, g, lt, k + 1, gone) /\ Son(b, g, lt, k + 1, gone) /\ b \notin Used(g, gone)
    BY <1>4, <1>7, <2>4 DEF Son, Fresh
  <2>7. r \notin Used(g, gone)
    BY <1>5, <1>7 DEF UsedBy
  <2>8. /\ Topped(g, lt, gone, small \ {r}, k + 1, r, b, s.file)
        /\ RootOver(g, r, b) \in Node /\ ~RootOver(g, r, b).leaf /\ RootOver(g, r, b).next = 0
        /\ RootOver(g, r, b).entries # << >>
    <3>1. k + 1 \in Nat
      BY <1>7
    <3> QED BY <2>2, <2>5, <2>6, <3>1, RootTops
  <2>9. /\ DOMAIN s.file = (DOMAIN g) \cup {c} /\ c \notin DOMAIN g
        /\ s.file[c] = RootOver(g, r, b) /\ \A x \in DOMAIN g : s.file[x] = g[x]
    BY <1>5, <2>1, <2>2, <2>8, NodeAppended
  <2>10. l2[c] = k + 1 /\ \A x \in DOMAIN g : l2[x] = lt[x]
    BY <2>1, <2>9 DEF More
  <2>11. DOMAIN f \subseteq DOMAIN g /\ c \notin DOMAIN f
    BY <1>6, <2>9 DEF LeavesKept
  <2>12. LeavesKept(f, lv, s.file, l2)
    <3>1. ASSUME NEW x \in DOMAIN f
          PROVE  /\ l2[x] = lv[x] /\ s.file[x].leaf = f[x].leaf /\ s.file[x].next = f[x].next
                 /\ f[x].leaf => s.file[x] = f[x]
      BY <1>6, <2>9, <2>10, <2>11 DEF LeavesKept
    <3>2. ASSUME NEW x \in DOMAIN s.file, x \notin DOMAIN f PROVE ~s.file[x].leaf /\ s.file[x].next = 0
      <4>1. CASE x = c
        BY <2>8, <2>9, <4>1
      <4>2. CASE x \in DOMAIN g
        BY <1>6, <2>9, <3>2, <4>2 DEF LeavesKept
      <4> QED BY <2>9, <4>1, <4>2
    <3> QED BY <2>9, <2>11, <3>1, <3>2 DEF LeavesKept
  <2>13. /\ Shape(s.file, l2, gone \cup {c}, (small \ {r}) \cup {c})
         /\ Used(s.file, gone \cup {c}) = Used(g, gone)
         /\ Shape(s.file, l2, gone, (small \ {r}) \cup {c})
         /\ c \notin Used(s.file, gone)
    BY <2>1, <2>4, <2>6, <2>7, <2>8 DEF Topped
  <2>14. UsedBy(f, gone, id, s.file, gone \cup {c})
    BY <1>5, <2>13 DEF UsedBy
  <2>15. c \in DOMAIN s.file /\ ~s.file[c].leaf /\ s.file[c].entries # << >> /\ l2[c] = lv[r] + 1
    BY <1>1, <2>8, <2>9, <2>10
  <2>16. NewRoot(f, lv, gone, small, r, id, s, l2)
    BY <2>2, <2>11, <2>13, <2>14, <2>15 DEF NewRoot
  <2>17. s.narrow \subseteq DOMAIN s.file /\ s.file[r].entries # << >>
    BY <1>4, <1>7, <2>2, <2>9
  <2>18. Inserted(f, lv, gone, small, r, id, s, l2)
    BY <1>13, <2>12, <2>16, <2>17 DEF Inserted
  <2> QED BY <1>8, <2>18
<1> QED BY <1>10, <1>11

(* insertLeaf keeps the shape of the tree, and says which root it returns. *)
LEMMA InsertLeafInserts ==
  ASSUME NEW f, NEW lv, NEW gone, NEW small, NEW r, NEW id, Insertable(f, lv, gone, small, r, id),
         NEW rect \in Box, id \notin Used(f, gone), r \notin Used(f, gone)
  PROVE  \E l2 : Inserted(f, lv, gone, small, r, id, InsertLeaf(f, r, id, rect), l2)
<1>1. CASE f[r].leaf
  BY <1>1, LeafInserted
<1>2. CASE ~f[r].leaf
  BY <1>2, InnerInserted
<1> QED BY <1>1, <1>2

-----------------------------------------------------------------------------
(***************************************************************************)
(* searchNode and updatePath                                               *)
(***************************************************************************)

(* The way searchNode takes from a node, given the ways g from its sons.   *)
Hits(f, d, box, g) ==
  {i \in DOMAIN f[d].entries :
     Intersects(f[d].entries[i].box, box) /\ g[f[d].entries[i].ref] # << >>}

FirstOf(hits) == CHOOSE i \in hits : \A j \in hits : i <= j

Searched(f, d, box, trj, g) ==
  IF f[d].leaf
  THEN IF f[d].trj = trj /\ f[d].next = 0 THEN <<[id |-> d, at |-> 0]>> ELSE << >>
  ELSE IF Hits(f, d, box, g) = {} THEN << >>
       ELSE <<[id |-> d, at |-> FirstOf(Hits(f, d, box, g))]>>
              \o g[f[d].entries[FirstOf(Hits(f, d, box, g))].ref]

(* The places a way enlarges.                                              *)
Place(f, p) == p.id \in DOMAIN f /\ ~f[p.id].leaf /\ p.at \in 1 .. Len(f[p.id].entries)

(* A way from the node d to the last leaf of trj.                          *)
LeadsTo(f, d, trj, path) ==
  /\ path \in Seq(Turn) /\ path # << >> /\ path[1].id = d
  /\ \A j \in 1 .. Len(path) - 1 :
       Place(f, path[j]) /\ path[j + 1].id = f[path[j].id].entries[path[j].at].ref
  /\ Last(path).id \in DOMAIN f /\ f[Last(path).id].leaf
  /\ f[Last(path).id].trj = trj /\ f[Last(path).id].next = 0

(* A way to a leaf becomes longer by a turn at its top.                    *)
LEMMA LeadsLonger ==
  ASSUME NEW f, NEW d, NEW trj, NEW q, LeadsTo(f, d, trj, q), NEW t \in Turn, Place(f, t),
         f[t.id].entries[t.at].ref = d
  PROVE  LeadsTo(f, t.id, trj, <<t>> \o q)
<1>1. PICK m, path : m = Len(q) /\ path = <<t>> \o q
  OBVIOUS
<1>2. q \in Seq(Turn) /\ q # << >> /\ m \in Nat /\ m # 0
  BY <1>1 DEF LeadsTo
<1>3. /\ path \in Seq(Turn) /\ Len(path) = m + 1 /\ path[1] = t
      /\ \A j \in 1 .. m : path[j + 1] = q[j]
  BY <1>1, <1>2
<1>4. path # << >> /\ Last(path) = Last(q)
  <2>1. path[m + 1] = q[m]
    BY <1>2, <1>3
  <2> QED BY <1>1, <1>2, <1>3, <2>1 DEF Last
<1>5. ASSUME NEW j \in 1 .. Len(path) - 1
      PROVE  Place(f, path[j]) /\ path[j + 1].id = f[path[j].id].entries[path[j].at].ref
  <2>1. CASE j = 1
    <3>1. path[2] = q[1] /\ q[1].id = d
      <4>1. 1 \in 1 .. m /\ 1 + 1 = 2
        BY <1>2
      <4> QED BY <1>3, <4>1 DEF LeadsTo
    <3> QED BY <1>3, <2>1, <3>1
  <2>2. CASE j # 1
    <3>1. j - 1 \in 1 .. m - 1 /\ j - 1 \in 1 .. m /\ (j - 1) + 1 = j
      BY <1>2, <1>3, <2>2
    <3>2. path[j] = q[j - 1]
      BY <1>3, <3>1
    <3>3. path[j + 1] = q[j] /\ j \in 1 .. m
      BY <1>2, <1>3
    <3>4. Place(f, q[j - 1]) /\ q[(j - 1) + 1].id = f[q[j - 1].id].entries[q[j - 1].at].ref
      <4>1. \A i \in 1 .. m - 1 : Place(f, q[i]) /\ q[i + 1].id = f[q[i].id].entries[q[i].at].ref
        BY <1>1 DEF LeadsTo
      <4> QED BY <3>1, <4>1
    <3> QED BY ONLY <3>1, <3>2, <3>3, <3>4
  <2> QED BY <2>1, <2>2
<1>6. /\ Last(path).id \in DOMAIN f /\ f[Last(path).id].leaf
      /\ f[Last(path).id].trj = trj /\ f[Last(path).id].next = 0
  BY <1>4 DEF LeadsTo
<1>7. LeadsTo(f, t.id, trj, path)
  BY ONLY <1>3, <1>4, <1>5, <1>6 DEF LeadsTo
<1> QED BY <1>1, <1>7

(* The first of the hits is a hit.                                         *)
LEMMA FirstOfIn ==
  ASSUME NEW hits, hits # {}, hits \subseteq Nat
  PROVE  FirstOf(hits) \in hits
<1>1. hits \in SUBSET Nat
  OBVIOUS
<1>2. \E i \in hits : \A j \in hits : i <= j
  BY <1>1, MinExists
<1> QED BY <1>2 DEF FirstOf

(* The way from a node is one to a last leaf when those from its sons are. *)
LEMMA SearchedFacts ==
  ASSUME NEW f, NEW lv, NEW gone, Levelled(f, lv, gone), NEW d \in DOMAIN f, NEW box, NEW trj,
         NEW g \in [DOMAIN f -> Seq(Turn)]
  PROVE  /\ Searched(f, d, box, trj, g) \in Seq(Turn)
         /\ (\A u \in DOMAIN f : lv[u] < lv[d] /\ g[u] # << >> => LeadsTo(f, u, trj, g[u]))
            /\ Searched(f, d, box, trj, g) # << >> => LeadsTo(f, d, trj, Searched(f, d, box, trj, g))
<1>1. f \in Seq(Node) /\ lv \in [DOMAIN f -> Nat] /\ d \in Nat
  BY DEF Levelled
<1>2. PICK path : path = Searched(f, d, box, trj, g)
  OBVIOUS
<1>3. CASE path = << >>
  BY <1>2, <1>3
<1>4. CASE f[d].leaf /\ path # << >>
  <2>1. PICK t : t = [id |-> d, at |-> 0]
    OBVIOUS
  <2>2. t \in Turn /\ t.id = d
    BY <1>1, <2>1 DEF Turn
  <2>3. path = <<t>> /\ f[d].trj = trj /\ f[d].next = 0
    BY <1>2, <1>4, <2>1 DEF Searched
  <2>4. path \in Seq(Turn) /\ Len(path) = 1 /\ path[1] = t /\ Last(path) = t /\ 1 .. 1 - 1 = {}
    BY <2>2, <2>3 DEF Last
  <2>5. LeadsTo(f, d, trj, path)
    BY <1>4, <2>2, <2>3, <2>4 DEF LeadsTo
  <2> QED BY <1>2, <2>4, <2>5
<1>5. CASE ~f[d].leaf /\ path # << >>
  <2>1. PICK hits, i : hits = Hits(f, d, box, g) /\ i = FirstOf(hits)
    OBVIOUS
  <2>2. /\ lv[d] \in Nat /\ f[d].entries \in Filled
        /\ \A j \in 1 .. Len(f[d].entries) : Son(f[d].entries[j].ref, f, lv, lv[d], gone)
    BY <1>5, InnerLevel
  <2>3. DOMAIN f[d].entries = 1 .. Len(f[d].entries) /\ Len(f[d].entries) \in Nat
    BY <2>2, Places DEF Filled
  <2>4. PICK t, u : t = [id |-> d, at |-> i] /\ u = f[d].entries[i].ref
    OBVIOUS
  <2>5. hits # {} /\ path = <<t>> \o g[u]
    BY <1>2, <1>5, <2>1, <2>4 DEF Searched
  <2>6. i \in hits
    <3>1. hits \subseteq Nat
      BY <2>1, <2>3 DEF Hits
    <3> QED BY <2>1, <2>5, <3>1, FirstOfIn
  <2>7. i \in 1 .. Len(f[d].entries) /\ g[u] # << >>
    BY <2>1, <2>3, <2>4, <2>6 DEF Hits
  <2>8. t \in Turn /\ t.id = d /\ t.at = i
    BY <1>1, <2>4, <2>7 DEF Turn
  <2>9. u \in DOMAIN f /\ lv[u] < lv[d]
    <3>1. u \in DOMAIN f /\ lv[u] + 1 = lv[d]
      BY <2>2, <2>4, <2>7 DEF Son
    <3> QED BY <1>1, <2>2, <3>1
  <2>10. path \in Seq(Turn)
    <3>1. g[u] \in Seq(Turn)
      BY <2>9
    <3> QED BY <2>5, <2>8, <3>1
  <2>11. Place(f, t)
    BY <1>5, <2>7, <2>8 DEF Place
  <2>12. LeadsTo(f, u, trj, g[u]) => LeadsTo(f, d, trj, path)
    BY <2>4, <2>5, <2>8, <2>11, LeadsLonger
  <2> QED BY <1>2, <2>7, <2>9, <2>10, <2>12
<1> QED BY <1>3, <1>4, <1>5

(* The way from a node depends on those from its sons only.                *)
LEMMA SearchedSame ==
  ASSUME NEW f, NEW lv, NEW gone, Levelled(f, lv, gone), NEW d \in DOMAIN f, NEW box, NEW trj,
         NEW g, NEW h, \A u \in DOMAIN f : lv[u] < lv[d] => g[u] = h[u]
  PROVE  Searched(f, d, box, trj, g) = Searched(f, d, box, trj, h)
<1>1. CASE f[d].leaf
  BY <1>1 DEF Searched
<1>2. CASE ~f[d].leaf
  <2>1. /\ lv[d] \in Nat /\ f[d].entries \in Filled
        /\ \A j \in 1 .. Len(f[d].entries) : Son(f[d].entries[j].ref, f, lv, lv[d], gone)
    BY <1>2, InnerLevel
  <2>2. DOMAIN f[d].entries = 1 .. Len(f[d].entries) /\ Len(f[d].entries) \in Nat
    BY <2>1, Places DEF Filled
  <2>3. \A j \in DOMAIN f[d].entries : g[f[d].entries[j].ref] = h[f[d].entries[j].ref]
    <3>1. ASSUME NEW j \in DOMAIN f[d].entries PROVE g[f[d].entries[j].ref] = h[f[d].entries[j].ref]
      <4>1. PICK u : u = f[d].entries[j].ref
        OBVIOUS
      <4>2. u \in DOMAIN f /\ lv[u] + 1 = lv[d]
        BY <2>1, <2>2, <4>1 DEF Son
      <4>3. lv[u] \in Nat
        BY <4>2 DEF Levelled
      <4>4. lv[u] < lv[d]
        BY <2>1, <4>2, <4>3
      <4> QED BY <4>1, <4>2, <4>4
    <3> QED BY <3>1
  <2>4. PICK hits : hits = Hits(f, d, box, g)
    OBVIOUS
  <2>5. hits = Hits(f, d, box, h)
    BY <2>3, <2>4 DEF Hits
  <2>6. hits # {} => FirstOf(hits) \in DOMAIN f[d].entries
    <3>1. hits \subseteq DOMAIN f[d].entries /\ hits \subseteq Nat
      BY <2>2, <2>4 DEF Hits
    <3> QED BY <3>1, FirstOfIn
  <2>7. hits # {} => g[f[d].entries[FirstOf(hits)].ref] = h[f[d].entries[FirstOf(hits)].ref]
    BY <2>3, <2>6
  <2> QED BY <1>2, <2>4, <2>5, <2>7 DEF Searched
<1> QED BY <1>1, <1>2

(* The way searchNode finds leads to a leaf of the trajectory that has no  *)
(* next.                                                                   *)
LEMMA SearchNodeLeads ==
  ASSUME NEW f, NEW lv, NEW gone, Levelled(f, lv, gone), NEW r \in DOMAIN f, NEW box, NEW trj,
         SearchNode(f, r, box, trj) # << >>
  PROVE  LeadsTo(f, r, trj, SearchNode(f, r, box, trj))
<1> DEFINE D == DOMAIN f
           V == Seq(Turn)
           Step(g) == [d \in DOMAIN f |-> Searched(f, d, box, trj, g)]
           P == CHOOSE g : g = Step(g)
           step == [x \in D \X [D -> V] |-> Searched(f, x[1], box, trj, x[2])]
<1>1. f \in Seq(Node) /\ lv \in [D -> Nat] /\ D = 1 .. Len(f) /\ Len(f) \in Nat
  BY DEF Levelled
<1>2. PICK K \in Nat : \A i \in D : lv[i] <= K
  BY <1>1, LevelsBounded
<1>3. ASSUME NEW d \in D, NEW g \in [D -> V] PROVE step[<<d, g>>] = Searched(f, d, box, trj, g)
  <2>1. <<d, g>> \in D \X [D -> V] /\ <<d, g>>[1] = d /\ <<d, g>>[2] = g
    OBVIOUS
  <2> QED BY <2>1, Zenon
<1>4. step \in [D \X [D -> V] -> V]
  <2>1. ASSUME NEW x \in D \X [D -> V] PROVE Searched(f, x[1], box, trj, x[2]) \in V
    BY SearchedFacts
  <2> QED BY <2>1
<1> HIDE DEF step
<1>5. StepsDown(D, V, lv, K, step)
  <2>1. ASSUME NEW d \in D, NEW g \in [D -> V], NEW h \in [D -> V],
               \A e \in D : lv[e] < lv[d] => g[e] = h[e]
        PROVE  step[<<d, g>>] = step[<<d, h>>]
    <3>1. Searched(f, d, box, trj, g) = Searched(f, d, box, trj, h)
      BY <2>1, SearchedSame
    <3> QED BY <1>3, <3>1
  <2>2. V # {}
    <3>1. << >> \in V
      OBVIOUS
    <3> HIDE DEF V
    <3> QED BY <3>1
  <2> HIDE DEF V, D
  <2> QED BY <1>1, <1>2, <1>4, <2>1, <2>2 DEF StepsDown
<1>6. PICK p \in [D -> V] : \A d \in D : p[d] = step[<<d, p>>]
  <2>1. \E p : Follows(p, D, V, step)
    <3> HIDE DEF V, D
    <3> QED BY <1>2, <1>5, RecursionExists, Zenon
  <2> QED BY <2>1 DEF Follows
<1>7. p = Step(p)
  <2>1. \A d \in DOMAIN f : p[d] = Searched(f, d, box, trj, p)
    BY <1>3, <1>6
  <2> QED BY <1>6, <2>1
<1>8. P = Step(P)
  BY <1>7, Zenon
<1>9. SearchNode(f, r, box, trj) = P[r]
  BY Zenon DEF SearchNode, Searched, Hits, FirstOf
<1> HIDE DEF P
<1> DEFINE G == {d \in D : P[d] \in V /\ (P[d] # << >> => LeadsTo(f, d, trj, P[d]))}
<1>10. \A d \in D : P[d] = Searched(f, d, box, trj, P)
  BY <1>8
<1>11. ASSUME NEW d \in D, \A e \in D : lv[e] < lv[d] => e \in G PROVE d \in G
  <2> DEFINE g == [e \in D |-> IF lv[e] < lv[d] THEN P[e] ELSE << >>]
  <2>1. g \in [D -> V] /\ \A e \in D : lv[e] < lv[d] => g[e] = P[e]
    <3>1. << >> \in V
      OBVIOUS
    <3>2. \A e \in D : (IF lv[e] < lv[d] THEN P[e] ELSE << >>) \in V
      BY <1>11, <3>1
    <3> HIDE DEF V
    <3> QED BY <3>2
  <2> HIDE DEF g
  <2>2. Searched(f, d, box, trj, g) = Searched(f, d, box, trj, P)
    <3>1. \A u \in DOMAIN f : lv[u] < lv[d] => g[u] = P[u]
      BY <2>1
    <3>2. d \in DOMAIN f
      OBVIOUS
    <3> HIDE DEF G, D
    <3> QED BY <3>1, <3>2, SearchedSame
  <2>3. \A e \in D : lv[e] < lv[d] /\ g[e] # << >> => LeadsTo(f, e, trj, g[e])
    BY <1>11, <2>1
  <2>4. /\ Searched(f, d, box, trj, g) \in V
        /\ Searched(f, d, box, trj, g) # << >> => LeadsTo(f, d, trj, Searched(f, d, box, trj, g))
    BY <2>1, <2>3, SearchedFacts
  <2> QED BY <1>10, <2>2, <2>4
<1>12. \A d \in D : d \in G
  <2>1. \A d \in D : (\A e \in D : lv[e] < lv[d] => e \in G) => d \in G
    <3> HIDE DEF G, D
    <3> QED BY <1>11
  <2>2. lv \in [D -> Nat]
    BY <1>1
  <2> HIDE DEF G, D
  <2> QED BY <2>1, <2>2, ByLevel
<1> QED BY <1>9, <1>12

(* Only boxes in entries of inner nodes differ.                            *)
Alike(n, m) ==
  /\ m.leaf = n.leaf /\ m.next = n.next /\ m.trj = n.trj
  /\ Len(m.entries) = Len(n.entries)
  /\ \A i \in 1 .. Len(n.entries) : m.entries[i].ref = n.entries[i].ref

Steady(f, g) ==
  /\ g \in Seq(Node) /\ DOMAIN g = DOMAIN f
  /\ \A id \in DOMAIN f : Alike(f[id], g[id]) /\ (f[id].leaf => g[id] = f[id])

(* Boxes do not matter for the shape of the tree.                          *)
LEMMA SteadyKeeps ==
  ASSUME NEW f, NEW lv, NEW gone, NEW small, Shape(f, lv, gone, small), NEW g, Steady(f, g)
  PROVE  Shape(g, lv, gone, small) /\ Used(g, gone) = Used(f, gone)
<1>1. /\ Levelled(f, lv, gone) /\ gone \in SUBSET DOMAIN f /\ Sized(f, small) /\ Once(f, gone)
      /\ g \in Seq(Node) /\ DOMAIN g = DOMAIN f /\ f \in Seq(Node) /\ lv \in [DOMAIN f -> Nat]
  BY DEF Shape, Steady, Levelled
<1>2. ASSUME NEW id \in DOMAIN f
      PROVE  /\ g[id].leaf = f[id].leaf /\ RefsOf(g[id].entries) = RefsOf(f[id].entries)
             /\ f[id].entries # << >> => g[id].entries # << >>
             /\ Distinct(f[id].entries) => Distinct(g[id].entries)
             /\ \A s : Fits(f[id], id, s) => Fits(g[id], id, s)
  <2>1. Alike(f[id], g[id])
    BY DEF Steady
  <2>2. PICK x, y : x = f[id].entries /\ y = g[id].entries
    OBVIOUS
  <2>3. x \in Seq(Entry) /\ y \in Seq(Entry)
    BY <1>1, <2>2, NodeParts
  <2>4. Len(y) = Len(x) /\ \A i \in 1 .. Len(x) : y[i].ref = x[i].ref
    BY <2>1, <2>2 DEF Alike
  <2>5. RefsOf(y) = RefsOf(x) /\ (Distinct(x) => Distinct(y))
    BY <2>4 DEF RefsOf, Distinct
  <2>6. x # << >> => y # << >>
    BY <2>3, <2>4
  <2>7. \A s : Fits(f[id], id, s) => Fits(g[id], id, s)
    BY <2>1, <2>2, <2>4 DEF Fits, Alike
  <2> QED BY <2>1, <2>2, <2>5, <2>6, <2>7 DEF Alike
<1>3. Inners(g, gone) = Inners(f, gone)
  BY <1>1, <1>2 DEF Inners
<1>4. Inners(f, gone) \subseteq DOMAIN f
  BY DEF Inners
<1>5. Used(g, gone) = Used(f, gone)
  BY <1>2, <1>3, <1>4 DEF Used
<1>6. Once(g, gone)
  BY <1>1, <1>2, <1>3, <1>4 DEF Once
<1>7. Sized(g, small)
  BY <1>1, <1>2 DEF Sized
<1>8. Levelled(g, lv, gone)
  <2>1. \A u, l : Son(u, f, lv, l, gone) => Son(u, g, lv, l, gone)
    BY <1>1, <1>2 DEF Son
  <2>2. ASSUME NEW id \in DOMAIN g
        PROVE  /\ g[id].leaf => lv[id] = 0
               /\ ~g[id].leaf => /\ g[id].entries # << >>
                                 /\ \A u \in RefsOf(g[id].entries) : Son(u, g, lv, lv[id], gone)
    <3>1. /\ f[id].leaf => lv[id] = 0
          /\ ~f[id].leaf => /\ f[id].entries # << >>
                            /\ \A u \in RefsOf(f[id].entries) : Son(u, f, lv, lv[id], gone)
      BY <1>1 DEF Levelled
    <3> QED BY <1>1, <1>2, <2>1, <3>1
  <2> QED BY <1>1, <2>2 DEF Levelled
<1> QED BY <1>1, <1>5, <1>6, <1>7, <1>8 DEF Shape

(* The file h is g with the box b at the place p.                          *)
Boxed(g, p, b, h) ==
  /\ \A id \in DOMAIN g : id # p.id => h[id] = g[id]
  /\ \A j \in 1 .. Len(g[p.id].entries) : j # p.at => h[p.id].entries[j] = g[p.id].entries[j]
  /\ h[p.id].entries[p.at].box = b

(* A box is exchanged at one turn.                                         *)
LEMMA SteadyTurn ==
  ASSUME NEW f, NEW g, Steady(f, g), NEW p, Place(f, p), NEW b \in Box
  PROVE  /\ Steady(f, [g EXCEPT ![p.id].entries[p.at].box = b])
         /\ Boxed(g, p, b, [g EXCEPT ![p.id].entries[p.at].box = b])
         /\ g[p.id].entries[p.at].box \in Box
<1>1. PICK q, i, n, x : q = p.id /\ i = p.at /\ n = g[q] /\ x = n.entries
  OBVIOUS
<1>2. /\ g \in Seq(Node) /\ DOMAIN g = DOMAIN f /\ q \in DOMAIN f /\ ~f[q].leaf
      /\ i \in 1 .. Len(f[q].entries) /\ Alike(f[q], n)
  BY <1>1 DEF Steady, Place
<1>3. n \in Node /\ x \in Seq(Entry) /\ i \in 1 .. Len(x)
  BY <1>1, <1>2, NodeParts DEF Alike
<1>4. x[i] \in Entry
  BY <1>3
<1>5. PICK e : e = [x[i] EXCEPT !.box = b]
  OBVIOUS
<1>6. e \in Entry /\ e.ref = x[i].ref
  BY <1>4, <1>5 DEF Entry
<1>7. PICK y, m : y = [x EXCEPT ![i] = e] /\ m = [n EXCEPT !.entries = y]
  OBVIOUS
<1>8. y \in Seq(Entry) /\ Len(y) = Len(x) /\ \A j \in 1 .. Len(x) : y[j].ref = x[j].ref
  BY <1>3, <1>6, <1>7
<1>9. m \in Node /\ m.entries = y /\ m.leaf = n.leaf /\ m.next = n.next /\ m.trj = n.trj
  BY <1>3, <1>7, <1>8 DEF Node
<1>10. Alike(f[q], m)
  BY <1>1, <1>2, <1>8, <1>9 DEF Alike
<1>11. PICK h : h = [g EXCEPT ![q] = m]
  OBVIOUS
<1>12. /\ h \in Seq(Node) /\ DOMAIN h = DOMAIN f /\ h[q] = m
       /\ \A id \in DOMAIN f : id # q => h[id] = g[id]
  BY <1>2, <1>9, <1>11
<1>13. Steady(f, h)
  <2>1. ASSUME NEW id \in DOMAIN f PROVE Alike(f[id], h[id]) /\ (f[id].leaf => h[id] = f[id])
    <3>1. CASE id = q
      BY <1>2, <1>10, <1>12, <3>1
    <3>2. CASE id # q
      BY <1>12, <3>2 DEF Steady
    <3> QED BY <3>1, <3>2
  <2> QED BY <1>12, <2>1 DEF Steady
<1>14. h = [g EXCEPT ![p.id].entries[p.at].box = b]
  <2>1. [g EXCEPT ![q].entries[i].box = b] = [g EXCEPT ![q].entries[i] = e]
    BY <1>1, <1>5
  <2>2. [g EXCEPT ![q].entries[i] = e] = [g EXCEPT ![q].entries = y]
    BY <1>1, <1>7
  <2>3. [g EXCEPT ![q].entries = y] = h
    BY <1>1, <1>7, <1>11
  <2> QED BY <1>1, <2>1, <2>2, <2>3
<1>15. x[i].box \in Box
  BY <1>4, EntryParts
<1>16. Boxed(g, p, b, h)
  <2>1. e.box = b
    BY <1>4, <1>5 DEF Entry
  <2>2. y[i] = e /\ \A j \in 1 .. Len(x) : j # i => y[j] = x[j]
    BY <1>3, <1>7
  <2> QED BY <1>1, <1>2, <1>9, <1>12, <2>1, <2>2 DEF Boxed
<1> QED BY <1>1, <1>13, <1>14, <1>15, <1>16

PathOne(s, p, box) ==
  LET old == s.file[p.id].entries[p.at].box
  IN  IF s.done \/ ContainsBox(old, box) THEN [s EXCEPT !.done = TRUE]
      ELSE [s EXCEPT !.file[p.id].entries[p.at].box = Union(old, box)]

PathAll(base, up, box) == FoldLeft(LAMBDA s, p : PathOne(s, p, box), base, up)

Updates(f) == {s \in [file : Seq(Node), done : BOOLEAN] : Steady(f, s.file)}

(* A step of updatePath is the last one, or it enlarges a box.             *)
Updated(s, p, box, t) ==
  LET old == s.file[p.id].entries[p.at].box
  IN  /\ old \in Box
      /\ s.done \/ ContainsBox(old, box) => t.done /\ t.file = s.file
      /\ ~(s.done \/ ContainsBox(old, box)) => ~t.done /\ Boxed(s.file, p, Union(old, box), t.file)

(* One step of updatePath changes boxes only.                              *)
LEMMA PathOneSteady ==
  ASSUME NEW f, NEW s \in Updates(f), NEW p, Place(f, p), NEW box \in Box
  PROVE  PathOne(s, p, box) \in Updates(f) /\ Updated(s, p, box, PathOne(s, p, box))
<1>1. PICK g, d : g = s.file /\ d = s.done
  OBVIOUS
<1>2. s = [file |-> g, done |-> d] /\ Steady(f, g) /\ d \in BOOLEAN /\ g \in Seq(Node)
  BY <1>1 DEF Updates
<1>3. PICK old, b : old = g[p.id].entries[p.at].box /\ b = Union(old, box)
  OBVIOUS
<1>4. b \in Box /\ old \in Box
  <2>1. old \in Box
    BY <1>2, <1>3, SteadyTurn
  <2> QED BY <1>3, <2>1, UnionType
<1>5. PICK h : h = [g EXCEPT ![p.id].entries[p.at].box = b]
  OBVIOUS
<1>6. Steady(f, h) /\ Boxed(g, p, b, h)
  BY <1>2, <1>4, <1>5, SteadyTurn
<1>7. PathOne(s, p, box) = IF d \/ ContainsBox(old, box) THEN [s EXCEPT !.done = TRUE]
                           ELSE [s EXCEPT !.file = h]
  <2>1. [s EXCEPT !.file[p.id].entries[p.at].box = b] = [s EXCEPT !.file = h]
    BY <1>1, <1>2, <1>5
  <2> QED BY <1>1, <1>3, <2>1 DEF PathOne
<1>8. [s EXCEPT !.done = TRUE] = [file |-> g, done |-> TRUE]
  <2>1. s = [file |-> g, done |-> d]
    BY <1>2
  <2>2. \A v : [s EXCEPT !.done = v] = [file |-> g, done |-> v]
    BY <2>1
  <2> QED BY <2>2, Zenon
<1>9. [s EXCEPT !.file = h] = [file |-> h, done |-> d]
  BY <1>2
<1>10. [file |-> g, done |-> TRUE] \in Updates(f) /\ [file |-> h, done |-> d] \in Updates(f)
  BY <1>2, <1>6 DEF Updates, Steady
<1>11. PICK t : t = PathOne(s, p, box)
  OBVIOUS
<1>12. /\ d \/ ContainsBox(old, box) => t = [file |-> g, done |-> TRUE]
       /\ ~(d \/ ContainsBox(old, box)) => t = [file |-> h, done |-> d]
  BY <1>7, <1>8, <1>9, <1>11
<1>13. /\ d \/ ContainsBox(old, box) => t.done /\ t.file = g
       /\ ~(d \/ ContainsBox(old, box)) => ~t.done /\ t.file = h
  <2>1. CASE d \/ ContainsBox(old, box)
    <3>1. t = [file |-> g, done |-> TRUE]
      BY <1>12, <2>1
    <3> QED BY <2>1, <3>1
  <2>2. CASE ~(d \/ ContainsBox(old, box))
    <3>1. t = [file |-> h, done |-> d] /\ ~d
      BY <1>12, <2>2
    <3> QED BY <2>2, <3>1
  <2> QED BY <2>1, <2>2
<1>14. Updated(s, p, box, t)
  BY <1>1, <1>3, <1>4, <1>6, <1>13, Zenon DEF Updated
<1> QED BY <1>10, <1>11, <1>12, <1>14

(* The turns that are places of the file.                                  *)
PlacesIn(f) == {p \in Turn : Place(f, p)}

(* h[k] is what k turns of up have made of base.                           *)
StepByStep(f, base, up, box, h) ==
  /\ h \in [0 .. Len(up) -> Updates(f)]
  /\ h[0] = base /\ PathAll(base, up, box) = h[Len(up)]
  /\ \A k \in 0 .. Len(up) - 1 : h[k + 1] = PathOne(h[k], up[k + 1], box)

(* The steps of updatePath, one after the other.                           *)
LEMMA PathFold ==
  ASSUME NEW f, NEW base \in Updates(f), NEW up \in Seq(PlacesIn(f)), NEW box \in Box
  PROVE  \E h : StepByStep(f, base, up, box, h)
<1> DEFINE n == Len(up)
           S == Updates(f)
           X == PlacesIn(f)
           Step(it) == [s \in SUBSET DOMAIN up |->
                          IF s = {} THEN base ELSE PathOne(it[s \ {Max(s)}], up[Max(s)], box)]
           F == CHOOSE it : it = Step(it)
           step == [x \in S \X X |-> PathOne(x[1], x[2], box)]
<1>1. n \in Nat /\ DOMAIN up = 1 .. n /\ \A i \in 1 .. n : up[i] \in X
  OBVIOUS
<1> HIDE DEF n, S
<1>2. step \in [S \X X -> S]
  <2>1. \A x \in S \X X : PathOne(x[1], x[2], box) \in S
    BY PathOneSteady DEF S, PlacesIn
  <2> QED BY <2>1
<1>3. FoldStep(S, X, up, base, step)
  <2> HIDE DEF step
  <2> QED BY <1>2 DEF FoldStep, S
<1> HIDE DEF X
<1>4. PICK it : Folds(it, S, up, base, step)
  <2> HIDE DEF step
  <2> QED BY <1>3, FoldExists, Zenon
<1>5. it = Step(it)
  <2>1. ASSUME NEW s \in SUBSET DOMAIN up, s # {}
        PROVE  it[s] = PathOne(it[s \ {Max(s)}], up[Max(s)], box)
    <3>1. Max(s) \in 1 .. n
      BY <1>1, <2>1, MaxIn
    <3>2. it[s \ {Max(s)}] \in S /\ up[Max(s)] \in X
      BY <1>1, <1>4, <3>1 DEF Folds
    <3>3. it[s] = step[<<it[s \ {Max(s)}], up[Max(s)]>>]
      <4> HIDE DEF step
      <4> QED BY <1>4, <2>1 DEF Folds
    <3> QED BY <3>2, <3>3
  <2> HIDE DEF step
  <2> QED BY <1>4, <2>1 DEF Folds
<1>6. F = Step(F)
  BY <1>5, Zenon
<1>7. PathAll(base, up, box) = F[DOMAIN up]
  BY Zenon DEF PathAll, FoldLeft, MapThenFoldSet
<1> HIDE DEF F, step
<1>8. F[{}] = base /\ 1 .. 0 = {}
  BY <1>6
<1>9. ASSUME NEW k \in 0 .. n - 1 PROVE F[1 .. k + 1] = PathOne(F[1 .. k], up[k + 1], box)
  <2>1. 1 .. k + 1 \in SUBSET DOMAIN up /\ 1 .. k + 1 # {} /\ k \in Nat
    <3>1. k \in Nat /\ 1 .. k + 1 \subseteq 1 .. n /\ 1 \in 1 .. k + 1
      BY <1>1
    <3> QED BY <1>1, <3>1
  <2>2. Max(1 .. k + 1) = k + 1 /\ (1 .. k + 1) \ {k + 1} = 1 .. k
    BY <2>1, MaxUpTo
  <2> QED BY <1>6, <2>1, <2>2
<1> DEFINE G == {k \in 0 .. n : F[1 .. k] \in S}
<1>10. 0 \in G
  BY <1>1, <1>8 DEF S
<1>11. ASSUME NEW k \in 0 .. n - 1, k \in G PROVE k + 1 \in G
  <2>1. k + 1 \in 1 .. n /\ k + 1 \in 0 .. n
    BY <1>1
  <2>2. up[k + 1] \in X /\ F[1 .. k] \in S
    BY <1>1, <1>11, <2>1
  <2>3. PathOne(F[1 .. k], up[k + 1], box) \in S
    BY <2>2, PathOneSteady DEF S, X, PlacesIn
  <2> QED BY <1>9, <2>1, <2>3
<1>12. \A k \in 0 .. n : k \in G
  <2> HIDE DEF G
  <2> QED BY <1>1, <1>10, <1>11, FromZero
<1> DEFINE h == [k \in 0 .. n |-> F[1 .. k]]
<1>13. h \in [0 .. n -> S]
  BY <1>12
<1>14. /\ h[0] = base /\ h[n] = F[1 .. n]
       /\ \A k \in 0 .. n - 1 : h[k] = F[1 .. k] /\ h[k + 1] = F[1 .. k + 1]
  BY <1>1, <1>8
<1>15. \A k \in 0 .. n - 1 : h[k + 1] = PathOne(h[k], up[k + 1], box)
  <2> HIDE DEF h
  <2> QED BY <1>9, <1>14
<1> HIDE DEF h
<1> QED BY <1>1, <1>7, <1>13, <1>14, <1>15 DEF S, n, StepByStep

(* updatePath goes from the last turn of the way to the first.             *)
LEMMA UpdatePathFold ==
  ASSUME NEW f \in Seq(Node), NEW path \in Seq(Turn), path # << >>,
         \A j \in 1 .. Len(path) - 1 : Place(f, path[j]), NEW box \in Box
  PROVE  \E m \in Nat : \E h \in [0 .. m -> Updates(f)] :
           /\ Len(path) = m + 1 /\ h[0] = [file |-> f, done |-> FALSE]
           /\ UpdatePath(f, path, box) = h[m].file
           /\ \A k \in 0 .. m - 1 : h[k + 1] = PathOne(h[k], path[m - k], box)
<1>1. PICK base, up : base = [file |-> f, done |-> FALSE] /\ up = Reverse(Front(path))
  OBVIOUS
<1>2. base \in Updates(f)
  <2>1. Steady(f, f)
    BY DEF Steady, Alike
  <2> QED BY <1>1, <2>1 DEF Updates
<1>3. PICK m \in Nat : Len(path) = m + 1
  <2>1. Len(path) \in Nat /\ Len(path) # 0
    OBVIOUS
  <2>2. Len(path) - 1 \in Nat /\ Len(path) = (Len(path) - 1) + 1
    BY <2>1
  <2> QED BY <2>2
<1>4. up = [i \in 1 .. m |-> path[(m - i) + 1]]
  <2>1. PICK q : q = Front(path)
    OBVIOUS
  <2>2. Front(path) = [i \in 1 .. m |-> path[i]]
    BY <1>3 DEF Front
  <2>3. Len(q) = m /\ \A i \in 1 .. m : q[i] = path[i]
    BY <1>3, <2>1, <2>2
  <2>4. up = [i \in 1 .. m |-> q[(m - i) + 1]]
    BY <1>1, <2>1, <2>3 DEF Reverse
  <2>5. \A i \in 1 .. m : (m - i) + 1 \in 1 .. m
    BY <1>3
  <2> QED BY <2>3, <2>4, <2>5
<1>5. up \in Seq(PlacesIn(f))
  <2>1. \A i \in 1 .. m : (m - i) + 1 \in 1 .. (m + 1) - 1 /\ (m - i) + 1 \in 1 .. m + 1
    BY <1>3
  <2>2. \A i \in 1 .. m : path[(m - i) + 1] \in PlacesIn(f)
    BY <1>3, <2>1 DEF PlacesIn
  <2> QED BY <1>3, <1>4, <2>2
<1>6. UpdatePath(f, path, box) = PathAll(base, up, box).file
  BY <1>1, Zenon DEF UpdatePath, PathAll, PathOne
<1>7. Len(up) = m
  BY <1>3, <1>4
<1>8. PICK h \in [0 .. m -> Updates(f)] :
        /\ h[0] = base /\ PathAll(base, up, box) = h[m]
        /\ \A k \in 0 .. m - 1 : h[k + 1] = PathOne(h[k], up[k + 1], box)
  <2>1. PICK h : StepByStep(f, base, up, box, h)
    BY <1>2, <1>5, PathFold
  <2> QED BY ONLY <1>7, <2>1 DEF StepByStep
<1>9. \A k \in 0 .. m - 1 : up[k + 1] = path[m - k]
  <2>1. \A k \in 0 .. m - 1 : k + 1 \in 1 .. m /\ (m - (k + 1)) + 1 = m - k
    BY <1>3
  <2> QED BY <1>4, <2>1
<1> QED BY <1>1, <1>3, <1>6, <1>8, <1>9

(* updatePath changes boxes in inner nodes only.                           *)
LEMMA UpdatePathSteady ==
  ASSUME NEW f \in Seq(Node), NEW path \in Seq(Turn), path # << >>,
         \A j \in 1 .. Len(path) - 1 : Place(f, path[j]), NEW box \in Box
  PROVE  Steady(f, UpdatePath(f, path, box))
<1>1. PICK m \in Nat : \E h \in [0 .. m -> Updates(f)] : UpdatePath(f, path, box) = h[m].file
  BY UpdatePathFold
<1>2. m \in 0 .. m
  OBVIOUS
<1> QED BY <1>1, <1>2 DEF Updates

(* Boxes do not matter for who is a son.                                   *)
LEMMA SteadyUsed ==
  ASSUME NEW f, NEW g, Steady(f, g)
  PROVE  \A gone : Inners(g, gone) = Inners(f, gone) /\ Used(g, gone) = Used(f, gone)
<1>1. ASSUME NEW gone PROVE Inners(g, gone) = Inners(f, gone) /\ Used(g, gone) = Used(f, gone)
  <2>1. Inners(g, gone) = Inners(f, gone)
    BY DEF Steady, Alike, Inners
  <2>2. \A x \in Inners(f, gone) : RefsOf(g[x].entries) = RefsOf(f[x].entries)
    BY DEF Steady, Alike, Inners, RefsOf
  <2> QED BY <2>1, <2>2 DEF Used
<1> QED BY <1>1

-----------------------------------------------------------------------------
(***************************************************************************)
(* updatePath and the boxes of the entries                                 *)
(***************************************************************************)

(* f is f0 but for the units of the leaf last, in whose entries there was  *)
(* room; box is the one of the leaf now.                                   *)
Widened(f0, f, lv, nr, gone, last, box) ==
  /\ Levelled(f0, lv, gone) /\ Levelled(f, lv, gone) /\ Once(f, gone)
  /\ DOMAIN f0 = DOMAIN f /\ last \in DOMAIN f /\ f[last].leaf
  /\ \A x \in DOMAIN f : x # last => f0[x] = f[x]
  /\ f[last].entries # << >> /\ box = BoxOf(f[last].entries)
  /\ Covered(f0, nr, gone, 0)

(* updatePath has come up to the node c: entries have room, those that     *)
(* refer to c perhaps not for what has come below it.                      *)
Climbing(f0, f, lv, nr, gone, box, c, s) ==
  /\ s \in Updates(f)
  /\ s.done => Covered(s.file, nr, gone, 0)
  /\ ~s.done => /\ Covered(s.file, nr, gone, c)
                /\ \A x \in DOMAIN f : lv[x] > lv[c] => s.file[x] = f[x]
                /\ \A b \in Box : ContainsBox(b, box) /\ Holds(b, f0[c].entries) => Holds(b, s.file[c].entries)

(* Only the entry at i of the node q refers to c.                          *)
Alone(g, gone, q, i, c) ==
  \A v \in Inners(g, gone) : \A j \in 1 .. Len(g[v].entries) :
    g[v].entries[j].ref = c => v = q /\ j = i

(* One entry refers to a son.                                              *)
LEMMA OneEntry ==
  ASSUME NEW f, NEW gone, Once(f, gone), NEW g, Steady(f, g),
         NEW p, Place(f, p), p.id \notin gone, NEW c, c = f[p.id].entries[p.at].ref
  PROVE  Alone(g, gone, p.id, p.at, c)
<1>1. PICK q, i : q = p.id /\ i = p.at
  OBVIOUS
<1>2. q \in Inners(f, gone) /\ i \in 1 .. Len(f[q].entries) /\ Inners(g, gone) = Inners(f, gone)
  BY <1>1, SteadyUsed DEF Place, Inners
<1>3. ASSUME NEW v \in Inners(g, gone), NEW j \in 1 .. Len(g[v].entries), g[v].entries[j].ref = c
      PROVE  v = q /\ j = i
  <2>1. j \in 1 .. Len(f[v].entries) /\ f[v].entries[j].ref = f[q].entries[i].ref
    <3>1. Alike(f[v], g[v])
      BY <1>2 DEF Steady, Inners
    <3> QED BY <1>1, <1>3, <3>1 DEF Alike
  <2>2. v = q
    <3>1. f[q].entries[i].ref \in RefsOf(f[v].entries) /\ f[q].entries[i].ref \in RefsOf(f[q].entries)
      BY <1>2, <2>1 DEF RefsOf
    <3> QED BY <1>2, <3>1 DEF Once
  <2>3. j = i
    BY <1>2, <2>1, <2>2 DEF Once, Distinct
  <2> QED BY <2>2, <2>3
<1> QED BY <1>1, <1>3 DEF Alone

(* What is known of the son at a place the way goes through.               *)
Passed(f0, f, lv, nr, gone, box, q, i, c) ==
  /\ q \in Inners(f, gone) /\ q \in DOMAIN f /\ f[q] = f0[q] /\ i \in 1 .. Len(f[q].entries)
  /\ c \in DOMAIN f /\ f[c].entries # << >> /\ f0[c].entries # << >> /\ lv[q] > lv[c] /\ lv[q] \in Nat
  /\ lv[c] \in Nat /\ c # q /\ f[q].entries \in Seq(Entry) /\ f[q].entries[i].box \in Box
  /\ c \in nr \/ Holds(f[q].entries[i].box, f0[c].entries)

LEMMA PassedThere ==
  ASSUME NEW f0, NEW f, NEW lv, NEW nr, NEW gone, NEW last, NEW box, Widened(f0, f, lv, nr, gone, last, box),
         NEW p, Place(f, p), p.id \notin gone, NEW c, c = f[p.id].entries[p.at].ref
  PROVE  Passed(f0, f, lv, nr, gone, box, p.id, p.at, c)
<1>1. PICK q, i : q = p.id /\ i = p.at
  OBVIOUS
<1>2. /\ f0 \in Seq(Node) /\ Levelled(f, lv, gone) /\ DOMAIN f0 = DOMAIN f /\ f \in Seq(Node)
      /\ lv \in [DOMAIN f -> Nat] /\ q \in DOMAIN f /\ ~f[q].leaf /\ q \notin gone /\ i \in 1 .. Len(f[q].entries)
  BY <1>1 DEF Widened, Place, Levelled
<1>3. f0[q] = f[q] /\ f[q].entries \in Seq(Entry)
  BY <1>2, NodeParts DEF Widened
<1>4. PICK e : e = f[q].entries[i]
  OBVIOUS
<1>5. e \in Entry /\ e.box \in Box /\ e.ref = c /\ c # 0 /\ e \in ToSet(f0[q].entries)
  BY <1>1, <1>2, <1>3, <1>4, Places, EntryParts DEF ToSet
<1>6. c \in RefsOf(f[q].entries)
  BY <1>2, <1>4, <1>5 DEF RefsOf
<1>7. c \in DOMAIN f /\ f[c].entries # << >> /\ lv[c] + 1 = lv[q]
  BY <1>2, <1>6 DEF Levelled, Son
<1>8. lv[c] \in Nat /\ lv[q] \in Nat
  BY <1>2, <1>7
<1>9. lv[q] > lv[c] /\ c # q
  BY <1>7, <1>8
<1>10. f0[c].entries # << >> /\ f0[c].entries \in Seq(Entry)
  <2>1. Son(c, f0, lv, lv[q], gone)
    BY <1>2, <1>3, <1>6 DEF Widened, Levelled
  <2>2. f0[c] \in Node
    BY <1>2, <1>7
  <2>3. f0[c].entries \in Seq(Entry)
    BY <2>2, NodeParts
  <2> QED BY <2>1, <2>3 DEF Son
<1>11. c \in nr \/ Holds(e.box, f0[c].entries)
  <2>1. q \in Inners(f0, gone)
    BY <1>2, <1>3 DEF Inners
  <2>2. Encloses(f0, nr, e)
    BY <1>5, <2>1 DEF Covered, Widened
  <2> QED BY <1>5, <1>10, <2>2, BoxHeld DEF Encloses
<1>12. q \in Inners(f, gone)
  BY <1>2 DEF Inners
<1> QED BY <1>1, <1>2, <1>3, <1>4, <1>5, <1>7, <1>8, <1>9, <1>10, <1>11, <1>12 DEF Passed

(* A step of updatePath climbs from a son to the node above it.            *)
LEMMA ClimbsOn ==
  ASSUME NEW f0, NEW f, NEW lv, NEW nr, NEW gone, NEW last, NEW box, Widened(f0, f, lv, nr, gone, last, box),
         NEW c, NEW s, Climbing(f0, f, lv, nr, gone, box, c, s), box \in Box,
         NEW p, Place(f, p), p.id \notin gone, c = f[p.id].entries[p.at].ref
  PROVE  Climbing(f0, f, lv, nr, gone, box, p.id, PathOne(s, p, box))
<1>1. PICK q, i, g, t : q = p.id /\ i = p.at /\ g = s.file /\ t = PathOne(s, p, box)
  OBVIOUS
<1>2. t \in Updates(f) /\ Updated(s, p, box, t)
  BY <1>1, PathOneSteady DEF Climbing
<1>3. PICK old : old = g[q].entries[i].box
  OBVIOUS
<1>4. /\ s.done \/ ContainsBox(old, box) => t.done /\ t.file = g
      /\ ~(s.done \/ ContainsBox(old, box)) => ~t.done /\ Boxed(g, p, Union(old, box), t.file)
      /\ old \in Box
  BY <1>1, <1>2, <1>3 DEF Updated
<1>5. CASE s.done
  BY <1>1, <1>2, <1>4, <1>5 DEF Climbing
<1>6. CASE ~s.done
  <2>1. /\ Covered(g, nr, gone, c) /\ Steady(f, g) /\ \A x \in DOMAIN f : lv[x] > lv[c] => g[x] = f[x]
        /\ \A b \in Box : ContainsBox(b, box) /\ Holds(b, f0[c].entries) => Holds(b, g[c].entries)
    BY <1>1, <1>6 DEF Climbing, Updates
  <2>2. Passed(f0, f, lv, nr, gone, box, q, i, c)
    BY <1>1, PassedThere
  <2>3. g[q] = f[q] /\ g \in Seq(Node) /\ DOMAIN g = DOMAIN f /\ f \in Seq(Node) /\ Once(f, gone)
    BY <2>1, <2>2 DEF Passed, Steady, Widened, Levelled
  <2>4. g[c].entries \in Seq(Entry) /\ g[c].entries # << >>
    <3>1. Len(g[c].entries) = Len(f[c].entries) /\ f[c].entries # << >> /\ c \in DOMAIN f
      BY <2>1, <2>2 DEF Steady, Alike, Passed
    <3>2. f[c] \in Node /\ g[c] \in Node
      BY ONLY <2>3, <3>1
    <3>3. f[c].entries \in Seq(Entry) /\ g[c].entries \in Seq(Entry)
      BY <3>2, NodeParts
    <3>4. PICK x, y : x = f[c].entries /\ y = g[c].entries
      OBVIOUS
    <3>5. x \in Seq(Entry) /\ y \in Seq(Entry) /\ Len(y) = Len(x) /\ x # << >>
      BY <3>1, <3>3, <3>4
    <3>6. y # << >>
      BY ONLY <3>5
    <3> QED BY <3>3, <3>4, <3>6
  <2>5. ASSUME NEW b \in Box, ContainsBox(b, box), ContainsBox(b, old)
        PROVE  c \in nr \/ ContainsBox(b, BoxOf(g[c].entries))
    <3>1. CASE Holds(old, f0[c].entries)
      <4>1. Holds(b, f0[c].entries)
        <5>1. c \in DOMAIN f0 /\ f0 \in Seq(Node)
          BY <2>2 DEF Passed, Widened, Levelled
        <5>2. f0[c].entries \in Seq(Entry)
          BY <5>1, NodeParts
        <5>3. \A j \in 1 .. Len(f0[c].entries) : f0[c].entries[j].box \in Box
          BY <5>2, Places, EntryParts
        <5> QED BY <1>4, <2>5, <3>1, <5>3, HoldsOn DEF Holds
      <4> QED BY <2>1, <2>4, <2>5, <4>1, BoxHeld
    <3> QED BY <1>3, <2>2, <2>3, <3>1 DEF Passed
  <2>6. ASSUME NEW v \in Inners(g, gone), NEW j \in 1 .. Len(g[v].entries), g[v].entries[j].ref = c
        PROVE  v = q /\ j = i
    <3>1. Alone(g, gone, p.id, p.at, c)
      BY <2>1, <2>3, OneEntry
    <3> QED BY <1>1, <2>6, <3>1 DEF Alone
  <2>7. \A v \in Inners(g, gone) : \A e \in ToSet(g[v].entries) :
           \E j \in 1 .. Len(g[v].entries) : e = g[v].entries[j]
    BY <2>3, NodeParts, Places DEF ToSet, Inners
  <2>8. CASE ContainsBox(old, box)
    <3>1. t.done /\ t.file = g
      BY <1>4, <2>8
    <3>2. ASSUME NEW v \in Inners(g, gone), NEW e \in ToSet(g[v].entries) PROVE Encloses(g, nr, e)
      <4>1. CASE e.ref = c
        <5>1. e = g[q].entries[i]
          <6>1. PICK j \in 1 .. Len(g[v].entries) : e = g[v].entries[j]
            BY <2>7
          <6>2. v = q /\ j = i
            BY <2>6, <4>1, <6>1
          <6> QED BY <6>1, <6>2
        <5>2. ContainsBox(old, old)
          <6>1. ASSUME NEW d \in Dim PROVE old[d].lo <= old[d].lo /\ old[d].hi <= old[d].hi
            <7>1. old[d].lo \in Nat /\ old[d].hi \in Nat
              BY <1>4 DEF Box
            <7> QED BY <7>1
          <6> QED BY <6>1 DEF ContainsBox
        <5> QED BY <1>3, <1>4, <2>5, <2>8, <4>1, <5>1, <5>2 DEF Encloses
      <4>2. CASE e.ref # c
        BY <2>1, <4>2 DEF Covered
      <4> QED BY <4>1, <4>2
    <3> QED BY <1>1, <1>2, <3>1, <3>2 DEF Climbing, Covered
  <2>9. CASE ~ContainsBox(old, box)
    <3>1. PICK b, h : b = Union(old, box) /\ h = t.file
      OBVIOUS
    <3>2. ~t.done /\ Boxed(g, p, b, h) /\ Steady(f, h) /\ b \in Box /\ h \in Seq(Node) /\ DOMAIN h = DOMAIN f
      BY <1>2, <1>4, <1>6, <2>9, <3>1, UnionType DEF Updates, Steady
    <3>3. /\ \A x \in DOMAIN f : x # q => h[x] = g[x]
          /\ \A j \in 1 .. Len(g[q].entries) : j # i => h[q].entries[j] = g[q].entries[j]
          /\ h[q].entries[i].box = b /\ Len(h[q].entries) = Len(g[q].entries)
      <4>1. Boxed(g, p, b, h) /\ p.id = q /\ p.at = i /\ DOMAIN g = DOMAIN f
        BY <1>1, <2>3, <3>2
      <4>2. q \in DOMAIN f /\ g[q] = f[q] /\ Steady(f, h)
        BY <2>2, <2>3, <3>2 DEF Passed
      <4>3. Len(h[q].entries) = Len(g[q].entries)
        BY ONLY <4>2 DEF Steady, Alike
      <4> QED BY ONLY <4>1, <4>3 DEF Boxed
    <3>4. ContainsBox(b, old) /\ ContainsBox(b, box)
      BY <1>4, <3>1, UnionHolds
    <3>5. \A x \in Box : ContainsBox(x, b) <=> ContainsBox(x, old) /\ ContainsBox(x, box)
      BY <1>4, <3>1, UnionHolds
    <3>6. ASSUME NEW v \in Inners(h, gone), NEW e \in ToSet(h[v].entries), e.ref # q PROVE Encloses(h, nr, e)
      <4>1. v \in Inners(g, gone) /\ v \in DOMAIN f /\ v \in Inners(f, gone) /\ ~f[v].leaf
        <5>1. Inners(g, gone) = Inners(f, gone) /\ Inners(h, gone) = Inners(f, gone)
          BY <2>1, <3>2, SteadyUsed
        <5>2. v \in Inners(g, gone) /\ v \in Inners(f, gone)
          BY <3>6, <5>1
        <5> QED BY <5>2 DEF Inners
      <4>2. PICK j \in 1 .. Len(h[v].entries) : e = h[v].entries[j]
        <5>1. h[v] \in Node
          BY <3>2, <4>1
        <5>2. h[v].entries \in Seq(Entry)
          BY <5>1, NodeParts
        <5> QED BY <5>2, Places DEF ToSet
      <4>3. j \in 1 .. Len(g[v].entries) /\ g[v].entries[j].ref = e.ref
        <5>1. Alike(f[v], g[v]) /\ Alike(f[v], h[v])
          BY <2>1, <3>2, <4>1 DEF Steady
        <5> QED BY <4>2, <5>1 DEF Alike
      <4>4. CASE e.ref = c
        <5>1. e.box = b
          BY <2>6, <3>3, <4>1, <4>2, <4>3, <4>4
        <5>2. h[c] = g[c]
          BY <2>2, <3>3 DEF Passed
        <5> QED BY <2>5, <3>2, <3>4, <4>4, <5>1, <5>2 DEF Encloses
      <4>5. CASE e.ref # c
        <5>1. e = g[v].entries[j]
          <6>1. CASE v = q
            <7>1. j # i
              <8>1. g[q].entries[i].ref = c
                BY <1>1, <2>3
              <8> QED BY <4>3, <4>5, <6>1, <8>1
            <7> QED BY <3>3, <4>2, <4>3, <6>1, <7>1
          <6>2. CASE v # q
            BY <3>3, <4>1, <4>2, <6>2
          <6> QED BY <6>1, <6>2
        <5>2. g[v].entries \in Seq(Entry)
          BY <2>3, <4>1, NodeParts
        <5>3. e \in ToSet(g[v].entries)
          BY <4>3, <5>1, <5>2, Places DEF ToSet
        <5>4. Encloses(g, nr, e)
          BY <2>1, <4>1, <4>5, <5>3 DEF Covered
        <5>5. e.ref \in DOMAIN f
          <6>1. e.ref \in RefsOf(f[v].entries)
            <7>1. Alike(f[v], g[v])
              BY <2>1, <4>1 DEF Steady
            <7> QED BY <4>3, <7>1 DEF Alike, RefsOf
          <6> QED BY <4>1, <6>1 DEF Widened, Levelled, Son
        <5> QED BY <3>3, <3>6, <5>4, <5>5 DEF Encloses
      <4> QED BY <4>4, <4>5
    <3>7. ASSUME NEW x \in DOMAIN f, lv[x] > lv[q] PROVE h[x] = f[x]
      <4>1. lv[x] \in Nat /\ lv[q] \in Nat /\ lv[c] \in Nat /\ lv[q] > lv[c]
        BY <2>2 DEF Passed, Widened, Levelled
      <4>2. lv[x] > lv[c] /\ x # q
        BY ONLY <3>7, <4>1
      <4> QED BY <2>1, <3>3, <4>2
    <3>8. ASSUME NEW x \in Box, ContainsBox(x, box), Holds(x, f0[q].entries) PROVE Holds(x, h[q].entries)
      <4>1. g[q].entries = f0[q].entries /\ i \in 1 .. Len(f0[q].entries)
        BY <2>2, <2>3 DEF Passed
      <4>2. ContainsBox(x, old)
        BY <1>3, <3>8, <4>1 DEF Holds
      <4>3. ContainsBox(x, b)
        BY <3>5, <3>8, <4>2
      <4> QED BY <3>3, <3>8, <4>1, <4>3 DEF Holds
    <3>9. Covered(h, nr, gone, q)
      BY <3>6 DEF Covered
    <3> QED BY <1>1, <1>2, <3>1, <3>2, <3>7, <3>8, <3>9 DEF Climbing
  <2> QED BY <2>8, <2>9
<1> QED BY <1>5, <1>6

(* A way from the node r down to the leaf last.                            *)
Descends(f, r, path, last) ==
  /\ path \in Seq(Turn) /\ path # << >> /\ path[1].id = r /\ path[Len(path)].id = last
  /\ \A j \in 1 .. Len(path) - 1 :
       Place(f, path[j]) /\ path[j + 1].id = f[path[j].id].entries[path[j].at].ref

(* At the leaf only the entry that refers to it may be too small.          *)
LEMMA ClimbFrom ==
  ASSUME NEW f0, NEW f, NEW lv, NEW nr, NEW gone, NEW last, NEW box, Widened(f0, f, lv, nr, gone, last, box),
         NEW s \in Updates(f), s.file = f, ~s.done
  PROVE  Climbing(f0, f, lv, nr, gone, box, last, s)
<1>1. /\ f \in Seq(Node) /\ f0 \in Seq(Node) /\ DOMAIN f0 = DOMAIN f /\ last \in DOMAIN f /\ f[last].leaf
      /\ f[last].entries # << >> /\ box = BoxOf(f[last].entries)
      /\ \A x \in DOMAIN f : x # last => f0[x] = f[x]
  BY DEF Widened, Levelled
<1>2. f[last].entries \in Seq(Entry)
  <2>1. f[last] \in Node
    BY <1>1
  <2> QED BY <2>1, NodeParts
<1>3. \A b \in Box : ContainsBox(b, box) => Holds(b, f[last].entries)
  BY <1>1, <1>2, BoxHeld
<1>4. ASSUME NEW q \in Inners(f, gone), NEW e \in ToSet(f[q].entries), e.ref # last
      PROVE  Encloses(f, nr, e)
  <2>1. q \in DOMAIN f /\ q # last /\ ~f[q].leaf
    BY <1>1 DEF Inners
  <2>2. f0[q] = f[q] /\ q \in Inners(f0, gone) /\ f[q] \in Node
    BY <1>1, <2>1 DEF Inners
  <2>3. Encloses(f0, nr, e)
    <3>1. Covered(f0, nr, gone, 0) /\ e \in ToSet(f0[q].entries)
      BY <2>2 DEF Widened
    <3>2. e.ref # 0
      <4>1. f[q].entries \in Seq(Entry)
        BY <2>2, NodeParts
      <4> QED BY <4>1, Places, EntryParts DEF ToSet
    <3> QED BY <2>2, <3>1, <3>2 DEF Covered
  <2>4. e.ref \in RefsOf(f[q].entries)
    <3>1. f[q].entries \in Seq(Entry)
      BY <2>2, NodeParts
    <3> QED BY <3>1, Places DEF ToSet, RefsOf
  <2>5. e.ref \in DOMAIN f
    BY <2>1, <2>4 DEF Widened, Levelled, Son
  <2> QED BY <1>1, <1>4, <2>3, <2>5 DEF Encloses
<1>5. Covered(f, nr, gone, last)
  BY <1>4 DEF Covered
<1> QED BY <1>3, <1>5 DEF Climbing

(* updatePath makes the entries of the way large enough.                   *)
LEMMA UpdatePathCovers ==
  ASSUME NEW f0, NEW f, NEW lv, NEW nr, NEW gone, NEW last, NEW box, Widened(f0, f, lv, nr, gone, last, box),
         NEW r, r \notin gone, r \notin Used(f, gone), NEW path, Descends(f, r, path, last)
  PROVE  Covered(UpdatePath(f, path, box), nr, gone, 0)
<1>1. /\ f \in Seq(Node) /\ path \in Seq(Turn) /\ path # << >>
      /\ \A j \in 1 .. Len(path) - 1 : Place(f, path[j])
  BY DEF Widened, Levelled, Descends
<1>2. box \in Box
  <2>1. last \in DOMAIN f /\ f[last].entries # << >> /\ box = BoxOf(f[last].entries)
    BY DEF Widened
  <2>2. f[last] \in Node
    BY <1>1, <2>1
  <2>3. f[last].entries \in Seq(Entry)
    BY <2>2, NodeParts
  <2> QED BY <2>1, <2>3, BoxOfType
<1>3. PICK m \in Nat : \E h \in [0 .. m -> Updates(f)] :
        /\ Len(path) = m + 1 /\ h[0] = [file |-> f, done |-> FALSE]
        /\ UpdatePath(f, path, box) = h[m].file
        /\ \A k \in 0 .. m - 1 : h[k + 1] = PathOne(h[k], path[m - k], box)
  BY <1>1, <1>2, UpdatePathFold
<1>4. PICK h \in [0 .. m -> Updates(f)] :
        /\ Len(path) = m + 1 /\ h[0] = [file |-> f, done |-> FALSE]
        /\ UpdatePath(f, path, box) = h[m].file
        /\ \A k \in 0 .. m - 1 : h[k + 1] = PathOne(h[k], path[m - k], box)
  BY <1>3
<1> DEFINE c(k) == path[(m + 1) - k].id
           G == {k \in 0 .. m : Climbing(f0, f, lv, nr, gone, box, c(k), h[k])}
<1>5. 0 \in G
  <2>1. (m + 1) - 0 = Len(path) /\ 0 \in 0 .. m
    BY <1>4
  <2>2. c(0) = last
    BY <2>1 DEF Descends
  <2>3. h[0] \in Updates(f) /\ h[0].file = f /\ ~h[0].done
    <3>1. h[0] = [file |-> f, done |-> FALSE]
      BY <1>4
    <3>2. h[0].file = f /\ h[0].done = FALSE
      BY ONLY <3>1
    <3> QED BY <1>4, <2>1, <3>2
  <2>4. Climbing(f0, f, lv, nr, gone, box, last, h[0])
    BY <2>3, ClimbFrom
  <2> QED BY <2>1, <2>2, <2>4
<1>6. ASSUME NEW k \in 0 .. m - 1, k \in G PROVE k + 1 \in G
  <2>1. PICK j \in 1 .. m : j = m - k
    BY <1>4
  <2>2. (m + 1) - k = j + 1 /\ (m + 1) - (k + 1) = j /\ k + 1 \in 0 .. m /\ j \in 1 .. Len(path) - 1
    BY <1>4, <2>1
  <2>3. PICK p : p = path[j]
    OBVIOUS
  <2>4. Place(f, p) /\ c(k) = f[p.id].entries[p.at].ref /\ c(k + 1) = p.id
    BY <2>2, <2>3 DEF Descends
  <2>5. p.id \notin gone
    <3>1. CASE j = 1
      BY <2>3, <3>1 DEF Descends
    <3>2. CASE j # 1
      <4>1. j - 1 \in 1 .. Len(path) - 1 /\ (j - 1) + 1 = j
        BY <1>4, <2>1, <3>2
      <4>2. PICK a, i : a = path[j - 1].id /\ i = path[j - 1].at
        OBVIOUS
      <4>3. Place(f, path[j - 1]) /\ p.id = f[a].entries[i].ref
        BY <2>3, <4>1, <4>2 DEF Descends
      <4>4. a \in DOMAIN f /\ ~f[a].leaf /\ p.id \in RefsOf(f[a].entries)
        BY <4>2, <4>3 DEF Place, RefsOf
      <4> QED BY <4>4 DEF Widened, Levelled, Son
    <3> QED BY <3>1, <3>2
  <2>6. Climbing(f0, f, lv, nr, gone, box, c(k), h[k])
    BY <1>6
  <2>7. PICK x, s : x = c(k) /\ s = h[k]
    OBVIOUS
  <2>8. Climbing(f0, f, lv, nr, gone, box, p.id, PathOne(s, p, box))
    <3>1. Climbing(f0, f, lv, nr, gone, box, x, s) /\ x = f[p.id].entries[p.at].ref
      BY <2>4, <2>6, <2>7
    <3> QED BY <1>2, <2>4, <2>5, <3>1, ClimbsOn
  <2>9. h[k + 1] = PathOne(s, p, box)
    BY <1>4, <2>1, <2>3, <2>7
  <2> QED BY <2>2, <2>4, <2>8, <2>9
<1>7. \A k \in 0 .. m : k \in G
  <2> HIDE DEF G
  <2> QED BY <1>4, <1>5, <1>6, FromZero
<1>8. c(m) = r /\ m \in 0 .. m
  <2>1. (m + 1) - m = 1 /\ m \in 0 .. m
    BY <1>4
  <2> QED BY <2>1 DEF Descends
<1>9. PICK s : s = h[m]
  OBVIOUS
<1>10. Climbing(f0, f, lv, nr, gone, box, r, s)
  BY <1>7, <1>8, <1>9
<1>11. Covered(s.file, nr, gone, 0)
  <2>1. CASE s.done
    BY <1>10, <2>1 DEF Climbing
  <2>2. CASE ~s.done
    <3>1. Covered(s.file, nr, gone, r) /\ Steady(f, s.file)
      BY <1>10, <2>2 DEF Climbing, Updates
    <3>2. r \notin Used(s.file, gone) /\ s.file \in Seq(Node)
      BY <3>1, SteadyUsed DEF Steady
    <3>3. ASSUME NEW q \in Inners(s.file, gone), NEW e \in ToSet(s.file[q].entries)
          PROVE  e.ref # r
      <4>1. s.file[q] \in Node
        BY <3>2 DEF Inners
      <4>2. s.file[q].entries \in Seq(Entry)
        BY <4>1, NodeParts
      <4>3. e.ref \in RefsOf(s.file[q].entries)
        BY <4>2, Places DEF ToSet, RefsOf
      <4> QED BY <3>2, <4>3 DEF Used
    <3> QED BY <3>1, <3>3 DEF Covered
  <2> QED BY <2>1, <2>2
<1> QED BY <1>4, <1>9, <1>11

-----------------------------------------------------------------------------
(***************************************************************************)
(* The tree and its leaves                                                 *)
(***************************************************************************)

(* A next leaf comes later in the file.                                    *)
Follower(i, id, f) == i = 0 \/ (i \in DOMAIN f /\ i > id /\ f[i].leaf)

Chained(f) ==
  \A id \in DOMAIN f : Follower(f[id].next, id, f) /\ (f[id].next # 0 => f[id].leaf)

(* What is known of a file with a tree in it, of root r.                   *)
Standing(f, lv, gone, r) ==
  /\ Shape(f, lv, gone, {r} \cup gone) /\ Chained(f)
  /\ r \in DOMAIN f /\ f[r].entries # << >> /\ r \notin gone /\ r \notin Used(f, gone)
  /\ \A d \in gone : ~f[d].leaf
  /\ f[r].leaf => Used(f, gone) = {}

(* The file of a tree is typed, and what is referred to is in it.          *)
LEMMA StandingFile ==
  ASSUME NEW f, NEW lv, NEW gone, NEW r, Standing(f, lv, gone, r)
  PROVE  /\ f \in Seq(Node) /\ lv \in [DOMAIN f -> Nat] /\ Levelled(f, lv, gone)
         /\ \A id \in DOMAIN f : f[id] \in Node
         /\ \A u \in Used(f, gone) : u \in DOMAIN f
<1>1. Levelled(f, lv, gone)
  BY DEF Standing, Shape
<1>2. f \in Seq(Node) /\ lv \in [DOMAIN f -> Nat]
  BY <1>1 DEF Levelled
<1>3. \A id \in DOMAIN f : f[id] \in Node
  BY <1>2
<1> QED BY <1>1, <1>2, <1>3, UsedInFile

(* A leaf is written again, with entries.                                  *)
Writable(f, id, n) ==
  /\ id \in DOMAIN f /\ f[id].leaf
  /\ n \in Node /\ n.leaf /\ Len(n.entries) \in 1 .. LeafMax - 1 /\ Follower(n.next, id, f)

StaysWith(f, lv, gone, r, g) == Standing(g, lv, gone, r) /\ Used(g, gone) = Used(f, gone)

(* A leaf is written again, with entries, and the tree stands.             *)
LEMMA LeafPut ==
  ASSUME NEW f, NEW lv, NEW gone, NEW r, Standing(f, lv, gone, r),
         NEW id, NEW n, Writable(f, id, n), NEW g, g = [f EXCEPT ![id] = n]
  PROVE  StaysWith(f, lv, gone, r, g)
<1> USE DEF Writable
<1>1. /\ Shape(f, lv, gone, {r} \cup gone) /\ Chained(f) /\ r \in DOMAIN f /\ f \in Seq(Node)
      /\ lv \in [DOMAIN f -> Nat]
  BY StandingFile DEF Standing
<1>2. /\ g \in Seq(Node) /\ DOMAIN g = DOMAIN f /\ g[id] = n
      /\ \A x \in DOMAIN f : x # id => g[x] = f[x]
  BY <1>1
<1>3. n.entries # << >>
  <2>1. n.entries \in Seq(Entry) /\ Len(n.entries) # 0
    BY NodeParts
  <2> QED BY <2>1
<1>4. ASSUME NEW x \in DOMAIN f
      PROVE  /\ g[x].leaf = f[x].leaf /\ (~f[x].leaf => g[x] = f[x])
             /\ f[x].entries # << >> => g[x].entries # << >>
  <2>1. CASE x = id
    BY <1>2, <1>3, <2>1
  <2>2. CASE x # id
    BY <1>2, <2>2
  <2> QED BY <2>1, <2>2
<1>5. /\ Inners(g, gone) = Inners(f, gone)
      /\ \A x \in Inners(f, gone) : g[x] = f[x]
  BY <1>2, <1>4 DEF Inners
<1>6. Used(g, gone) = Used(f, gone) /\ (Once(f, gone) => Once(g, gone))
  <2>1. Used(g, gone) = Used(f, gone)
    BY <1>5 DEF Used
  <2>2. Once(f, gone) => Once(g, gone)
    BY <1>5 DEF Once
  <2> QED BY <2>1, <2>2
<1>7. Sized(g, {r} \cup gone)
  <2>1. ASSUME NEW x \in DOMAIN g PROVE Fits(g[x], x, {r} \cup gone)
    <3>1. CASE x = id
      <4>1. PICK k : k = Len(n.entries)
        OBVIOUS
      <4>2. k \in 0 .. LeafMax - 1
        BY <4>1
      <4> QED BY <1>2, <3>1, <4>1, <4>2 DEF Fits
    <3>2. CASE x # id
      BY <1>1, <1>2, <3>2 DEF Shape, Sized
    <3> QED BY <3>1, <3>2
  <2> QED BY <2>1 DEF Sized
<1>8. Levelled(g, lv, gone)
  <2>1. Levelled(f, lv, gone)
    BY <1>1 DEF Shape
  <2>2. \A u, l : Son(u, f, lv, l, gone) => Son(u, g, lv, l, gone)
    BY <1>2, <1>4 DEF Son
  <2>3. ASSUME NEW x \in DOMAIN g
        PROVE  /\ g[x].leaf => lv[x] = 0
               /\ ~g[x].leaf => /\ g[x].entries # << >>
                                /\ \A u \in RefsOf(g[x].entries) : Son(u, g, lv, lv[x], gone)
    <3>1. /\ f[x].leaf => lv[x] = 0
          /\ ~f[x].leaf => /\ f[x].entries # << >>
                           /\ \A u \in RefsOf(f[x].entries) : Son(u, f, lv, lv[x], gone)
      BY <1>2, <2>1 DEF Levelled
    <3> QED BY <1>2, <1>4, <2>2, <3>1
  <2> QED BY <1>1, <1>2, <2>3 DEF Levelled
<1>9. Shape(g, lv, gone, {r} \cup gone)
  BY <1>1, <1>2, <1>6, <1>7, <1>8 DEF Shape
<1>10. Chained(g)
  <2>1. ASSUME NEW x \in DOMAIN g
        PROVE  Follower(g[x].next, x, g) /\ (g[x].next # 0 => g[x].leaf)
    <3>1. \A i : Follower(i, x, f) => Follower(i, x, g)
      BY <1>2, <1>4 DEF Follower
    <3>2. CASE x = id
      BY <1>2, <3>1, <3>2
    <3>3. CASE x # id
      BY <1>1, <1>2, <3>1, <3>3 DEF Chained
    <3> QED BY <3>2, <3>3
  <2> QED BY <2>1 DEF Chained
<1>11. /\ g[r].entries # << >> /\ g[r].leaf = f[r].leaf /\ \A d \in gone : ~g[d].leaf
       /\ r \notin gone /\ r \notin Used(f, gone) /\ (f[r].leaf => Used(f, gone) = {})
  BY <1>1, <1>4 DEF Standing, Shape
<1> QED BY <1>1, <1>2, <1>6, <1>9, <1>10, <1>11 DEF Standing, StaysWith

LeafMore(f, lv, gone, r, n, g) ==
  /\ Standing(g, More(f, lv, 0), gone, r) /\ Used(g, gone) = Used(f, gone)
  /\ DOMAIN g = (DOMAIN f) \cup {Len(f) + 1} /\ Len(f) + 1 \notin DOMAIN f
  /\ Len(g) = Len(f) + 1
  /\ g[Len(f) + 1] = n /\ \A x \in DOMAIN f : g[x] = f[x] /\ More(f, lv, 0)[x] = lv[x]

(* A leaf comes to the end of the file.                                    *)
LEMMA LeafAdded ==
  ASSUME NEW f, NEW lv, NEW gone, NEW r, Standing(f, lv, gone, r),
         NEW n \in Node, n.leaf, Len(n.entries) \in 0 .. LeafMax - 1, n.next = 0,
         NEW g, g = Append(f, n)
  PROVE  LeafMore(f, lv, gone, r, n, g)
<1>1. /\ Shape(f, lv, gone, {r} \cup gone) /\ Chained(f) /\ r \in DOMAIN f /\ f \in Seq(Node)
      /\ Levelled(f, lv, gone) /\ gone \in SUBSET DOMAIN f /\ Sized(f, {r} \cup gone) /\ Once(f, gone)
  BY StandingFile DEF Standing, Shape
<1>2. PICK m, mv : m = Len(f) + 1 /\ mv = More(f, lv, 0)
  OBVIOUS
<1>3. /\ DOMAIN g = (DOMAIN f) \cup {m} /\ m \notin DOMAIN f /\ g[m] = n
      /\ Len(g) = m /\ \A x \in DOMAIN f : g[x] = f[x]
  BY <1>1, <1>2, NodeAppended
<1>4. Levelled(g, mv, gone) /\ \A x \in DOMAIN f : mv[x] = lv[x]
  <2>1. Fitted(n, f, lv, gone, 0)
    BY DEF Fitted
  <2>2. LevelledMore(f, lv, gone, 0, g)
    BY <1>1, <2>1, LevelledAppended
  <2> QED BY <1>2, <2>2 DEF LevelledMore
<1>5. Used(g, gone) = Used(f, gone) /\ Once(g, gone)
  <2>1. OnceMore(f, gone, n, g)
    BY <1>1, OnceAppended
  <2> QED BY <1>1, <2>1 DEF OnceMore
<1>6. Sized(g, {r} \cup gone)
  <2>1. Fits(n, m, {r} \cup gone)
    BY DEF Fits
  <2> QED BY <1>1, <1>3, <2>1 DEF Sized
<1>7. Shape(g, mv, gone, {r} \cup gone)
  BY <1>1, <1>3, <1>4, <1>5, <1>6 DEF Shape
<1>8. Chained(g)
  <2>1. \A i, x : Follower(i, x, f) => Follower(i, x, g)
    BY <1>3 DEF Follower
  <2>2. Follower(0, m, g)
    BY DEF Follower
  <2> QED BY <1>1, <1>3, <2>1, <2>2 DEF Chained
<1>9. Standing(g, mv, gone, r)
  BY <1>1, <1>3, <1>5, <1>7, <1>8 DEF Standing
<1> QED BY <1>2, <1>3, <1>4, <1>5, <1>9 DEF LeafMore

(* A tree stands whatever its boxes are.                                   *)
LEMMA SteadyStanding ==
  ASSUME NEW f, NEW lv, NEW gone, NEW r, Standing(f, lv, gone, r), NEW g, Steady(f, g)
  PROVE  Standing(g, lv, gone, r) /\ Used(g, gone) = Used(f, gone)
<1>1. Shape(f, lv, gone, {r} \cup gone) /\ Chained(f) /\ r \in DOMAIN f /\ f \in Seq(Node)
  BY StandingFile DEF Standing
<1>2. Shape(g, lv, gone, {r} \cup gone) /\ Used(g, gone) = Used(f, gone)
  BY <1>1, SteadyKeeps
<1>3. /\ g \in Seq(Node) /\ DOMAIN g = DOMAIN f
      /\ \A x \in DOMAIN f : g[x].leaf = f[x].leaf /\ g[x].next = f[x].next
  BY DEF Steady, Alike
<1>4. Chained(g)
  BY <1>1, <1>3 DEF Chained, Follower
<1>5. g[r].entries # << >>
  <2>1. Len(g[r].entries) = Len(f[r].entries) /\ f[r].entries # << >>
    BY <1>1 DEF Steady, Alike, Standing
  <2>2. f[r].entries \in Seq(Entry) /\ g[r].entries \in Seq(Entry)
    BY <1>1, <1>3, NodeParts
  <2> QED BY <2>1, <2>2
<1>6. \A d \in gone : d \in DOMAIN f
  BY <1>1 DEF Shape
<1> QED BY <1>1, <1>2, <1>3, <1>4, <1>5, <1>6 DEF Standing

(* insertLeaf does not touch the chains.                                   *)
LEMMA KeptChained ==
  ASSUME NEW f, NEW lv, NEW g, NEW l2, Chained(f), LeavesKept(f, lv, g, l2)
  PROVE  Chained(g)
<1>1. ASSUME NEW x \in DOMAIN g PROVE Follower(g[x].next, x, g) /\ (g[x].next # 0 => g[x].leaf)
  <2>1. CASE x \in DOMAIN f
    <3>1. g[x].next = f[x].next /\ g[x].leaf = f[x].leaf
      BY <2>1 DEF LeavesKept
    <3>2. Follower(f[x].next, x, f) /\ (f[x].next # 0 => f[x].leaf)
      BY <2>1 DEF Chained
    <3>3. Follower(f[x].next, x, g)
      BY <3>2 DEF Follower, LeavesKept
    <3> QED BY <3>1, <3>2, <3>3
  <2>2. CASE x \notin DOMAIN f
    BY <2>2 DEF LeavesKept, Follower
  <2> QED BY <2>1, <2>2
<1> QED BY <1>1 DEF Chained

(* The tree takes the root that insertLeaf returns.                        *)
Taken(f, lv, gone, r, s, l2) ==
  /\ Standing(s.file, l2, gone, s.first) /\ LeavesKept(f, lv, s.file, l2)
  /\ l2[s.first] = IF s.first = r THEN lv[r] ELSE lv[r] + 1
  /\ s.narrow \subseteq DOMAIN s.file

(* insert takes the root that insertLeaf returns, and the tree stands.     *)
LEMMA RootTaken ==
  ASSUME NEW f, NEW lv, NEW gone, NEW r, Standing(f, lv, gone, r), narrow \subseteq DOMAIN f,
         NEW id \in DOMAIN f, f[id].leaf, f[id].entries # << >>, id # r, id \notin Used(f, gone),
         NEW rect \in Box, NEW s, s = InsertLeaf(f, r, id, rect)
  PROVE  (\E l2 : Taken(f, lv, gone, r, s, l2)) /\ Hangs(f, gone, r, id, s)
<1>1. PICK small : small = {r} \cup gone
  OBVIOUS
<1>2. /\ Shape(f, lv, gone, small) /\ Chained(f) /\ r \in DOMAIN f /\ f[r].entries # << >>
      /\ r \notin gone /\ r \notin Used(f, gone) /\ gone \in SUBSET DOMAIN f
      /\ \A d \in gone : ~f[d].leaf
  BY <1>1 DEF Standing, Shape
<1>3. Insertable(f, lv, gone, small, r, id)
  BY <1>2 DEF Insertable, Shape
<1>4. PICK l2 : Inserted(f, lv, gone, small, r, id, s, l2)
  BY <1>2, <1>3, InsertLeafInserts
<1>5. LeavesKept(f, lv, s.file, l2) /\ s.narrow \subseteq DOMAIN s.file /\ s.file[r].entries # << >>
  BY <1>4 DEF Inserted
<1>10. Hangs(f, gone, r, id, s)
  BY <1>4 DEF Inserted
<1>6. /\ DOMAIN f \subseteq DOMAIN s.file /\ l2[r] = lv[r] /\ s.file[r].leaf = f[r].leaf
      /\ \A d \in gone : ~s.file[d].leaf
  BY <1>2, <1>5 DEF LeavesKept
<1>7. Chained(s.file)
  BY <1>2, <1>5, KeptChained
<1>8. CASE s.first = r /\ ~f[r].leaf /\ Shape(s.file, l2, gone, small) /\ UsedBy(f, gone, id, s.file, gone)
  <2>1. r \notin Used(s.file, gone)
    BY <1>2, <1>8 DEF UsedBy
  <2>2. Standing(s.file, l2, gone, r)
    BY <1>1, <1>2, <1>5, <1>6, <1>7, <1>8, <2>1 DEF Standing
  <2>3. Taken(f, lv, gone, r, s, l2)
    BY <1>5, <1>6, <1>8, <2>2 DEF Taken
  <2> QED BY <1>10, <2>3
<1>9. CASE NewRoot(f, lv, gone, small, r, id, s, l2)
  <2>1. PICK c : c = s.first
    OBVIOUS
  <2>2. /\ c \in DOMAIN s.file /\ c \notin DOMAIN f /\ ~s.file[c].leaf /\ s.file[c].entries # << >>
        /\ l2[c] = lv[r] + 1 /\ Shape(s.file, l2, gone, (small \ {r}) \cup {c})
        /\ c \notin Used(s.file, gone)
    BY <1>9, <2>1 DEF NewRoot
  <2>3. c \notin gone /\ c # r
    BY <1>2, <2>2
  <2>4. Shape(s.file, l2, gone, {c} \cup gone)
    <3>1. (small \ {r}) \cup {c} \subseteq {c} \cup gone
      BY <1>1
    <3>2. Sized(s.file, {c} \cup gone)
      BY <2>2, <3>1, SizedMore DEF Shape
    <3> QED BY <2>2, <3>2 DEF Shape
  <2>5. Standing(s.file, l2, gone, c)
    BY <1>6, <1>7, <2>2, <2>3, <2>4 DEF Standing
  <2>6. Taken(f, lv, gone, r, s, l2)
    BY <1>5, <2>1, <2>2, <2>3, <2>5 DEF Taken
  <2> QED BY <1>10, <2>6
<1> QED BY <1>4, <1>8, <1>9 DEF Inserted

(* The bulk load leaves the root where it was.                             *)
Left(f, lv, gone, r, id, s, gone2, l2) ==
  /\ Standing(s.file, l2, gone2, r) /\ LeavesKept(f, lv, s.file, l2)
  /\ UsedBy(f, gone, id, s.file, gone2)
  /\ s.narrow \subseteq DOMAIN s.file

(* A bulk load keeps its root, and the tree stands: a root it is given is  *)
(* dropped.                                                                *)
LEMMA RootLeft ==
  ASSUME NEW f, NEW lv, NEW gone, NEW r, Standing(f, lv, gone, r), narrow \subseteq DOMAIN f,
         NEW id \in DOMAIN f, f[id].leaf, f[id].entries # << >>, id \notin Used(f, gone),
         NEW rect \in Box, NEW s, s = InsertLeaf(f, r, id, rect),
         NEW gone2, gone2 = IF s.first = r THEN gone ELSE gone \cup {s.first}
  PROVE  (\E l2 : Left(f, lv, gone, r, id, s, gone2, l2)) /\ Hangs(f, gone, r, id, s)
<1>1. PICK small : small = {r} \cup gone
  OBVIOUS
<1>2. /\ Shape(f, lv, gone, small) /\ Chained(f) /\ r \in DOMAIN f /\ f[r].entries # << >>
      /\ r \notin gone /\ r \notin Used(f, gone) /\ gone \in SUBSET DOMAIN f
      /\ \A d \in gone : ~f[d].leaf
      /\ f[r].leaf => Used(f, gone) = {}
  BY <1>1 DEF Standing, Shape
<1>3. Insertable(f, lv, gone, small, r, id)
  BY <1>2 DEF Insertable, Shape
<1>4. PICK l2 : Inserted(f, lv, gone, small, r, id, s, l2)
  BY <1>2, <1>3, InsertLeafInserts
<1>5. LeavesKept(f, lv, s.file, l2) /\ s.narrow \subseteq DOMAIN s.file /\ s.file[r].entries # << >>
  BY <1>4 DEF Inserted
<1>10. Hangs(f, gone, r, id, s)
  BY <1>4 DEF Inserted
<1>6. /\ DOMAIN f \subseteq DOMAIN s.file /\ s.file[r].leaf = f[r].leaf
      /\ \A d \in gone : ~s.file[d].leaf
  BY <1>2, <1>5 DEF LeavesKept
<1>7. Chained(s.file)
  BY <1>2, <1>5, KeptChained
<1>8. CASE s.first = r /\ ~f[r].leaf /\ Shape(s.file, l2, gone, small) /\ UsedBy(f, gone, id, s.file, gone)
  <2>1. r \notin Used(s.file, gone)
    BY <1>2, <1>8 DEF UsedBy
  <2>2. Standing(s.file, l2, gone, r)
    BY <1>1, <1>2, <1>5, <1>6, <1>7, <1>8, <2>1 DEF Standing
  <2>3. Left(f, lv, gone, r, id, s, gone2, l2)
    BY <1>5, <1>8, <2>2 DEF Left
  <2> QED BY <1>10, <2>3
<1>9. CASE NewRoot(f, lv, gone, small, r, id, s, l2)
  <2>1. PICK c : c = s.first
    OBVIOUS
  <2>2. /\ c \in DOMAIN s.file /\ c \notin DOMAIN f /\ ~s.file[c].leaf
        /\ Shape(s.file, l2, gone \cup {c}, (small \ {r}) \cup {c})
        /\ UsedBy(f, gone, id, s.file, gone \cup {c})
        /\ f[r].leaf => Used(s.file, gone \cup {c}) = Used(f, gone)
    BY <1>9, <2>1 DEF NewRoot
  <2>3. c # r /\ gone2 = gone \cup {c} /\ r \notin gone2 /\ \A d \in gone2 : ~s.file[d].leaf
    BY <1>2, <1>6, <2>1, <2>2
  <2>4. Shape(s.file, l2, gone2, {r} \cup gone2)
    <3>1. (small \ {r}) \cup {c} \subseteq {r} \cup gone2
      BY <1>1, <2>3
    <3>2. Sized(s.file, {r} \cup gone2)
      BY <2>2, <3>1, SizedMore DEF Shape
    <3> QED BY <2>2, <2>3, <3>2 DEF Shape
  <2>5. r \notin Used(s.file, gone2) /\ (s.file[r].leaf => Used(s.file, gone2) = {})
    <3>1. CASE f[r].leaf
      BY <1>2, <1>6, <2>2, <2>3, <3>1
    <3>2. CASE ~f[r].leaf
      BY <1>2, <1>6, <2>2, <2>3, <3>2 DEF UsedBy
    <3> QED BY <3>1, <3>2
  <2>6. Standing(s.file, l2, gone2, r)
    BY <1>2, <1>5, <1>6, <1>7, <2>3, <2>4, <2>5 DEF Standing
  <2>7. Left(f, lv, gone, r, id, s, gone2, l2)
    BY <1>5, <2>2, <2>3, <2>6 DEF Left
  <2> QED BY <1>10, <2>7
<1> QED BY <1>4, <1>8, <1>9 DEF Inserted

(* In the file a next leaf is of the same trajectory.                      *)
SameTrj(f) == \A id \in DOMAIN f : f[id].next # 0 => f[f[id].next].trj = f[id].trj

(* A chain ends in a leaf that has no next, since a next leaf comes later  *)
(* in the file.                                                            *)
LEMMA EndOfChainLast ==
  ASSUME file \in Seq(Node), Chained(file), NEW id \in DOMAIN file, file[id].leaf
  PROVE  /\ EndOfChain(id) \in DOMAIN file
         /\ file[EndOfChain(id)].leaf /\ file[EndOfChain(id)].next = 0
         /\ SameTrj(file) => file[EndOfChain(id)].trj = file[id].trj
<1>1. PICK f, n : f = file /\ n = Len(file)
  OBVIOUS
<1> DEFINE D == DOMAIN f
           lv == [d \in D |-> n - d]
           Step(g) == [i \in DOMAIN f |-> IF f[i].next = 0 THEN i ELSE g[f[i].next]]
           P == CHOOSE g : g = Step(g)
           step == [x \in D \X [D -> D] |-> IF f[x[1]].next = 0 THEN x[1] ELSE x[2][f[x[1]].next]]
<1>2. f \in Seq(Node) /\ D = 1 .. n /\ n \in Nat /\ id \in D /\ f[id].leaf /\ Chained(f)
  BY <1>1
<1>3. lv \in [D -> Nat] /\ \A i \in D : lv[i] <= n /\ lv[i] = n - i
  BY <1>2
<1>4. \A i \in D : f[i].next # 0 => f[i].next \in D /\ f[f[i].next].leaf /\ lv[f[i].next] < lv[i]
  <2>1. ASSUME NEW i \in D, f[i].next # 0
        PROVE  f[i].next \in D /\ f[f[i].next].leaf /\ lv[f[i].next] < lv[i]
    <3>1. PICK j : j = f[i].next
      OBVIOUS
    <3>2. j \in D /\ j > i /\ f[j].leaf
      BY <1>2, <2>1, <3>1 DEF Chained, Follower
    <3>3. lv[j] = n - j /\ lv[i] = n - i /\ n - j < n - i
      BY <1>2, <1>3, <3>2
    <3> QED BY <3>1, <3>2, <3>3
  <2> QED BY <2>1
<1> HIDE DEF lv
<1>5. ASSUME NEW d \in D, NEW g \in [D -> D]
      PROVE  /\ step[<<d, g>>] = IF f[d].next = 0 THEN d ELSE g[f[d].next]
             /\ step[<<d, g>>] \in D
  <2>1. <<d, g>> \in D \X [D -> D] /\ <<d, g>>[1] = d /\ <<d, g>>[2] = g
    OBVIOUS
  <2>2. step[<<d, g>>] = IF f[d].next = 0 THEN d ELSE g[f[d].next]
    BY <2>1, Zenon
  <2> HIDE DEF step
  <2> QED BY <1>4, <2>2
<1>6. step \in [D \X [D -> D] -> D]
  <2>1. ASSUME NEW x \in D \X [D -> D]
        PROVE  (IF f[x[1]].next = 0 THEN x[1] ELSE x[2][f[x[1]].next]) \in D
    <3>1. x[1] \in D /\ x[2] \in [D -> D]
      OBVIOUS
    <3> QED BY <1>4, <3>1
  <2> QED BY <2>1
<1> HIDE DEF step
<1>7. StepsDown(D, D, lv, n, step)
  <2>1. ASSUME NEW d \in D, NEW g \in [D -> D], NEW h \in [D -> D],
               \A e \in D : lv[e] < lv[d] => g[e] = h[e]
        PROVE  step[<<d, g>>] = step[<<d, h>>]
    <3>1. f[d].next # 0 => g[f[d].next] = h[f[d].next]
      BY <1>4, <2>1
    <3> QED BY <1>5, <3>1
  <2>2. D # {}
    BY <1>2
  <2>3. \A d \in D : lv[d] <= n
    BY <1>3
  <2>4. n \in Nat /\ lv \in [D -> Nat]
    BY <1>2, <1>3
  <2> HIDE DEF D
  <2> QED BY <1>6, <2>1, <2>2, <2>3, <2>4 DEF StepsDown
<1>8. PICK p \in [D -> D] : \A d \in D : p[d] = step[<<d, p>>]
  <2>1. \E p : Follows(p, D, D, step)
    <3> HIDE DEF D
    <3> QED BY <1>7, RecursionExists, Zenon
  <2> QED BY <2>1 DEF Follows
<1>9. p = Step(p)
  <2>1. \A d \in DOMAIN f : p[d] = IF f[d].next = 0 THEN d ELSE p[f[d].next]
    BY <1>5, <1>8
  <2> QED BY <1>8, <2>1
<1>10. P = Step(P)
  BY <1>9, Zenon
<1>11. EndOfChain(id) = P[id]
  BY <1>1, Zenon DEF EndOfChain
<1> HIDE DEF P
<1> DEFINE G == {i \in D : f[i].leaf => /\ P[i] \in D /\ f[P[i]].leaf /\ f[P[i]].next = 0
                                        /\ (SameTrj(f) => f[P[i]].trj = f[i].trj)}
<1>12. ASSUME NEW d \in D, \A e \in D : lv[e] < lv[d] => e \in G PROVE d \in G
  <2>1. P[d] = IF f[d].next = 0 THEN d ELSE P[f[d].next]
    BY <1>10
  <2>2. CASE f[d].next = 0
    BY <2>1, <2>2
  <2>3. CASE f[d].next # 0
    <3>1. f[d].next \in G /\ f[f[d].next].leaf
      BY <1>4, <1>12, <2>3
    <3>2. SameTrj(f) => f[f[d].next].trj = f[d].trj
      BY <2>3 DEF SameTrj
    <3> QED BY <2>1, <2>3, <3>1, <3>2
  <2> QED BY <2>2, <2>3
<1>13. \A d \in D : d \in G
  <2>1. \A d \in D : (\A e \in D : lv[e] < lv[d] => e \in G) => d \in G
    <3> HIDE DEF G, D
    <3> QED BY <1>12
  <2>2. lv \in [D -> Nat]
    BY <1>3
  <2> HIDE DEF G, D
  <2> QED BY <2>1, <2>2, ByLevel
<1>14. P[id] \in D /\ f[P[id]].leaf /\ f[P[id]].next = 0 /\ (SameTrj(f) => f[P[id]].trj = f[id].trj)
  <2>1. id \in G
    BY <1>2, <1>13
  <2> QED BY <1>2, <2>1
<1> QED BY <1>1, <1>11, <1>14

-----------------------------------------------------------------------------
(***************************************************************************)
(* The bulk load                                                           *)
(***************************************************************************)

(* The tree as the bulk load changes it.                                   *)
Bulk(s, lv) ==
  /\ s = [file |-> s.file, narrow |-> s.narrow, dropped |-> s.dropped]
  /\ Standing(s.file, lv, s.dropped, rootId)
  /\ s.narrow \subseteq DOMAIN s.file /\ narrow \subseteq DOMAIN s.file

(* A leaf in memory that is to be put into the tree.                       *)
HeldLeaf(f, gone, id, n) ==
  /\ id \in DOMAIN f /\ f[id].leaf /\ id \notin Used(f, gone)
  /\ n \in Node /\ n.leaf /\ Len(n.entries) \in 1 .. LeafMax - 1

(* What the leaf in record id brings along: no son is lost, new nodes are  *)
(* sons or dropped roots, and entries have room.                           *)
Brings(s, id, t) ==
  /\ Used(s.file, {}) \subseteq Used(t.file, {}) /\ id \in Used(t.file, {})
  /\ s.dropped \subseteq t.dropped
  /\ \A x \in DOMAIN t.file : x \in DOMAIN s.file \/ x \in Used(t.file, {}) \/ x \in t.dropped
  /\ Covered(s.file, s.narrow, s.dropped, 0) => Covered(t.file, t.narrow, t.dropped, 0)

LeafIn(s, lv, id, t, l2) ==
  /\ Bulk(t, l2) /\ DOMAIN s.file \subseteq DOMAIN t.file
  /\ \A x \in DOMAIN s.file : l2[x] = lv[x] /\ t.file[x].leaf = s.file[x].leaf
  /\ UsedBy(s.file, s.dropped, id, t.file, t.dropped)

(* Entries and nodes that are the same have the same room.                 *)
LEMMA CoveredSame ==
  ASSUME NEW f \in Seq(Node), NEW gone, NEW nr, Covered(f, nr, gone, 0), NEW g,
         Inners(g, gone) = Inners(f, gone), \A x \in Inners(f, gone) : g[x].entries = f[x].entries,
         \A u \in Used(f, gone) : g[u].entries = f[u].entries
  PROVE  Covered(g, nr, gone, 0)
<1>1. ASSUME NEW v \in Inners(g, gone), NEW e \in ToSet(g[v].entries), e.ref # 0
      PROVE  Encloses(g, nr, e)
  <2>1. v \in Inners(f, gone) /\ e \in ToSet(f[v].entries)
    BY <1>1
  <2>2. e.ref \in Used(f, gone)
    <3>1. f[v].entries \in Seq(Entry)
      BY <2>1, NodeParts DEF Inners
    <3> QED BY <2>1, <3>1, Places DEF ToSet, RefsOf, Used
  <2>3. Encloses(f, nr, e)
    BY <1>1, <2>1 DEF Covered
  <2> QED BY <2>2, <2>3 DEF Encloses
<1> QED BY <1>1 DEF Covered

(* The leaves of f are those of g but for the node n, written in record id.*)
LeafWritten(f, id, n, g) ==
  /\ DOMAIN f \subseteq DOMAIN g /\ id \in DOMAIN g /\ g[id] = n
  /\ \A x \in DOMAIN f : x # id => g[x].leaf = f[x].leaf /\ (f[x].leaf => g[x] = f[x])
  /\ \A x \in DOMAIN g : x \notin DOMAIN f /\ x # id => ~g[x].leaf

(* insertLeaf does not touch the leaves.                                   *)
LEMMA KeptWritten ==
  ASSUME NEW f, NEW id, NEW n, NEW g, LeafWritten(f, id, n, g), g[id].leaf,
         NEW lv, NEW h, NEW l2, LeavesKept(g, lv, h, l2)
  PROVE  LeafWritten(f, id, n, h)
BY DEF LeafWritten, LeavesKept

(* A leaf of the bulk load comes into the tree.                            *)
LEMMA WithLeafIn ==
  ASSUME NEW s, NEW lv, Bulk(s, lv), NEW id, NEW n, HeldLeaf(s.file, s.dropped, id, n),
         Follower(n.next, id, s.file)
  PROVE  /\ \E l2 : LeafIn(s, lv, id, WithLeaf(s, id, n), l2)
         /\ LeafWritten(s.file, id, n, WithLeaf(s, id, n).file)
         /\ Brings(s, id, WithLeaf(s, id, n))
<1>1. PICK f, gone, r : f = s.file /\ gone = s.dropped /\ r = rootId
  OBVIOUS
<1>2. /\ Standing(f, lv, gone, r) /\ id \in DOMAIN f /\ f[id].leaf /\ id \notin Used(f, gone)
      /\ n \in Node /\ n.leaf /\ Len(n.entries) \in 1 .. LeafMax - 1 /\ Follower(n.next, id, f)
      /\ s.narrow \subseteq DOMAIN f /\ narrow \subseteq DOMAIN f
  BY <1>1 DEF Bulk, HeldLeaf
<1>3. PICK g : g = [f EXCEPT ![id] = n]
  OBVIOUS
<1>4. Standing(g, lv, gone, r) /\ Used(g, gone) = Used(f, gone)
  <2>1. Standing(f, lv, gone, r) /\ id \in DOMAIN f /\ f[id].leaf
    BY <1>2
  <2>2. Writable(f, id, n)
    BY <1>2 DEF Writable
  <2>3. StaysWith(f, lv, gone, r, g)
    BY <1>3, <2>1, <2>2, LeafPut
  <2> QED BY <2>3 DEF StaysWith
<1>5. /\ f \in Seq(Node) /\ DOMAIN g = DOMAIN f /\ g[id] = n
      /\ \A x \in DOMAIN f : g[x].leaf = f[x].leaf
      /\ LeafWritten(f, id, n, g)
  <2>1. f \in Seq(Node)
    BY <1>2, StandingFile
  <2>2. DOMAIN g = DOMAIN f /\ g[id] = n /\ \A x \in DOMAIN f : x # id => g[x] = f[x]
    BY <1>2, <1>3, <2>1
  <2>3. ASSUME NEW x \in DOMAIN f PROVE g[x].leaf = f[x].leaf
    <3>1. CASE x = id
      BY <1>2, <2>2, <3>1
    <3>2. CASE x # id
      BY <2>2, <3>2
    <3> QED BY <3>1, <3>2
  <2>4. LeafWritten(f, id, n, g)
    BY <1>2, <2>2 DEF LeafWritten
  <2> QED BY <2>1, <2>2, <2>3, <2>4
<1>6. n.entries \in Seq(Entry) /\ n.entries # << >>
  <2>1. n.entries \in Seq(Entry) /\ Len(n.entries) # 0
    BY <1>2, NodeParts
  <2> QED BY <2>1
<1>7. PICK rect, t : rect = BoxOf(n.entries) /\ t = InsertLeaf(g, r, id, rect)
  OBVIOUS
<1>8. rect \in Box
  BY <1>6, <1>7, BoxOfType
<1>9. PICK gone2 : gone2 = IF t.first = r THEN gone ELSE gone \cup {t.first}
  OBVIOUS
<1>10. PICK l2 : Left(g, lv, gone, r, id, t, gone2, l2)
  <2>1. id \in DOMAIN g /\ g[id].leaf /\ g[id].entries # << >> /\ id \notin Used(g, gone)
        /\ narrow \subseteq DOMAIN g
    BY <1>2, <1>4, <1>5, <1>6
  <2> QED BY <1>4, <1>7, <1>8, <1>9, <2>1, RootLeft
<1>11. PICK w : w = WithLeaf(s, id, n)
  OBVIOUS
<1>12. w = [file |-> t.file, narrow |-> s.narrow \cup t.narrow, dropped |-> gone2]
  BY <1>1, <1>3, <1>7, <1>9, <1>11, Zenon DEF WithLeaf
<1>13. w.file = t.file /\ w.narrow = s.narrow \cup t.narrow /\ w.dropped = gone2
  BY <1>12
<1>14. /\ Standing(t.file, l2, gone2, r) /\ t.narrow \subseteq DOMAIN t.file
       /\ DOMAIN f \subseteq DOMAIN t.file
       /\ \A x \in DOMAIN f : l2[x] = lv[x] /\ t.file[x].leaf = f[x].leaf
       /\ UsedBy(g, gone, id, t.file, gone2)
  BY <1>5, <1>10 DEF Left, LeavesKept
<1>15. UsedBy(f, gone, id, t.file, gone2)
  BY <1>4, <1>5, <1>14 DEF UsedBy
<1>16. Bulk(w, l2)
  BY <1>1, <1>2, <1>12, <1>13, <1>14 DEF Bulk
<1>17. LeafIn(s, lv, id, w, l2)
  BY <1>1, <1>13, <1>14, <1>15, <1>16 DEF LeafIn
<1>18. LeafWritten(f, id, n, w.file)
  <2>1. LeavesKept(g, lv, t.file, l2)
    BY <1>10 DEF Left
  <2>2. LeafWritten(f, id, n, t.file)
    BY <1>2, <1>5, <2>1, KeptWritten
  <2> QED BY <1>13, <2>2
<1>19. Brings(s, id, w)
  <2>1. Hangs(g, gone, r, id, t)
    <3>1. /\ id \in DOMAIN g /\ g[id].leaf /\ g[id].entries # << >> /\ id \notin Used(g, gone)
          /\ narrow \subseteq DOMAIN g
      BY <1>2, <1>4, <1>5, <1>6
    <3> QED BY <1>4, <1>7, <1>8, <1>9, <3>1, RootLeft
  <2>2. \A x \in DOMAIN f : x # id => g[x] = f[x]
    BY <1>2, <1>3, <1>5
  <2>3. \A but : Inners(g, but) = Inners(f, but) /\ \A x \in Inners(f, but) : g[x].entries = f[x].entries
    <3>1. \A x \in DOMAIN f : g[x].leaf = f[x].leaf /\ (~f[x].leaf => g[x] = f[x])
      BY <1>2, <1>5, <2>2
    <3> QED BY <1>5, <3>1 DEF Inners
  <2>4. Used(g, {}) = Used(f, {})
    BY <2>3 DEF Used
  <2>5. gone \subseteq gone2 /\ (t.first = r \/ t.first \in gone2) /\ r \in DOMAIN f
    BY <1>2, <1>9 DEF Standing
  <2>6. ASSUME NEW x \in DOMAIN w.file
        PROVE  x \in DOMAIN s.file \/ x \in Used(w.file, {}) \/ x \in w.dropped
    BY <1>1, <1>5, <1>13, <2>1, <2>5 DEF Hangs
  <2>7. ASSUME Covered(f, s.narrow, gone, 0) PROVE Covered(t.file, s.narrow \cup t.narrow, gone2, 0)
    <3>1. \A u \in Used(f, gone) : g[u].entries = f[u].entries
      <4>1. \A u \in Used(f, gone) : u \in DOMAIN f /\ u # id
        BY <1>2, StandingFile
      <4> QED BY <2>2, <4>1
    <3>2. Covered(g, s.narrow, gone, 0)
      BY <1>5, <2>3, <2>7, <3>1, CoveredSame
    <3>3. Covered(t.file, s.narrow \cup t.narrow, gone, 0)
      BY <2>1, <3>2 DEF Hangs
    <3> QED BY <2>5, <3>3 DEF Covered, Inners
  <2>8. /\ Used(f, {}) \subseteq Used(t.file, {}) /\ id \in Used(t.file, {})
    BY <2>1, <2>4 DEF Hangs
  <2> QED BY <1>1, <1>13, <2>5, <2>6, <2>7, <2>8 DEF Brings
<1> QED BY <1>1, <1>11, <1>17, <1>18, <1>19

AddOne(s, trj) == WithLeaf(s, sidmap[trj], nodemap[trj])

AddAll(base, q) == FoldLeft(LAMBDA s, trj : AddOne(s, trj), base, q)

(* The leaves endBulkLoad adds, one after the other.                       *)
LEMMA AddFold ==
  ASSUME NEW base, NEW q, NEW n \in Nat, DOMAIN q = 1 .. n
  PROVE  \E h : /\ h[0] = base /\ AddAll(base, q) = h[n]
                /\ \A k \in 0 .. n - 1 : h[k + 1] = AddOne(h[k], q[k + 1])
<1> DEFINE next(it, s) == IF s = {} THEN base ELSE AddOne(it[s \ {Max(s)}], q[Max(s)])
           Step(it) == [s \in SUBSET DOMAIN q |->
                          IF s = {} THEN base ELSE AddOne(it[s \ {Max(s)}], q[Max(s)])]
           F == CHOOSE it : it = Step(it)
           G == {k \in 0 .. n : \E it : it = [s \in Small(n, k) |-> next(it, s)]}
<1>1. 0 \in G
  <2> DEFINE it == [s \in Small(n, 0) |-> base]
  <2>1. it = [s \in Small(n, 0) |-> next(it, s)]
    <3>1. \A s \in Small(n, 0) : next(it, s) = base
      BY SmallSets
    <3> HIDE DEF next
    <3> QED BY <3>1
  <2> HIDE DEF it, next
  <2> QED BY <2>1
<1>2. ASSUME NEW k \in 0 .. n - 1, k \in G PROVE k + 1 \in G
  <2>1. PICK it : it = [s \in Small(n, k) |-> next(it, s)]
    BY <1>2
  <2> DEFINE more == [s \in Small(n, k + 1) |-> next(it, s)]
  <2>2. k \in Nat /\ k + 1 \in 0 .. n
    OBVIOUS
  <2>3. \A s \in Small(n, k) : more[s] = it[s]
    <3>1. \A s \in Small(n, k) : s \in Small(n, k + 1)
      BY <2>2, SmallSets
    <3> HIDE DEF next
    <3> QED BY <2>1, <3>1
  <2>4. \A s \in Small(n, k + 1) : next(more, s) = next(it, s)
    <3>1. \A s \in Small(n, k + 1) : s # {} => s \ {Max(s)} \in Small(n, k)
      BY <2>2, SmallSets
    <3> HIDE DEF more
    <3> QED BY <2>3, <3>1
  <2>5. more = [s \in Small(n, k + 1) |-> next(more, s)]
    <3> HIDE DEF next
    <3> QED BY <2>4
  <2> HIDE DEF more, next
  <2> QED BY <2>2, <2>5
<1>3. n \in G
  <2>1. \A k \in 0 .. n : k \in G
    <3> HIDE DEF G
    <3> QED BY <1>1, <1>2, FromZero
  <2>2. n \in 0 .. n
    OBVIOUS
  <2> HIDE DEF G
  <2> QED BY <2>1, <2>2
<1>4. PICK it : it = [s \in SUBSET (1 .. n) |-> next(it, s)]
  <2>1. PICK it : it = [s \in Small(n, n) |-> next(it, s)]
    BY <1>3
  <2>2. Small(n, n) = SUBSET (1 .. n)
    BY SmallSets
  <2> HIDE DEF next
  <2> QED BY <2>1, <2>2
<1>5. it = Step(it)
  BY <1>4
<1>6. F = Step(F)
  BY <1>5, Zenon
<1>7. AddAll(base, q) = F[DOMAIN q]
  BY Zenon DEF AddAll, FoldLeft, MapThenFoldSet
<1> HIDE DEF F
<1> DEFINE h == [k \in 0 .. n |-> F[1 .. k]]
<1>8. F[{}] = base /\ 1 .. 0 = {}
  BY <1>6
<1>9. ASSUME NEW k \in 0 .. n - 1 PROVE F[1 .. k + 1] = AddOne(F[1 .. k], q[k + 1])
  <2>1. 1 .. k + 1 \in SUBSET DOMAIN q /\ 1 .. k + 1 # {} /\ k \in Nat
    <3>1. k \in Nat /\ 1 .. k + 1 \subseteq 1 .. n /\ 1 \in 1 .. k + 1
      OBVIOUS
    <3> QED BY <3>1
  <2>2. Max(1 .. k + 1) = k + 1 /\ (1 .. k + 1) \ {k + 1} = 1 .. k
    BY <2>1, MaxUpTo
  <2> QED BY <1>6, <2>1, <2>2
<1>10. /\ h[0] = base /\ h[n] = F[1 .. n]
       /\ \A k \in 0 .. n - 1 : h[k] = F[1 .. k] /\ h[k + 1] = F[1 .. k + 1]
  BY <1>8
<1>11. \A k \in 0 .. n - 1 : h[k + 1] = AddOne(h[k], q[k + 1])
  <2> HIDE DEF h
  <2> QED BY <1>9, <1>10
<1> HIDE DEF h
<1> QED BY <1>7, <1>10, <1>11

(* What is known of the leaves in memory.                                  *)
AllHeld(f, gone) ==
  \A trj \in Trj : sidmap[trj] # 0 =>
    HeldLeaf(f, gone, sidmap[trj], nodemap[trj]) /\ nodemap[trj].next = 0

HeldApart == \A a, b \in Trj : sidmap[a] # 0 /\ sidmap[a] = sidmap[b] => a = b

InMemory == {trj \in Trj : sidmap[trj] # 0}

AllIn(s, lv, t, l2) ==
  /\ Bulk(t, l2) /\ DOMAIN s.file \subseteq DOMAIN t.file
  /\ \A x \in DOMAIN s.file : l2[x] = lv[x] /\ t.file[x].leaf = s.file[x].leaf

(* The first k leaves of q are written, and no other.                      *)
AllWritten(f, q, k, g) ==
  /\ \A x \in DOMAIN f : f[x].leaf =>
       \/ \E j \in 1 .. k : sidmap[q[j]] = x /\ g[x] = nodemap[q[j]]
       \/ (\A j \in 1 .. k : sidmap[q[j]] # x) /\ g[x] = f[x]
  /\ \A x \in DOMAIN g : x \notin DOMAIN f => ~g[x].leaf

(* What the first k leaves of q have brought along.                        *)
AllBrought(s, q, k, t) ==
  /\ Used(s.file, {}) \subseteq Used(t.file, {}) /\ s.dropped \subseteq t.dropped
  /\ \A j \in 1 .. k : sidmap[q[j]] \in Used(t.file, {})
  /\ \A x \in DOMAIN t.file : x \in DOMAIN s.file \/ x \in Used(t.file, {}) \/ x \in t.dropped
  /\ Covered(s.file, s.narrow, s.dropped, 0) => Covered(t.file, t.narrow, t.dropped, 0)

(* After k of the leaves.                                                  *)
SomeIn(s, lv, q, k, t, l2) ==
  /\ AllIn(s, lv, t, l2)
  /\ \A u \in Used(t.file, t.dropped) :
       u \in Used(s.file, s.dropped) \/ u \notin DOMAIN s.file \/ \E j \in 1 .. k : u = sidmap[q[j]]
  /\ AllWritten(s.file, q, k, t.file) /\ AllBrought(s, q, k, t)

(* endBulkLoad adds one of the leaves.                                     *)
LEMMA OneMoreIn ==
  ASSUME NEW s, NEW lv, Bulk(s, lv), AllHeld(s.file, s.dropped),
         ~s.file[rootId].leaf => HeldApart,
         NEW n \in Nat, NEW q \in [1 .. n -> InMemory], Rising(q), NEW k \in 0 .. n - 1,
         NEW t, NEW lt, SomeIn(s, lv, q, k, t, lt)
  PROVE  \E l2 : SomeIn(s, lv, q, k + 1, AddOne(t, q[k + 1]), l2)
<1>1. /\ Bulk(t, lt) /\ DOMAIN s.file \subseteq DOMAIN t.file
      /\ \A x \in DOMAIN s.file : lt[x] = lv[x] /\ t.file[x].leaf = s.file[x].leaf
      /\ rootId \in DOMAIN s.file
  BY DEF SomeIn, AllIn, Bulk, Standing
<1>2. k \in Nat /\ k + 1 \in 1 .. n
  OBVIOUS
<1>3. PICK trj, id, m : trj = q[k + 1] /\ id = sidmap[trj] /\ m = nodemap[trj]
  OBVIOUS
<1>4. trj \in Trj /\ id # 0
  BY <1>2, <1>3 DEF InMemory
<1>5. HeldLeaf(s.file, s.dropped, id, m) /\ m.next = 0
  BY <1>3, <1>4 DEF AllHeld
<1>6. id \notin Used(t.file, t.dropped)
  <2>1. CASE s.file[rootId].leaf
    <3>1. t.file[rootId].leaf
      BY <1>1, <2>1
    <3>2. Used(t.file, t.dropped) = {}
      BY <1>1, <3>1 DEF Bulk, Standing
    <3> QED BY <3>2
  <2>2. CASE ~s.file[rootId].leaf
    <3>1. id \in DOMAIN s.file /\ id \notin Used(s.file, s.dropped)
      BY <1>5 DEF HeldLeaf
    <3>2. ASSUME NEW j \in 1 .. k PROVE id # sidmap[q[j]]
      <4>1. j \in 1 .. n /\ j < k + 1
        BY <1>2
      <4>2. q[j] \in Trj /\ q[j] < q[k + 1]
        BY <1>2, <4>1 DEF Rising, InMemory
      <4>3. q[j] \in Nat /\ trj \in Nat
        BY <1>4, <4>2, TBTreeAssumption
      <4>4. q[j] # trj
        BY <1>3, <4>2, <4>3
      <4> QED BY <1>3, <1>4, <2>2, <4>2, <4>4 DEF HeldApart
    <3> QED BY <3>1, <3>2 DEF SomeIn
  <2> QED BY <2>1, <2>2
<1>7. HeldLeaf(t.file, t.dropped, id, m) /\ Follower(m.next, id, t.file)
  BY <1>1, <1>5, <1>6 DEF HeldLeaf, Follower
<1>8. PICK l2 : LeafIn(t, lt, id, WithLeaf(t, id, m), l2)
  BY <1>1, <1>7, WithLeafIn
<1>9. PICK w : w = AddOne(t, q[k + 1])
  OBVIOUS
<1>10. LeafIn(t, lt, id, w, l2)
  BY <1>3, <1>8, <1>9 DEF AddOne
<1>11. AllIn(s, lv, w, l2)
  BY <1>1, <1>10 DEF LeafIn, AllIn
<1>12. ASSUME NEW u \in Used(w.file, w.dropped)
       PROVE  u \in Used(s.file, s.dropped) \/ u \notin DOMAIN s.file \/ \E j \in 1 .. k + 1 : u = sidmap[q[j]]
  <2>1. u \in Used(t.file, t.dropped) \/ u = id \/ u \notin DOMAIN t.file
    BY <1>10 DEF LeafIn, UsedBy
  <2>2. CASE u \in Used(t.file, t.dropped)
    <3>1. \A j \in 1 .. k : j \in 1 .. k + 1
      BY <1>2
    <3> QED BY <2>2, <3>1 DEF SomeIn
  <2>3. CASE u = id
    <3>1. k + 1 \in 1 .. k + 1
      BY <1>2
    <3> QED BY <1>3, <2>3, <3>1
  <2>4. CASE u \notin DOMAIN t.file
    BY <1>1, <2>4
  <2> QED BY <2>1, <2>2, <2>3, <2>4
<1>13. AllWritten(s.file, q, k + 1, w.file)
  <2>1. LeafWritten(t.file, id, m, w.file)
    BY <1>1, <1>3, <1>7, <1>9, WithLeafIn DEF AddOne
  <2>2. AllWritten(s.file, q, k, t.file)
    BY DEF SomeIn
  <2>3. k + 1 \in 1 .. k + 1 /\ 1 .. k \subseteq 1 .. k + 1
        /\ \A j \in 1 .. k + 1 : j \in 1 .. k \/ j = k + 1
    BY <1>2
  <2>4. ASSUME NEW x \in DOMAIN s.file, s.file[x].leaf
        PROVE  \/ \E j \in 1 .. k + 1 : sidmap[q[j]] = x /\ w.file[x] = nodemap[q[j]]
               \/ (\A j \in 1 .. k + 1 : sidmap[q[j]] # x) /\ w.file[x] = s.file[x]
    <3>1. CASE x = id
      BY <1>3, <2>1, <2>3, <3>1 DEF LeafWritten
    <3>2. CASE x # id
      <4>1. w.file[x] = t.file[x]
        BY <1>1, <2>1, <2>4, <3>2 DEF LeafWritten
      <4> QED BY <1>3, <2>2, <2>3, <2>4, <3>2, <4>1 DEF AllWritten
    <3> QED BY <3>1, <3>2
  <2>5. ASSUME NEW x \in DOMAIN w.file, x \notin DOMAIN s.file PROVE ~w.file[x].leaf
    <3>1. x # id
      BY <1>5, <2>5 DEF HeldLeaf
    <3> QED BY <2>1, <2>2, <2>5, <3>1 DEF LeafWritten, AllWritten
  <2> QED BY <2>4, <2>5 DEF AllWritten
<1>15. AllBrought(s, q, k + 1, w)
  <2>1. Brings(t, id, w)
    BY <1>1, <1>3, <1>7, <1>9, WithLeafIn DEF AddOne
  <2>2. AllBrought(s, q, k, t)
    BY DEF SomeIn
  <2>3. \A j \in 1 .. k + 1 : j \in 1 .. k \/ j = k + 1
    BY <1>2
  <2>4. \A j \in 1 .. k + 1 : sidmap[q[j]] \in Used(w.file, {})
    BY <1>3, <2>1, <2>2, <2>3 DEF Brings, AllBrought
  <2>5. ASSUME NEW x \in DOMAIN w.file PROVE x \in DOMAIN s.file \/ x \in Used(w.file, {}) \/ x \in w.dropped
    BY <2>1, <2>2 DEF Brings, AllBrought
  <2>6. Covered(s.file, s.narrow, s.dropped, 0) => Covered(w.file, w.narrow, w.dropped, 0)
    BY <2>1, <2>2 DEF Brings, AllBrought
  <2>7. Used(s.file, {}) \subseteq Used(w.file, {}) /\ s.dropped \subseteq w.dropped
    BY <2>1, <2>2 DEF Brings, AllBrought
  <2> QED BY <2>4, <2>5, <2>6, <2>7 DEF AllBrought
<1>14. SomeIn(s, lv, q, k + 1, w, l2)
  BY <1>11, <1>12, <1>13, <1>15 DEF SomeIn
<1> QED BY <1>9, <1>14

(* endBulkLoad adds all the leaves.                                        *)
LEMMA AddAllIn ==
  ASSUME NEW s, NEW lv, Bulk(s, lv), AllHeld(s.file, s.dropped),
         ~s.file[rootId].leaf => HeldApart,
         NEW n \in Nat, NEW q \in [1 .. n -> InMemory], Rising(q)
  PROVE  /\ \E l2 : AllIn(s, lv, AddAll(s, q), l2)
         /\ AllWritten(s.file, q, n, AddAll(s, q).file) /\ AllBrought(s, q, n, AddAll(s, q))
<1>1. DOMAIN q = 1 .. n
  OBVIOUS
<1>2. PICK h : /\ h[0] = s /\ AddAll(s, q) = h[n]
               /\ \A k \in 0 .. n - 1 : h[k + 1] = AddOne(h[k], q[k + 1])
  BY <1>1, AddFold
<1> DEFINE G == {k \in 0 .. n : \E l2 : SomeIn(s, lv, q, k, h[k], l2)}
<1>3. 0 \in G
  <2>1. AllWritten(s.file, q, 0, s.file)
    BY DEF AllWritten
  <2>2. SomeIn(s, lv, q, 0, s, lv)
    BY <2>1 DEF SomeIn, AllIn, AllBrought
  <2> QED BY <1>2, <2>2
<1>4. ASSUME NEW k \in 0 .. n - 1, k \in G PROVE k + 1 \in G
  <2>1. PICK lt : SomeIn(s, lv, q, k, h[k], lt)
    BY <1>4
  <2>2. \E l2 : SomeIn(s, lv, q, k + 1, AddOne(h[k], q[k + 1]), l2)
    <3> HIDE DEF G
    <3> QED BY <2>1, OneMoreIn
  <2>3. k + 1 \in 0 .. n
    OBVIOUS
  <2> QED BY <1>2, <2>2, <2>3
<1>5. \A k \in 0 .. n : k \in G
  <2> HIDE DEF G
  <2> QED BY <1>3, <1>4, FromZero
<1>6. n \in 0 .. n
  OBVIOUS
<1>7. PICK l2 : SomeIn(s, lv, q, n, h[n], l2)
  BY <1>5, <1>6
<1> QED BY <1>2, <1>7 DEF SomeIn

-----------------------------------------------------------------------------
(***************************************************************************)
(* The inductive invariant                                                 *)
(***************************************************************************)

(* With a tree in the file there are levels for its nodes, and the one of  *)
(* the root is the level the tree records.                                 *)
Ranked ==
  /\ rootId = 0 => file = << >> /\ level = 0
  /\ rootId # 0 => \E lv : Standing(file, lv, dropped, rootId) /\ level = lv[rootId] + 1

HeldOK ==
  /\ ~loading => InMemory = {}
  /\ IsFiniteSet(InMemory) /\ AllHeld(file, dropped)
  /\ rootId # 0 /\ ~file[rootId].leaf => HeldApart

IInv == TypeOK /\ Ranked /\ HeldOK

(* What a step does to the ways that lead to a node: no son is lost, and a *)
(* new node, a leaf that is no longer held and a root that is replaced are *)
(* sons of others.                                                         *)
HangsOn ==
  /\ Used(file, {}) \subseteq Used(file', {}) /\ dropped \subseteq dropped'
  /\ \A x \in DOMAIN file' : \/ x \in DOMAIN file \/ x \in Used(file', {})
                            \/ x \in dropped' \/ x \in Held' \/ x = rootId'
  /\ \A x \in Held : x \in Held' \/ x \in Used(file', {})
  /\ rootId = rootId' \/ rootId \in Used(file', {}) \/ rootId = 0

(* Entries have room for the nodes they refer to.                          *)
Roomy == Covered(file, narrow, dropped, 0)

KeepsRoom == Roomy => Roomy'

(* Inner nodes are as before, and new nodes are leaves.                    *)
InnersSame(f, g) ==
  /\ DOMAIN f \subseteq DOMAIN g
  /\ \A x \in DOMAIN f : g[x].leaf = f[x].leaf /\ (~f[x].leaf => g[x].entries = f[x].entries)
  /\ \A x \in DOMAIN g : x \notin DOMAIN f => g[x].leaf

(* Then the same nodes are sons.                                           *)
LEMMA InnersUsed ==
  ASSUME NEW f, NEW g, InnersSame(f, g)
  PROVE  \A gone : Inners(g, gone) = Inners(f, gone) /\ Used(g, gone) = Used(f, gone)
<1>1. ASSUME NEW gone PROVE Inners(g, gone) = Inners(f, gone) /\ Used(g, gone) = Used(f, gone)
  <2>1. Inners(g, gone) = Inners(f, gone)
    BY DEF InnersSame, Inners
  <2>2. \A x \in Inners(f, gone) : g[x].entries = f[x].entries
    BY DEF InnersSame, Inners
  <2> QED BY <2>1, <2>2 DEF Used
<1> QED BY <1>1

(* With the entries of the leaves as they were, entries keep their room.   *)
LEMMA InnersCovered ==
  ASSUME NEW f, NEW lv, NEW gone, Levelled(f, lv, gone), NEW g, InnersSame(f, g),
         \A x \in DOMAIN f : g[x].entries = f[x].entries, NEW nr, Covered(f, nr, gone, 0)
  PROVE  Covered(g, nr, gone, 0)
<1>1. f \in Seq(Node)
  BY DEF Levelled
<1>2. Inners(g, gone) = Inners(f, gone) /\ Inners(f, gone) \subseteq DOMAIN f
  <2>1. Inners(g, gone) = Inners(f, gone)
    BY InnersUsed
  <2>2. Inners(f, gone) \subseteq DOMAIN f
    BY DEF Inners
  <2> QED BY <2>1, <2>2
<1>3. \A u \in Used(f, gone) : g[u].entries = f[u].entries
  BY UsedInFile
<1>4. \A x \in Inners(f, gone) : g[x].entries = f[x].entries
  BY <1>2
<1>5. Inners(g, gone) = Inners(f, gone)
  BY <1>2
<1> QED BY <1>1, <1>3, <1>4, <1>5, CoveredSame

(* The invariant holds at first.                                           *)
LEMMA InitInv == Init => IInv
<1> SUFFICES ASSUME Init PROVE IInv
  OBVIOUS
<1> USE DEF Init
<1>1. \A trj \in Trj : Leaf(<< >>, trj) \in Node
  BY TBTreeAssumption DEF Leaf, Node
<1>2. file \in Seq(Node) /\ Len(file) = 0 /\ DOMAIN file = {}
  OBVIOUS
<1>3. nodemap \in [Trj -> Node] /\ sidmap \in [Trj -> 0 .. Len(file)]
  BY <1>1, <1>2
<1>4. given \in Seq([trj : Trj, box : Box])
  OBVIOUS
<1>5. TypeOK
  <2>1. rootId \in 0 .. Len(file) /\ narrow \subseteq DOMAIN file /\ dropped \subseteq DOMAIN file
    BY <1>2
  <2>2. level \in Nat /\ noEntries \in Nat /\ noNodes \in Nat /\ noLeafNodes \in Nat
    OBVIOUS
  <2>3. bulkloading \in BOOLEAN /\ loading \in BOOLEAN
    OBVIOUS
  <2> QED BY ONLY <1>2, <1>3, <1>4, <2>1, <2>2, <2>3 DEF TypeOK
<1>6. InMemory = {}
  BY DEF InMemory
<1>7. IsFiniteSet(InMemory)
  BY <1>6, FS_EmptySet
<1>8. AllHeld(file, dropped) /\ HeldApart
  BY DEF AllHeld, HeldApart
<1>9. Ranked
  BY DEF Ranked
<1> QED BY <1>5, <1>6, <1>7, <1>8, <1>9 DEF IInv, HeldOK

(* A file that has more places is longer.                                  *)
LEMMA LenGrows ==
  ASSUME NEW f \in Seq(Node), NEW g \in Seq(Node), DOMAIN f \subseteq DOMAIN g
  PROVE  Len(g) - Len(f) \in Nat /\ 0 .. Len(f) \subseteq 0 .. Len(g)
<1>1. PICK n, m : n = Len(f) /\ m = Len(g)
  OBVIOUS
<1>2. n \in Nat /\ m \in Nat /\ DOMAIN f = 1 .. n /\ DOMAIN g = 1 .. m
  BY <1>1
<1>3. n <= m
  <2>1. CASE n = 0
    BY <1>2, <2>1
  <2>2. CASE n # 0
    <3>1. n \in 1 .. n
      BY <1>2, <2>2
    <3> QED BY <1>2, <3>1
  <2> QED BY <2>1, <2>2
<1> QED BY <1>1, <1>2, <1>3

(* The fields of a new leaf.                                               *)
LEMMA LeafNode ==
  ASSUME NEW es \in Seq(Entry), NEW trj \in Trj
  PROVE  /\ Leaf(es, trj) \in Node /\ Leaf(es, trj).leaf
         /\ Leaf(es, trj).entries = es /\ Leaf(es, trj).next = 0
BY TBTreeAssumption DEF Leaf, Node

(* What an insertion adds.                                                 *)
LEMMA UnitGiven ==
  ASSUME TypeOK, NEW trj \in Trj, NEW b \in UnitBox, Given(trj, b)
  PROVE  /\ given' \in Seq([trj : Trj, box : Box]) /\ noEntries' \in Nat
         /\ Unit(b) \in Entry /\ b \in Box
         /\ <<Unit(b)>> \in Seq(Entry) /\ Len(<<Unit(b)>>) = 1
         /\ Leaf(<<Unit(b)>>, trj) \in Node
         /\ Leaf(<<Unit(b)>>, trj).leaf /\ Leaf(<<Unit(b)>>, trj).next = 0
         /\ Leaf(<<Unit(b)>>, trj).entries = <<Unit(b)>>
<1>1. b \in Box
  BY TBTreeAssumption
<1>2. [trj |-> trj, box |-> b] \in [trj : Trj, box : Box]
  BY <1>1
<1>3. given' \in Seq([trj : Trj, box : Box]) /\ noEntries' \in Nat
  BY <1>2 DEF TypeOK, Given
<1>4. Unit(b) \in Entry
  <2>1. TupleId \in Nat \ {0}
    BY DEF TupleId, TypeOK
  <2> QED BY <1>1, <2>1 DEF Unit, Entry
<1>5. <<Unit(b)>> \in Seq(Entry) /\ Len(<<Unit(b)>>) = 1
  BY <1>4
<1>6. /\ Leaf(<<Unit(b)>>, trj) \in Node
      /\ Leaf(<<Unit(b)>>, trj).leaf /\ Leaf(<<Unit(b)>>, trj).next = 0
      /\ Leaf(<<Unit(b)>>, trj).entries = <<Unit(b)>>
  BY <1>5, LeafNode
<1> QED BY <1>1, <1>3, <1>4, <1>5, <1>6

(* Without a bulk load there are no leaves in memory.                      *)
LEMMA IdleHeld ==
  ASSUME HeldOK, ~loading, sidmap' = sidmap
  PROVE  HeldOK'
<1>1. InMemory = {} /\ InMemory' = InMemory
  BY DEF HeldOK, InMemory
<1>2. IsFiniteSet(InMemory')
  BY <1>1, FS_EmptySet
<1>3. \A trj \in Trj : sidmap'[trj] = 0
  BY <1>1 DEF InMemory
<1>4. AllHeld(file, dropped)' /\ HeldApart'
  BY <1>3 DEF AllHeld, HeldApart
<1> QED BY <1>1, <1>2, <1>4 DEF HeldOK

(* The tree in the file, and what is known of it.                          *)
LEMMA TreeRanked ==
  ASSUME IInv, rootId # 0
  PROVE  \E lv : /\ Standing(file, lv, dropped, rootId) /\ level = lv[rootId] + 1
                 /\ lv[rootId] \in Nat
<1>1. PICK lv : Standing(file, lv, dropped, rootId) /\ level = lv[rootId] + 1
  BY DEF IInv, Ranked
<1>2. lv \in [DOMAIN file -> Nat] /\ rootId \in DOMAIN file
  BY <1>1, StandingFile DEF Standing
<1> QED BY <1>1, <1>2

(* The first unit: its leaf is the tree.                                   *)
LEMMA InsertFirstKeeps ==
  ASSUME IInv, NEW trj \in Trj, NEW b \in UnitBox, InsertFirst(trj, b)
  PROVE  IInv' /\ HangsOn /\ KeepsRoom
<1> USE DEF InsertFirst
<1>1. TypeOK /\ rootId = 0 /\ file = << >> /\ level = 0 /\ Given(trj, b) /\ HeldOK
  BY DEF IInv, Ranked
<1>2. PICK n : n = Leaf(<<Unit(b)>>, trj)
  OBVIOUS
<1>3. n \in Node /\ n.leaf /\ n.next = 0 /\ Len(n.entries) = 1 /\ n.entries # << >>
  <2>1. /\ n \in Node /\ n.leaf /\ n.next = 0 /\ n.entries = <<Unit(b)>> /\ Len(<<Unit(b)>>) = 1
    BY ONLY <1>1, <1>2, UnitGiven, Zenon
  <2> QED BY ONLY <2>1
<1>4. PICK g : g = file'
  OBVIOUS
<1>5. g = <<n>> /\ rootId' = 1 /\ level' = 1 /\ dropped' = {} /\ narrow' = {} /\ sidmap' = sidmap
  <2>1. dropped \subseteq {} /\ narrow \subseteq {}
    BY <1>1 DEF TypeOK
  <2> QED BY <1>1, <1>2, <1>4, <2>1
<1>6. g \in Seq(Node) /\ Len(g) = 1 /\ DOMAIN g = {1} /\ g[1] = n
  BY <1>3, <1>5
<1>7. PICK lv : lv = [x \in {1} |-> 0]
  OBVIOUS
<1>8. Inners(g, {}) = {}
  BY <1>3, <1>6 DEF Inners
<1>9. Used(g, {}) = {} /\ Once(g, {})
  BY <1>8 DEF Used, Once
<1>10. Levelled(g, lv, {})
  BY <1>3, <1>6, <1>7 DEF Levelled
<1>11. Sized(g, {1} \cup {})
  <2>1. Fits(n, 1, {1} \cup {})
    BY <1>3, TBTreeAssumption DEF Fits
  <2> QED BY <1>6, <2>1 DEF Sized
<1>12. Chained(g)
  BY <1>3, <1>6 DEF Chained, Follower
<1>13. Shape(g, lv, {}, {1} \cup {})
  BY <1>9, <1>10, <1>11 DEF Shape
<1>14. Standing(g, lv, {}, 1)
  BY <1>3, <1>6, <1>9, <1>12, <1>13 DEF Standing
<1>15. Ranked'
  <2>1. level' = lv[rootId'] + 1 /\ rootId' # 0
    BY <1>5, <1>7
  <2> QED BY <1>4, <1>5, <1>14, <2>1 DEF Ranked
<1>16. TypeOK'
  <2>1. given' \in Seq([trj : Trj, box : Box]) /\ noEntries' \in Nat
    BY <1>1, UnitGiven
  <2>2. sidmap' \in [Trj -> 0 .. Len(file')]
    <3>1. Len(file) = 0 /\ Len(file') = 1 /\ sidmap \in [Trj -> 0 .. 0]
      BY <1>1, <1>4, <1>6 DEF TypeOK
    <3> QED BY <1>5, <3>1
  <2>3. /\ rootId' \in 0 .. Len(file') /\ level' \in Nat /\ file' \in Seq(Node)
        /\ narrow' \subseteq DOMAIN file' /\ dropped' \subseteq DOMAIN file'
    BY <1>4, <1>5, <1>6
  <2>4. /\ noNodes' \in Nat /\ noLeafNodes' \in Nat /\ bulkloading' \in BOOLEAN /\ loading' \in BOOLEAN
        /\ nodemap' \in [Trj -> Node]
    BY <1>1 DEF TypeOK
  <2> QED BY <2>1, <2>2, <2>3, <2>4 DEF TypeOK
<1>17. HeldOK'
  BY <1>1, <1>5, IdleHeld
<1>18. HangsOn
  <2>1. Used(file, {}) = {}
    BY <1>1 DEF Used, Inners
  <2>2. dropped \subseteq dropped' /\ Held' = Held
    BY <1>1, <1>5 DEF Held
  <2>3. \A x \in DOMAIN file' : x = rootId'
    BY <1>4, <1>5, <1>6
  <2> QED BY <1>1, <2>1, <2>2, <2>3 DEF HangsOn
<1>19. Roomy'
  <2>1. Covered(g, {}, {}, 0)
    BY <1>8 DEF Covered
  <2> QED BY <1>4, <1>5, <2>1 DEF Roomy
<1> QED BY <1>15, <1>16, <1>17, <1>18, <1>19 DEF IInv, KeepsRoom

(* What stays typed when the file grows.                                   *)
LEMMA FileGrows ==
  ASSUME TypeOK, NEW g \in Seq(Node), DOMAIN file \subseteq DOMAIN g
  PROVE  /\ rootId \in 0 .. Len(g) /\ sidmap \in [Trj -> 0 .. Len(g)]
         /\ narrow \subseteq DOMAIN g /\ dropped \subseteq DOMAIN g
         /\ DOMAIN g \subseteq 0 .. Len(g)
         /\ noNodes + (Len(g) - Len(file)) \in Nat
<1>1. Len(g) - Len(file) \in Nat /\ 0 .. Len(file) \subseteq 0 .. Len(g)
  BY LenGrows DEF TypeOK
<1>2. DOMAIN g \subseteq 0 .. Len(g)
  OBVIOUS
<1>3. rootId \in 0 .. Len(g)
  BY <1>1 DEF TypeOK
<1>4. sidmap \in [Trj -> 0 .. Len(g)]
  BY <1>1 DEF TypeOK
<1>5. narrow \subseteq DOMAIN g /\ dropped \subseteq DOMAIN g
  BY DEF TypeOK
<1>6. noNodes + (Len(g) - Len(file)) \in Nat
  <2>1. noNodes \in Nat
    BY DEF TypeOK
  <2> QED BY <1>1, <2>1
<1> QED BY <1>2, <1>3, <1>4, <1>5, <1>6

(* A unit more in a leaf that is not full.                                 *)
OneUnitMore(n, b, m) ==
  /\ m \in Node /\ m.leaf = n.leaf /\ m.next = n.next /\ m.trj = n.trj
  /\ m.entries = Append(n.entries, Unit(b)) /\ Len(m.entries) = Len(n.entries) + 1
  /\ m.entries # << >>

(* The fields of a leaf that took a unit.                                  *)
LEMMA UnitAdded ==
  ASSUME NEW n \in Node, NEW b, Unit(b) \in Entry,
         NEW m, m = [n EXCEPT !.entries = Append(@, Unit(b))]
  PROVE  OneUnitMore(n, b, m)
<1>1. n.entries \in Seq(Entry) /\ n.leaf \in BOOLEAN /\ n.next \in Nat /\ n.trj \in Nat
  BY NodeParts
<1>2. PICK u : u = Unit(b)
  OBVIOUS
<1>3. PICK x : x = Append(n.entries, u)
  OBVIOUS
<1>4. x \in Seq(Entry) /\ Len(x) = Len(n.entries) + 1 /\ x # << >>
  BY <1>1, <1>2, <1>3
<1>5. m = [n EXCEPT !.entries = x]
  BY <1>2, <1>3
<1>6. m \in Node /\ m.leaf = n.leaf /\ m.next = n.next /\ m.trj = n.trj /\ m.entries = x
  BY <1>4, <1>5 DEF Node
<1> QED BY <1>2, <1>3, <1>4, <1>6 DEF OneUnitMore

(* The number of units in a leaf.                                          *)
LEMMA LeafSize ==
  ASSUME NEW f, NEW lv, NEW gone, NEW r, Standing(f, lv, gone, r), NEW id \in DOMAIN f, f[id].leaf
  PROVE  Len(f[id].entries) \in 0 .. LeafMax - 1
BY DEF Standing, Shape, Sized, Fits

(* Below the new root, if there is one, sons come from sons.               *)
SonsStay ==
  \E half : SonsFrom(file, dropped, Len(file) + 1, file', dropped \cup ({rootId'} \ {rootId}), half)

(* A last leaf of trj in the file, without a next.                         *)
LastOf(trj, id) == id \in DOMAIN file /\ file[id].leaf /\ file[id].trj = trj /\ file[id].next = 0

(* A last leaf of trj has a unit more, and the other leaves are as before. *)
UnitWritten(trj, b) ==
  /\ DOMAIN file' = DOMAIN file
  /\ \E leaf, n : /\ LastOf(trj, leaf) /\ OneUnitMore(file[leaf], b, n)
                  /\ LeafWritten(file, leaf, n, file')

(* insert finds the last leaf of the trajectory, which is not full.        *)
LEMMA InsertIntoLeafKeeps ==
  ASSUME IInv, NEW trj \in Trj, NEW b \in UnitBox, InsertIntoLeaf(trj, b)
  PROVE  IInv' /\ UnitWritten(trj, b) /\ HangsOn /\ KeepsRoom /\ SonsStay
<1>1. PICK path, leaf, u, f :
        /\ path = SearchNode(file, rootId, b, trj) /\ leaf = Last(path).id /\ u = Unit(b)
        /\ f = [file EXCEPT ![leaf].entries = Append(@, u)]
  OBVIOUS
<1>2. /\ ~loading /\ rootId # 0 /\ path # << >> /\ ~IsFull(file[leaf]) /\ Given(trj, b)
      /\ file' = UpdatePath(f, path, BoxOf(f[leaf].entries))
      /\ UNCHANGED <<rootId, level, noNodes, noLeafNodes, bulkloading, loading,
                     nodemap, sidmap, narrow, dropped>>
  BY <1>1 DEF InsertIntoLeaf
<1>3. PICK lv : Standing(file, lv, dropped, rootId) /\ level = lv[rootId] + 1
  BY <1>2, TreeRanked
<1>4. TypeOK /\ HeldOK /\ file \in Seq(Node) /\ Levelled(file, lv, dropped) /\ rootId \in DOMAIN file
  BY <1>3, StandingFile DEF IInv, Standing
<1>5. LeadsTo(file, rootId, trj, path)
  BY <1>1, <1>2, <1>4, SearchNodeLeads
<1>6. LastOf(trj, leaf) /\ file[leaf] \in Node
  BY <1>1, <1>4, <1>5 DEF LeadsTo, LastOf
<1> USE DEF LastOf
<1>7. u \in Entry
  BY <1>1, <1>2, <1>4, UnitGiven
<1>8. PICK n : n = [file[leaf] EXCEPT !.entries = Append(@, u)]
  OBVIOUS
<1>9. OneUnitMore(file[leaf], b, n)
  BY <1>1, <1>6, <1>7, <1>8, UnitAdded
<1>10. f = [file EXCEPT ![leaf] = n]
  BY <1>1, <1>6, <1>8
<1>11. Writable(file, leaf, n)
  <2>1. Len(file[leaf].entries) \in 0 .. LeafMax - 1
    BY <1>3, <1>6, LeafSize
  <2>2. PICK k : k = Len(file[leaf].entries)
    OBVIOUS
  <2>3. Len(n.entries) = k + 1 /\ k # LeafMax - 1 /\ k \in 0 .. LeafMax - 1
    BY <1>2, <1>9, <2>1, <2>2 DEF IsFull, OneUnitMore
  <2>4. Len(n.entries) \in 1 .. LeafMax - 1
    BY <2>3, TBTreeAssumption
  <2> QED BY <1>6, <1>9, <2>4 DEF Writable, OneUnitMore, Follower
<1>12. StaysWith(file, lv, dropped, rootId, f)
  BY <1>3, <1>10, <1>11, LeafPut
<1>13. f \in Seq(Node) /\ DOMAIN f = DOMAIN file /\ f[leaf] = n /\ \A x \in DOMAIN file : x # leaf => f[x] = file[x]
  BY <1>4, <1>6, <1>9, <1>10 DEF OneUnitMore
<1>14. Steady(f, file')
  <2>1. ASSUME NEW j \in 1 .. Len(path) - 1 PROVE Place(f, path[j])
    <3>1. Place(file, path[j])
      BY <1>5 DEF LeadsTo
    <3> QED BY <1>6, <1>13, <3>1 DEF Place
  <2>2. f[leaf].entries \in Seq(Entry) /\ f[leaf].entries # << >>
    BY <1>9, <1>13, NodeParts DEF OneUnitMore
  <2>3. BoxOf(f[leaf].entries) \in Box
    BY <2>2, BoxOfType
  <2>4. path \in Seq(Turn)
    BY <1>5 DEF LeadsTo
  <2> QED BY <1>2, <1>13, <2>1, <2>3, <2>4, UpdatePathSteady
<1>15. Standing(file', lv, dropped, rootId)
  BY <1>12, <1>14, SteadyStanding DEF StaysWith
<1>16. Ranked'
  BY <1>2, <1>3, <1>15 DEF Ranked
<1>17. file' \in Seq(Node) /\ DOMAIN file' = DOMAIN file
  BY <1>13, <1>14 DEF Steady
<1>18. TypeOK'
  <2>1. given' \in Seq([trj : Trj, box : Box]) /\ noEntries' \in Nat
    BY <1>2, <1>4, UnitGiven
  <2>2. /\ rootId \in 0 .. Len(file') /\ sidmap \in [Trj -> 0 .. Len(file')]
        /\ narrow \subseteq DOMAIN file' /\ dropped \subseteq DOMAIN file'
    BY <1>4, <1>17, FileGrows
  <2>3. /\ level \in Nat /\ noNodes \in Nat /\ noLeafNodes \in Nat /\ bulkloading \in BOOLEAN
        /\ loading \in BOOLEAN /\ nodemap \in [Trj -> Node]
    BY <1>4 DEF TypeOK
  <2> QED BY <1>2, <1>17, <2>1, <2>2, <2>3 DEF TypeOK
<1>19. HeldOK'
  BY <1>2, <1>4, IdleHeld
<1>20. UnitWritten(trj, b)
  <2>1. n.leaf
    BY <1>6, <1>9 DEF OneUnitMore
  <2>2. LeafWritten(file, leaf, n, file')
    BY <1>6, <1>13, <1>14, <2>1 DEF Steady, Alike, LeafWritten
  <2> QED BY <1>6, <1>9, <1>17, <2>2 DEF UnitWritten
<1>21. HangsOn
  <2>1. InnersSame(file, f)
    BY <1>6, <1>9, <1>13 DEF InnersSame, OneUnitMore
  <2>2. Used(f, {}) = Used(file, {})
    BY <2>1, InnersUsed
  <2>3. Used(file', {}) = Used(f, {})
    BY <1>14, SteadyUsed
  <2>4. Held' = Held /\ rootId' = rootId /\ dropped' = dropped
    BY <1>2 DEF Held
  <2> QED BY <1>17, <2>2, <2>3, <2>4 DEF HangsOn
<1>22. KeepsRoom
  <2> SUFFICES ASSUME Roomy PROVE Roomy'
    BY DEF KeepsRoom
  <2>1. /\ Standing(f, lv, dropped, rootId) /\ Levelled(f, lv, dropped) /\ Once(f, dropped)
        /\ rootId \notin dropped /\ rootId \notin Used(f, dropped)
    BY <1>12, StandingFile DEF StaysWith, Standing, Shape
  <2>2. f[leaf].leaf /\ f[leaf].entries # << >>
    BY <1>6, <1>9, <1>13 DEF OneUnitMore
  <2>3. PICK box : box = BoxOf(f[leaf].entries)
    OBVIOUS
  <2>4. Widened(file, f, lv, narrow, dropped, leaf, box)
    BY <1>4, <1>6, <1>13, <2>1, <2>2, <2>3 DEF Widened, Roomy
  <2>5. Descends(f, rootId, path, leaf)
    <3>1. /\ path \in Seq(Turn) /\ path # << >> /\ path[1].id = rootId /\ path[Len(path)].id = leaf
      BY <1>1, <1>5 DEF LeadsTo, Last
    <3>2. ASSUME NEW j \in 1 .. Len(path) - 1
          PROVE  Place(f, path[j]) /\ path[j + 1].id = f[path[j].id].entries[path[j].at].ref
      <4>1. Place(file, path[j]) /\ path[j + 1].id = file[path[j].id].entries[path[j].at].ref
        BY <1>5 DEF LeadsTo
      <4>2. f[path[j].id] = file[path[j].id]
        BY <1>6, <1>13, <4>1 DEF Place
      <4> QED BY <1>13, <4>1, <4>2 DEF Place
    <3> QED BY <3>1, <3>2 DEF Descends
  <2>6. Covered(UpdatePath(f, path, box), narrow, dropped, 0)
    BY <2>1, <2>4, <2>5, UpdatePathCovers
  <2> QED BY <1>2, <2>3, <2>6 DEF Roomy
<1>23. SonsStay
  <2>1. PICK half : SonsFrom(file, dropped, Len(file) + 1, file, dropped, half)
    BY <1>4, SonsFromSelf
  <2>2. ASSUME NEW x \in Inners(file', dropped)
        PROVE  x \in Inners(file, dropped) /\ RefsOf(file'[x].entries) = RefsOf(file[x].entries)
    <3>1. x \in DOMAIN file /\ Alike(f[x], file'[x]) /\ (f[x].leaf => file'[x] = f[x])
      BY <1>13, <1>14, <1>17, <2>2 DEF Inners, Steady
    <3>2. x # leaf /\ f[x] = file[x]
      BY <1>6, <1>9, <1>13, <2>2, <3>1 DEF Inners, Alike, OneUnitMore
    <3> QED BY <2>2, <3>1, <3>2 DEF Inners, Alike, RefsOf
  <2>3. SonsFrom(file, dropped, Len(file) + 1, file', dropped, half)
    BY <2>1, <2>2 DEF SonsFrom
  <2>4. dropped \cup ({rootId'} \ {rootId}) = dropped
    BY <1>2
  <2> QED BY <2>3, <2>4 DEF SonsStay
<1> QED BY <1>16, <1>18, <1>19, <1>20, <1>21, <1>22, <1>23 DEF IInv

(* A full leaf is linked to the new one.                                   *)
Linked(f, lv, gone, r, g, n) ==
  /\ Standing(g, lv, gone, r) /\ Used(g, gone) = Used(f, gone)
  /\ DOMAIN g = (DOMAIN f) \cup {Len(f) + 1} /\ g[Len(f) + 1] = n /\ Len(f) + 1 \notin DOMAIN f
  /\ \A x \in DOMAIN f : g[x].leaf = f[x].leaf /\ g[x].entries = f[x].entries

(* The full leaf gets the new one as its next.                             *)
LEMMA NextLinked ==
  ASSUME NEW f, NEW lv, NEW gone, NEW r, Standing(f, lv, gone, r),
         NEW n \in Node, n.leaf, Len(n.entries) \in 0 .. LeafMax - 1, n.next = 0,
         NEW last \in DOMAIN f, f[last].leaf, IsFull(f[last]),
         NEW g, g = [Append(f, n) EXCEPT ![last].next = Len(f) + 1]
  PROVE  /\ Linked(f, More(f, lv, 0), gone, r, g, n)
         /\ LeafWritten([f EXCEPT ![last] = [@ EXCEPT !.next = Len(f) + 1]], Len(f) + 1, n, g)
<1>1. PICK m, mv, s : m = Len(f) + 1 /\ mv = More(f, lv, 0) /\ s = Append(f, n)
  OBVIOUS
<1>2. LeafMore(f, lv, gone, r, n, s)
  BY <1>1, LeafAdded
<1>3. /\ Standing(s, mv, gone, r) /\ Used(s, gone) = Used(f, gone)
      /\ DOMAIN s = (DOMAIN f) \cup {m} /\ m \notin DOMAIN f
      /\ s[m] = n /\ \A x \in DOMAIN f : s[x] = f[x]
  BY <1>1, <1>2 DEF LeafMore
<1>4. f \in Seq(Node) /\ f[last] \in Node /\ last < m /\ last # m /\ m \in Nat \ {0}
  <2>1. f \in Seq(Node)
    BY StandingFile
  <2> QED BY <1>1, <2>1
<1>5. PICK k : k = [f[last] EXCEPT !.next = m]
  OBVIOUS
<1>6. k \in Node /\ k.leaf /\ k.entries = f[last].entries /\ k.next = m
  BY <1>4, <1>5 DEF Node
<1>7. g = [s EXCEPT ![last] = k]
  <2>1. s[last] = f[last] /\ last \in DOMAIN s
    BY <1>3
  <2> QED BY <1>1, <1>5, <2>1
<1>8. Writable(s, last, k)
  <2>1. Len(k.entries) = LeafMax - 1
    BY <1>6 DEF IsFull
  <2>2. Len(k.entries) \in 1 .. LeafMax - 1
    BY <2>1, TBTreeAssumption
  <2>3. Follower(m, last, s)
    BY <1>3, <1>4 DEF Follower
  <2> QED BY <1>3, <1>6, <2>2, <2>3 DEF Writable
<1>9. StaysWith(s, mv, gone, r, g)
  BY <1>3, <1>7, <1>8, LeafPut
<1>10. DOMAIN g = DOMAIN s /\ g[m] = n /\ g[last] = k /\ \A x \in DOMAIN f : x # last => g[x] = f[x]
  BY <1>3, <1>4, <1>7
<1>11. PICK p : p = [f EXCEPT ![last] = k]
  OBVIOUS
<1>12. DOMAIN p = DOMAIN f /\ p[last] = k /\ \A x \in DOMAIN f : x # last => p[x] = f[x]
  BY <1>11
<1>13. LeafWritten(p, m, n, g)
  BY <1>3, <1>10, <1>12 DEF LeafWritten
<1>14. p = [f EXCEPT ![last] = [@ EXCEPT !.next = m]]
  BY <1>5, <1>11
<1>15. \A x \in DOMAIN f : g[x].leaf = f[x].leaf /\ g[x].entries = f[x].entries
  <2>1. k.leaf \in BOOLEAN /\ f[last].leaf \in BOOLEAN
    BY <1>4, <1>6, NodeParts
  <2>2. k.leaf = f[last].leaf
    BY <1>6, <2>1
  <2> QED BY <1>6, <1>10, <2>2
<1> QED BY <1>1, <1>3, <1>9, <1>10, <1>13, <1>14, <1>15 DEF Linked, StaysWith

(* The node n of record id has a next.                                     *)
WithNext(f, id, next) == [f EXCEPT ![id] = [@ EXCEPT !.next = next]]

(* A new leaf has the unit, and may be the next of a full last leaf of trj.*)
LeafMade(trj, b) ==
  \E f : /\ LeafWritten(f, Len(file) + 1, Leaf(<<Unit(b)>>, trj), file')
         /\ \/ f = file
            \/ \E last : /\ LastOf(trj, last) /\ IsFull(file[last])
                          /\ f = WithNext(file, last, Len(file) + 1)

(* insert makes a new leaf and puts it into the tree.                      *)
LEMMA InsertNewLeafKeeps ==
  ASSUME IInv, NEW trj \in Trj, NEW b \in UnitBox, InsertNewLeaf(trj, b)
  PROVE  IInv' /\ LeafMade(trj, b) /\ HangsOn /\ KeepsRoom /\ SonsStay
<1>1. PICK path, last, id, n, saved, linked :
        /\ path = SearchNode(file, rootId, b, trj) /\ last = Last(path).id
        /\ id = Len(file) + 1 /\ n = Leaf(<<Unit(b)>>, trj) /\ saved = Append(file, n)
        /\ linked = IF path = << >> THEN saved ELSE [saved EXCEPT ![last].next = id]
  OBVIOUS
<1>2. /\ ~loading /\ rootId # 0 /\ (path # << >> => IsFull(file[last])) /\ Given(trj, b)
      /\ noLeafNodes' = noLeafNodes + 1
      /\ UNCHANGED <<bulkloading, loading, nodemap, sidmap, dropped>>
  BY <1>1 DEF InsertNewLeaf
<1>3. PICK s : /\ s = InsertLeaf(linked, rootId, id, b)
               /\ file' = s.file /\ rootId' = s.first /\ narrow' = s.narrow
               /\ level' = IF s.first = rootId THEN level ELSE level + 1
               /\ noNodes' = noNodes + (Len(s.file) - Len(file))
  BY <1>1, Zenon DEF InsertNewLeaf
<1>4. PICK lv : Standing(file, lv, dropped, rootId) /\ level = lv[rootId] + 1 /\ lv[rootId] \in Nat
  BY <1>2, TreeRanked
<1>5. TypeOK /\ HeldOK /\ file \in Seq(Node) /\ Levelled(file, lv, dropped) /\ rootId \in DOMAIN file
  BY <1>4, StandingFile DEF IInv, Standing
<1>6. n \in Node /\ n.leaf /\ n.next = 0 /\ n.entries # << >> /\ Len(n.entries) \in 0 .. LeafMax - 1
  <2>1. n \in Node /\ n.leaf /\ n.next = 0 /\ n.entries = <<Unit(b)>> /\ Len(<<Unit(b)>>) = 1
    BY ONLY <1>1, <1>2, <1>5, UnitGiven, Zenon
  <2>2. Len(n.entries) = 1
    BY <2>1
  <2>3. n.entries # << >>
    BY ONLY <2>1
  <2> QED BY <2>1, <2>2, <2>3, TBTreeAssumption
<1>7. PICK mv : mv = More(file, lv, 0)
  OBVIOUS
<1>8. /\ Linked(file, mv, dropped, rootId, linked, n) /\ mv[rootId] = lv[rootId]
      /\ \E f : /\ LeafWritten(f, id, n, linked)
                /\ \/ f = file
                   \/ LastOf(trj, last) /\ IsFull(file[last]) /\ f = WithNext(file, last, id)
  <2>1. LeafMore(file, lv, dropped, rootId, n, saved)
    BY <1>1, <1>4, <1>6, LeafAdded
  <2>2. mv[rootId] = lv[rootId]
    BY <1>5, <1>7, <2>1 DEF LeafMore
  <2>3. CASE path = << >>
    <3>1. linked = saved
      BY <1>1, <2>3
    <3>2. LeafWritten(file, id, n, linked)
      <4>1. PICK f, g : f = file /\ g = linked
        OBVIOUS
      <4>2. /\ DOMAIN g = (DOMAIN f) \cup {id} /\ id \notin DOMAIN f /\ g[id] = n
            /\ \A x \in DOMAIN f : g[x] = f[x]
        BY <1>1, <2>1, <3>1, <4>1 DEF LeafMore
      <4>3. LeafWritten(f, id, n, g)
        BY <4>2 DEF LeafWritten
      <4> QED BY <4>1, <4>3
    <3> QED BY <1>7, <2>1, <2>2, <3>1, <3>2 DEF LeafMore, Linked
  <2>4. CASE path # << >>
    <3>1. LeadsTo(file, rootId, trj, path)
      BY <1>1, <1>5, <2>4, SearchNodeLeads
    <3>2. LastOf(trj, last) /\ IsFull(file[last])
      BY <1>1, <1>2, <2>4, <3>1 DEF LeadsTo, LastOf
    <3>3. linked = [Append(file, n) EXCEPT ![last].next = Len(file) + 1]
      BY <1>1, <2>4
    <3>4. last \in DOMAIN file /\ file[last].leaf
      BY <3>2 DEF LastOf
    <3>5. /\ Linked(file, More(file, lv, 0), dropped, rootId, linked, n)
          /\ LeafWritten(WithNext(file, last, id), id, n, linked)
      BY <1>1, <1>4, <1>6, <3>2, <3>3, <3>4, NextLinked DEF WithNext
    <3> QED BY <1>7, <2>2, <3>2, <3>5
  <2> QED BY <2>3, <2>4
<1>9. /\ Standing(linked, mv, dropped, rootId) /\ Used(linked, dropped) = Used(file, dropped)
      /\ DOMAIN linked = (DOMAIN file) \cup {id} /\ linked[id] = n /\ id \notin DOMAIN file
      /\ \A x \in DOMAIN file : linked[x].leaf = file[x].leaf /\ linked[x].entries = file[x].entries
  BY <1>1, <1>8 DEF Linked
<1>10. (\E l2 : Taken(linked, mv, dropped, rootId, s, l2)) /\ Hangs(linked, dropped, rootId, id, s)
  <2>1. id \notin Used(linked, dropped)
    BY <1>4, <1>9, StandingFile
  <2>2. narrow \subseteq DOMAIN linked
    BY <1>5, <1>9 DEF TypeOK
  <2>3. id # rootId /\ id \in DOMAIN linked /\ linked[id].leaf /\ linked[id].entries # << >>
    BY <1>5, <1>6, <1>9
  <2>4. b \in Box
    BY TBTreeAssumption
  <2> QED BY <1>3, <1>9, <2>1, <2>2, <2>3, <2>4, RootTaken
<1>11. PICK l2 : Taken(linked, mv, dropped, rootId, s, l2)
  BY <1>10
<1>12. /\ Standing(s.file, l2, dropped, s.first) /\ s.file \in Seq(Node)
       /\ DOMAIN file \subseteq DOMAIN s.file /\ s.narrow \subseteq DOMAIN s.file
       /\ s.first \in DOMAIN s.file
  BY <1>9, <1>11, StandingFile DEF Taken, LeavesKept, Standing
<1>13. s.first # 0 /\ s.first \in 0 .. Len(s.file)
  BY <1>12
<1>14. level' = l2[s.first] + 1 /\ level' \in Nat
  <2>1. l2[s.first] = IF s.first = rootId THEN lv[rootId] ELSE lv[rootId] + 1
    BY <1>8, <1>11 DEF Taken
  <2> QED BY <1>3, <1>4, <2>1
<1>15. Ranked'
  <2>1. Standing(file', l2, dropped', rootId') /\ level' = l2[rootId'] + 1 /\ rootId' # 0
    BY <1>2, <1>3, <1>12, <1>13, <1>14
  <2> QED BY <2>1 DEF Ranked
<1>16. TypeOK'
  <2>1. given' \in Seq([trj : Trj, box : Box]) /\ noEntries' \in Nat
    BY <1>2, <1>5, UnitGiven
  <2>2. /\ sidmap \in [Trj -> 0 .. Len(s.file)] /\ dropped \subseteq DOMAIN s.file
        /\ noNodes + (Len(s.file) - Len(file)) \in Nat
    BY <1>5, <1>12, FileGrows
  <2>3. /\ noLeafNodes + 1 \in Nat /\ bulkloading \in BOOLEAN
        /\ loading \in BOOLEAN /\ nodemap \in [Trj -> Node]
    BY <1>5 DEF TypeOK
  <2> QED BY <1>2, <1>3, <1>12, <1>13, <1>14, <2>1, <2>2, <2>3 DEF TypeOK
<1>17. HeldOK'
  BY <1>2, <1>5, IdleHeld
<1>18. LeafMade(trj, b)
  <2>1. PICK f : /\ LeafWritten(f, id, n, linked)
                 /\ \/ f = file
                    \/ LastOf(trj, last) /\ IsFull(file[last]) /\ f = WithNext(file, last, id)
    BY <1>8
  <2>2. LeavesKept(linked, mv, s.file, l2) /\ linked[id].leaf
    BY <1>6, <1>9, <1>11 DEF Taken
  <2>3. LeafWritten(f, id, n, file')
    BY <1>3, <2>1, <2>2, KeptWritten
  <2> QED BY <1>1, <2>1, <2>3 DEF LeafMade
<1>19. InnersSame(file, linked)
  BY <1>6, <1>9 DEF InnersSame
<1>20. HangsOn
  <2>1. Used(linked, {}) = Used(file, {})
    BY <1>19, InnersUsed
  <2>2. Held' = Held /\ dropped' = dropped
    BY <1>2 DEF Held
  <2> QED BY <1>3, <1>9, <1>10, <2>1, <2>2 DEF HangsOn, Hangs
<1>21. KeepsRoom
  <2>1. SUFFICES ASSUME Roomy PROVE Roomy'
    BY DEF KeepsRoom
  <2>2. Covered(linked, narrow, dropped, 0)
    BY <1>5, <1>9, <1>19, <2>1, InnersCovered DEF Roomy
  <2>3. Covered(s.file, narrow \cup s.narrow, dropped, 0) /\ narrow \subseteq s.narrow
    BY <1>10, <2>2 DEF Hangs
  <2>4. narrow \cup s.narrow = s.narrow
    BY <2>3
  <2>5. Covered(s.file, s.narrow, dropped, 0)
    BY <2>3, <2>4
  <2> QED BY <1>2, <1>3, <2>5 DEF Roomy
<1>22. SonsStay
  <2>1. PICK half : SonsFrom(linked, dropped, id, s.file, dropped \cup ({s.first} \ {rootId}), half)
    BY <1>10 DEF Hangs, TreeFrom
  <2>2. ASSUME NEW x \in Inners(linked, dropped)
        PROVE  x \in Inners(file, dropped) /\ linked[x].entries = file[x].entries
    BY <1>6, <1>9, <2>2 DEF Inners
  <2>3. \A u : u # id => Origin(linked, half, u) = Origin(file, half, u)
    BY <1>9 DEF Origin
  <2>4. id \notin Inners(s.file, dropped \cup ({s.first} \ {rootId}))
    BY <1>6, <1>9, <1>11 DEF Taken, LeavesKept, Inners
  <2>5. SonsFrom(file, dropped, id, s.file, dropped \cup ({s.first} \ {rootId}), half)
    <3> SUFFICES ASSUME NEW x \in Inners(s.file, dropped \cup ({s.first} \ {rootId}))
                 PROVE  /\ Origin(file, half, x) \in Inners(file, dropped)
                        /\ \A u \in RefsOf(s.file[x].entries) :
                             u = id \/ Origin(file, half, u) \in RefsOf(file[Origin(file, half, x)].entries)
      BY DEF SonsFrom
    <3>1. PICK d : d = Origin(linked, half, x)
      OBVIOUS
    <3>2. /\ d \in Inners(linked, dropped)
          /\ \A u \in RefsOf(s.file[x].entries) : u = id \/ Origin(linked, half, u) \in RefsOf(linked[d].entries)
      BY <2>1, <3>1 DEF SonsFrom
    <3>3. d = Origin(file, half, x) /\ d \in Inners(file, dropped) /\ linked[d].entries = file[d].entries
      BY <2>2, <2>3, <2>4, <3>1, <3>2
    <3> QED BY <2>3, <3>2, <3>3
  <2> QED BY <1>1, <1>3, <2>5 DEF SonsStay
<1> QED BY <1>15, <1>16, <1>17, <1>18, <1>20, <1>21, <1>22 DEF IInv

(* Without leaves in memory nothing is asked of them.                      *)
LEMMA NoneHeld ==
  ASSUME \A trj \in Trj : sidmap'[trj] = 0
  PROVE  HeldOK'
<1>1. InMemory' = {}
  BY DEF InMemory
<1>2. IsFiniteSet(InMemory')
  BY <1>1, FS_EmptySet
<1>3. AllHeld(file, dropped)' /\ HeldApart'
  BY DEF AllHeld, HeldApart
<1> QED BY <1>1, <1>2, <1>3 DEF HeldOK

(* A bulk load begins without leaves in memory.                            *)
LEMMA StartBulkLoadKeeps ==
  ASSUME IInv, StartBulkLoad
  PROVE  IInv' /\ HangsOn /\ KeepsRoom
<1> USE DEF StartBulkLoad
<1>1. TypeOK /\ Ranked /\ HeldOK
  BY DEF IInv
<1>2. \A trj \in Trj : sidmap'[trj] = 0
  BY <1>1 DEF HeldOK, InMemory
<1>3. HeldOK'
  BY <1>2, NoneHeld
<1>4. Ranked'
  BY <1>1 DEF Ranked
<1>5. sidmap' \in [Trj -> 0 .. Len(file)]
  BY <1>1 DEF TypeOK
<1>6. TypeOK'
  BY <1>1, <1>5 DEF TypeOK
<1>7. Held = {}
  BY <1>1 DEF HeldOK, InMemory, Held
<1>8. HangsOn /\ KeepsRoom
  BY <1>7 DEF HangsOn, KeepsRoom, Roomy
<1> QED BY <1>3, <1>4, <1>6, <1>8 DEF IInv

(* The leaf m of trj is in memory for the record sid, and the file is g.   *)
Put(trj, sid, m, g, gone2) ==
  /\ rootId # 0 /\ rootId \in DOMAIN file
  /\ HeldLeaf(g, gone2, sid, m) /\ m.next = 0 /\ sid # 0
  /\ \A x \in DOMAIN file : x \in DOMAIN g /\ g[x].leaf = file[x].leaf
  /\ file[rootId].leaf => Used(g, gone2) = {}
  /\ ~file[rootId].leaf =>
       /\ sid = sidmap[trj] \/ sid \notin DOMAIN file
       /\ \A u \in Used(g, gone2) : u \in Used(file, dropped) \/ u = sidmap[trj] \/ u \notin DOMAIN file

(* A leaf that is put into the memory of the bulk load.                    *)
LEMMA HeldPut ==
  ASSUME TypeOK, HeldOK, NEW trj \in Trj, NEW sid, NEW m, NEW g, NEW gone2, Put(trj, sid, m, g, gone2),
         file' = g, dropped' = gone2, rootId' = rootId, loading, loading' = loading,
         sidmap' = [sidmap EXCEPT ![trj] = sid], nodemap' = [nodemap EXCEPT ![trj] = m]
  PROVE  HeldOK'
<1>1. /\ sidmap'[trj] = sid /\ nodemap'[trj] = m
      /\ \A t \in Trj : t # trj => sidmap'[t] = sidmap[t] /\ nodemap'[t] = nodemap[t]
  BY DEF TypeOK
<1>2. IsFiniteSet(InMemory')
  <2>1. InMemory' = InMemory \cup {trj}
    BY <1>1 DEF InMemory, Put
  <2>2. IsFiniteSet(InMemory)
    BY DEF HeldOK
  <2> QED BY <2>1, <2>2, FS_AddElement
<1>3. AllHeld(file, dropped)'
  <2>1. ASSUME NEW t \in Trj, t # trj, sidmap[t] # 0
        PROVE  HeldLeaf(g, gone2, sidmap[t], nodemap[t]) /\ nodemap[t].next = 0
    <3>1. HeldLeaf(file, dropped, sidmap[t], nodemap[t]) /\ nodemap[t].next = 0
      BY <2>1 DEF HeldOK, AllHeld
    <3>2. sidmap[t] \in DOMAIN g /\ g[sidmap[t]].leaf
      BY <3>1 DEF HeldLeaf, Put
    <3>3. sidmap[t] \notin Used(g, gone2)
      <4>1. CASE file[rootId].leaf
        BY <4>1 DEF Put
      <4>2. CASE ~file[rootId].leaf
        <5>1. sidmap[t] # sidmap[trj]
          BY <2>1, <4>2 DEF HeldOK, HeldApart, Put
        <5> QED BY <3>1, <4>2, <5>1 DEF Put, HeldLeaf
      <4> QED BY <4>1, <4>2
    <3> QED BY <3>1, <3>2, <3>3 DEF HeldLeaf
  <2>2. HeldLeaf(g, gone2, sid, m) /\ m.next = 0
    BY DEF Put
  <2> QED BY <1>1, <2>1, <2>2 DEF AllHeld
<1>4. ASSUME ~file'[rootId'].leaf PROVE HeldApart'
  <2>1. ~file[rootId].leaf
    BY <1>4 DEF Put
  <2>2. HeldApart /\ (sid = sidmap[trj] \/ sid \notin DOMAIN file)
    BY <2>1 DEF HeldOK, Put
  <2>3. ASSUME NEW t \in Trj, t # trj, sidmap[t] # 0 PROVE sidmap[t] # sid
    <3>1. sidmap[t] \in DOMAIN file
      BY <2>3 DEF HeldOK, AllHeld, HeldLeaf
    <3>2. sidmap[t] # sidmap[trj]
      BY <2>2, <2>3 DEF HeldApart
    <3> QED BY <2>2, <3>1, <3>2
  <2> QED BY <1>1, <2>2, <2>3 DEF HeldApart
<1> QED BY <1>2, <1>3, <1>4 DEF HeldOK

(* The leaf that is to take a unit of trj: node, of record k of the file g.*)
Offered(trj, k, node, g) ==
  /\ node \in Node /\ node.leaf /\ node.next = 0 /\ Len(node.entries) \in 0 .. LeafMax - 1
  /\ k \in DOMAIN g /\ g[k].leaf /\ k # 0 /\ k \notin Used(g, dropped)
  /\ Used(g, dropped) = Used(file, dropped)
  /\ \A x \in DOMAIN file : x \in DOMAIN g /\ g[x].leaf = file[x].leaf
  /\ ~file[rootId].leaf => k = sidmap[trj] \/ k \notin DOMAIN file

(* The leaf of the trajectory is in memory.                                *)
LEMMA MemoryOffered ==
  ASSUME IInv, NEW trj \in Trj, sidmap[trj] # 0
  PROVE  Offered(trj, sidmap[trj], nodemap[trj], file)
<1>1. HeldLeaf(file, dropped, sidmap[trj], nodemap[trj]) /\ nodemap[trj].next = 0
  BY DEF IInv, HeldOK, AllHeld
<1>2. Len(nodemap[trj].entries) \in 0 .. LeafMax - 1
  BY <1>1 DEF HeldLeaf
<1> QED BY <1>1, <1>2 DEF HeldLeaf, Offered

(* The leaf is found in the file: the root is a leaf of the trajectory.    *)
LEMMA LastOffered ==
  ASSUME IInv, NEW trj \in Trj, rootId # 0, LastLeaf(trj) # 0
  PROVE  Offered(trj, LastLeaf(trj), file[LastLeaf(trj)], file)
<1>1. PICK lv : Standing(file, lv, dropped, rootId)
  BY TreeRanked
<1>2. /\ file \in Seq(Node) /\ Chained(file) /\ rootId \in DOMAIN file
      /\ file[rootId].leaf => Used(file, dropped) = {}
  BY <1>1, StandingFile DEF Standing
<1>3. file[rootId].leaf /\ LastLeaf(trj) = EndOfChain(rootId)
  BY DEF LastLeaf
<1>4. PICK k : k = LastLeaf(trj)
  OBVIOUS
<1>5. k \in DOMAIN file /\ file[k].leaf /\ file[k].next = 0
  BY <1>2, <1>3, <1>4, EndOfChainLast
<1>6. Len(file[k].entries) \in 0 .. LeafMax - 1
  BY <1>1, <1>5, LeafSize
<1>7. file[k] \in Node /\ k # 0
  BY <1>2, <1>5
<1> QED BY <1>2, <1>3, <1>4, <1>5, <1>6, <1>7 DEF Offered

(* No leaf is found, and an empty one comes into the file.                 *)
LEMMA EmptyOffered ==
  ASSUME IInv, NEW lv, Standing(file, lv, dropped, rootId), NEW trj \in Trj,
         NEW g, g = Append(file, Leaf(<< >>, trj))
  PROVE  /\ Offered(trj, Len(file) + 1, Leaf(<< >>, trj), g)
         /\ LeafMore(file, lv, dropped, rootId, Leaf(<< >>, trj), g)
<1>1. PICK k, n : k = Len(file) + 1 /\ n = Leaf(<< >>, trj)
  OBVIOUS
<1>2. n \in Node /\ n.leaf /\ n.next = 0 /\ n.entries = << >>
  <2>1. << >> \in Seq(Entry)
    OBVIOUS
  <2> QED BY <1>1, <2>1, LeafNode
<1>3. Len(n.entries) \in 0 .. LeafMax - 1
  BY <1>2, TBTreeAssumption
<1>4. LeafMore(file, lv, dropped, rootId, n, g)
  BY <1>1, <1>2, <1>3, LeafAdded
<1>5. /\ Used(g, dropped) = Used(file, dropped) /\ DOMAIN g = (DOMAIN file) \cup {k}
      /\ k \notin DOMAIN file /\ g[k] = n /\ \A x \in DOMAIN file : g[x] = file[x]
  BY <1>1, <1>4 DEF LeafMore
<1>6. k # 0 /\ k \notin Used(file, dropped)
  <2>1. k \notin Used(file, dropped)
    BY <1>5, StandingFile
  <2>2. file \in Seq(Node)
    BY StandingFile
  <2> QED BY <1>1, <2>1, <2>2
<1> QED BY <1>1, <1>2, <1>3, <1>4, <1>5, <1>6 DEF Offered

(* The bulk load adds a unit to a leaf in memory.                          *)
LEMMA BulkInsertIntoLeafKeeps ==
  ASSUME IInv, NEW trj \in Trj, NEW b \in UnitBox, BulkInsertIntoLeaf(trj, b)
  PROVE  IInv' /\ HangsOn /\ KeepsRoom
<1>1. PICK last, sid, node, appended, u, m, k :
        /\ last = LastLeaf(trj)
        /\ sid = IF last = 0 THEN Len(file) + 1 ELSE last
        /\ node = IF sidmap[trj] # 0 THEN nodemap[trj]
                  ELSE IF last = 0 THEN Leaf(<< >>, trj) ELSE file[last]
        /\ appended = (sidmap[trj] = 0 /\ last = 0) /\ u = Unit(b)
        /\ m = [node EXCEPT !.entries = Append(@, u)]
        /\ k = IF sidmap[trj] = 0 THEN sid ELSE sidmap[trj]
  OBVIOUS
<1>2. /\ loading /\ rootId # 0 /\ ~IsFull(node) /\ Given(trj, b)
      /\ nodemap' = [nodemap EXCEPT ![trj] = m]
      /\ sidmap' = [sidmap EXCEPT ![trj] = k]
      /\ file' = IF appended THEN Append(file, node) ELSE file
      /\ noNodes' = IF appended THEN noNodes + 1 ELSE noNodes
      /\ noLeafNodes' = IF appended THEN noLeafNodes + 1 ELSE noLeafNodes
      /\ UNCHANGED <<rootId, level, bulkloading, loading, narrow, dropped>>
  BY <1>1 DEF BulkInsertIntoLeaf
<1>3. PICK lv : Standing(file, lv, dropped, rootId) /\ level = lv[rootId] + 1 /\ lv[rootId] \in Nat
  BY <1>2, TreeRanked
<1>4. TypeOK /\ HeldOK /\ rootId \in DOMAIN file
  BY <1>3 DEF IInv, Standing
<1>5. Offered(trj, k, node, file') /\ \E l2 : Standing(file', l2, dropped, rootId) /\ l2[rootId] = lv[rootId]
  <2>1. CASE sidmap[trj] # 0
    <3>1. k = sidmap[trj] /\ node = nodemap[trj] /\ file' = file
      BY <1>1, <1>2, <2>1
    <3> QED BY <1>3, <2>1, <3>1, MemoryOffered
  <2>2. CASE sidmap[trj] = 0 /\ last # 0
    <3>1. k = last /\ node = file[last] /\ file' = file
      BY <1>1, <1>2, <2>2
    <3> QED BY <1>1, <1>2, <1>3, <2>2, <3>1, LastOffered
  <2>3. CASE sidmap[trj] = 0 /\ last = 0
    <3>1. k = Len(file) + 1 /\ node = Leaf(<< >>, trj) /\ file' = Append(file, node)
      BY <1>1, <1>2, <2>3
    <3>2. PICK g : g = file'
      OBVIOUS
    <3>3. Offered(trj, k, node, g) /\ LeafMore(file, lv, dropped, rootId, node, g)
      BY <1>3, <3>1, <3>2, EmptyOffered
    <3> QED BY <1>4, <3>2, <3>3 DEF LeafMore
  <2> QED BY <2>1, <2>2, <2>3
<1>6. PICK l2 : Standing(file', l2, dropped, rootId) /\ l2[rootId] = lv[rootId]
  BY <1>5
<1>7. Ranked'
  BY <1>2, <1>3, <1>6 DEF Ranked
<1>8. u \in Entry
  BY <1>1, <1>2, <1>4, UnitGiven
<1>9. OneUnitMore(node, b, m)
  <2>1. node \in Node
    BY <1>5 DEF Offered
  <2> QED BY <1>1, <1>8, <2>1, UnitAdded
<1>10. m \in Node /\ m.leaf /\ m.next = 0 /\ Len(m.entries) \in 1 .. LeafMax - 1
  <2>1. PICK x : x = Len(node.entries)
    OBVIOUS
  <2>2. Len(m.entries) = x + 1 /\ x # LeafMax - 1 /\ x \in 0 .. LeafMax - 1
    BY <1>2, <1>5, <1>9, <2>1 DEF IsFull, OneUnitMore, Offered
  <2>3. Len(m.entries) \in 1 .. LeafMax - 1
    BY <2>2, TBTreeAssumption
  <2> QED BY <1>5, <1>9, <2>3 DEF Offered, OneUnitMore
<1>11. Put(trj, k, m, file', dropped)
  <2>1. HeldLeaf(file', dropped, k, m)
    BY <1>5, <1>10 DEF HeldLeaf, Offered
  <2>2. file[rootId].leaf => Used(file', dropped) = {}
    BY <1>3, <1>5 DEF Offered, Standing
  <2> QED BY <1>2, <1>4, <1>5, <1>10, <2>1, <2>2 DEF Put, Offered
<1>12. HeldOK'
  <2>1. PICK g, gone2 : g = file' /\ gone2 = dropped'
    OBVIOUS
  <2>2. Put(trj, k, m, g, gone2)
    BY <1>2, <1>11, <2>1
  <2> QED BY <1>2, <1>4, <2>1, <2>2, HeldPut
<1>13. file' \in Seq(Node) /\ DOMAIN file \subseteq DOMAIN file' /\ k \in DOMAIN file'
  BY <1>5, <1>6, StandingFile DEF Offered
<1>14. TypeOK'
  <2>1. given' \in Seq([trj : Trj, box : Box]) /\ noEntries' \in Nat
    BY <1>2, <1>4, UnitGiven
  <2>2. /\ rootId \in 0 .. Len(file') /\ sidmap \in [Trj -> 0 .. Len(file')]
        /\ narrow \subseteq DOMAIN file' /\ dropped \subseteq DOMAIN file'
        /\ DOMAIN file' \subseteq 0 .. Len(file')
    BY <1>4, <1>13, FileGrows
  <2>3. sidmap' \in [Trj -> 0 .. Len(file')]
    BY <1>2, <1>13, <2>2
  <2>4. nodemap' \in [Trj -> Node]
    BY <1>2, <1>4, <1>10 DEF TypeOK
  <2>5. noNodes' \in Nat /\ noLeafNodes' \in Nat
    BY <1>2, <1>4 DEF TypeOK
  <2>6. level \in Nat /\ bulkloading \in BOOLEAN /\ loading \in BOOLEAN
    BY <1>4 DEF TypeOK
  <2> QED BY <1>2, <1>13, <2>1, <2>2, <2>3, <2>4, <2>5, <2>6 DEF TypeOK
<1>15. /\ InnersSame(file, file') /\ \A x \in DOMAIN file : file'[x].entries = file[x].entries
       /\ \A x \in DOMAIN file' : x \in DOMAIN file \/ x = k
  <2>1. CASE ~appended
    BY <1>2, <2>1 DEF InnersSame
  <2>2. CASE appended
    <3>1. k = Len(file) + 1 /\ node = Leaf(<< >>, trj) /\ file' = Append(file, node)
      BY <1>1, <1>2, <2>2
    <3>2. PICK g : g = file'
      OBVIOUS
    <3>3. LeafMore(file, lv, dropped, rootId, node, g)
      BY <1>3, <3>1, <3>2, EmptyOffered
    <3>4. node.leaf
      BY <1>5 DEF Offered
    <3> QED BY <3>1, <3>2, <3>3, <3>4 DEF LeafMore, InnersSame
  <2> QED BY <2>1, <2>2
<1>16. k \in Held' /\ Held \subseteq Held'
  <2>1. \A t \in Trj : sidmap'[t] = IF t = trj THEN k ELSE sidmap[t]
    BY <1>2, <1>4 DEF TypeOK
  <2>2. k # 0 /\ (sidmap[trj] # 0 => k = sidmap[trj])
    BY <1>1, <1>5 DEF Offered
  <2> QED BY <2>1, <2>2 DEF Held
<1>17. HangsOn
  <2>1. Used(file', {}) = Used(file, {})
    BY <1>15, InnersUsed
  <2> QED BY <1>2, <1>15, <1>16, <2>1 DEF HangsOn
<1>18. KeepsRoom
  <2>1. SUFFICES ASSUME Roomy PROVE Roomy'
    BY DEF KeepsRoom
  <2>2. PICK g : g = file'
    OBVIOUS
  <2>3. Levelled(file, lv, dropped)
    BY <1>3, StandingFile
  <2>4. Covered(g, narrow, dropped, 0)
    BY <1>15, <2>1, <2>2, <2>3, InnersCovered DEF Roomy
  <2> QED BY <1>2, <2>2, <2>4 DEF Roomy
<1> QED BY <1>7, <1>12, <1>14, <1>17, <1>18 DEF IInv

(* The node of trj that the bulk load goes on with, of record sid: in      *)
(* memory, or in the file.                                                 *)
Current(trj, sid, node) ==
  /\ sidmap[trj] # 0 => sid = sidmap[trj] /\ node = nodemap[trj]
  /\ sidmap[trj] = 0 => sid = LastLeaf(trj) /\ sid # 0 /\ node = file[sid]

(* A full leaf is written with its next, which is empty in the file.       *)
FullWritten(trj) ==
  \E sid, node, f :
    /\ Current(trj, sid, node) /\ IsFull(node) /\ sid \in DOMAIN file /\ file[sid].leaf
    /\ f = [file EXCEPT ![sid] = [node EXCEPT !.next = Len(file) + 1]]
    /\ LeafWritten(f, Len(file) + 1, Leaf(<< >>, trj), file')

(* Two leaves are written: in whatever order.                              *)
LEMMA WrittenBoth ==
  ASSUME NEW f \in Seq(Node), NEW sid \in DOMAIN f, NEW n, NEW id, id \notin DOMAIN f, NEW e, e.leaf,
         NEW g, DOMAIN g = (DOMAIN f) \cup {id}, g[id] = e, \A x \in DOMAIN f : g[x] = f[x],
         NEW h, LeafWritten(g, sid, n, h), NEW p, p = [f EXCEPT ![sid] = n]
  PROVE  LeafWritten(p, id, e, h)
<1>1. DOMAIN p = DOMAIN f /\ p[sid] = n /\ \A x \in DOMAIN f : x # sid => p[x] = f[x]
  OBVIOUS
<1>2. id # sid /\ h[id] = e /\ DOMAIN f \subseteq DOMAIN h /\ id \in DOMAIN h
  BY DEF LeafWritten
<1>3. ASSUME NEW x \in DOMAIN p, x # id PROVE h[x].leaf = p[x].leaf /\ (p[x].leaf => h[x] = p[x])
  <2>1. CASE x = sid
    BY <1>1, <2>1 DEF LeafWritten
  <2>2. CASE x # sid
    BY <1>1, <1>3, <2>2 DEF LeafWritten
  <2> QED BY <2>1, <2>2
<1>4. ASSUME NEW x \in DOMAIN h, x \notin DOMAIN p, x # id PROVE ~h[x].leaf
  BY <1>1, <1>4 DEF LeafWritten
<1> QED BY <1>1, <1>2, <1>3, <1>4 DEF LeafWritten

(* The bulk load writes a full leaf, puts it into the tree and begins its  *)
(* next.                                                                   *)
LEMMA BulkInsertNewLeafKeeps ==
  ASSUME IInv, NEW trj \in Trj, NEW b \in UnitBox, BulkInsertNewLeaf(trj, b)
  PROVE  IInv' /\ FullWritten(trj) /\ HangsOn /\ KeepsRoom
<1>1. PICK sid, node, id, e, tree, n, m :
        /\ sid = (IF sidmap[trj] # 0 THEN sidmap[trj] ELSE LastLeaf(trj))
        /\ node = (IF sidmap[trj] # 0 THEN nodemap[trj] ELSE file[sid])
        /\ id = Len(file) + 1 /\ e = Leaf(<< >>, trj)
        /\ tree = [Tree EXCEPT !.file = Append(file, e)]
        /\ n = [node EXCEPT !.next = id] /\ m = Leaf(<<Unit(b)>>, trj)
  OBVIOUS
<1>2. /\ loading /\ rootId # 0 /\ sid # 0 /\ IsFull(node) /\ Given(trj, b)
      /\ nodemap' = [nodemap EXCEPT ![trj] = m]
      /\ sidmap' = [sidmap EXCEPT ![trj] = id]
      /\ noLeafNodes' = noLeafNodes + 1
      /\ UNCHANGED <<rootId, level, bulkloading, loading>>
  BY <1>1 DEF BulkInsertNewLeaf
<1>3. PICK s : /\ s = WithLeaf(tree, sid, n)
               /\ file' = s.file /\ narrow' = s.narrow /\ dropped' = s.dropped
               /\ noNodes' = noNodes + (Len(s.file) - Len(file))
  BY <1>1, Zenon DEF BulkInsertNewLeaf
<1>4. PICK lv : Standing(file, lv, dropped, rootId) /\ level = lv[rootId] + 1 /\ lv[rootId] \in Nat
  BY <1>2, TreeRanked
<1>5. TypeOK /\ HeldOK /\ rootId \in DOMAIN file /\ file \in Seq(Node)
  BY <1>4, StandingFile DEF IInv, Standing
<1>6. Offered(trj, sid, node, file)
  <2>1. CASE sidmap[trj] # 0
    BY <1>1, <2>1, MemoryOffered
  <2>2. CASE sidmap[trj] = 0
    BY <1>1, <1>2, <2>2, LastOffered
  <2> QED BY <2>1, <2>2
<1>7. PICK g, mv : g = Append(file, e) /\ mv = More(file, lv, 0)
  OBVIOUS
<1>8. tree = [file |-> g, narrow |-> narrow, dropped |-> dropped]
  BY <1>1, <1>7 DEF Tree
<1>9. tree.file = g /\ tree.narrow = narrow /\ tree.dropped = dropped
  BY <1>8
<1>10. /\ Standing(g, mv, dropped, rootId) /\ Used(g, dropped) = Used(file, dropped)
       /\ DOMAIN g = (DOMAIN file) \cup {id} /\ id \notin DOMAIN file /\ g[id] = e
       /\ \A x \in DOMAIN file : g[x] = file[x] /\ mv[x] = lv[x]
  <2>1. LeafMore(file, lv, dropped, rootId, e, g)
    BY <1>1, <1>4, <1>7, EmptyOffered
  <2> QED BY <1>1, <1>7, <2>1 DEF LeafMore
<1>11. e.leaf
  BY <1>1 DEF Leaf
<1>12. Bulk(tree, mv)
  <2>1. narrow \subseteq DOMAIN g
    BY <1>5, <1>10 DEF TypeOK
  <2> QED BY <1>8, <1>9, <1>10, <2>1 DEF Bulk
<1>13. id \in Nat \ {0} /\ sid < id /\ sid # id /\ sid \in DOMAIN file
  <2>1. sid \in DOMAIN file
    BY <1>6 DEF Offered
  <2> QED BY <1>1, <1>5, <2>1
<1>14. n \in Node /\ n.leaf /\ n.next = id /\ Len(n.entries) \in 1 .. LeafMax - 1
  <2>1. node \in Node /\ node.leaf /\ Len(node.entries) = LeafMax - 1
    BY <1>2, <1>6 DEF IsFull, Offered
  <2>2. n \in Node /\ n.leaf /\ n.next = id /\ n.entries = node.entries
    BY <1>1, <1>13, <2>1 DEF Node
  <2> QED BY <2>1, <2>2, TBTreeAssumption
<1>15. HeldLeaf(tree.file, tree.dropped, sid, n) /\ Follower(n.next, sid, tree.file)
  <2>1. g[sid].leaf /\ sid \in DOMAIN g /\ sid \notin Used(g, dropped)
    BY <1>6, <1>10 DEF Offered
  <2>2. Follower(id, sid, g)
    BY <1>10, <1>11, <1>13 DEF Follower
  <2> QED BY <1>9, <1>14, <2>1, <2>2 DEF HeldLeaf
<1>16. \E l2 : LeafIn(tree, mv, sid, s, l2)
  BY <1>3, <1>12, <1>15, WithLeafIn
<1>17. PICK l2 : LeafIn(tree, mv, sid, s, l2)
  BY <1>16
<1>18. /\ Standing(s.file, l2, s.dropped, rootId) /\ s.narrow \subseteq DOMAIN s.file
       /\ DOMAIN g \subseteq DOMAIN s.file
       /\ \A x \in DOMAIN g : l2[x] = mv[x] /\ s.file[x].leaf = g[x].leaf
       /\ \A x \in Used(s.file, s.dropped) : x \in Used(g, dropped) \/ x = sid \/ x \notin DOMAIN g
  BY <1>9, <1>17 DEF LeafIn, Bulk, UsedBy
<1>19. Ranked'
  <2>1. l2[rootId] = lv[rootId]
    BY <1>5, <1>10, <1>18
  <2> QED BY <1>2, <1>3, <1>4, <1>18, <2>1 DEF Ranked
<1>20. m \in Node /\ m.leaf /\ m.next = 0 /\ Len(m.entries) \in 1 .. LeafMax - 1
  <2>1. m \in Node /\ m.leaf /\ m.next = 0 /\ m.entries = <<Unit(b)>> /\ Len(<<Unit(b)>>) = 1
    BY ONLY <1>1, <1>2, <1>5, UnitGiven, Zenon
  <2>2. Len(m.entries) = 1
    BY <2>1
  <2> QED BY <2>1, <2>2, TBTreeAssumption
<1>21. Put(trj, id, m, s.file, s.dropped)
  <2>1. id \notin Used(s.file, s.dropped)
    <3>1. id \notin Used(file, dropped)
      BY <1>4, <1>10, StandingFile
    <3> QED BY <1>10, <1>13, <1>18, <3>1
  <2>2. id \in DOMAIN s.file /\ s.file[id].leaf
    BY <1>10, <1>11, <1>18
  <2>3. HeldLeaf(s.file, s.dropped, id, m)
    BY <1>20, <2>1, <2>2 DEF HeldLeaf
  <2>4. \A x \in DOMAIN file : x \in DOMAIN s.file /\ s.file[x].leaf = file[x].leaf
    BY <1>10, <1>18
  <2>5. file[rootId].leaf => Used(s.file, s.dropped) = {}
    BY <1>5, <1>18, <2>4 DEF Standing
  <2>6. ASSUME ~file[rootId].leaf, NEW x \in Used(s.file, s.dropped)
        PROVE  x \in Used(file, dropped) \/ x = sidmap[trj] \/ x \notin DOMAIN file
    BY <1>6, <1>10, <1>13, <1>18, <2>6 DEF Offered
  <2> QED BY <1>2, <1>5, <1>10, <1>13, <1>20, <2>3, <2>4, <2>5, <2>6 DEF Put
<1>22. HeldOK'
  <2>1. PICK h, gone2 : h = s.file /\ gone2 = s.dropped
    OBVIOUS
  <2>2. Put(trj, id, m, h, gone2)
    BY <1>21, <2>1
  <2> QED BY <1>2, <1>3, <1>5, <2>1, <2>2, HeldPut
<1>23. s.file \in Seq(Node) /\ DOMAIN file \subseteq DOMAIN s.file /\ id \in DOMAIN s.file
  BY <1>10, <1>18, StandingFile
<1>24. TypeOK'
  <2>1. given' \in Seq([trj : Trj, box : Box]) /\ noEntries' \in Nat
    BY <1>2, <1>5, UnitGiven
  <2>2. /\ rootId \in 0 .. Len(s.file) /\ sidmap \in [Trj -> 0 .. Len(s.file)]
        /\ DOMAIN s.file \subseteq 0 .. Len(s.file)
        /\ noNodes + (Len(s.file) - Len(file)) \in Nat
    BY <1>5, <1>23, FileGrows
  <2>3. sidmap' \in [Trj -> 0 .. Len(s.file)]
    BY <1>2, <1>23, <2>2
  <2>4. nodemap' \in [Trj -> Node]
    BY <1>2, <1>5, <1>20 DEF TypeOK
  <2>5. noLeafNodes' \in Nat /\ level \in Nat /\ bulkloading \in BOOLEAN /\ loading \in BOOLEAN
    BY <1>2, <1>5 DEF TypeOK
  <2>6. s.dropped \subseteq DOMAIN s.file
    BY <1>18 DEF Standing, Shape
  <2> QED BY <1>2, <1>3, <1>18, <1>23, <2>1, <2>2, <2>3, <2>4, <2>5, <2>6 DEF TypeOK
<1>25. FullWritten(trj)
  <2>1. LeafWritten(g, sid, n, s.file)
    BY <1>3, <1>9, <1>12, <1>15, WithLeafIn
  <2>2. PICK p : p = [file EXCEPT ![sid] = n]
    OBVIOUS
  <2>3. LeafWritten(p, id, e, s.file)
    BY <1>5, <1>10, <1>11, <1>13, <2>1, <2>2, WrittenBoth
  <2>4. Current(trj, sid, node)
    BY <1>1, <1>2 DEF Current
  <2>5. file[sid].leaf
    BY <1>6 DEF Offered
  <2> QED BY <1>1, <1>2, <1>3, <1>13, <2>2, <2>3, <2>4, <2>5 DEF FullWritten
<1>26. InnersSame(file, g) /\ \A x \in DOMAIN file : g[x].entries = file[x].entries
  BY <1>10, <1>11 DEF InnersSame
<1>27. Brings(tree, sid, s)
  BY <1>3, <1>12, <1>15, WithLeafIn
<1>28. HangsOn
  <2>1. Used(g, {}) = Used(file, {})
    BY <1>26, InnersUsed
  <2>2. \A t \in Trj : sidmap'[t] = IF t = trj THEN id ELSE sidmap[t]
    BY <1>2, <1>5 DEF TypeOK
  <2>3. id \in Held'
    BY <1>13, <2>2 DEF Held
  <2>4. ASSUME NEW x \in Held PROVE x \in Held' \/ x = sid
    BY <1>1, <2>2 DEF Held
  <2>5. /\ Used(file, {}) \subseteq Used(s.file, {}) /\ sid \in Used(s.file, {}) /\ dropped \subseteq s.dropped
        /\ \A x \in DOMAIN s.file : x \in DOMAIN g \/ x \in Used(s.file, {}) \/ x \in s.dropped
    BY <1>9, <1>27, <2>1 DEF Brings
  <2> QED BY <1>2, <1>3, <1>10, <2>3, <2>4, <2>5 DEF HangsOn
<1>29. KeepsRoom
  <2>1. SUFFICES ASSUME Roomy PROVE Roomy'
    BY DEF KeepsRoom
  <2>2. Levelled(file, lv, dropped)
    BY <1>4, StandingFile
  <2>3. Covered(g, narrow, dropped, 0)
    BY <1>26, <2>1, <2>2, InnersCovered DEF Roomy
  <2>4. Covered(s.file, s.narrow, s.dropped, 0)
    BY <1>9, <1>27, <2>3 DEF Brings
  <2> QED BY <1>3, <2>4 DEF Roomy
<1> QED BY <1>19, <1>22, <1>24, <1>25, <1>28, <1>29 DEF IInv

(* Every leaf in memory is written, and no other.                          *)
HeldWritten ==
  /\ DOMAIN file \subseteq DOMAIN file'
  /\ \A x \in DOMAIN file :
       /\ file'[x].leaf = file[x].leaf
       /\ file[x].leaf => \/ \E trj \in InMemory : sidmap[trj] = x /\ file'[x] = nodemap[trj]
                          \/ (\A trj \in InMemory : sidmap[trj] # x) /\ file'[x] = file[x]
  /\ \A x \in DOMAIN file' : x \notin DOMAIN file => ~file'[x].leaf

Enumerates(q, n, S) ==
  S \in SUBSET Nat /\ IsFiniteSet(S) /\ n = Cardinality(S) /\ q \in [1 .. n -> S] /\ Rising(q)

(* A rising enumeration of the leaves in memory meets them all.            *)
LEMMA AllMet ==
  ASSUME NEW S, NEW n, NEW q, Enumerates(q, n, S)
  PROVE  \A s \in S : \E j \in 1 .. n : q[j] = s
<1> USE DEF Enumerates
<1>1. n \in Nat
  BY FS_CardinalityType
<1>2. IsFiniteSet(1 .. n) /\ Cardinality(1 .. n) = n
  BY <1>1, FS_Interval
<1>3. ASSUME NEW i \in 1 .. n, NEW j \in 1 .. n, i # j PROVE q[i] # q[j]
  <2>1. i < j \/ j < i
    BY <1>1, <1>3
  <2>2. q[i] \in Nat /\ q[j] \in Nat
    OBVIOUS
  <2> QED BY <2>1, <2>2 DEF Rising
<1>4. q \in Injection(1 .. n, S)
  BY <1>3 DEF Injection, IsInjective
<1>5. q \in Surjection(1 .. n, S)
  BY <1>2, <1>4, FS_Injection
<1> QED BY <1>5 DEF Surjection

(* endBulkLoad puts the leaves in memory into the tree.                    *)
LEMMA EndBulkLoadKeeps ==
  ASSUME IInv, EndBulkLoad
  PROVE  IInv' /\ HeldWritten /\ HangsOn /\ KeepsRoom
<1>1. PICK n, q : /\ n = Cardinality(InMemory)
                  /\ q = CHOOSE p \in [1 .. n -> InMemory] : \A i, j \in DOMAIN p : i < j => p[i] < p[j]
  OBVIOUS
<1>2. /\ loading /\ loading' = FALSE /\ MapsCleared
      /\ UNCHANGED <<rootId, level, noEntries, noLeafNodes, bulkloading, given>>
  BY Zenon DEF EndBulkLoad
<1>3. PICK s : /\ s = AddAll(Tree, q)
               /\ file' = s.file /\ narrow' = s.narrow /\ dropped' = s.dropped
               /\ noNodes' = noNodes + (Len(s.file) - Len(file))
  BY <1>1, Zenon DEF EndBulkLoad, InMemory, AddAll, AddOne
<1>4. TypeOK /\ HeldOK /\ Ranked
  BY DEF IInv
<1>5. n \in Nat /\ q \in [1 .. n -> InMemory] /\ Rising(q)
  <2>1. IsFiniteSet(InMemory) /\ InMemory \in SUBSET Nat
    BY <1>4, TBTreeAssumption DEF HeldOK, InMemory
  <2>2. n \in Nat
    BY <1>1, <2>1, FS_CardinalityType
  <2>3. \E p \in [1 .. n -> InMemory] : Rising(p)
    BY <1>1, <2>1, RisingExists
  <2> QED BY <1>1, <2>2, <2>3 DEF Rising
<1>6. /\ s.file \in Seq(Node) /\ DOMAIN file \subseteq DOMAIN s.file
      /\ s.narrow \subseteq DOMAIN s.file /\ s.dropped \subseteq DOMAIN s.file /\ Ranked'
      /\ HeldWritten /\ HangsOn /\ KeepsRoom
  <2>1. CASE rootId = 0
    <3>1. file = << >> /\ level = 0 /\ file \in Seq(Node)
      BY <1>4, <2>1 DEF Ranked, TypeOK
    <3>2. InMemory = {}
      <4>1. \A trj \in Trj : sidmap[trj] = 0
        BY <1>4, <3>1 DEF HeldOK, AllHeld, HeldLeaf
      <4> QED BY <4>1 DEF InMemory
    <3>3. n = 0
      BY <1>1, <3>2, FS_EmptySet
    <3>4. AddAll(Tree, q) = Tree
      <4>1. DOMAIN q = 1 .. 0 /\ 0 \in Nat
        BY <1>5, <3>3
      <4>2. \E h : h[0] = Tree /\ AddAll(Tree, q) = h[0]
        BY <4>1, AddFold
      <4> QED BY <4>2
    <3>5. s.file = file /\ s.narrow = narrow /\ s.dropped = dropped
      BY <1>3, <3>4 DEF Tree
    <3>6. narrow \subseteq DOMAIN file /\ dropped \subseteq DOMAIN file
      BY <1>4 DEF TypeOK
    <3>7. HeldWritten
      BY <1>3, <3>1, <3>5 DEF HeldWritten
    <3>8. Held = {}
      BY <3>2 DEF InMemory, Held
    <3>9. HangsOn /\ KeepsRoom
      BY <1>2, <1>3, <3>5, <3>8 DEF HangsOn, KeepsRoom, Roomy
    <3> QED BY <1>2, <1>3, <2>1, <3>1, <3>5, <3>6, <3>7, <3>9 DEF Ranked
  <2>2. CASE rootId # 0
    <3>1. PICK lv : Standing(file, lv, dropped, rootId) /\ level = lv[rootId] + 1
      BY <2>2, TreeRanked
    <3>2. PICK tree : tree = Tree
      OBVIOUS
    <3>3. tree.file = file /\ tree.narrow = narrow /\ tree.dropped = dropped
      BY <3>2 DEF Tree
    <3>4. Bulk(tree, lv)
      <4>1. narrow \subseteq DOMAIN file
        BY <1>4 DEF TypeOK
      <4> QED BY <3>1, <3>2, <3>3, <4>1 DEF Bulk, Tree
    <3>5. AllHeld(tree.file, tree.dropped) /\ (~tree.file[rootId].leaf => HeldApart)
      BY <1>4, <2>2, <3>3 DEF HeldOK
    <3>6. \E l2 : AllIn(tree, lv, AddAll(tree, q), l2)
      BY <1>5, <3>4, <3>5, AddAllIn
    <3>7. PICK l2 : AllIn(tree, lv, s, l2)
      BY <1>3, <3>2, <3>6
    <3>8. /\ Standing(s.file, l2, s.dropped, rootId) /\ s.narrow \subseteq DOMAIN s.file
          /\ DOMAIN file \subseteq DOMAIN s.file /\ \A x \in DOMAIN file : l2[x] = lv[x]
      BY <3>3, <3>7 DEF AllIn, Bulk
    <3>9. s.file \in Seq(Node) /\ s.dropped \subseteq DOMAIN s.file /\ rootId \in DOMAIN file
      BY <3>1, <3>8, StandingFile DEF Standing, Shape
    <3>10. Ranked'
      BY <1>2, <1>3, <2>2, <3>1, <3>8, <3>9 DEF Ranked
    <3>12. \A trj \in InMemory : \E j \in 1 .. n : q[j] = trj
      <4>1. IsFiniteSet(InMemory) /\ InMemory \in SUBSET Nat
        BY <1>4, TBTreeAssumption DEF HeldOK, InMemory
      <4>2. PICK S : S = InMemory
        OBVIOUS
      <4>3. Enumerates(q, n, S)
        BY <1>1, <1>5, <4>1, <4>2 DEF Enumerates
      <4>4. \A trj \in S : \E j \in 1 .. n : q[j] = trj
        BY ONLY <4>3, AllMet
      <4> QED BY <4>2, <4>4
    <3>11. HeldWritten
      <4>1. AllWritten(file, q, n, s.file)
        BY <1>3, <1>5, <3>2, <3>3, <3>4, <3>5, AddAllIn
      <4>2. \A x \in DOMAIN file : s.file[x].leaf = file[x].leaf
        BY <3>3, <3>7 DEF AllIn
      <4>3. \A trj \in InMemory : \E j \in 1 .. n : q[j] = trj
        BY <3>12
      <4>4. \A j \in 1 .. n : q[j] \in InMemory
        BY <1>5
      <4>5. ASSUME NEW x \in DOMAIN file, file[x].leaf
            PROVE  \/ \E trj \in InMemory : sidmap[trj] = x /\ s.file[x] = nodemap[trj]
                   \/ (\A trj \in InMemory : sidmap[trj] # x) /\ s.file[x] = file[x]
        <5>1. CASE \E j \in 1 .. n : sidmap[q[j]] = x /\ s.file[x] = nodemap[q[j]]
          BY <4>4, <5>1
        <5>2. CASE (\A j \in 1 .. n : sidmap[q[j]] # x) /\ s.file[x] = file[x]
          BY <4>3, <5>2
        <5> QED BY <4>1, <4>5, <5>1, <5>2 DEF AllWritten
      <4>6. \A x \in DOMAIN s.file : x \notin DOMAIN file => ~s.file[x].leaf
        BY <4>1 DEF AllWritten
      <4> QED BY <1>3, <3>8, <4>2, <4>5, <4>6 DEF HeldWritten
    <3>13. AllBrought(tree, q, n, s)
      BY <1>3, <1>5, <3>2, <3>4, <3>5, AddAllIn
    <3>14. HangsOn
      <4>1. /\ Used(file, {}) \subseteq Used(s.file, {}) /\ dropped \subseteq s.dropped
            /\ \A j \in 1 .. n : sidmap[q[j]] \in Used(s.file, {})
            /\ \A x \in DOMAIN s.file : x \in DOMAIN file \/ x \in Used(s.file, {}) \/ x \in s.dropped
        BY <3>3, <3>13 DEF AllBrought
      <4>2. ASSUME NEW x \in Held PROVE x \in Used(s.file, {})
        <5>1. PICK trj \in InMemory : sidmap[trj] = x
          BY DEF Held, InMemory
        <5>2. PICK j \in 1 .. n : q[j] = trj
          BY <3>12
        <5> QED BY <4>1, <5>1, <5>2
      <4> QED BY <1>2, <1>3, <4>1, <4>2 DEF HangsOn
    <3>15. KeepsRoom
      BY <1>3, <3>3, <3>13 DEF AllBrought, KeepsRoom, Roomy
    <3> QED BY <3>8, <3>9, <3>10, <3>11, <3>14, <3>15
  <2> QED BY <2>1, <2>2
<1>7. \A trj \in Trj : sidmap'[trj] = 0
  BY <1>2 DEF MapsCleared
<1>8. HeldOK'
  BY <1>7, NoneHeld
<1>9. TypeOK'
  <2>1. rootId \in 0 .. Len(s.file) /\ noNodes + (Len(s.file) - Len(file)) \in Nat
    BY <1>4, <1>6, FileGrows
  <2>2. sidmap' \in [Trj -> 0 .. Len(s.file)]
    <3>1. 0 \in 0 .. Len(s.file)
      BY <1>6
    <3> QED BY <1>2, <3>1 DEF MapsCleared
  <2>3. nodemap' \in [Trj -> Node]
    <3>1. << >> \in Seq(Entry)
      OBVIOUS
    <3>2. \A trj \in Trj : Leaf(<< >>, trj) \in Node
      BY <3>1, LeafNode
    <3> QED BY <1>2, <3>2 DEF MapsCleared
  <2>4. /\ noLeafNodes \in Nat /\ noEntries \in Nat /\ level \in Nat /\ bulkloading \in BOOLEAN
        /\ given \in Seq([trj : Trj, box : Box])
    BY <1>4 DEF TypeOK
  <2> QED BY <1>2, <1>3, <1>6, <2>1, <2>2, <2>3, <2>4 DEF TypeOK
<1> QED BY <1>6, <1>8, <1>9 DEF IInv

(* The inductive invariant holds in every state: every node has a level,   *)
(* one above that of each of its sons, the root is a son of none, and no   *)
(* leaf in memory is in the tree before it is put there.                   *)
THEOREM IInvAlways == Spec => []IInv
<1>1. ASSUME IInv, [Next]_vars PROVE IInv'
  <2>1. ASSUME NEW trj \in Trj, NEW b \in UnitBox, Insert(trj, b) PROVE IInv'
    BY <1>1, <2>1, InsertFirstKeeps, InsertIntoLeafKeeps, InsertNewLeafKeeps DEF Insert
  <2>2. ASSUME NEW trj \in Trj, NEW b \in UnitBox, BulkInsertIntoLeaf(trj, b) PROVE IInv'
    BY <1>1, <2>2, BulkInsertIntoLeafKeeps
  <2>3. ASSUME NEW trj \in Trj, NEW b \in UnitBox, BulkInsertNewLeaf(trj, b) PROVE IInv'
    BY <1>1, <2>3, BulkInsertNewLeafKeeps
  <2>4. CASE StartBulkLoad
    BY <1>1, <2>4, StartBulkLoadKeeps
  <2>5. CASE EndBulkLoad
    BY <1>1, <2>5, EndBulkLoadKeeps
  <2>6. CASE UNCHANGED vars
    <3>1. TypeOK'
      BY <1>1, <2>6 DEF IInv, TypeOK, vars
    <3>2. Ranked'
      BY <1>1, <2>6 DEF IInv, Ranked, vars
    <3>3. InMemory' = InMemory /\ AllHeld(file, dropped)' = AllHeld(file, dropped) /\ HeldApart' = HeldApart
      BY <2>6 DEF InMemory, AllHeld, HeldApart, vars
    <3>4. HeldOK'
      BY <1>1, <2>6, <3>3 DEF IInv, HeldOK, vars
    <3> QED BY <3>1, <3>2, <3>4 DEF IInv
  <2> QED BY <1>1, <2>1, <2>2, <2>3, <2>4, <2>5, <2>6 DEF Next
<1> QED BY <1>1, InitInv, PTL DEF Spec

-----------------------------------------------------------------------------
(***************************************************************************)
(* The tree below the root                                                 *)
(***************************************************************************)

(* As many nodes are referred to as there are entries when no two agree.   *)
LEMMA RefsCounted ==
  ASSUME NEW x \in Seq(Entry), Distinct(x)
  PROVE  Cardinality(RefsOf(x)) = Len(x)
<1>1. PICK n : n = Len(x)
  OBVIOUS
<1>2. n \in Nat /\ IsFiniteSet(1 .. n) /\ Cardinality(1 .. n) = n
  <2>1. n \in Nat
    BY <1>1
  <2> QED BY <2>1, FS_Interval
<1>3. PICK m : m = [i \in 1 .. n |-> x[i].ref]
  OBVIOUS
<1>4. m \in Bijection(1 .. n, RefsOf(x))
  <2>1. m \in [1 .. n -> RefsOf(x)] /\ \A t \in RefsOf(x) : \E i \in 1 .. n : m[i] = t
    BY <1>1, <1>3 DEF RefsOf
  <2>2. \A i, j \in 1 .. n : m[i] = m[j] => i = j
    BY <1>1, <1>3 DEF Distinct
  <2> QED BY <2>1, <2>2 DEF Bijection, Injection, Surjection, IsInjective
<1>5. ExistsBijection(1 .. n, RefsOf(x))
  BY <1>4 DEF ExistsBijection
<1> QED BY <1>1, <1>2, <1>5, FS_Bijection

(* A son is in the file, one level below.                                  *)
LEMMA SonFacts ==
  ASSUME NEW lv, NEW gone, Levelled(file, lv, gone),
         NEW id \in DOMAIN file, ~file[id].leaf, NEW s \in Refs(file[id])
  PROVE  /\ s \in DOMAIN file /\ s \notin gone /\ s \in RefsOf(file[id].entries)
         /\ lv[s] \in Nat /\ lv[id] \in Nat /\ lv[s] + 1 = lv[id] /\ lv[s] < lv[id]
<1>1. file \in Seq(Node) /\ lv \in [DOMAIN file -> Nat]
  BY DEF Levelled
<1>2. s \in RefsOf(file[id].entries)
  <2>1. file[id].entries \in Seq(Entry)
    BY <1>1, NodeParts
  <2> QED BY <2>1 DEF Refs, RefsOf
<1>3. s \in DOMAIN file /\ s \notin gone /\ lv[s] + 1 = lv[id]
  <2>1. Son(s, file, lv, lv[id], gone)
    BY <1>2 DEF Levelled
  <2> QED BY <2>1 DEF Son
<1>4. lv[s] \in Nat /\ lv[id] \in Nat
  BY <1>1, <1>3
<1> QED BY <1>2, <1>3, <1>4

(* The records below a node are it and those below its sons.               *)
LEMMA BelowSons ==
  ASSUME NEW lv, NEW gone, Levelled(file, lv, gone)
  PROVE  \E g : \A d \in DOMAIN file :
           /\ Below(d) = g[d]
           /\ g[d] = {d} \cup IF file[d].leaf THEN {} ELSE UNION {g[s] : s \in Refs(file[d])}
<1> DEFINE D == DOMAIN file
           V == SUBSET D
           Step(g) == [id \in DOMAIN file |->
                         {id} \cup IF file[id].leaf THEN {} ELSE UNION {g[s] : s \in Refs(file[id])}]
           P == CHOOSE g : g = Step(g)
           at(id, g) == {id} \cup IF file[id].leaf THEN {} ELSE UNION {g[s] : s \in Refs(file[id])}
           step == [x \in D \X [D -> V] |-> at(x[1], x[2])]
<1>1. file \in Seq(Node) /\ lv \in [D -> Nat] /\ D = 1 .. Len(file) /\ Len(file) \in Nat
  BY DEF Levelled
<1>2. ASSUME NEW id \in D, ~file[id].leaf, NEW s \in Refs(file[id])
      PROVE  s \in D /\ s \notin gone /\ lv[s] < lv[id] /\ s \in RefsOf(file[id].entries)
  BY <1>2, SonFacts
<1>3. PICK K \in Nat : \A i \in D : lv[i] <= K
  BY <1>1, LevelsBounded
<1>4. ASSUME NEW d \in D, NEW g \in [D -> V]
      PROVE  step[<<d, g>>] = at(d, g) /\ at(d, g) \in V
  <2>1. <<d, g>> \in D \X [D -> V] /\ <<d, g>>[1] = d /\ <<d, g>>[2] = g
    OBVIOUS
  <2>2. step[<<d, g>>] = at(d, g)
    BY <2>1, ZenonT(60)
  <2>3. CASE file[d].leaf
    <3>1. at(d, g) = {d}
      BY <2>3
    <3> QED BY <2>2, <3>1
  <2>4. CASE ~file[d].leaf
    <3>1. at(d, g) = {d} \cup UNION {g[s] : s \in Refs(file[d])}
      BY <2>4
    <3>2. \A s \in Refs(file[d]) : g[s] \in V
      BY <1>2, <2>4
    <3> HIDE DEF step
    <3> QED BY <2>2, <3>1, <3>2
  <2> QED BY <2>3, <2>4
<1>5. step \in [D \X [D -> V] -> V]
  <2>1. ASSUME NEW x \in D \X [D -> V] PROVE at(x[1], x[2]) \in V
    <3>1. PICK d \in D, g \in [D -> V] : x[1] = d /\ x[2] = g
      OBVIOUS
    <3> HIDE DEF at, V, D
    <3>2. at(d, g) \in V
      BY <1>4
    <3> QED BY <3>1, <3>2
  <2> HIDE DEF at, V
  <2> QED BY <2>1
<1> HIDE DEF step
<1>6. StepsDown(D, V, lv, K, step)
  <2>1. ASSUME NEW d \in D, NEW g \in [D -> V], NEW h \in [D -> V],
               \A e \in D : lv[e] < lv[d] => g[e] = h[e]
        PROVE  step[<<d, g>>] = step[<<d, h>>]
    <3>1. CASE file[d].leaf
      BY <1>4, <3>1
    <3>2. CASE ~file[d].leaf
      <4>1. \A s \in Refs(file[d]) : g[s] = h[s]
        BY <1>2, <2>1, <3>2
      <4>2. {g[s] : s \in Refs(file[d])} = {h[s] : s \in Refs(file[d])}
        BY <4>1
      <4>3. at(d, g) = at(d, h)
        BY <4>2
      <4> HIDE DEF at
      <4> QED BY <1>4, <4>3
    <3> QED BY <3>1, <3>2
  <2>2. V # {}
    OBVIOUS
  <2> HIDE DEF V, D
  <2> QED BY <1>1, <1>3, <1>5, <2>1, <2>2 DEF StepsDown
<1>7. PICK p \in [D -> V] : \A d \in D : p[d] = step[<<d, p>>]
  <2>1. \E p : Follows(p, D, V, step)
    <3> HIDE DEF V, D
    <3> QED BY <1>3, <1>6, RecursionExists, Zenon
  <2> QED BY <2>1 DEF Follows
<1>8. p = Step(p)
  <2>1. \A d \in DOMAIN file : p[d] = at(d, p)
    <3> HIDE DEF at
    <3> QED BY <1>4, <1>7
  <2> QED BY <1>7, <2>1
<1>9. P = Step(P)
  BY <1>8, ZenonT(60)
<1>10. ASSUME NEW d \in D PROVE Below(d) = P[d]
  <2>1. d # 0
    BY <1>1
  <2> QED BY <2>1, Zenon DEF Below
<1> HIDE DEF P
<1>11. \A d \in D : P[d] = at(d, P)
  BY <1>9
<1> QED BY <1>10, <1>11

(* The records of the tree are its root and what is referred to.           *)
LEMMA BelowUsed ==
  ASSUME NEW lv, NEW gone, Levelled(file, lv, gone), NEW r \in DOMAIN file, r \notin gone
  PROVE  \A x \in Below(r) : x \in DOMAIN file /\ x \notin gone /\ (x = r \/ x \in Used(file, gone))
<1> DEFINE D == DOMAIN file
           at(d, g) == {d} \cup IF file[d].leaf THEN {} ELSE UNION {g[s] : s \in Refs(file[d])}
<1>1. lv \in [D -> Nat]
  BY DEF Levelled
<1>2. ASSUME NEW id \in D, ~file[id].leaf, NEW s \in Refs(file[id])
      PROVE  s \in D /\ s \notin gone /\ lv[s] < lv[id] /\ s \in RefsOf(file[id].entries)
  BY <1>2, SonFacts
<1>3. PICK P : \A d \in D : Below(d) = P[d] /\ P[d] = at(d, P)
  BY BelowSons
<1>10. Below(r) = P[r]
  BY <1>3
<1>11. \A d \in D : P[d] = at(d, P)
  BY <1>3
<1> DEFINE Fine(d, x) == x \in D /\ x \notin gone /\ (x = d \/ x \in Used(file, gone))
           G == {d \in D : d \notin gone => \A x \in P[d] : Fine(d, x)}
<1>12. ASSUME NEW d \in D, \A e \in D : lv[e] < lv[d] => e \in G PROVE d \in G
  <2>1. ASSUME d \notin gone, NEW x \in P[d] PROVE Fine(d, x)
    <3>1. CASE x = d
      BY <2>1, <3>1
    <3>2. CASE x # d
      <4>1. PICK s \in Refs(file[d]) : ~file[d].leaf /\ x \in P[s]
        BY <1>11, <2>1, <3>2
      <4>2. s \in D /\ s \notin gone /\ lv[s] < lv[d] /\ s \in Used(file, gone)
        BY <1>2, <2>1, <4>1 DEF Used, Inners
      <4>3. Fine(s, x)
        BY <1>12, <4>1, <4>2
      <4> QED BY <4>2, <4>3
    <3> QED BY <3>1, <3>2
  <2> HIDE DEF Fine
  <2> QED BY <2>1
<1>13. \A d \in D : d \in G
  <2>1. \A d \in D : (\A e \in D : lv[e] < lv[d] => e \in G) => d \in G
    <3> HIDE DEF G, D
    <3> QED BY <1>12
  <2>2. lv \in [D -> Nat]
    BY <1>1
  <2> HIDE DEF G, D
  <2> QED BY <2>1, <2>2, ByLevel
<1> QED BY <1>10, <1>13

(* A node's leaves are all as far below it as its level says.              *)
Depths(f, id, g) ==
  IF f[id].leaf THEN {1} ELSE {d + 1 : d \in UNION {g[s] : s \in Refs(f[id])}}

(* The depths that Balanced computes are those the levels say.             *)
LEMMA DepthLevel ==
  ASSUME NEW lv, NEW gone, Levelled(file, lv, gone), NEW r \in DOMAIN file,
         NEW P, P = CHOOSE g : g = [id \in DOMAIN file |-> Depths(file, id, g)]
  PROVE  P[r] = {lv[r] + 1}
<1> DEFINE D == DOMAIN file
           Step(g) == [id \in DOMAIN file |-> Depths(file, id, g)]
<1>1. file \in Seq(Node) /\ lv \in [D -> Nat] /\ D = 1 .. Len(file) /\ Len(file) \in Nat
  BY DEF Levelled
<1>2. ASSUME NEW id \in D, ~file[id].leaf
      PROVE  /\ Refs(file[id]) # {}
             /\ \A s \in Refs(file[id]) : s \in D /\ lv[s] + 1 = lv[id] /\ lv[s] \in Nat /\ lv[id] \in Nat
  <2>1. file[id].entries \in Seq(Entry) /\ file[id].entries # << >>
    BY <1>1, <1>2, NodeParts DEF Levelled
  <2>2. Refs(file[id]) = RefsOf(file[id].entries)
    BY <2>1 DEF Refs, RefsOf
  <2>3. Refs(file[id]) # {}
    <3>1. 1 \in DOMAIN file[id].entries
      BY <2>1
    <3> QED BY <3>1 DEF Refs
  <2>4. \A s \in Refs(file[id]) : s \in D /\ lv[s] + 1 = lv[id]
    BY <1>2, <2>2 DEF Levelled, Son
  <2> QED BY <1>1, <2>3, <2>4
<1>3. PICK p : p = [id \in D |-> {lv[id] + 1}]
  OBVIOUS
<1>4. ASSUME NEW g, NEW id \in D, \A s \in D : lv[s] < lv[id] => g[s] = {lv[s] + 1}
      PROVE  Depths(file, id, g) = {lv[id] + 1}
  <2>1. CASE file[id].leaf
    <3>1. lv[id] = 0
      BY <2>1 DEF Levelled
    <3> QED BY <2>1, <3>1 DEF Depths
  <2>2. CASE ~file[id].leaf
    <3>1. PICK k : k = lv[id]
      OBVIOUS
    <3>2. k \in Nat
      BY <1>1, <3>1
    <3>3. \A s \in Refs(file[id]) : g[s] = {k}
      <4>1. ASSUME NEW s \in Refs(file[id]) PROVE g[s] = {k}
        <5>1. s \in D /\ lv[s] + 1 = k /\ lv[s] \in Nat
          BY <1>2, <2>2, <3>1
        <5>2. lv[s] < k
          BY <3>2, <5>1
        <5>3. g[s] = {lv[s] + 1}
          BY <1>4, <3>1, <5>1, <5>2
        <5> QED BY <5>1, <5>3
      <4> QED BY <4>1
    <3>4. UNION {g[s] : s \in Refs(file[id])} = {k}
      <4>1. Refs(file[id]) # {}
        BY <1>2, <2>2
      <4> QED BY <3>3, <4>1
    <3>5. Depths(file, id, g) = {d + 1 : d \in {k}}
      BY <2>2, <3>4 DEF Depths
    <3> QED BY <3>1, <3>5
  <2> QED BY <2>1, <2>2
<1>5. p = Step(p)
  <2>1. \A id \in D : Depths(file, id, p) = {lv[id] + 1}
    BY <1>3, <1>4
  <2> QED BY <1>3, <2>1
<1>6. P = Step(P)
  BY <1>5, Zenon
<1> DEFINE G == {d \in D : P[d] = {lv[d] + 1}}
<1>7. ASSUME NEW d \in D, \A e \in D : lv[e] < lv[d] => e \in G PROVE d \in G
  <2>1. \A e \in D : lv[e] < lv[d] => P[e] = {lv[e] + 1}
    BY <1>7
  <2>2. Depths(file, d, P) = {lv[d] + 1}
    BY <1>4, <2>1
  <2>3. P[d] = Depths(file, d, P)
    BY <1>6
  <2> QED BY <2>2, <2>3
<1>8. \A d \in D : d \in G
  <2>1. \A d \in D : (\A e \in D : lv[e] < lv[d] => e \in G) => d \in G
    <3> HIDE DEF G, D
    <3> QED BY <1>7
  <2>2. lv \in [D -> Nat]
    BY <1>1
  <2> HIDE DEF G, D
  <2> QED BY <2>1, <2>2, ByLevel
<1> QED BY <1>8

-----------------------------------------------------------------------------
(* The invariant gives the properties of the tree.                         *)
LEMMA InvFilled == IInv => NodesFilled
<1> SUFFICES ASSUME IInv, NEW id \in InTree
             PROVE  LET n == Len(file[id].entries)
                    IN  IF file[id].leaf THEN n \in 1 .. LeafMax - 1
                        ELSE n \in (IF id = rootId THEN Lesser(2, InnerMin) ELSE InnerMin) .. InnerMax
  BY DEF NodesFilled
<1>1. rootId # 0
  BY DEF InTree, Below
<1>2. PICK lv : Standing(file, lv, dropped, rootId)
  BY <1>1, TreeRanked
<1>3. /\ Levelled(file, lv, dropped) /\ rootId \in DOMAIN file /\ rootId \notin dropped
      /\ file \in Seq(Node) /\ Sized(file, {rootId} \cup dropped) /\ file[rootId].entries # << >>
  BY <1>2, StandingFile DEF Standing, Shape
<1>4. id \in DOMAIN file /\ id \notin dropped /\ (id = rootId \/ id \in Used(file, dropped))
  BY <1>3, BelowUsed DEF InTree
<1>5. file[id].entries # << >> /\ file[id].entries \in Seq(Entry)
  BY <1>3, <1>4, UsedInFile, NodeParts
<1>6. Fits(file[id], id, {rootId} \cup dropped)
  BY <1>3, <1>4 DEF Sized
<1>7. CASE file[id].leaf
  <2>1. PICK n : n = Len(file[id].entries)
    OBVIOUS
  <2>2. n \in 0 .. LeafMax - 1 /\ n # 0
    BY <1>5, <1>6, <1>7, <2>1 DEF Fits
  <2>3. n \in 1 .. LeafMax - 1
    BY <2>2, TBTreeAssumption
  <2> QED BY <1>7, <2>1, <2>3
<1>8. CASE ~file[id].leaf
  BY <1>4, <1>6, <1>8 DEF Fits
<1> QED BY <1>7, <1>8

(* The invariant gives the balance of the tree.                            *)
LEMMA InvBalanced == IInv => Balanced
<1> SUFFICES ASSUME IInv PROVE Balanced
  OBVIOUS
<1> DEFINE depth == CHOOSE g : g = [id \in DOMAIN file |-> Depths(file, id, g)]
           inner == {id \in InTree : ~file[id].leaf}
<1>1. Balanced <=> /\ rootId # 0 => depth[rootId] = {level}
                   /\ \A id \in inner :
                        /\ Cardinality(Refs(file[id])) = Len(file[id].entries)
                        /\ \A other \in inner \ {id} : Refs(file[id]) \cap Refs(file[other]) = {}
  BY Zenon DEF Balanced, Depths
<1>2. CASE rootId = 0
  <2>1. inner = {}
    BY <1>2 DEF InTree, Below
  <2> HIDE DEF inner, depth
  <2> QED BY <1>1, <1>2, <2>1
<1>3. CASE rootId # 0
  <2>1. PICK lv : Standing(file, lv, dropped, rootId) /\ level = lv[rootId] + 1
    BY <1>3, TreeRanked
  <2>2. /\ Levelled(file, lv, dropped) /\ rootId \in DOMAIN file /\ rootId \notin dropped
        /\ file \in Seq(Node) /\ Once(file, dropped)
    BY <2>1, StandingFile DEF Standing, Shape
  <2>3. depth[rootId] = {level}
    BY <2>1, <2>2, DepthLevel
  <2> HIDE DEF depth
  <2>4. ASSUME NEW id \in inner
        PROVE  /\ id \in Inners(file, dropped) /\ file[id].entries \in Seq(Entry)
               /\ Refs(file[id]) = RefsOf(file[id].entries)
    <3>1. id \in DOMAIN file /\ id \notin dropped
      BY <2>2, BelowUsed DEF InTree
    <3>2. file[id].entries \in Seq(Entry)
      BY <2>2, <3>1, NodeParts
    <3> QED BY <3>1, <3>2 DEF Inners, Refs, RefsOf
  <2> HIDE DEF inner
  <2>5. ASSUME NEW id \in inner
        PROVE  /\ Cardinality(Refs(file[id])) = Len(file[id].entries)
               /\ \A other \in inner \ {id} : Refs(file[id]) \cap Refs(file[other]) = {}
    <3>1. Distinct(file[id].entries)
      BY <2>2, <2>4 DEF Once
    <3>2. Cardinality(Refs(file[id])) = Len(file[id].entries)
      BY <2>4, <3>1, RefsCounted
    <3>3. ASSUME NEW other \in inner \ {id} PROVE Refs(file[id]) \cap Refs(file[other]) = {}
      BY <2>2, <2>4, <3>3 DEF Once
    <3> QED BY <3>2, <3>3
  <2> QED BY <1>1, <2>3, <2>5
<1> QED BY <1>2, <1>3

(* The variables of the TB-tree keep their types.                          *)
THEOREM TypeAlways == Spec => []TypeOK
<1>1. IInv => TypeOK
  BY DEF IInv
<1> QED BY <1>1, IInvAlways, PTL

(* After any sequence of insertions and bulk loads every node in the tree  *)
(* has the entries a node must have, whatever the boxes, the sizes of the  *)
(* nodes and the number of units: splitNode gives each half its minimum,   *)
(* and a root alone may have two.                                          *)
THEOREM FilledAlways == Spec => []NodesFilled
BY InvFilled, IInvAlways, PTL

(* All leaves of the tree are at the depth TBTree records as its level,    *)
(* and no node is on two ways from the root, whatever a bulk load dropped. *)
THEOREM BalancedAlways == Spec => []Balanced
BY InvBalanced, IInvAlways, PTL

(***************************************************************************)
(* The leaves as they stand: LeafView has every leaf once, as it is in the *)
(* file or in memory, and Bundled says of it that each unit given is in    *)
(* one leaf and that the chains are in order.                              *)
(***************************************************************************)

(* The leaves with what they hold, in the file or in memory.               *)
LeafView == [id \in Leaves(DOMAIN file) |-> LeafAt(id)]

(* The leaf m may be the next of n.                                        *)
Before(n, m) ==
  /\ n.trj = m.trj /\ IsFull(n)
  /\ \A s \in RefsOf(n.entries), t \in RefsOf(m.entries) : s < t

(* The units of the leaf n were given, for its trajectory.                 *)
Owned(n, g) ==
  /\ Distinct(n.entries)
  /\ \A i \in 1 .. Len(n.entries) :
       /\ n.entries[i].ref \in 1 .. Len(g)
       /\ n.entries[i].box = g[n.entries[i].ref].box /\ n.trj = g[n.entries[i].ref].trj

NextOK(v, id) == v[id].next # 0 => v[id].next \in DOMAIN v /\ Before(v[id], v[v[id].next])

(* The leaves v hold the units g, each one once, in chains.                *)
Bundled(v, g) ==
  /\ \A id \in DOMAIN v : v[id] \in Node /\ Owned(v[id], g) /\ NextOK(v, id)
  /\ \A a, b \in DOMAIN v : v[a].next # 0 /\ v[a].next = v[b].next => a = b
  /\ \A a, b \in DOMAIN v : a # b => Apart(v[a].entries, v[b].entries)
  /\ \A t \in 1 .. Len(g) : \E id \in DOMAIN v : t \in RefsOf(v[id].entries)

(* One unit more is given.                                                 *)
More1(g, trj, u, h) ==
  /\ g \in Seq([trj : Trj, box : Box]) /\ trj \in Trj /\ u \in Entry
  /\ u.ref = Len(g) + 1 /\ h = Append(g, [trj |-> trj, box |-> u.box])

(* A leaf takes the unit u.                                                *)
Longer(n, u, m) == m \in Node /\ m.next = n.next /\ m.trj = n.trj /\ m.entries = Append(n.entries, u)

(* The unit that is given is the last.                                     *)
LEMMA GivenLast ==
  ASSUME NEW g, NEW trj, NEW u, NEW h, More1(g, trj, u, h)
  PROVE  /\ Len(g) \in Nat /\ Len(h) = Len(g) + 1 /\ h[Len(g) + 1].trj = trj /\ h[Len(g) + 1].box = u.box
         /\ \A t \in 1 .. Len(g) : t \in 1 .. Len(h) /\ h[t] = g[t]
         /\ \A t \in 1 .. Len(h) : t \in 1 .. Len(g) \/ t = Len(g) + 1
<1>1. [trj |-> trj, box |-> u.box] \in [trj : Trj, box : Box]
  BY EntryParts DEF More1
<1>2. PICK e, k : e = [trj |-> trj, box |-> u.box] /\ k = Len(g)
  OBVIOUS
<1>3. g \in Seq([trj : Trj, box : Box]) /\ e \in [trj : Trj, box : Box] /\ h = Append(g, e)
  BY <1>1, <1>2 DEF More1
<1>4. k \in Nat /\ Len(h) = k + 1 /\ h[k + 1] = e /\ \A t \in 1 .. k : h[t] = g[t]
  BY <1>2, <1>3
<1>5. e.trj = trj /\ e.box = u.box
  BY <1>2
<1>6. \A t \in 1 .. k : t \in 1 .. k + 1
  BY <1>4
<1>7. \A t \in 1 .. k + 1 : t \in 1 .. k \/ t = k + 1
  BY <1>4
<1> QED BY <1>2, <1>4, <1>5, <1>6, <1>7

(* What a leaf holds was given before.                                     *)
LEMMA OwnedBefore ==
  ASSUME NEW g, NEW trj, NEW u, NEW h, More1(g, trj, u, h), NEW n \in Node, Owned(n, g)
  PROVE  /\ Owned(n, h)
         /\ \A t \in RefsOf(n.entries) : t \in 1 .. Len(g) /\ t < u.ref
         /\ u.ref \notin RefsOf(n.entries)
<1>1. Owned(n, h)
  BY GivenLast DEF Owned
<1>2. u.ref = Len(g) + 1 /\ Len(g) \in Nat
  BY GivenLast DEF More1
<1>3. ASSUME NEW t \in RefsOf(n.entries) PROVE t \in 1 .. Len(g) /\ t < u.ref /\ t # u.ref
  <2>1. t \in 1 .. Len(g)
    BY DEF Owned, RefsOf
  <2> QED BY <1>2, <2>1
<1> QED BY <1>1, <1>3

(* A leaf with the unit more: what it holds.                               *)
LEMMA LongerOwned ==
  ASSUME NEW g, NEW trj, NEW u, NEW h, More1(g, trj, u, h), NEW n \in Node, Owned(n, g),
         n.trj = trj, NEW m, Longer(n, u, m)
  PROVE  Owned(m, h) /\ RefsOf(m.entries) = RefsOf(n.entries) \cup {u.ref}
<1>1. PICK x, k : x = n.entries /\ k = Len(x)
  OBVIOUS
<1>2. x \in Seq(Entry) /\ k \in Nat /\ u \in Entry
  BY <1>1, NodeParts DEF More1
<1>3. PICK y : y = Append(x, u)
  OBVIOUS
<1>4. Len(y) = k + 1 /\ y[k + 1] = u /\ \A i \in 1 .. k : y[i] = x[i]
  BY <1>1, <1>2, <1>3
<1>5. m.entries = y /\ m.trj = trj
  BY <1>1, <1>3 DEF Longer
<1>6. \A i \in 1 .. k + 1 : i \in 1 .. k \/ i = k + 1
  BY <1>2
<1>7. \A i \in 1 .. k : i \in 1 .. k + 1
  BY <1>2
<1>8. k + 1 \in 1 .. k + 1
  BY <1>2
<1>9. RefsOf(y) = RefsOf(x) \cup {u.ref}
  BY <1>1, <1>4, <1>6, <1>7, <1>8 DEF RefsOf
<1>10. Owned(n, h)
  BY OwnedBefore
<1>11. ASSUME NEW i \in 1 .. Len(y)
       PROVE  y[i].ref \in 1 .. Len(h) /\ y[i].box = h[y[i].ref].box /\ trj = h[y[i].ref].trj
  <2>1. CASE i \in 1 .. k
    BY <1>1, <1>4, <1>10, <2>1 DEF Owned
  <2>2. CASE i = k + 1
    <3>1. u.ref = Len(g) + 1 /\ u.ref \in 1 .. Len(h)
      BY GivenLast DEF More1
    <3> QED BY <1>4, <2>2, <3>1, GivenLast
  <2> QED BY <1>4, <1>6, <2>1, <2>2
<1>12. Distinct(y)
  <2>1. Distinct(x) /\ u.ref \notin RefsOf(x)
    BY <1>1, OwnedBefore DEF Owned
  <2>2. \A i \in 1 .. k : x[i].ref \in RefsOf(x)
    BY <1>1 DEF RefsOf
  <2>3. \A i, j \in 1 .. k : x[i].ref = x[j].ref => i = j
    BY <1>1, <2>1 DEF Distinct
  <2>4. \A i, j \in 1 .. k + 1 : y[i].ref = y[j].ref => i = j
    BY <1>4, <1>6, <2>1, <2>2, <2>3
  <2> QED BY <1>4, <2>4 DEF Distinct
<1>13. Owned(m, h)
  BY <1>5, <1>11, <1>12 DEF Owned
<1> QED BY <1>1, <1>5, <1>9, <1>13

(* Leaves that share no unit.                                              *)
LEMMA ApartRefs ==
  \A s, t : Apart(s, t) <=> RefsOf(s) \cap RefsOf(t) = {}
BY DEF Apart, RefsOf

(* The last leaf of a trajectory takes a unit.                             *)
LEMMA BundledLonger ==
  ASSUME NEW v, NEW g, Bundled(v, g), NEW trj, NEW u, NEW h, More1(g, trj, u, h),
         NEW id \in DOMAIN v, v[id].trj = trj, v[id].next = 0, NEW m, Longer(v[id], u, m),
         NEW w, DOMAIN w = DOMAIN v, w[id] = m, \A x \in DOMAIN v : x # id => w[x] = v[x]
  PROVE  Bundled(w, h)
<1>1. \A x \in DOMAIN v : v[x] \in Node /\ Owned(v[x], g) /\ NextOK(v, x)
  BY DEF Bundled
<1>2. /\ m \in Node /\ m.next = 0 /\ m.trj = trj /\ Owned(m, h)
      /\ RefsOf(m.entries) = RefsOf(v[id].entries) \cup {u.ref}
  <2>1. PICK n : n = v[id]
    OBVIOUS
  <2>2. n \in Node /\ Owned(n, g) /\ n.trj = trj /\ Longer(n, u, m) /\ n.next = 0
    BY <1>1, <2>1
  <2>3. Owned(m, h) /\ RefsOf(m.entries) = RefsOf(n.entries) \cup {u.ref}
    BY <2>2, LongerOwned
  <2> QED BY <2>1, <2>2, <2>3 DEF Longer
<1>3. \A x \in DOMAIN v : /\ Owned(v[x], h) /\ u.ref \notin RefsOf(v[x].entries)
                          /\ \A t \in RefsOf(v[x].entries) : t < u.ref
  BY <1>1, OwnedBefore
<1>4. ASSUME NEW x \in DOMAIN w PROVE w[x] \in Node /\ Owned(w[x], h) /\ NextOK(w, x)
  <2>1. CASE x = id
    BY <1>2, <2>1 DEF NextOK
  <2>2. CASE x # id
    <3>1. w[x] = v[x] /\ NextOK(v, x)
      BY <1>1, <2>2
    <3>2. ASSUME v[x].next # 0 PROVE v[x].next \in DOMAIN w /\ Before(v[x], w[v[x].next])
      <4>1. PICK y : y = v[x].next
        OBVIOUS
      <4>2. y \in DOMAIN v /\ Before(v[x], v[y])
        BY <3>1, <3>2, <4>1 DEF NextOK
      <4>3. ASSUME y = id PROVE Before(v[x], w[y])
        <5>1. w[y].trj = v[y].trj /\ RefsOf(w[y].entries) = RefsOf(v[y].entries) \cup {u.ref}
          BY <1>2, <4>3
        <5> QED BY <1>3, <4>2, <5>1 DEF Before
      <4>4. ASSUME y # id PROVE w[y] = v[y]
        BY <4>2, <4>4
      <4>5. Before(v[x], w[y])
        BY <4>2, <4>3, <4>4
      <4> QED BY <4>1, <4>2, <4>5
    <3> QED BY <1>1, <1>3, <3>1, <3>2 DEF NextOK
  <2> QED BY <2>1, <2>2
<1>5. \A x \in DOMAIN v : w[x].next = v[x].next
  BY <1>2
<1>6. ASSUME NEW a \in DOMAIN w, NEW b \in DOMAIN w, a # b PROVE Apart(w[a].entries, w[b].entries)
  <2>1. RefsOf(v[a].entries) \cap RefsOf(v[b].entries) = {}
    BY <1>6, ApartRefs DEF Bundled
  <2>2. u.ref \notin RefsOf(v[a].entries) /\ u.ref \notin RefsOf(v[b].entries)
    BY <1>3
  <2>3. RefsOf(w[a].entries) \cap RefsOf(w[b].entries) = {}
    <3>1. CASE a = id
      BY <1>2, <1>6, <2>1, <2>2, <3>1
    <3>2. CASE b = id
      BY <1>2, <1>6, <2>1, <2>2, <3>2
    <3>3. CASE a # id /\ b # id
      BY <2>1, <3>3
    <3> QED BY <3>1, <3>2, <3>3
  <2> QED BY <2>3, ApartRefs
<1>7. ASSUME NEW t \in 1 .. Len(h) PROVE \E x \in DOMAIN w : t \in RefsOf(w[x].entries)
  <2>1. CASE t \in 1 .. Len(g)
    <3>1. PICK x \in DOMAIN v : t \in RefsOf(v[x].entries)
      BY <2>1 DEF Bundled
    <3>2. t \in RefsOf(w[x].entries)
      BY <1>2, <3>1
    <3> QED BY <3>2
  <2>2. CASE t = Len(g) + 1
    BY <1>2, <2>2 DEF More1
  <2> QED BY <2>1, <2>2, GivenLast
<1>8. \A a, b \in DOMAIN w : w[a].next # 0 /\ w[a].next = w[b].next => a = b
  BY <1>5 DEF Bundled
<1> QED BY <1>4, <1>6, <1>7, <1>8 DEF Bundled

(* A new leaf has the unit.                                                *)
LEMMA BundledNew ==
  ASSUME NEW v, NEW g, Bundled(v, g), NEW trj, NEW u, NEW h, More1(g, trj, u, h),
         NEW id, id \notin DOMAIN v, id # 0,
         NEW w, DOMAIN w = (DOMAIN v) \cup {id}, w[id] = Leaf(<<u>>, trj),
         \A x \in DOMAIN v : w[x] = v[x]
  PROVE  /\ Bundled(w, h)
         /\ \A x \in DOMAIN w : w[x].next # id
<1>1. \A x \in DOMAIN v : v[x] \in Node /\ Owned(v[x], g) /\ NextOK(v, x)
  BY DEF Bundled
<1>2. PICK n, m : n = Leaf(<< >>, trj) /\ m = Leaf(<<u>>, trj)
  OBVIOUS
<1>3. u \in Entry /\ trj \in Trj /\ << >> \in Seq(Entry) /\ <<u>> \in Seq(Entry) /\ <<u>> = Append(<< >>, u)
  BY DEF More1
<1>4. n \in Node /\ n.next = 0 /\ n.trj = trj /\ n.entries = << >> /\ m \in Node /\ m.next = 0 /\ m.trj = trj
      /\ m.entries = <<u>>
  BY <1>2, <1>3, LeafNode DEF Leaf
<1>5. RefsOf(n.entries) = {} /\ Owned(n, g)
  BY <1>4 DEF RefsOf, Owned, Distinct
<1>6. Owned(m, h) /\ RefsOf(m.entries) = {u.ref}
  <2>1. Longer(n, u, m)
    BY <1>3, <1>4 DEF Longer
  <2>2. Owned(m, h) /\ RefsOf(m.entries) = RefsOf(n.entries) \cup {u.ref}
    <3>1. n \in Node /\ n.trj = trj /\ Owned(n, g) /\ More1(g, trj, u, h)
      BY <1>4, <1>5
    <3>2. \A k : Longer(n, u, k) => Owned(k, h) /\ RefsOf(k.entries) = RefsOf(n.entries) \cup {u.ref}
      BY ONLY <3>1, LongerOwned
    <3> QED BY ONLY <2>1, <3>2
  <2> QED BY ONLY <1>5, <2>2
<1>7. \A x \in DOMAIN v : Owned(v[x], h) /\ u.ref \notin RefsOf(v[x].entries)
  BY <1>1, OwnedBefore
<1>8. ASSUME NEW x \in DOMAIN v PROVE v[x].next # id /\ NextOK(w, x)
  <2>1. v[x].next # 0 => v[x].next \in DOMAIN v /\ Before(v[x], v[v[x].next])
    BY <1>1, <1>8 DEF NextOK
  <2>2. w[x] = v[x] /\ (v[x].next \in DOMAIN v => w[v[x].next] = v[v[x].next])
    BY <1>8
  <2>3. v[x].next # id
    BY <2>1
  <2>4. v[x].next # 0 => v[x].next \in DOMAIN w /\ Before(w[x], w[v[x].next])
    BY <2>1, <2>2
  <2> QED BY <2>2, <2>3, <2>4 DEF NextOK
<1>9. ASSUME NEW a \in DOMAIN w, NEW b \in DOMAIN w, a # b PROVE Apart(w[a].entries, w[b].entries)
  <2>1. a \in DOMAIN v /\ b \in DOMAIN v => RefsOf(v[a].entries) \cap RefsOf(v[b].entries) = {}
    BY <1>9, ApartRefs DEF Bundled
  <2>2. RefsOf(w[a].entries) \cap RefsOf(w[b].entries) = {}
    BY <1>2, <1>6, <1>7, <1>9, <2>1
  <2> QED BY <2>2, ApartRefs
<1>10. ASSUME NEW t \in 1 .. Len(h) PROVE \E x \in DOMAIN w : t \in RefsOf(w[x].entries)
  <2>1. CASE t \in 1 .. Len(g)
    <3>1. PICK x \in DOMAIN v : t \in RefsOf(v[x].entries)
      BY <2>1 DEF Bundled
    <3> QED BY <3>1
  <2>2. CASE t = Len(g) + 1
    BY <1>2, <1>6, <2>2 DEF More1
  <2> QED BY <2>1, <2>2, GivenLast
<1>11. \A a, b \in DOMAIN w : w[a].next # 0 /\ w[a].next = w[b].next => a = b
  BY <1>2, <1>4 DEF Bundled
<1>12. \A x \in DOMAIN w : w[x] \in Node /\ Owned(w[x], h) /\ NextOK(w, x)
  BY <1>1, <1>2, <1>4, <1>6, <1>7, <1>8 DEF NextOK
<1>13. \A x \in DOMAIN w : w[x].next # id
  BY <1>2, <1>4, <1>8
<1> QED BY <1>9, <1>10, <1>11, <1>12, <1>13 DEF Bundled

(* A full leaf gets the new one as its next.                               *)
LEMMA BundledNext ==
  ASSUME NEW v, NEW g, Bundled(v, g), NEW last \in DOMAIN v, NEW id \in DOMAIN v, id \in Nat \ {0},
         v[last].next = 0, last # id, Before(v[last], v[id]), \A x \in DOMAIN v : v[x].next # id,
         NEW w, DOMAIN w = DOMAIN v, w[last] = [v[last] EXCEPT !.next = id],
         \A x \in DOMAIN v : x # last => w[x] = v[x]
  PROVE  Bundled(w, g)
<1>1. \A x \in DOMAIN v : v[x] \in Node /\ Owned(v[x], g) /\ NextOK(v, x)
  BY DEF Bundled
<1>2. /\ w[last] \in Node /\ w[last].next = id /\ w[last].trj = v[last].trj
      /\ w[last].entries = v[last].entries
  BY <1>1 DEF Node
<1>3. ASSUME NEW x \in DOMAIN v
      PROVE  /\ w[x] \in Node /\ w[x].trj = v[x].trj /\ w[x].entries = v[x].entries
             /\ x # last => w[x].next = v[x].next
  BY <1>1, <1>2
<1>4. \A x, y \in DOMAIN v : Before(v[x], v[y]) => Before(w[x], w[y])
  BY <1>3 DEF Before, IsFull
<1>5. ASSUME NEW x \in DOMAIN v PROVE w[x] \in Node /\ Owned(w[x], g) /\ NextOK(w, x)
  <2>1. Owned(w[x], g)
    BY <1>1, <1>3 DEF Owned
  <2>2. NextOK(w, x)
    <3>1. CASE x = last
      BY <1>2, <1>4, <3>1 DEF NextOK
    <3>2. CASE x # last
      <4>1. PICK y : y = v[x].next
        OBVIOUS
      <4>2. w[x].next = y
        BY <1>3, <3>2, <4>1
      <4>3. y # 0 => y \in DOMAIN v /\ Before(v[x], v[y])
        BY <1>1, <4>1 DEF NextOK
      <4>4. y # 0 => y \in DOMAIN w /\ Before(w[x], w[y])
        BY <1>4, <4>3
      <4> QED BY <4>2, <4>4 DEF NextOK
    <3> QED BY <3>1, <3>2
  <2> QED BY <1>3, <2>1, <2>2
<1>6. \A a, b \in DOMAIN w : w[a].next # 0 /\ w[a].next = w[b].next => a = b
  <2>1. \A a, b \in DOMAIN v : v[a].next # 0 /\ v[a].next = v[b].next => a = b
    BY DEF Bundled
  <2>2. ASSUME NEW a \in DOMAIN v, NEW b \in DOMAIN v, w[a].next # 0, w[a].next = w[b].next
        PROVE  a = b
    <3>1. CASE a # last /\ b # last
      BY <1>3, <2>1, <2>2, <3>1
    <3>2. CASE a = last /\ b # last
      BY <1>2, <1>3, <2>2, <3>2
    <3>3. CASE a # last /\ b = last
      BY <1>2, <1>3, <2>2, <3>3
    <3> QED BY <3>1, <3>2, <3>3
  <2> QED BY <2>2
<1>7. \A a, b \in DOMAIN w : a # b => Apart(w[a].entries, w[b].entries)
  <2>1. \A a, b \in DOMAIN v : a # b => Apart(v[a].entries, v[b].entries)
    BY DEF Bundled
  <2> QED BY <1>3, <2>1
<1>8. \A t \in 1 .. Len(g) : \E x \in DOMAIN w : t \in RefsOf(w[x].entries)
  <2>1. \A t \in 1 .. Len(g) : \E x \in DOMAIN v : t \in RefsOf(v[x].entries)
    BY DEF Bundled
  <2> QED BY <1>3, <2>1
<1> QED BY <1>5, <1>6, <1>7, <1>8 DEF Bundled

(* The bulk load goes on with a leaf in memory, which is of its            *)
(* trajectory, and the last of it in the file.                             *)
MemoryOK ==
  \A trj \in Trj :
    /\ nodemap[trj].leaf /\ nodemap[trj].trj = trj /\ nodemap[trj].next = 0
    /\ sidmap[trj] # 0 => LastOf(trj, sidmap[trj])

(* The leaves are those of the units given.                                *)
LeavesOK == MemoryOK /\ Bundled(LeafView, given)

(* A leaf as it stands: the one in memory, if there is one.                *)
Stands ==
  /\ DOMAIN LeafView = {id \in DOMAIN file : file[id].leaf}
  /\ \A trj \in InMemory : sidmap[trj] \in DOMAIN LeafView /\ LeafView[sidmap[trj]] = nodemap[trj]
  /\ \A id \in DOMAIN LeafView : (\A trj \in InMemory : sidmap[trj] # id) => LeafView[id] = file[id]
  /\ \A a, b \in InMemory : sidmap[a] = sidmap[b] => a = b

(* No leaf is held for two trajectories, so each stands as one.            *)
LEMMA LeafStands == MemoryOK => Stands
<1> SUFFICES ASSUME MemoryOK PROVE Stands
  OBVIOUS
<1>1. DOMAIN LeafView = {id \in DOMAIN file : file[id].leaf} /\ \A id \in DOMAIN LeafView : LeafView[id] = LeafAt(id)
  BY DEF LeafView, Leaves
<1>2. \A a, b \in InMemory : sidmap[a] = sidmap[b] => a = b
  BY DEF MemoryOK, InMemory, LastOf
<1>3. ASSUME NEW trj \in InMemory PROVE sidmap[trj] \in DOMAIN LeafView /\ LeafView[sidmap[trj]] = nodemap[trj]
  <2>1. PICK id : id = sidmap[trj]
    OBVIOUS
  <2>2. trj \in Trj /\ id # 0 /\ id \in DOMAIN LeafView
    BY <1>1, <2>1 DEF MemoryOK, InMemory, LastOf
  <2>3. id \in Held
    BY <2>1, <2>2 DEF Held
  <2>4. \A t \in Trj : sidmap[t] = id => t = trj
    BY <1>2, <2>1, <2>2 DEF InMemory
  <2>5. (CHOOSE t \in Trj : sidmap[t] = id) = trj
    BY <2>1, <2>2, <2>4
  <2>6. LeafAt(id) = nodemap[trj]
    BY <2>3, <2>5 DEF LeafAt
  <2> QED BY <1>1, <2>1, <2>2, <2>6
<1>4. ASSUME NEW id \in DOMAIN LeafView, \A trj \in InMemory : sidmap[trj] # id PROVE LeafView[id] = file[id]
  <2>1. id \notin Held
    BY <1>4 DEF Held, InMemory
  <2> QED BY <1>1, <2>1 DEF LeafAt
<1> QED BY <1>1, <1>2, <1>3, <1>4 DEF Stands

(* In the file, too, a next leaf is of the same trajectory.                *)
LEMMA FileSameTrj ==
  ASSUME LeavesOK, Chained(file)
  PROVE  SameTrj(file)
<1>1. MemoryOK /\ Stands /\ \A id \in DOMAIN LeafView : NextOK(LeafView, id)
  BY LeafStands DEF LeavesOK, Bundled
<1>2. PICK v : v = LeafView
  OBVIOUS
<1>3. ASSUME NEW id \in DOMAIN v PROVE v[id].trj = file[id].trj /\ (file[id].next # 0 => v[id] = file[id])
  <2>1. CASE \A trj \in InMemory : sidmap[trj] # id
    BY <1>1, <1>2, <1>3, <2>1 DEF Stands
  <2>2. CASE \E trj \in InMemory : sidmap[trj] = id
    BY <1>1, <1>2, <2>2 DEF Stands, MemoryOK, LastOf, InMemory
  <2> QED BY <2>1, <2>2
<1>4. ASSUME NEW id \in DOMAIN file, file[id].next # 0 PROVE file[file[id].next].trj = file[id].trj
  <2>1. id \in DOMAIN v
    BY <1>1, <1>2, <1>4 DEF Chained, Stands
  <2>2. v[id] = file[id]
    BY <1>3, <1>4, <2>1
  <2>3. v[id].next \in DOMAIN v /\ v[id].trj = v[v[id].next].trj
    BY <1>1, <1>2, <1>4, <2>1, <2>2 DEF NextOK, Before
  <2> QED BY <1>3, <2>1, <2>2, <2>3
<1> QED BY <1>4 DEF SameTrj

(* The leaf the bulk load goes on with is the last of its trajectory.      *)
CurrentLast(trj, sid, node) ==
  /\ LastOf(trj, sid) /\ sid \in DOMAIN LeafView /\ LeafView[sid] = node
  /\ node.trj = trj /\ node.next = 0 /\ node.leaf
  /\ \A t \in InMemory : t # trj => sidmap[t] # sid

(* The bulk load goes on with the last leaf.                               *)
LEMMA CurrentIsLast ==
  ASSUME IInv, LeavesOK, rootId # 0, NEW trj \in Trj, NEW sid, NEW node, Current(trj, sid, node)
  PROVE  CurrentLast(trj, sid, node)
<1>1. MemoryOK /\ Stands
  BY LeafStands DEF LeavesOK
<1>2. CASE sidmap[trj] # 0
  <2>1. trj \in InMemory /\ sid = sidmap[trj] /\ node = nodemap[trj]
    BY <1>2 DEF Current, InMemory
  <2>2. sid \in DOMAIN LeafView /\ LeafView[sid] = node /\ \A t \in InMemory : t # trj => sidmap[t] # sid
    BY <1>1, <2>1 DEF Stands
  <2>3. LastOf(trj, sid) /\ node.trj = trj /\ node.next = 0 /\ node.leaf
    BY <1>1, <1>2, <2>1 DEF MemoryOK
  <2> QED BY <2>2, <2>3 DEF CurrentLast
<1>3. CASE sidmap[trj] = 0
  <2>1. sid = LastLeaf(trj) /\ sid # 0 /\ node = file[sid]
    BY <1>3 DEF Current
  <2>2. file[rootId].leaf /\ file[rootId].trj = trj /\ sid = EndOfChain(rootId)
    BY <2>1 DEF LastLeaf
  <2>3. file \in Seq(Node) /\ Chained(file) /\ rootId \in DOMAIN file
    <3>1. PICK lv : Standing(file, lv, dropped, rootId)
      BY TreeRanked
    <3> QED BY <3>1, StandingFile DEF Standing
  <2>4. LastOf(trj, sid)
    <3>1. SameTrj(file)
      BY <2>3, FileSameTrj
    <3>2. sid \in DOMAIN file /\ file[sid].leaf /\ file[sid].next = 0 /\ file[sid].trj = file[rootId].trj
      BY <2>2, <2>3, <3>1, EndOfChainLast
    <3> QED BY <2>2, <3>2 DEF LastOf
  <2>5. ASSUME NEW t \in InMemory PROVE sidmap[t] # sid
    <3>1. t \in Trj /\ sidmap[t] # 0 /\ file[sidmap[t]].trj = t
      BY <1>1 DEF InMemory, MemoryOK, LastOf
    <3>2. t # trj
      BY <1>3, <3>1
    <3> QED BY <2>4, <3>1, <3>2 DEF LastOf
  <2>6. sid \in DOMAIN LeafView /\ LeafView[sid] = file[sid]
    BY <1>1, <2>4, <2>5 DEF Stands, LastOf
  <2> QED BY <2>1, <2>4, <2>5, <2>6 DEF CurrentLast, LastOf
<1> QED BY <1>2, <1>3

(* Without leaves in memory each leaf stands as it is in the file.         *)
LEMMA FileStands ==
  ASSUME MemoryOK, InMemory = {}
  PROVE  LeafView = [id \in {x \in DOMAIN file : file[x].leaf} |-> file[id]]
<1>1. Stands
  BY LeafStands
<1>2. PICK v, D : v = LeafView /\ D = {x \in DOMAIN file : file[x].leaf}
  OBVIOUS
<1>3. v = [id \in DOMAIN v |-> v[id]]
  BY <1>2 DEF LeafView
<1>4. DOMAIN v = D /\ \A id \in D : v[id] = file[id]
  BY <1>1, <1>2 DEF Stands
<1>5. v = [id \in D |-> file[id]]
  BY <1>3, <1>4
<1> QED BY <1>2, <1>5

(* The same holds of the next state.                                       *)
LEMMA NextStands == (MemoryOK => Stands)'
BY LeafStands, PTL

(* The leaves of a file.                                                   *)
FileView(f) == [id \in {x \in DOMAIN f : f[x].leaf} |-> f[id]]

(* The leaves v with n in record id.                                       *)
ViewWith(v, id, n, w) ==
  /\ DOMAIN w = (DOMAIN v) \cup {id} /\ w[id] = n
  /\ \A x \in DOMAIN v : x # id => w[x] = v[x]

(* The leaf n is written in record id.                                     *)
LEMMA WrittenView ==
  ASSUME NEW f, NEW id, NEW n, n.leaf, NEW g, LeafWritten(f, id, n, g)
  PROVE  ViewWith(FileView(f), id, n, FileView(g))
<1>1. /\ DOMAIN FileView(f) = {x \in DOMAIN f : f[x].leaf}
      /\ DOMAIN FileView(g) = {x \in DOMAIN g : g[x].leaf}
      /\ \A x \in DOMAIN FileView(f) : FileView(f)[x] = f[x]
      /\ \A x \in DOMAIN FileView(g) : FileView(g)[x] = g[x]
  BY DEF FileView
<1>2. id \in DOMAIN FileView(g) /\ FileView(g)[id] = n
  BY <1>1 DEF LeafWritten
<1>3. \A x \in DOMAIN FileView(f) : x # id => x \in DOMAIN FileView(g) /\ FileView(g)[x] = FileView(f)[x]
  BY <1>1 DEF LeafWritten
<1>4. \A x \in DOMAIN FileView(g) : x # id => x \in DOMAIN FileView(f)
  BY <1>1 DEF LeafWritten
<1> QED BY <1>2, <1>3, <1>4 DEF ViewWith

(* The same holds of the next state.                                       *)
LEMMA NextFileStands ==
  ((MemoryOK /\ InMemory = {}) => LeafView = [id \in {x \in DOMAIN file : file[x].leaf} |-> file[id]])'
<1>1. (MemoryOK /\ InMemory = {}) => LeafView = [id \in {x \in DOMAIN file : file[x].leaf} |-> file[id]]
  BY FileStands
<1> QED BY <1>1, PTL

(* Between two bulk loads the leaves are those in the file.                *)
Idle == LeafView = FileView(file) /\ LeafView' = FileView(file') /\ MemoryOK'

(* While no bulk load is at work the leaves are those in the file.         *)
LEMMA IdleViews ==
  ASSUME HeldOK, MemoryOK, ~loading, sidmap' = sidmap, nodemap' = nodemap
  PROVE  Idle
<1>1. InMemory = {} /\ \A trj \in Trj : sidmap[trj] = 0
  BY DEF HeldOK, InMemory
<1>2. InMemory' = {} /\ MemoryOK'
  BY <1>1 DEF InMemory, MemoryOK
<1> QED BY <1>1, <1>2, FileStands, NextFileStands DEF Idle, FileView

(* An insertion gives a unit more.                                         *)
LEMMA UnitMore ==
  ASSUME TypeOK, NEW trj \in Trj, NEW b \in UnitBox, Given(trj, b)
  PROVE  More1(given, trj, Unit(b), given')
<1>1. Unit(b).ref = Len(given) + 1 /\ Unit(b).box = b
  BY DEF Unit, TupleId
<1> QED BY <1>1, UnitGiven DEF More1, TypeOK, Given

(* The first unit makes the first leaf.                                    *)
LEMMA InsertFirstLeaves ==
  ASSUME IInv, LeavesOK, NEW trj \in Trj, NEW b \in UnitBox, InsertFirst(trj, b)
  PROVE  LeavesOK'
<1>1. Idle
  BY IdleViews DEF InsertFirst, IInv, LeavesOK
<1>2. More1(given, trj, Unit(b), given')
  BY UnitMore DEF InsertFirst, IInv
<1>3. PICK n : n = Leaf(<<Unit(b)>>, trj)
  OBVIOUS
<1>4. n \in Node /\ n.leaf
  BY <1>3, UnitGiven DEF InsertFirst, IInv
<1>5. file = << >> /\ file' = Append(file, n)
  BY <1>3 DEF InsertFirst, IInv, Ranked
<1>6. DOMAIN file = {} /\ DOMAIN file' = {1} /\ file'[1] = n
  BY <1>4, <1>5
<1>7. PICK v, w, g, h : v = FileView(file) /\ w = FileView(file') /\ g = given /\ h = given'
  OBVIOUS
<1>8. DOMAIN v = {} /\ DOMAIN w = (DOMAIN v) \cup {1} /\ w[1] = n
  BY <1>4, <1>6, <1>7 DEF FileView
<1>9. Bundled(v, g)
  BY <1>1, <1>7 DEF Idle, LeavesOK
<1>10. Bundled(w, h)
  <2>1. More1(g, trj, Unit(b), h) /\ w[1] = Leaf(<<Unit(b)>>, trj) /\ 1 \notin DOMAIN v
        /\ \A x \in DOMAIN v : w[x] = v[x]
    BY <1>2, <1>3, <1>7, <1>8
  <2> QED BY ONLY <1>8, <1>9, <2>1, BundledNew
<1> QED BY <1>1, <1>7, <1>10 DEF Idle, LeavesOK

(* The last leaf of the trajectory takes the unit.                         *)
LEMMA InsertIntoLeafLeaves ==
  ASSUME IInv, LeavesOK, NEW trj \in Trj, NEW b \in UnitBox, InsertIntoLeaf(trj, b)
  PROVE  LeavesOK'
<1>1. Idle
  BY IdleViews DEF InsertIntoLeaf, IInv, LeavesOK
<1>2. More1(given, trj, Unit(b), given')
  BY UnitMore DEF InsertIntoLeaf, IInv
<1>3. PICK id, m : /\ LastOf(trj, id) /\ OneUnitMore(file[id], b, m)
                   /\ LeafWritten(file, id, m, file')
  BY InsertIntoLeafKeeps DEF UnitWritten
<1>4. PICK v, w, g, h, u : /\ v = FileView(file) /\ w = FileView(file') /\ g = given /\ h = given'
                           /\ u = Unit(b)
  OBVIOUS
<1>5. id \in DOMAIN v /\ v[id] = file[id] /\ v[id].trj = trj /\ v[id].next = 0
  BY <1>3, <1>4 DEF LastOf, FileView
<1>6. m.leaf /\ Longer(v[id], u, m)
  BY <1>3, <1>4, <1>5 DEF OneUnitMore, LastOf, Longer
<1>7. DOMAIN w = DOMAIN v /\ w[id] = m /\ \A x \in DOMAIN v : x # id => w[x] = v[x]
  <2>1. PICK f, f2 : f = file /\ f2 = file'
    OBVIOUS
  <2>2. m.leaf /\ LeafWritten(f, id, m, f2)
    BY <1>3, <1>6, <2>1
  <2>3. ViewWith(FileView(f), id, m, FileView(f2))
    BY ONLY <2>2, WrittenView
  <2>4. v = FileView(f) /\ w = FileView(f2)
    BY <1>4, <2>1
  <2> QED BY ONLY <1>5, <2>3, <2>4 DEF ViewWith
<1>8. Bundled(v, g) /\ More1(g, trj, u, h)
  BY <1>1, <1>2, <1>4 DEF Idle, LeavesOK
<1>9. Bundled(w, h)
  BY ONLY <1>5, <1>6, <1>7, <1>8, BundledLonger
<1> QED BY <1>1, <1>4, <1>9 DEF Idle, LeavesOK

(* A leaf that has no next is full, and gets a new one with the unit.      *)
LEMMA BundledChained ==
  ASSUME NEW v, NEW g, Bundled(v, g), NEW trj, NEW u, NEW h, More1(g, trj, u, h),
         NEW id \in Nat \ {0}, id \notin DOMAIN v,
         NEW last \in DOMAIN v, v[last].trj = trj, v[last].next = 0, IsFull(v[last]),
         NEW w, DOMAIN w = (DOMAIN v) \cup {id}, w[id] = Leaf(<<u>>, trj),
         w[last] = [v[last] EXCEPT !.next = id], \A x \in DOMAIN v : x # last => w[x] = v[x]
  PROVE  Bundled(w, h)
<1>1. PICK y : y = [x \in (DOMAIN v) \cup {id} |-> IF x = id THEN Leaf(<<u>>, trj) ELSE v[x]]
  OBVIOUS
<1>2. /\ DOMAIN y = (DOMAIN v) \cup {id} /\ y[id] = Leaf(<<u>>, trj)
      /\ \A x \in DOMAIN v : y[x] = v[x]
  BY <1>1
<1>3. Bundled(y, h) /\ \A x \in DOMAIN y : y[x].next # id
  BY <1>2, BundledNew
<1>4. Before(y[last], y[id])
  <2>1. y[last].trj = y[id].trj /\ IsFull(y[last]) /\ y[id].entries = <<u>>
    BY <1>2 DEF Leaf
  <2>2. \A t \in RefsOf(y[last].entries) : t < u.ref
    <3>1. v[last] \in Node /\ Owned(v[last], g)
      BY DEF Bundled
    <3>2. \A t \in RefsOf(v[last].entries) : t < u.ref
      BY <3>1, OwnedBefore
    <3> QED BY <1>2, <3>2
  <2>3. RefsOf(<<u>>) = {u.ref}
    BY DEF RefsOf
  <2> QED BY <2>1, <2>2, <2>3 DEF Before
<1>5. /\ last \in DOMAIN y /\ id \in DOMAIN y /\ y[last].next = 0 /\ last # id
      /\ DOMAIN w = DOMAIN y /\ w[last] = [y[last] EXCEPT !.next = id]
      /\ \A x \in DOMAIN y : x # last => w[x] = y[x]
  BY <1>2
<1> QED BY <1>3, <1>4, <1>5, BundledNext

(* A new leaf has the unit, and a full last leaf gets it as its next.      *)
LEMMA InsertNewLeafLeaves ==
  ASSUME IInv, LeavesOK, NEW trj \in Trj, NEW b \in UnitBox, InsertNewLeaf(trj, b)
  PROVE  LeavesOK'
<1>1. Idle
  BY IdleViews DEF InsertNewLeaf, IInv, LeavesOK
<1>2. More1(given, trj, Unit(b), given')
  BY UnitMore DEF InsertNewLeaf, IInv
<1>3. PICK id, n, c, c2 : id = Len(file) + 1 /\ n = Leaf(<<Unit(b)>>, trj) /\ c = file /\ c2 = file'
  OBVIOUS
<1>4. n.leaf /\ n \in Node
  BY <1>3, UnitGiven DEF InsertNewLeaf, IInv
<1>5. PICK f : /\ LeafWritten(f, id, n, c2)
               /\ \/ f = c
                  \/ \E last : LastOf(trj, last) /\ IsFull(c[last]) /\ f = WithNext(c, last, id)
  BY <1>3, InsertNewLeafKeeps DEF LeafMade
<1>6. PICK v, w, g, h, u : /\ v = FileView(c) /\ w = FileView(c2) /\ g = given /\ h = given'
                           /\ u = Unit(b)
  OBVIOUS
<1>7. Bundled(v, g) /\ More1(g, trj, u, h) /\ n = Leaf(<<u>>, trj)
  BY <1>1, <1>2, <1>3, <1>6 DEF Idle, LeavesOK
<1>8. id \in Nat \ {0} /\ id \notin DOMAIN c /\ id \notin DOMAIN v
  <2>1. c \in Seq(Node)
    BY <1>3 DEF IInv, TypeOK
  <2>2. id \in Nat \ {0} /\ id \notin DOMAIN c
    BY <1>3, <2>1
  <2> QED BY <1>6, <2>2 DEF FileView
<1>9. /\ DOMAIN w = (DOMAIN FileView(f)) \cup {id} /\ w[id] = n
      /\ \A x \in DOMAIN FileView(f) : x # id => w[x] = FileView(f)[x]
  <2>1. ViewWith(FileView(f), id, n, FileView(c2))
    BY ONLY <1>4, <1>5, WrittenView
  <2> QED BY ONLY <1>6, <2>1 DEF ViewWith
<1>10. CASE f = c
  <2>1. /\ DOMAIN w = (DOMAIN v) \cup {id} /\ w[id] = Leaf(<<u>>, trj) /\ id # 0
        /\ \A x \in DOMAIN v : w[x] = v[x]
    BY ONLY <1>6, <1>7, <1>8, <1>9, <1>10
  <2>2. Bundled(w, h)
    BY ONLY <1>7, <1>8, <2>1, BundledNew
  <2> QED BY <1>1, <1>3, <1>6, <2>2 DEF Idle, LeavesOK
<1>11. CASE f # c
  <2>1. PICK last : LastOf(trj, last) /\ IsFull(c[last]) /\ f = WithNext(c, last, id)
    BY <1>5, <1>11
  <2>2. last \in DOMAIN v /\ v[last] = c[last] /\ v[last].trj = trj /\ v[last].next = 0
    BY <1>3, <1>6, <2>1 DEF LastOf, FileView
  <2>3. f = [c EXCEPT ![last] = [c[last] EXCEPT !.next = id]]
    BY <2>1, <2>2 DEF WithNext
  <2>4. last \in DOMAIN c /\ c[last].leaf /\ c[last] \in Node
    BY <1>3, <2>1 DEF LastOf, IInv, TypeOK
  <2>5. [c[last] EXCEPT !.next = id].leaf
    BY <2>4 DEF Node
  <2>6. DOMAIN f = DOMAIN c /\ f[last] = [c[last] EXCEPT !.next = id]
        /\ \A x \in DOMAIN c : x # last => f[x] = c[x]
    BY <2>3, <2>4
  <2>7. DOMAIN FileView(f) = DOMAIN v
        /\ \A x \in DOMAIN v : FileView(f)[x] = IF x = last THEN [v[last] EXCEPT !.next = id] ELSE v[x]
    BY <1>6, <2>2, <2>4, <2>5, <2>6 DEF FileView
  <2>8. /\ DOMAIN w = (DOMAIN v) \cup {id} /\ w[id] = Leaf(<<u>>, trj)
        /\ w[last] = [v[last] EXCEPT !.next = id] /\ \A x \in DOMAIN v : x # last => w[x] = v[x]
    BY ONLY <1>7, <1>8, <1>9, <2>2, <2>7
  <2>9. IsFull(v[last])
    BY <2>1, <2>2
  <2>10. Bundled(w, h)
    BY ONLY <1>7, <1>8, <2>2, <2>8, <2>9, BundledChained
  <2> QED BY <1>1, <1>3, <1>6, <2>10 DEF Idle, LeavesOK
<1> QED BY <1>10, <1>11

(***************************************************************************)
(* The leaves in the bulk load                                             *)
(***************************************************************************)

(* The leaf m of trj comes into memory for the record sid.                 *)
Brought(trj, sid, m) ==
  /\ sidmap' = [sidmap EXCEPT ![trj] = sid] /\ nodemap' = [nodemap EXCEPT ![trj] = m]
  /\ m.leaf /\ m.trj = trj /\ m.next = 0 /\ sid # 0
  /\ sid \in DOMAIN file' /\ file'[sid].leaf /\ file'[sid].trj = trj /\ file'[sid].next = 0
  /\ \A t \in InMemory : t # trj => /\ sidmap[t] # sid /\ sidmap[t] \in DOMAIN file'
                                    /\ file'[sidmap[t]] = file[sidmap[t]]

(* The leaves after it: m, those in memory, and the others of the file.    *)
BroughtView(v, w, trj, sid, m) ==
  /\ DOMAIN w = {x \in DOMAIN file' : file'[x].leaf} /\ sid \in DOMAIN w /\ w[sid] = m
  /\ \A x \in DOMAIN w : x # sid =>
       \/ \E t \in InMemory : t # trj /\ sidmap[t] = x /\ x \in DOMAIN v /\ w[x] = v[x]
       \/ (\A t \in InMemory : t # trj => sidmap[t] # x) /\ w[x] = file'[x]

(* The leaf in memory stands for its record, the others as before.         *)
LEMMA BringLeaf ==
  ASSUME TypeOK, MemoryOK, NEW trj \in Trj, NEW sid, NEW m, Brought(trj, sid, m)
  PROVE  MemoryOK' /\ BroughtView(LeafView, LeafView', trj, sid, m)
<1>1. /\ sidmap'[trj] = sid /\ nodemap'[trj] = m
      /\ \A t \in Trj : t # trj => sidmap'[t] = sidmap[t] /\ nodemap'[t] = nodemap[t]
  BY DEF Brought, TypeOK
<1>2. /\ \A t \in Trj : t \in InMemory <=> sidmap[t] # 0
      /\ \A t \in Trj : t \in InMemory' <=> sidmap'[t] # 0
      /\ InMemory \subseteq Trj /\ InMemory' \subseteq Trj
  BY DEF InMemory
<1>3. MemoryOK'
  <2>1. ASSUME NEW t \in Trj
        PROVE  /\ nodemap'[t].leaf /\ nodemap'[t].trj = t /\ nodemap'[t].next = 0
               /\ sidmap'[t] # 0 =>
                    /\ sidmap'[t] \in DOMAIN file' /\ file'[sidmap'[t]].leaf
                    /\ file'[sidmap'[t]].trj = t /\ file'[sidmap'[t]].next = 0
    <3>1. CASE t = trj
      BY <1>1, <3>1 DEF Brought
    <3>2. CASE t # trj
      <4>1. nodemap[t].leaf /\ nodemap[t].trj = t /\ nodemap[t].next = 0
        BY DEF MemoryOK
      <4>2. ASSUME sidmap[t] # 0
            PROVE  /\ sidmap[t] \in DOMAIN file' /\ file'[sidmap[t]].leaf
                   /\ file'[sidmap[t]].trj = t /\ file'[sidmap[t]].next = 0
        <5>1. file[sidmap[t]].leaf /\ file[sidmap[t]].trj = t /\ file[sidmap[t]].next = 0
          BY <4>2 DEF MemoryOK, LastOf
        <5>2. sidmap[t] \in DOMAIN file' /\ file'[sidmap[t]] = file[sidmap[t]]
          BY <1>2, <3>2, <4>2 DEF Brought
        <5> QED BY <5>1, <5>2
      <4> QED BY <1>1, <3>2, <4>1, <4>2
    <3> QED BY <3>1, <3>2
  <2> QED BY <2>1 DEF MemoryOK, LastOf
<1>4. Stands /\ Stands'
  BY <1>3, LeafStands, NextStands
<1>5. PICK v, w : v = LeafView /\ w = LeafView'
  OBVIOUS
<1>6. /\ DOMAIN w = {x \in DOMAIN file' : file'[x].leaf}
      /\ \A t \in InMemory' : sidmap'[t] \in DOMAIN w /\ w[sidmap'[t]] = nodemap'[t]
      /\ \A x \in DOMAIN w : (\A t \in InMemory' : sidmap'[t] # x) => w[x] = file'[x]
  BY <1>4, <1>5 DEF Stands
<1>7. \A t \in InMemory : sidmap[t] \in DOMAIN v /\ v[sidmap[t]] = nodemap[t]
  BY <1>4, <1>5 DEF Stands
<1>8. sid \in DOMAIN w /\ w[sid] = m
  <2>1. trj \in InMemory'
    BY <1>1, <1>2 DEF Brought
  <2> QED BY <1>1, <1>6, <2>1
<1>9. ASSUME NEW x \in DOMAIN w, x # sid
      PROVE  \/ \E t \in InMemory : t # trj /\ sidmap[t] = x /\ x \in DOMAIN v /\ w[x] = v[x]
             \/ (\A t \in InMemory : t # trj => sidmap[t] # x) /\ w[x] = file'[x]
  <2>1. ASSUME NEW t \in InMemory, t # trj, sidmap[t] = x PROVE x \in DOMAIN v /\ w[x] = v[x]
    <3>1. t \in Trj /\ sidmap'[t] = x /\ nodemap'[t] = nodemap[t] /\ t \in InMemory'
      BY <1>1, <1>2, <2>1
    <3> QED BY <1>6, <1>7, <2>1, <3>1
  <2>2. ASSUME \A t \in InMemory : t # trj => sidmap[t] # x PROVE w[x] = file'[x]
    <3>1. \A t \in InMemory' : sidmap'[t] # x
      BY <1>1, <1>2, <1>9, <2>2
    <3> QED BY <1>6, <3>1
  <2> QED BY <2>1, <2>2
<1>10. BroughtView(v, w, trj, sid, m)
  BY <1>6, <1>8, <1>9 DEF BroughtView
<1> QED BY <1>3, <1>5, <1>10

(* The bulk load goes on with a leaf, which takes the unit in memory.      *)
LEMMA CurrentLonger ==
  ASSUME IInv, LeavesOK, NEW trj \in Trj, NEW b \in UnitBox, BulkInsertIntoLeaf(trj, b),
         NEW sid, NEW node, Current(trj, sid, node), NEW m, OneUnitMore(node, b, m),
         sidmap' = [sidmap EXCEPT ![trj] = sid], nodemap' = [nodemap EXCEPT ![trj] = m], file' = file
  PROVE  LeavesOK'
<1>1. rootId # 0 /\ TypeOK /\ MemoryOK
  BY DEF BulkInsertIntoLeaf, IInv, LeavesOK
<1>2. CurrentLast(trj, sid, node)
  BY <1>1, CurrentIsLast
<1>3. More1(given, trj, Unit(b), given')
  BY UnitMore DEF BulkInsertIntoLeaf, IInv
<1>4. \A t \in InMemory : sidmap[t] \in DOMAIN file
  BY <1>1 DEF MemoryOK, LastOf, InMemory
<1>5. sid \in DOMAIN file /\ file[sid].leaf /\ file[sid].trj = trj /\ file[sid].next = 0 /\ sid # 0
  <2>1. sid \in DOMAIN file
    BY <1>2 DEF CurrentLast, LastOf
  <2>2. file \in Seq(Node)
    BY <1>1 DEF TypeOK
  <2>3. sid # 0
    BY <2>1, <2>2
  <2> QED BY <1>2, <2>3 DEF CurrentLast, LastOf
<1>6. Brought(trj, sid, m)
  BY <1>2, <1>4, <1>5 DEF CurrentLast, OneUnitMore, Brought
<1>7. MemoryOK' /\ BroughtView(LeafView, LeafView', trj, sid, m)
  BY <1>1, <1>6, BringLeaf
<1>8. PICK v, w, g, h, u : /\ v = LeafView /\ w = LeafView' /\ g = given /\ h = given'
                           /\ u = Unit(b)
  OBVIOUS
<1>9. Stands
  BY <1>1, LeafStands
<1>10. sid \in DOMAIN v /\ v[sid] = node /\ v[sid].trj = trj /\ v[sid].next = 0
  BY <1>2, <1>8 DEF CurrentLast
<1>11. Longer(v[sid], u, m)
  BY <1>8, <1>10 DEF OneUnitMore, Longer
<1>12. DOMAIN w = DOMAIN v /\ w[sid] = m
  BY <1>7, <1>8, <1>9 DEF BroughtView, Stands
<1>13. ASSUME NEW x \in DOMAIN v, x # sid PROVE w[x] = v[x]
  <2>1. \/ w[x] = v[x]
        \/ (\A t \in InMemory : t # trj => sidmap[t] # x) /\ w[x] = file[x]
    BY <1>7, <1>8, <1>12, <1>13 DEF BroughtView
  <2>2. ASSUME \A t \in InMemory : t # trj => sidmap[t] # x PROVE v[x] = file[x]
    <3>1. trj \in InMemory => sidmap[trj] # x
      BY <1>13 DEF Current, InMemory
    <3> QED BY <1>8, <1>9, <2>2, <3>1 DEF Stands
  <2> QED BY <2>1, <2>2
<1>14. Bundled(v, g) /\ More1(g, trj, u, h)
  BY <1>3, <1>8 DEF LeavesOK
<1>15. Bundled(w, h)
  BY ONLY <1>10, <1>11, <1>12, <1>13, <1>14, BundledLonger
<1> QED BY <1>7, <1>8, <1>15 DEF LeavesOK

(* No leaf of the trajectory is found: an empty one comes into the file    *)
(* and takes the unit in memory.                                           *)
LEMMA EmptyLonger ==
  ASSUME IInv, LeavesOK, NEW trj \in Trj, NEW b \in UnitBox, BulkInsertIntoLeaf(trj, b),
         sidmap[trj] = 0, NEW m, m = Leaf(<<Unit(b)>>, trj),
         sidmap' = [sidmap EXCEPT ![trj] = Len(file) + 1], nodemap' = [nodemap EXCEPT ![trj] = m],
         file' = Append(file, Leaf(<< >>, trj))
  PROVE  LeavesOK'
<1>1. TypeOK /\ MemoryOK
  BY DEF IInv, LeavesOK
<1>2. More1(given, trj, Unit(b), given')
  BY UnitMore DEF BulkInsertIntoLeaf, IInv
<1>3. PICK id, e : id = Len(file) + 1 /\ e = Leaf(<< >>, trj)
  OBVIOUS
<1>4. e \in Node /\ e.leaf /\ e.next = 0 /\ e.trj = trj /\ m.leaf /\ m.next = 0 /\ m.trj = trj
  <2>1. << >> \in Seq(Entry)
    OBVIOUS
  <2> QED BY <1>3, <2>1, LeafNode DEF Leaf
<1>5. /\ id \in Nat \ {0} /\ id \notin DOMAIN file /\ DOMAIN file' = (DOMAIN file) \cup {id}
      /\ file'[id] = e /\ \A x \in DOMAIN file : file'[x] = file[x]
  <2>1. file \in Seq(Node) /\ file' = Append(file, e)
    BY <1>1, <1>3 DEF TypeOK
  <2>2. PICK f, f2 : f = file /\ f2 = file'
    OBVIOUS
  <2>3. f \in Seq(Node) /\ f2 = Append(f, e) /\ id = Len(f) + 1
    BY <1>3, <2>1, <2>2
  <2>4. /\ Len(f) \in Nat /\ DOMAIN f2 = (DOMAIN f) \cup {Len(f) + 1} /\ Len(f) + 1 \notin DOMAIN f
        /\ f2[Len(f) + 1] = e /\ \A x \in DOMAIN f : f2[x] = f[x]
    BY <1>4, <2>3, NodeAppended
  <2>5. id \in Nat \ {0}
    BY <2>3, <2>4
  <2> QED BY <2>2, <2>3, <2>4, <2>5
<1>6. \A t \in InMemory : sidmap[t] \in DOMAIN file /\ sidmap[t] # id
  BY <1>1, <1>5 DEF MemoryOK, LastOf, InMemory
<1>7. Brought(trj, id, m)
  BY <1>3, <1>4, <1>5, <1>6 DEF Brought
<1>8. MemoryOK' /\ BroughtView(LeafView, LeafView', trj, id, m)
  BY <1>1, <1>7, BringLeaf
<1>9. PICK v, w, g, h, u : /\ v = LeafView /\ w = LeafView' /\ g = given /\ h = given'
                           /\ u = Unit(b)
  OBVIOUS
<1>10. Stands
  BY <1>1, LeafStands
<1>11. /\ DOMAIN w = (DOMAIN v) \cup {id} /\ w[id] = Leaf(<<u>>, trj) /\ id \notin DOMAIN v /\ id # 0
  BY <1>4, <1>5, <1>8, <1>9, <1>10 DEF BroughtView, Stands
<1>12. ASSUME NEW x \in DOMAIN v PROVE w[x] = v[x]
  <2>1. x \in DOMAIN w /\ x # id /\ x \in DOMAIN file
    BY <1>9, <1>10, <1>11 DEF Stands
  <2>2. \/ w[x] = v[x]
        \/ (\A t \in InMemory : t # trj => sidmap[t] # x) /\ w[x] = file[x]
    BY <1>5, <1>8, <1>9, <2>1 DEF BroughtView
  <2>3. ASSUME \A t \in InMemory : t # trj => sidmap[t] # x PROVE v[x] = file[x]
    <3>1. trj \notin InMemory
      BY DEF InMemory
    <3> QED BY <1>9, <1>10, <2>3, <3>1 DEF Stands
  <2> QED BY <2>2, <2>3
<1>13. Bundled(v, g) /\ More1(g, trj, u, h)
  BY <1>2, <1>9 DEF LeavesOK
<1>14. Bundled(w, h)
  BY ONLY <1>11, <1>12, <1>13, BundledNew
<1> QED BY <1>8, <1>9, <1>14 DEF LeavesOK

(* bulkLoadInsert with a leaf that takes the unit.                         *)
LEMMA BulkInsertIntoLeafLeaves ==
  ASSUME IInv, LeavesOK, NEW trj \in Trj, NEW b \in UnitBox, BulkInsertIntoLeaf(trj, b)
  PROVE  LeavesOK'
<1>1. PICK last : last = LastLeaf(trj)
  OBVIOUS
<1>2. PICK node : node = IF sidmap[trj] # 0 THEN nodemap[trj]
                         ELSE IF last = 0 THEN Leaf(<< >>, trj) ELSE file[last]
  OBVIOUS
<1>3. PICK m : m = [node EXCEPT !.entries = Append(@, Unit(b))]
  OBVIOUS
<1>4. /\ rootId # 0 /\ nodemap' = [nodemap EXCEPT ![trj] = m]
      /\ sidmap' = [sidmap EXCEPT ![trj] = IF @ = 0 THEN IF last = 0 THEN Len(file) + 1 ELSE last ELSE @]
      /\ file' = IF sidmap[trj] = 0 /\ last = 0 THEN Append(file, node) ELSE file
  BY <1>1, <1>2, <1>3 DEF BulkInsertIntoLeaf
<1>5. Unit(b) \in Entry
  BY UnitGiven DEF BulkInsertIntoLeaf, IInv
<1>6. CASE sidmap[trj] # 0 \/ last # 0
  <2>1. PICK sid : sid = IF sidmap[trj] # 0 THEN sidmap[trj] ELSE last
    OBVIOUS
  <2>2. Current(trj, sid, node)
    BY <1>1, <1>2, <1>6, <2>1 DEF Current
  <2>3. CurrentLast(trj, sid, node)
    BY <1>4, <2>2, CurrentIsLast
  <2>4. node \in Node
    BY <2>3 DEF CurrentLast, LeavesOK, Bundled
  <2>5. OneUnitMore(node, b, m)
    BY <1>3, <1>5, <2>4, UnitAdded
  <2>6. sidmap' = [sidmap EXCEPT ![trj] = sid] /\ file' = file
    BY <1>4, <1>6, <2>1
  <2> QED BY <1>4, <2>2, <2>5, <2>6, CurrentLonger
<1>7. CASE sidmap[trj] = 0 /\ last = 0
  <2>1. node = Leaf(<< >>, trj)
    BY <1>2, <1>7
  <2>2. m = Leaf(<<Unit(b)>>, trj)
    <3>1. Append(<< >>, Unit(b)) = <<Unit(b)>>
      OBVIOUS
    <3> QED BY <1>3, <2>1, <3>1 DEF Leaf
  <2>3. sidmap' = [sidmap EXCEPT ![trj] = Len(file) + 1] /\ file' = Append(file, Leaf(<< >>, trj))
    BY <1>4, <1>7, <2>1
  <2> QED BY <1>4, <1>7, <2>2, <2>3, EmptyLonger
<1> QED BY <1>6, <1>7

(* bulkLoadInsert writes a full leaf and begins its next in memory.        *)
LEMMA BulkInsertNewLeafLeaves ==
  ASSUME IInv, LeavesOK, NEW trj \in Trj, NEW b \in UnitBox, BulkInsertNewLeaf(trj, b)
  PROVE  LeavesOK'
<1>1. rootId # 0 /\ TypeOK /\ MemoryOK
  BY DEF BulkInsertNewLeaf, IInv, LeavesOK
<1>2. More1(given, trj, Unit(b), given')
  BY UnitMore DEF BulkInsertNewLeaf, IInv
<1>3. PICK id, e, m, c, c2 : /\ id = Len(file) + 1 /\ e = Leaf(<< >>, trj) /\ m = Leaf(<<Unit(b)>>, trj)
                             /\ c = file /\ c2 = file'
  OBVIOUS
<1>4. PICK sid, node, f :
        /\ Current(trj, sid, node) /\ IsFull(node)
        /\ f = [c EXCEPT ![sid] = [node EXCEPT !.next = id]] /\ LeafWritten(f, id, e, c2)
  BY <1>3, BulkInsertNewLeafKeeps DEF FullWritten
<1>5. CurrentLast(trj, sid, node) /\ node \in Node
  <2>1. CurrentLast(trj, sid, node)
    BY <1>1, <1>4, CurrentIsLast
  <2> QED BY <2>1 DEF CurrentLast, LeavesOK, Bundled
<1>6. e.leaf /\ e.next = 0 /\ e.trj = trj /\ m.leaf /\ m.next = 0 /\ m.trj = trj
  BY <1>3 DEF Leaf
<1>7. id \in Nat \ {0} /\ id \notin DOMAIN c /\ sid \in DOMAIN c /\ sid # id /\ c[sid].leaf
  <2>1. c \in Seq(Node)
    BY <1>1, <1>3 DEF TypeOK
  <2>2. id \in Nat \ {0} /\ id \notin DOMAIN c
    BY <1>3, <2>1
  <2> QED BY <1>3, <1>5, <2>2 DEF CurrentLast, LastOf
<1>8. PICK k : k = [node EXCEPT !.next = id]
  OBVIOUS
<1>9. k.leaf
  BY <1>5, <1>8 DEF CurrentLast, Node
<1>10. DOMAIN f = DOMAIN c /\ f[sid] = k /\ \A x \in DOMAIN c : x # sid => f[x] = c[x]
  BY <1>4, <1>7, <1>8
<1>11. /\ DOMAIN c \subseteq DOMAIN c2 /\ id \in DOMAIN c2 /\ c2[id] = e /\ c2[sid] = k
       /\ \A x \in DOMAIN c : x # sid => c2[x].leaf = c[x].leaf /\ (c[x].leaf => c2[x] = c[x])
       /\ \A x \in DOMAIN c2 : x \notin DOMAIN c /\ x # id => ~c2[x].leaf
  BY ONLY <1>4, <1>7, <1>9, <1>10 DEF LeafWritten
<1>12. sidmap' = [sidmap EXCEPT ![trj] = id] /\ nodemap' = [nodemap EXCEPT ![trj] = m]
  BY <1>3 DEF BulkInsertNewLeaf
<1>13. Brought(trj, id, m)
  <2>1. ASSUME NEW t \in InMemory, t # trj
        PROVE  sidmap[t] # id /\ sidmap[t] \in DOMAIN c2 /\ c2[sidmap[t]] = c[sidmap[t]]
    <3>1. sidmap[t] \in DOMAIN c /\ c[sidmap[t]].leaf
      BY <1>1, <1>3 DEF MemoryOK, LastOf, InMemory
    <3>2. sidmap[t] # sid
      BY <1>5, <2>1 DEF CurrentLast
    <3> QED BY <1>7, <1>11, <3>1, <3>2
  <2> QED BY <1>3, <1>6, <1>7, <1>11, <1>12, <2>1 DEF Brought
<1>14. MemoryOK' /\ BroughtView(LeafView, LeafView', trj, id, m)
  BY <1>1, <1>13, BringLeaf
<1>15. PICK v, w, g, h, u : /\ v = LeafView /\ w = LeafView' /\ g = given /\ h = given'
                            /\ u = Unit(b)
  OBVIOUS
<1>16. Stands
  BY <1>1, LeafStands
<1>17. sid \in DOMAIN v /\ v[sid] = node /\ v[sid].trj = trj /\ v[sid].next = 0 /\ IsFull(v[sid])
  BY <1>4, <1>5, <1>15 DEF CurrentLast
<1>18. DOMAIN v = {x \in DOMAIN c : c[x].leaf} /\ DOMAIN w = {x \in DOMAIN c2 : c2[x].leaf}
  BY <1>3, <1>14, <1>15, <1>16 DEF BroughtView, Stands
<1>19. DOMAIN w = (DOMAIN v) \cup {id} /\ id \notin DOMAIN v
  <2>1. \A x : x \in DOMAIN v <=> x \in DOMAIN c /\ c[x].leaf
    BY <1>18
  <2>2. \A x : x \in DOMAIN w <=> x \in DOMAIN c2 /\ c2[x].leaf
    BY <1>18
  <2>3. \A x : x \in DOMAIN w <=> x \in DOMAIN v \/ x = id
    BY <1>6, <1>7, <1>9, <1>11, <2>1, <2>2
  <2> QED BY <1>7, <2>1, <2>3
<1>20. w[id] = Leaf(<<u>>, trj)
  BY <1>3, <1>14, <1>15 DEF BroughtView
<1>21. ASSUME NEW x \in DOMAIN v
       PROVE  \/ (\E t \in InMemory : t # trj /\ sidmap[t] = x) /\ w[x] = v[x]
              \/ (\A t \in InMemory : t # trj => sidmap[t] # x) /\ w[x] = c2[x]
  <2>1. x \in DOMAIN w /\ x # id
    BY <1>19
  <2> QED BY <1>3, <1>14, <1>15, <2>1 DEF BroughtView
<1>22. w[sid] = [v[sid] EXCEPT !.next = id]
  <2>1. \A t \in InMemory : t # trj => sidmap[t] # sid
    BY <1>5 DEF CurrentLast
  <2>2. w[sid] = c2[sid]
    BY <1>17, <1>21, <2>1
  <2> QED BY <1>8, <1>11, <1>17, <2>2
<1>23. ASSUME NEW x \in DOMAIN v, x # sid PROVE w[x] = v[x]
  <2>1. ASSUME \A t \in InMemory : t # trj => sidmap[t] # x PROVE v[x] = c2[x]
    <3>1. trj \in InMemory => sidmap[trj] # x
      BY <1>4, <1>23 DEF Current, InMemory
    <3>2. v[x] = c[x]
      BY <1>3, <1>15, <1>16, <2>1, <3>1 DEF Stands
    <3> QED BY <1>11, <1>18, <1>23, <3>2
  <2> QED BY <1>21, <2>1
<1>24. Bundled(v, g) /\ More1(g, trj, u, h)
  BY <1>2, <1>15 DEF LeavesOK
<1>25. Bundled(w, h)
  BY ONLY <1>7, <1>17, <1>19, <1>20, <1>22, <1>23, <1>24, BundledChained
<1> QED BY <1>14, <1>15, <1>25 DEF LeavesOK

(* A bulk load begins with the leaves as they are.                         *)
LEMMA StartBulkLoadLeaves ==
  ASSUME IInv, LeavesOK, StartBulkLoad
  PROVE  LeavesOK'
<1>1. InMemory = {} /\ \A trj \in Trj : sidmap[trj] = 0
  BY DEF StartBulkLoad, IInv, HeldOK, InMemory
<1>2. \A trj \in Trj : sidmap'[trj] = 0
  BY <1>1 DEF StartBulkLoad
<1>3. InMemory' = {}
  BY <1>2 DEF InMemory
<1>4. MemoryOK'
  BY <1>2 DEF MemoryOK, StartBulkLoad, LeavesOK
<1>5. LeafView = FileView(file) /\ LeafView' = FileView(file') /\ file' = file /\ given' = given
  BY <1>1, <1>3, <1>4, FileStands, NextFileStands DEF FileView, LeavesOK, StartBulkLoad
<1>6. LeafView' = LeafView
  BY <1>5
<1> QED BY <1>4, <1>5, <1>6 DEF LeavesOK

(* endBulkLoad writes the leaves as they stand.                            *)
LEMMA EndBulkLoadLeaves ==
  ASSUME IInv, LeavesOK, EndBulkLoad
  PROVE  LeavesOK'
<1>1. HeldWritten
  BY EndBulkLoadKeeps
<1>2. sidmap' = [trj \in Trj |-> 0] /\ nodemap' = [trj \in Trj |-> Leaf(<< >>, trj)] /\ given' = given
  BY DEF EndBulkLoad, MapsCleared
<1>3. InMemory' = {} /\ MemoryOK'
  BY <1>2 DEF InMemory, MemoryOK, Leaf
<1>4. LeafView' = FileView(file')
  BY <1>3, NextFileStands DEF FileView
<1>5. Stands
  BY LeafStands DEF LeavesOK
<1>6. PICK v, w, c, c2 : v = LeafView /\ w = FileView(file') /\ c = file /\ c2 = file'
  OBVIOUS
<1>7. DOMAIN v = {x \in DOMAIN c : c[x].leaf} /\ DOMAIN w = {x \in DOMAIN c2 : c2[x].leaf}
      /\ \A x \in DOMAIN w : w[x] = c2[x]
  BY <1>5, <1>6 DEF Stands, FileView
<1>8. DOMAIN v = DOMAIN w
  BY <1>1, <1>6, <1>7 DEF HeldWritten
<1>9. ASSUME NEW x \in DOMAIN v PROVE w[x] = v[x]
  <2>1. \/ \E trj \in InMemory : sidmap[trj] = x /\ c2[x] = nodemap[trj]
        \/ (\A trj \in InMemory : sidmap[trj] # x) /\ c2[x] = c[x]
    BY <1>1, <1>6, <1>7 DEF HeldWritten
  <2>2. v[x] = c2[x]
    BY <1>5, <1>6, <2>1 DEF Stands
  <2> QED BY <1>7, <1>8, <2>2
<1>10. v = w
  <2>1. v = [x \in DOMAIN v |-> v[x]] /\ w = [x \in DOMAIN w |-> w[x]]
    BY <1>6 DEF LeafView, FileView
  <2> QED BY <1>8, <1>9, <2>1
<1> QED BY <1>2, <1>3, <1>4, <1>6, <1>10 DEF LeavesOK

(* Each step keeps the leaves in order.                                    *)
LEMMA NextLeaves ==
  ASSUME IInv, LeavesOK, [Next]_vars
  PROVE  LeavesOK'
<1>1. CASE UNCHANGED vars
  <2>1. MemoryOK' /\ Bundled(LeafView', given')
    BY <1>1 DEF vars, LeavesOK, MemoryOK, LastOf, LeafView, Leaves, LeafAt, Held
  <2> QED BY <2>1 DEF LeavesOK
<1>2. CASE \E trj \in Trj, b \in UnitBox :
             Insert(trj, b) \/ BulkInsertIntoLeaf(trj, b) \/ BulkInsertNewLeaf(trj, b)
  BY <1>2, InsertFirstLeaves, InsertIntoLeafLeaves, InsertNewLeafLeaves, BulkInsertIntoLeafLeaves,
     BulkInsertNewLeafLeaves DEF Insert
<1>3. CASE StartBulkLoad
  BY <1>3, StartBulkLoadLeaves
<1>4. CASE EndBulkLoad
  BY <1>4, EndBulkLoadLeaves
<1> QED BY <1>1, <1>2, <1>3, <1>4 DEF Next

(* At first there are no leaves.                                           *)
LEMMA InitLeaves == Init => LeavesOK
<1> SUFFICES ASSUME Init PROVE LeavesOK
  OBVIOUS
<1>1. MemoryOK
  BY DEF Init, MemoryOK, Leaf
<1>2. PICK v, g : v = LeafView /\ g = given
  OBVIOUS
<1>3. DOMAIN v = {} /\ g = << >>
  BY <1>2 DEF Init, LeafView, Leaves
<1>4. Bundled(v, g)
  BY <1>3 DEF Bundled
<1> QED BY <1>1, <1>2, <1>4 DEF LeavesOK

(* In every state each unit given is in exactly one leaf, in the file or   *)
(* in the memory of the bulk load, a leaf of its trajectory and with its   *)
(* box; a leaf that has a next is full, and the next is of the same        *)
(* trajectory and has later units; a leaf in memory is the last of its     *)
(* trajectory.                                                             *)
THEOREM LeavesAlways == Spec => []LeavesOK
<1>1. IInv /\ LeavesOK /\ [Next]_vars => LeavesOK'
  BY NextLeaves
<1> QED BY <1>1, IInvAlways, InitLeaves, PTL DEF Spec

(* The leaves as they stand are chained in order.                          *)
LEMMA LeavesChained == TypeOK /\ LeavesOK => ChainsInOrder
<1> SUFFICES ASSUME TypeOK, LeavesOK PROVE ChainsInOrder
  OBVIOUS
<1>1. PICK v : v = LeafView
  OBVIOUS
<1>2. DOMAIN v = Leaves(DOMAIN file) /\ \A id \in DOMAIN v : v[id] = LeafAt(id)
  BY <1>1 DEF LeafView
<1>3. Bundled(v, given)
  BY <1>1 DEF LeavesOK
<1>4. \A id \in DOMAIN v : Refs(v[id]) = RefsOf(v[id].entries)
  <2>1. \A n \in Node : Refs(n) = RefsOf(n.entries)
    BY NodeParts DEF Refs, RefsOf
  <2> QED BY <1>3, <2>1 DEF Bundled
<1>5. ASSUME NEW id \in DOMAIN v, v[id].next # 0
      PROVE  /\ v[id].next \in DOMAIN v /\ v[id].trj = v[v[id].next].trj /\ IsFull(v[id])
             /\ \A s \in Refs(v[id]), t \in Refs(v[v[id].next]) : s < t
             /\ \A other \in DOMAIN v \ {id} : v[other].next # v[id].next
  <2>1. v[id].next \in DOMAIN v /\ Before(v[id], v[v[id].next])
    BY <1>3, <1>5 DEF Bundled, NextOK
  <2>2. \A other \in DOMAIN v \ {id} : v[other].next # v[id].next
    BY <1>3, <1>5 DEF Bundled
  <2> QED BY <1>4, <2>1, <2>2 DEF Before
<1> QED BY <1>2, <1>5 DEF ChainsInOrder

(* A chain stays within a trajectory and in the order in which its units   *)
(* came, its leaves but the last are full, and no two chains meet,         *)
(* whatever the order of insertions and bulk loads.                        *)
THEOREM ChainsAlways == Spec => []ChainsInOrder
<1>1. IInv => TypeOK
  BY DEF IInv
<1> QED BY <1>1, IInvAlways, LeavesAlways, LeavesChained, PTL

-----------------------------------------------------------------------------
(***************************************************************************)
(* No unit is lost                                                         *)
(***************************************************************************)

(* A node is the root, was dropped, is held or is a son.                   *)
Hung == \A x \in DOMAIN file : x = rootId \/ x \in dropped \/ x \in Held \/ x \in Used(file, {})

(* Every step keeps the nodes hung and the entries large enough.           *)
LEMMA NextHangs == ASSUME IInv, [Next]_vars PROVE HangsOn /\ KeepsRoom
<1>1. CASE UNCHANGED vars
  BY <1>1 DEF vars, HangsOn, Held, KeepsRoom, Roomy
<1>2. CASE \E trj \in Trj, b \in UnitBox :
             Insert(trj, b) \/ BulkInsertIntoLeaf(trj, b) \/ BulkInsertNewLeaf(trj, b)
  BY <1>2, InsertFirstKeeps, InsertIntoLeafKeeps, InsertNewLeafKeeps, BulkInsertIntoLeafKeeps,
     BulkInsertNewLeafKeeps DEF Insert
<1>3. CASE StartBulkLoad
  BY <1>3, StartBulkLoadKeeps
<1>4. CASE EndBulkLoad
  BY <1>4, EndBulkLoadKeeps
<1> QED BY <1>1, <1>2, <1>3, <1>4 DEF Next

(* In every state every node is the root, was dropped, is held by the bulk *)
(* load or is a son of another.                                            *)
THEOREM HungAlways == Spec => []Hung
<1>1. Init => Hung
  BY DEF Init, Hung
<1>2. ASSUME IInv, Hung, [Next]_vars PROVE Hung'
  <2>1. HangsOn
    BY <1>2, NextHangs
  <2>2. 0 \notin DOMAIN file
    BY <1>2 DEF IInv, TypeOK
  <2> QED BY <1>2, <2>1, <2>2 DEF Hung, HangsOn
<1> QED BY <1>1, <1>2, IInvAlways, PTL DEF Spec

(* A node that no way from the root or a dropped root leads to is held.    *)
Rooted(x) == x \in Held \/ \E r \in {rootId} \cup dropped : Below(x) \subseteq Below(r)

(* Along the levels, from the top: every node is rooted.                   *)
LEMMA AllRooted ==
  ASSUME IInv, Hung, rootId # 0
  PROVE  \A x \in DOMAIN file : Rooted(x) /\ x \in Below(x)
<1>1. PICK lv : Standing(file, lv, dropped, rootId)
  BY TreeRanked
<1>2. /\ Levelled(file, lv, dropped) /\ lv \in [DOMAIN file -> Nat] /\ file \in Seq(Node)
      /\ DOMAIN file = 1 .. Len(file) /\ Len(file) \in Nat
  <2>1. file \in Seq(Node)
    BY <1>1, StandingFile
  <2> QED BY <1>1, <2>1, StandingFile
<1>3. PICK K \in Nat : \A x \in DOMAIN file : lv[x] <= K
  BY <1>2, LevelsBounded
<1>4. \A d \in DOMAIN file : d \in Below(d) /\ (~file[d].leaf => \A u \in Refs(file[d]) : Below(u) \subseteq Below(d))
  <2>1. PICK g : \A d \in DOMAIN file :
           /\ Below(d) = g[d]
           /\ g[d] = {d} \cup IF file[d].leaf THEN {} ELSE UNION {g[s] : s \in Refs(file[d])}
    BY <1>2, BelowSons
  <2>2. ASSUME NEW d \in DOMAIN file, ~file[d].leaf, NEW u \in Refs(file[d]) PROVE Below(u) \subseteq Below(d)
    <3>1. u \in DOMAIN file
      BY <1>2, <2>2, SonFacts
    <3>2. g[u] \subseteq g[d]
      BY <2>1, <2>2
    <3> QED BY <2>1, <3>1, <3>2
  <2> QED BY <2>1, <2>2
<1> DEFINE G == {m \in 0 .. K : \A x \in DOMAIN file : lv[x] >= K - m => Rooted(x)}
<1>5. ASSUME NEW x \in DOMAIN file,
             \A d \in DOMAIN file : lv[d] = lv[x] + 1 => Rooted(d)
      PROVE  Rooted(x)
  <2>1. CASE x = rootId \/ x \in dropped \/ x \in Held
    BY <2>1 DEF Rooted
  <2>2. CASE x \in Used(file, {})
    <3>1. PICK d \in DOMAIN file : ~file[d].leaf /\ x \in RefsOf(file[d].entries)
      BY <2>2 DEF Used, Inners
    <3>2. x \in Refs(file[d])
      <4>1. file[d].entries \in Seq(Entry)
        BY <1>2, NodeParts
      <4> QED BY <3>1, <4>1 DEF Refs, RefsOf
    <3>3. lv[d] = lv[x] + 1
      BY <1>2, <3>1, <3>2, SonFacts
    <3>4. d \notin Held
      BY <3>1 DEF IInv, HeldOK, AllHeld, HeldLeaf, Held
    <3>5. PICK r \in {rootId} \cup dropped : Below(d) \subseteq Below(r)
      BY <1>5, <3>3, <3>4 DEF Rooted
    <3>6. Below(x) \subseteq Below(d)
      BY <1>4, <3>1, <3>2
    <3> QED BY <3>5, <3>6 DEF Rooted
  <2> QED BY <2>1, <2>2 DEF Hung
<1>6. 0 \in G
  <2>1. ASSUME NEW x \in DOMAIN file, lv[x] >= K - 0 PROVE Rooted(x)
    <3>1. \A d \in DOMAIN file : lv[d] # lv[x] + 1
      BY <1>2, <1>3, <2>1
    <3> QED BY <1>5, <3>1
  <2> QED BY <2>1
<1>7. ASSUME NEW m \in 0 .. K - 1, m \in G PROVE m + 1 \in G
  <2>1. ASSUME NEW x \in DOMAIN file, lv[x] >= K - (m + 1) PROVE Rooted(x)
    <3>1. ASSUME NEW d \in DOMAIN file, lv[d] = lv[x] + 1 PROVE Rooted(d)
      <4>1. lv[d] \in Nat /\ lv[x] \in Nat
        BY <1>2
      <4>2. lv[d] >= K - m
        BY <2>1, <3>1, <4>1
      <4> QED BY <1>7, <4>2
    <3> QED BY <1>5, <3>1
  <2>2. m + 1 \in 0 .. K
    OBVIOUS
  <2> QED BY <2>1, <2>2
<1>8. \A m \in 0 .. K : m \in G
  <2> HIDE DEF G
  <2> QED BY <1>6, <1>7, FromZero
<1>9. K \in G
  <2>1. K \in 0 .. K
    OBVIOUS
  <2> QED BY <1>8, <2>1
<1>10. \A x \in DOMAIN file : lv[x] >= K - K
  <2>1. \A x \in DOMAIN file : lv[x] \in Nat
    BY <1>2
  <2> QED BY <2>1
<1> QED BY <1>4, <1>9, <1>10

(* The leaf that has a unit is rooted, and no other has the unit.          *)
LEMMA UnitsRooted == IInv /\ Hung /\ LeavesOK => UnitsKept
<1> SUFFICES ASSUME IInv, Hung, LeavesOK PROVE UnitsKept
  OBVIOUS
<1>1. PICK v : v = LeafView
  OBVIOUS
<1>2. DOMAIN v = Leaves(DOMAIN file) /\ \A id \in DOMAIN v : v[id] = LeafAt(id)
  BY <1>1 DEF LeafView
<1>3. Bundled(v, given)
  BY <1>1 DEF LeavesOK
<1>4. \A id \in DOMAIN v : v[id].entries \in Seq(Entry) /\ Refs(v[id]) = RefsOf(v[id].entries)
  <2>1. \A n \in Node : n.entries \in Seq(Entry) /\ Refs(n) = RefsOf(n.entries)
    BY NodeParts DEF Refs, RefsOf
  <2> QED BY <1>3, <2>1 DEF Bundled
<1>5. PICK kept : kept = Leaves(InTree \cup Held \cup UNION {Below(r) : r \in dropped})
  OBVIOUS
<1>6. ASSUME NEW id \in DOMAIN v PROVE id \in kept
  <2>1. id \in DOMAIN file /\ file[id].leaf
    BY <1>2 DEF Leaves
  <2>2. rootId # 0
    BY <2>1 DEF IInv, Ranked
  <2>3. Rooted(id) /\ id \in Below(id)
    BY <2>1, <2>2, AllRooted
  <2> QED BY <1>5, <2>1, <2>3 DEF Rooted, Leaves, InTree
<1>7. ASSUME NEW t \in DOMAIN given
      PROVE  \E id \in kept :
               /\ [ref |-> t, box |-> given[t].box] \in ToSet(LeafAt(id).entries)
               /\ LeafAt(id).trj = given[t].trj
               /\ \A other \in Leaves(DOMAIN file) : t \in Refs(LeafAt(other)) => other = id
  <2>1. t \in 1 .. Len(given)
    BY DEF IInv, TypeOK
  <2>2. PICK id \in DOMAIN v : t \in RefsOf(v[id].entries)
    BY <1>3, <2>1 DEF Bundled
  <2>3. PICK i \in 1 .. Len(v[id].entries) : v[id].entries[i].ref = t
    BY <2>2 DEF RefsOf
  <2>4. v[id].entries[i].box = given[t].box /\ v[id].trj = given[t].trj
    BY <1>3, <2>3 DEF Bundled, Owned
  <2>5. v[id].entries[i] \in Entry /\ v[id].entries[i] \in ToSet(v[id].entries)
    BY <1>4, <2>3 DEF ToSet
  <2>6. v[id].entries[i] = [ref |-> t, box |-> given[t].box]
    BY <2>3, <2>4, <2>5 DEF Entry
  <2>7. ASSUME NEW other \in Leaves(DOMAIN file), t \in Refs(LeafAt(other)) PROVE other = id
    <3>1. other \in DOMAIN v /\ t \in RefsOf(v[other].entries)
      BY <1>2, <1>4, <2>7
    <3>2. other # id => Apart(v[other].entries, v[id].entries)
      BY <1>3, <3>1 DEF Bundled
    <3> QED BY <2>2, <3>1, <3>2 DEF Apart, RefsOf
  <2> QED BY <1>2, <1>6, <2>4, <2>5, <2>6, <2>7
<1> QED BY <1>5, <1>7 DEF UnitsKept

(* No unit is lost or doubled, by single insertions and bulk loads in any  *)
(* order: each is in one leaf, of its trajectory and with its box, and the *)
(* leaf is in the tree, in memory or below a root the bulk load dropped.   *)
THEOREM UnitsAlways == Spec => []UnitsKept
BY IInvAlways, HungAlways, LeavesAlways, UnitsRooted, PTL

-----------------------------------------------------------------------------
(***************************************************************************)
(* The boxes of the entries                                                *)
(***************************************************************************)

(* In every state entries of inner nodes, those below dropped roots too,   *)
(* have room for the nodes they refer to, but where insertLeaf left one    *)
(* too small.                                                              *)
THEOREM RoomAlways == Spec => []Roomy
<1>1. Init => Roomy
  BY DEF Init, Roomy, Covered, Inners
<1>2. ASSUME IInv, Roomy, [Next]_vars PROVE Roomy'
  BY <1>2, NextHangs DEF KeepsRoom
<1> QED BY <1>1, <1>2, IInvAlways, PTL DEF Spec

(* What is in the tree is not below a dropped root only.                   *)
LEMMA RoomInTree == IInv /\ Roomy => BoxesCover
<1> SUFFICES ASSUME IInv, Roomy, NEW id \in InTree, ~file[id].leaf, NEW e \in ToSet(file[id].entries)
             PROVE  e.ref \in narrow \/ ContainsBox(e.box, BoxOf(file[e.ref].entries))
  BY DEF BoxesCover
<1>1. rootId # 0
  BY DEF InTree, Below
<1>2. PICK lv : Standing(file, lv, dropped, rootId)
  BY <1>1, TreeRanked
<1>3. Levelled(file, lv, dropped) /\ rootId \in DOMAIN file /\ rootId \notin dropped /\ file \in Seq(Node)
  BY <1>2, StandingFile DEF Standing
<1>4. id \in DOMAIN file /\ id \notin dropped
  BY <1>3, BelowUsed DEF InTree
<1>5. id \in Inners(file, dropped)
  BY <1>4 DEF Inners
<1>6. e.ref # 0
  <2>1. file[id].entries \in Seq(Entry)
    BY <1>3, <1>4, NodeParts
  <2> QED BY <2>1, Places, EntryParts DEF ToSet
<1> QED BY <1>5, <1>6 DEF Roomy, Covered, Encloses

(* The box in an entry of the tree holds the box of its node, so that the  *)
(* filters and searchNode find what is below, but where insertLeaf left    *)
(* an entry too small: updatePath and splits never do.                     *)
THEOREM BoxesAlways == Spec => []BoxesCover
BY IInvAlways, RoomAlways, RoomInTree, PTL
=============================================================================
