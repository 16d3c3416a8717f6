------------------------------ MODULE TBTree ------------------------------
(***************************************************************************)
(* The TB-tree (TBTree in src/TBTree/TBTree.h): a tree over the boxes of   *)
(* units in which every leaf holds units of one trajectory, and the leaves *)
(* of a trajectory are chained.  Units come in by insert, one after the    *)
(* other (streamupdatetbtree), or by a bulk load that keeps one leaf per   *)
(* trajectory in memory (streamupdatebltbtree).                            *)
(*                                                                         *)
(* The header record is left out: it is written when the object is closed  *)
(* and read when it is opened.  A unit that is not defined is ignored by   *)
(* insert and does not occur here.                                         *)
(***************************************************************************)
EXTENDS Rectangles, Sequences, FiniteSets, SequencesExt

CONSTANTS
  UnitBox,              \* bounding boxes of units
  Trj,                  \* ids of trajectories
  NoTrj,                \* the id in an inner node, which has none
  LeafMax, InnerMax,    \* size of a node
  InnerMin,             \* least number of entries after a split
  MaxEntries            \* bound on the units inserted

ASSUME TBTreeAssumption ==
  /\ UnitBox \subseteq {b \in Box : Proper(b)}
  /\ Trj \subseteq Nat /\ NoTrj \in Nat \ Trj
  /\ LeafMax \in Nat /\ LeafMax >= 2
  /\ InnerMin \in Nat \ {0}
  /\ InnerMax \in Nat /\ InnerMax >= 2 /\ InnerMax + 1 >= 2 * InnerMin
  /\ MaxEntries \in Nat

VARIABLES
  file,         \* the node records; the id of one is its place
  rootId,       \* 0: the tree is empty
  level, noEntries, noNodes, noLeafNodes,
  bulkloading,  \* a bulk load was begun
  loading,      \* an operator that bulk loads is at work
  nodemap,      \* nodemap[trj]: the leaf in memory, of record sidmap[trj]
  sidmap,       \* 0: there is none
  given,        \* history: trajectory and box of every unit inserted, by tuple id
  narrow,       \* history: sons whose entry was too small after a new leaf
  dropped       \* history: roots returned to a bulk load, which forgot them

vars == <<file, rootId, level, noEntries, noNodes, noLeafNodes, bulkloading,
          loading, nodemap, sidmap, given, narrow, dropped>>

(* An entry of a leaf refers to a tuple, one of an inner node to a node.   *)
Entry == [ref : Nat \ {0}, box : Box]

Leaf(es, trj) == [leaf |-> TRUE, entries |-> es, next |-> 0, trj |-> trj]

Inner(es) == [leaf |-> FALSE, entries |-> es, next |-> 0, trj |-> NoTrj]

Init ==
  /\ file = << >> /\ rootId = 0 /\ level = 0
  /\ noEntries = 0 /\ noNodes = 0 /\ noLeafNodes = 0
  /\ bulkloading = FALSE /\ loading = FALSE
  /\ nodemap = [trj \in Trj |-> Leaf(<< >>, trj)]
  /\ sidmap = [trj \in Trj |-> 0]
  /\ given = << >> /\ narrow = {} /\ dropped = {}
-----------------------------------------------------------------------------
(***************************************************************************)
(* Nodes                                                                   *)
(***************************************************************************)

(* The box of a node that has entries.                                     *)
BoxOf(es) == FoldLeft(LAMBDA b, e : Union(b, e.box), es[1].box, es)

EntryFor(f, id) == [ref |-> id, box |-> BoxOf(f[id].entries)]

IsFull(n) == Len(n.entries) = LeafMax - 1

(* selectBestNode: the first of the entries that grow least.               *)
BestNode(es, rect) ==
  CHOOSE i \in DOMAIN es :
    \A j \in DOMAIN es :
      LET di == Enlargement(es[i].box, rect)
          dj == Enlargement(es[j].box, rect)
      IN  di < dj \/ (di = dj /\ i <= j)

(* pickSeeds: the first of the pairs that waste most.                      *)
Waste(a, b) == 2 * Area(Union(a, b)) - (Area(a) + Area(b))

Seeds(es) ==
  LET pairs == {p \in (DOMAIN es) \X (DOMAIN es) : p[1] < p[2]}
      waste(p) == Waste(es[p[1]].box, es[p[2]].box)
  IN  IF \A p \in pairs : waste(p) = 0 THEN <<1, Len(es)>>
      ELSE CHOOSE p \in pairs :
             \A q \in pairs :
               \/ waste(q) < waste(p)
               \/ /\ waste(q) = waste(p)
                  /\ p[1] < q[1] \/ (p[1] = q[1] /\ p[2] <= q[2])

(* pickNext: the first entry that prefers a group most, ...                *)
PickNext(rest, g1, g2) ==
  LET size(i, g) == Area(Union(rest[i].box, BoxOf(g)))
      diff(i) == Greater(size(i, g1) - size(i, g2), size(i, g2) - size(i, g1))
  IN  CHOOSE i \in DOMAIN rest :
        \A j \in DOMAIN rest : diff(j) < diff(i) \/ (diff(j) = diff(i) /\ i <= j)

(* ... and whether it goes to the first group.  The first entry of the     *)
(* rest goes to the second whatever it prefers: its group is left at -1.   *)
PicksFirst(rest, i, g1, g2) ==
  LET e == rest[i].box
      a1 == Area(BoxOf(g1))
      a2 == Area(BoxOf(g2))
      d1 == Area(Union(e, BoxOf(g1))) - a1
      d2 == Area(Union(e, BoxOf(g2))) - a2
  IN  /\ i # 1
      /\ \/ d1 < d2
         \/ d1 = d2 /\ a1 < a2
         \/ d1 = d2 /\ a1 = a2 /\ Len(g1) <= Len(g2)

(* A fault: no group is given the rest.                                    *)
DistributeFreely(s) ==
  LET i == PickNext(s.rest, s.g1, s.g2)
      rest == RemoveAt(s.rest, i)
      e == s.rest[i]
  IN  IF s.rest = << >> THEN s
      ELSE IF PicksFirst(s.rest, i, s.g1, s.g2)
           THEN [rest |-> rest, g1 |-> Append(s.g1, e), g2 |-> s.g2]
           ELSE [rest |-> rest, g1 |-> s.g1, g2 |-> Append(s.g2, e)]

(* A round of splitNode: a group that needs all the rest gets it.          *)
Distribute(s) ==
  LET i == PickNext(s.rest, s.g1, s.g2)
      rest == RemoveAt(s.rest, i)
  IN  CASE s.rest = << >> -> s
        [] Len(s.rest) + Len(s.g1) = InnerMin ->
             [rest |-> << >>, g1 |-> s.g1 \o s.rest, g2 |-> s.g2]
        [] Len(s.rest) + Len(s.g2) = InnerMin ->
             [rest |-> << >>, g1 |-> s.g1, g2 |-> s.g2 \o s.rest]
        [] OTHER ->
             IF PicksFirst(s.rest, i, s.g1, s.g2)
             THEN [rest |-> rest, g1 |-> Append(s.g1, s.rest[i]), g2 |-> s.g2]
             ELSE [rest |-> rest, g1 |-> s.g1, g2 |-> Append(s.g2, s.rest[i])]

SplitNode(es) ==
  LET seeds == Seeds(es)
      start == [rest |-> RemoveAt(RemoveAt(es, seeds[2]), seeds[1]),
                g1 |-> <<es[seeds[1]]>>, g2 |-> <<es[seeds[2]]>>]
  IN  FoldLeft(LAMBDA s, i : Distribute(s), start, es)
-----------------------------------------------------------------------------
(***************************************************************************)
(* insertLeaf                                                              *)
(***************************************************************************)

(* The inner nodes on the way from r to the leaf next to rect, each with   *)
(* the place of the son that is best.                                      *)
BestPath(f, r, rect) ==
  LET path[id \in DOMAIN f] ==
        IF f[id].leaf THEN << >>
        ELSE LET i == BestNode(f[id].entries, rect)
             IN  <<[id |-> id, at |-> i]>> \o path[f[id].entries[i].ref]
  IN  path[r]

LeafBelow(f, r, path) ==
  IF path = << >> THEN r ELSE f[Last(path).id].entries[Last(path).at].ref

(* The son was not split: its entry is enlarged when the box of the whole  *)
(* node does not hold rect, and by no more than rect.                      *)
Enlarge(s, p, rect) ==
  LET es == s.file[p.id].entries
      son == es[p.at].ref
      b == Union(BoxOf(es), rect)
      left(box) == IF ContainsBox(box, BoxOf(s.file[son].entries)) THEN s.narrow
                   ELSE s.narrow \cup {son}
  IN  IF ContainsBox(BoxOf(es), rect)
      THEN [s EXCEPT !.first = p.id, !.narrow = left(es[p.at].box)]
      ELSE [s EXCEPT !.first = p.id, !.narrow = left(b), !.file[p.id].entries[p.at].box = b]

(* A fault: the second half of a node that was split is not handed on.     *)
TakeSecondHalf(s, p) ==
  LET n == s.file[p.id]
      es == Append([n.entries EXCEPT ![p.at] = EntryFor(s.file, s.first)],
                   EntryFor(s.file, s.second))
  IN  [s EXCEPT !.file[p.id].entries = IF Len(es) <= InnerMax THEN es ELSE SplitNode(es).g1,
                !.first = p.id, !.second = 0]

(* The son is two nodes now, and so may be the node.                       *)
TakeSecond(s, p) ==
  LET n == s.file[p.id]
      halves(h) == [s EXCEPT !.file = Append([s.file EXCEPT ![p.id].entries = h.g1],
                                             Inner(h.g2)),
                             !.first = p.id, !.second = Len(s.file) + 1]
      with(es) == IF Len(es) <= InnerMax
                  THEN [s EXCEPT !.file[p.id].entries = es, !.first = p.id, !.second = 0]
                  ELSE halves(SplitNode(es))
  IN  with(Append([n.entries EXCEPT ![p.at] = EntryFor(s.file, s.first)],
                  EntryFor(s.file, s.second)))

(* A fault: the way down ends above the last inner node.                   *)
InsertLeafRecHigh(f, r, id, rect) ==
  LET path == BestPath(f, r, rect)
      up(s, p) == IF s.second = 0 THEN Enlarge(s, p, rect) ELSE TakeSecond(s, p)
  IN  FoldLeft(up, [file |-> f, second |-> id, narrow |-> narrow,
                    first |-> IF path = << >> THEN r ELSE Last(path).id],
               Reverse(IF path = << >> THEN path ELSE Front(path)))

InsertLeafRec(f, r, id, rect) ==
  LET path == BestPath(f, r, rect)
      up(s, p) == IF s.second = 0 THEN Enlarge(s, p, rect) ELSE TakeSecond(s, p)
  IN  FoldLeft(up, [file |-> f, first |-> LeafBelow(f, r, path), second |-> id,
                    narrow |-> narrow],
               Reverse(path))

(* The new root over two nodes is returned as first.                       *)
Grown(s) ==
  IF s.second = 0 THEN s
  ELSE [s EXCEPT !.file = Append(s.file, Inner(<<EntryFor(s.file, s.first),
                                                 EntryFor(s.file, s.second)>>)),
                 !.first = Len(s.file) + 1]

InsertLeaf(f, r, id, rect) == Grown(InsertLeafRec(f, r, id, rect))
-----------------------------------------------------------------------------
(***************************************************************************)
(* insert                                                                  *)
(***************************************************************************)

(* A fault: the leaf may be of any trajectory.                             *)
SearchNodeAny(f, r, box, trj) ==
  LET path[id \in DOMAIN f] ==
        LET n == f[id]
            hits == {i \in DOMAIN n.entries :
                       Intersects(n.entries[i].box, box) /\ path[n.entries[i].ref] # << >>}
            first == CHOOSE i \in hits : \A j \in hits : i <= j
        IN  IF n.leaf THEN IF n.next = 0 THEN <<[id |-> id, at |-> 0]>> ELSE << >>
            ELSE IF hits = {} THEN << >>
                 ELSE <<[id |-> id, at |-> first]>> \o path[n.entries[first].ref]
  IN  path[r]

(* searchNode: the way to the first leaf of the trajectory that has no     *)
(* next, through entries that meet the box; empty when there is none.      *)
SearchNode(f, r, box, trj) ==
  LET path[id \in DOMAIN f] ==
        LET n == f[id]
            hits == {i \in DOMAIN n.entries :
                       Intersects(n.entries[i].box, box) /\ path[n.entries[i].ref] # << >>}
            first == CHOOSE i \in hits : \A j \in hits : i <= j
        IN  IF n.leaf
            THEN IF n.trj = trj /\ n.next = 0 THEN <<[id |-> id, at |-> 0]>> ELSE << >>
            ELSE IF hits = {} THEN << >>
                 ELSE <<[id |-> id, at |-> first]>> \o path[n.entries[first].ref]
  IN  path[r]

(* A fault: only the node above the leaf is updated.                       *)
UpdatePathOnce(f, path, box) ==
  IF Len(path) = 1 THEN f
  ELSE LET p == Last(Front(path))
       IN  [f EXCEPT ![p.id].entries[p.at].box = Union(@, box)]

(* updatePath: the entries of the way are enlarged from the leaf up, until *)
(* one holds the box already.                                              *)
UpdatePath(f, path, box) ==
  LET up(s, p) ==
        LET old == s.file[p.id].entries[p.at].box
        IN  IF s.done \/ ContainsBox(old, box) THEN [s EXCEPT !.done = TRUE]
            ELSE [s EXCEPT !.file[p.id].entries[p.at].box = Union(old, box)]
  IN  FoldLeft(up, [file |-> f, done |-> FALSE], Reverse(Front(path))).file

(* A fault: tuple ids from 0 on.                                           *)
TupleIdFromZero == Len(given)

TupleId == Len(given) + 1

(* The unit every insertion is given: a trajectory and a box.              *)
Given(trj, b) ==
  /\ Len(given) < MaxEntries
  /\ given' = Append(given, [trj |-> trj, box |-> b])
  /\ noEntries' = noEntries + 1

Unit(b) == [ref |-> TupleId, box |-> b]

(* The first unit makes the root.                                          *)
InsertFirst(trj, b) ==
  /\ ~loading /\ rootId = 0
  /\ Given(trj, b)
  /\ file' = Append(file, Leaf(<<Unit(b)>>, trj))
  /\ rootId' = Len(file) + 1 /\ level' = level + 1
  /\ noNodes' = noNodes + 1 /\ noLeafNodes' = noLeafNodes + 1
  /\ UNCHANGED <<bulkloading, loading, nodemap, sidmap, narrow, dropped>>

(* The last leaf of the trajectory is met and takes the unit.              *)
InsertIntoLeaf(trj, b) ==
  LET path == SearchNode(file, rootId, b, trj)
      leaf == Last(path).id
      f == [file EXCEPT ![leaf].entries = Append(@, Unit(b))]
  IN  /\ ~loading /\ rootId # 0
      /\ path # << >> /\ ~IsFull(file[leaf])
      /\ Given(trj, b)
      /\ file' = UpdatePath(f, path, BoxOf(f[leaf].entries))
      /\ UNCHANGED <<rootId, level, noNodes, noLeafNodes, bulkloading, loading,
                     nodemap, sidmap, narrow, dropped>>

(* A new leaf: the last one of the trajectory is full, and gets it as its  *)
(* next, or was not met.                                                   *)
InsertNewLeaf(trj, b) ==
  LET path == SearchNode(file, rootId, b, trj)
      last == Last(path).id
      id == Len(file) + 1
      saved == Append(file, Leaf(<<Unit(b)>>, trj))
      linked == IF path = << >> THEN saved ELSE [saved EXCEPT ![last].next = id]
  IN  /\ ~loading /\ rootId # 0
      /\ path # << >> => IsFull(file[last])
      /\ Given(trj, b)
      /\ \E s \in {InsertLeaf(linked, rootId, id, b)} :
           /\ file' = s.file /\ rootId' = s.first /\ narrow' = s.narrow
           /\ level' = IF s.first = rootId THEN level ELSE level + 1
           /\ noNodes' = noNodes + (Len(s.file) - Len(file))
      /\ noLeafNodes' = noLeafNodes + 1
      /\ UNCHANGED <<bulkloading, loading, nodemap, sidmap, dropped>>

Insert(trj, b) ==
  InsertFirst(trj, b) \/ InsertIntoLeaf(trj, b) \/ InsertNewLeaf(trj, b)
-----------------------------------------------------------------------------
(***************************************************************************)
(* The bulk load                                                           *)
(***************************************************************************)

(* The flag is never taken back: from the second time on the maps are left *)
(* as they are.                                                            *)
StartBulkLoad ==
  /\ ~loading
  /\ bulkloading' = TRUE /\ loading' = TRUE
  /\ sidmap' = IF bulkloading THEN sidmap ELSE [trj \in Trj |-> 0]
  /\ UNCHANGED <<file, rootId, level, noEntries, noNodes, noLeafNodes, nodemap,
                 given, narrow, dropped>>

(* The last leaf of the chain from id.                                     *)
EndOfChain(id) ==
  LET end[i \in DOMAIN file] == IF file[i].next = 0 THEN i ELSE end[file[i].next]
  IN  end[id]

(* getLastLeafNodeofTrjId looks at the root only; 0: it finds no leaf, and *)
(* appends an empty one.                                                   *)
LastLeaf(trj) ==
  IF file[rootId].leaf /\ file[rootId].trj = trj THEN EndOfChain(rootId) ELSE 0

(* insertLeaf as the bulk load calls it, for the leaf n in record id: the  *)
(* root it returns is not taken.                                           *)
WithLeaf(s, id, n) ==
  LET with(t) ==
        [file |-> t.file, narrow |-> s.narrow \cup t.narrow,
         dropped |-> IF t.first = rootId THEN s.dropped ELSE s.dropped \cup {t.first}]
  IN  with(InsertLeaf([s.file EXCEPT ![id] = n], rootId, id, BoxOf(n.entries)))

Tree == [file |-> file, narrow |-> narrow, dropped |-> dropped]

(* bulkLoadInsert with a leaf of the trajectory that takes the unit.  The  *)
(* tree must not be empty: the node of record 0 cannot be read.            *)
BulkInsertIntoLeaf(trj, b) ==
  LET last == LastLeaf(trj)
      sid == IF last = 0 THEN Len(file) + 1 ELSE last
      node == IF sidmap[trj] # 0 THEN nodemap[trj]
              ELSE IF last = 0 THEN Leaf(<< >>, trj) ELSE file[last]
      appended == sidmap[trj] = 0 /\ last = 0
  IN  /\ loading /\ rootId # 0 /\ ~IsFull(node)
      /\ Given(trj, b)
      /\ nodemap' = [nodemap EXCEPT ![trj] = [node EXCEPT !.entries = Append(@, Unit(b))]]
      /\ sidmap' = [sidmap EXCEPT ![trj] = IF @ = 0 THEN sid ELSE @]
      /\ file' = IF appended THEN Append(file, node) ELSE file
      /\ noNodes' = IF appended THEN noNodes + 1 ELSE noNodes
      /\ noLeafNodes' = IF appended THEN noLeafNodes + 1 ELSE noLeafNodes
      /\ UNCHANGED <<rootId, level, bulkloading, loading, narrow, dropped>>

(* A full leaf is written and put into the tree, and the unit goes to a    *)
(* new leaf, its next.                                                     *)
BulkInsertNewLeaf(trj, b) ==
  LET sid == IF sidmap[trj] # 0 THEN sidmap[trj] ELSE LastLeaf(trj)
      node == IF sidmap[trj] # 0 THEN nodemap[trj] ELSE file[sid]
      id == Len(file) + 1
      tree == [Tree EXCEPT !.file = Append(file, Leaf(<< >>, trj))]
  IN  /\ loading /\ rootId # 0
      /\ sid # 0 /\ IsFull(node)
      /\ Given(trj, b)
      /\ \E s \in {WithLeaf(tree, sid, [node EXCEPT !.next = id])} :
           /\ file' = s.file /\ narrow' = s.narrow /\ dropped' = s.dropped
           /\ noNodes' = noNodes + (Len(s.file) - Len(file))
      /\ nodemap' = [nodemap EXCEPT ![trj] = Leaf(<<Unit(b)>>, trj)]
      /\ sidmap' = [sidmap EXCEPT ![trj] = id]
      /\ noLeafNodes' = noLeafNodes + 1
      /\ UNCHANGED <<rootId, level, bulkloading, loading>>

MapsCleared ==
  /\ sidmap' = [trj \in Trj |-> 0]
  /\ nodemap' = [trj \in Trj |-> Leaf(<< >>, trj)]

(* endBulkLoad writes the leaves in memory and puts them into the tree, in *)
(* the order of the trajectories.                                          *)
EndBulkLoad ==
  LET those == {trj \in Trj : sidmap[trj] # 0}
      held == CHOOSE q \in [1 .. Cardinality(those) -> those] :
                \A i, j \in DOMAIN q : i < j => q[i] < q[j]
      add(t, trj) == WithLeaf(t, sidmap[trj], nodemap[trj])
  IN  /\ loading /\ loading' = FALSE
      /\ \E s \in {FoldLeft(add, Tree, held)} :
           /\ file' = s.file /\ narrow' = s.narrow /\ dropped' = s.dropped
           /\ noNodes' = noNodes + (Len(s.file) - Len(file))
      /\ MapsCleared
      /\ UNCHANGED <<rootId, level, noEntries, noLeafNodes, bulkloading, given>>

Next ==
  \/ \E trj \in Trj, b \in UnitBox :
       Insert(trj, b) \/ BulkInsertIntoLeaf(trj, b) \/ BulkInsertNewLeaf(trj, b)
  \/ StartBulkLoad \/ EndBulkLoad

Spec == Init /\ [][Next]_vars
-----------------------------------------------------------------------------
(***************************************************************************)
(* Properties                                                              *)
(***************************************************************************)

Node == [leaf : BOOLEAN, entries : Seq(Entry), next : Nat, trj : Nat]

TypeOK ==
  /\ file \in Seq(Node)
  /\ rootId \in 0 .. Len(file) /\ level \in Nat
  /\ noEntries \in Nat /\ noNodes \in Nat /\ noLeafNodes \in Nat
  /\ bulkloading \in BOOLEAN /\ loading \in BOOLEAN
  /\ nodemap \in [Trj -> Node] /\ sidmap \in [Trj -> 0 .. Len(file)]
  /\ given \in Seq([trj : Trj, box : Box])
  /\ narrow \subseteq DOMAIN file /\ dropped \subseteq DOMAIN file

Refs(n) == {n.entries[i].ref : i \in DOMAIN n.entries}

(* The records below r, r included.                                        *)
Below(r) ==
  LET below[id \in DOMAIN file] ==
        {id} \cup IF file[id].leaf THEN {} ELSE UNION {below[s] : s \in Refs(file[id])}
  IN  IF r = 0 THEN {} ELSE below[r]

Held == {sidmap[trj] : trj \in Trj} \ {0}

(* A leaf as it stands: in the file, or in the memory of the bulk load.    *)
LeafAt(id) ==
  IF id \in Held THEN nodemap[CHOOSE trj \in Trj : sidmap[trj] = id] ELSE file[id]

InTree == Below(rootId)

Leaves(ids) == {id \in ids : file[id].leaf}

(* No unit is lost or doubled: it is in one leaf, of its trajectory, and   *)
(* with its box, and that leaf is in the tree, or held by the bulk load,   *)
(* or below a root that insertLeaf returned to the bulk load.              *)
UnitsKept ==
  LET kept == Leaves(InTree \cup Held \cup UNION {Below(r) : r \in dropped})
  IN  \A t \in DOMAIN given :
        \E id \in kept :
          /\ [ref |-> t, box |-> given[t].box] \in ToSet(LeafAt(id).entries)
          /\ LeafAt(id).trj = given[t].trj
          /\ \A other \in Leaves(DOMAIN file) :
               t \in Refs(LeafAt(other)) => other = id

(* "insert the new entry to tbtree using bulk load": when a bulk load has   *)
(* ended, every unit is in a leaf of the tree.                             *)
LoadedInTree ==
  ~loading => \A t \in DOMAIN given : \E id \in Leaves(InTree) : t \in Refs(file[id])

(* The box in an entry holds the box of the node it refers to, but where   *)
(* insertLeaf came up from a son and left the entry of it too small.       *)
BoxesCover ==
  \A id \in InTree :
    ~file[id].leaf => \A e \in ToSet(file[id].entries) :
      e.ref \in narrow \/ ContainsBox(e.box, BoxOf(file[e.ref].entries))

(* All leaves are at the depth the tree records as its level, and no node  *)
(* is on two ways.                                                         *)
Balanced ==
  LET depth[id \in DOMAIN file] ==
        IF file[id].leaf THEN {1} ELSE {d + 1 : d \in UNION {depth[s] : s \in Refs(file[id])}}
      inner == {id \in InTree : ~file[id].leaf}
  IN  /\ rootId # 0 => depth[rootId] = {level}
      /\ \A id \in inner :
           /\ Cardinality(Refs(file[id])) = Len(file[id].entries)
           /\ \A other \in inner \ {id} : Refs(file[id]) \cap Refs(file[other]) = {}

(* A node in the tree has the entries a node must have; the root needs two.*)
NodesFilled ==
  \A id \in InTree :
    LET n == Len(file[id].entries)
    IN  IF file[id].leaf THEN n \in 1 .. LeafMax - 1
        ELSE n \in (IF id = rootId THEN Lesser(2, InnerMin) ELSE InnerMin) .. InnerMax

(* From leaf to leaf along a chain the units are of one trajectory and in  *)
(* the order in which they came, and no leaf is the next of two.           *)
ChainsInOrder ==
  \A id \in Leaves(DOMAIN file) :
    LET n == LeafAt(id)
        m == LeafAt(n.next)
    IN  n.next # 0 =>
          /\ n.trj = m.trj /\ IsFull(n)
          /\ \A s \in Refs(n), t \in Refs(m) : s < t
          /\ \A other \in Leaves(DOMAIN file) \ {id} : LeafAt(other).next # n.next
=============================================================================
