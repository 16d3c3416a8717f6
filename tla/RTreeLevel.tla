---------------------------- MODULE RTreeLevel ----------------------------
(***************************************************************************)
(* The bulk load of an R-tree through grids, one grid per level of the     *)
(* tree (RTreeLevel in src/CDistRange/CDistRangeAlgebra.h), as             *)
(* gridbulkloadrtree and gridblupdaterelrtree run it.                      *)
(*                                                                         *)
(* Boxes are intervals: the key of a box is computed in each dimension     *)
(* alike.  A cell of a grid that has no node and one whose node is empty   *)
(* are the same, the code passes over both.  The record of the tree's      *)
(* empty root, which GetRoot deletes, is left out of the file.             *)
(***************************************************************************)
EXTENDS Integers, Sequences, FiniteSets, SequencesExt

CONSTANTS
  Box,          \* bounding boxes, records of lo and hi
  Unit,         \* width of a cell of the first grid
  MaxKey,       \* greatest key that is in range (2^20)
  MaxLeaf, MinLeaf, MaxInternal, MinInternal, \* entries of a node
  None,         \* the null pointer
  MaxLoaded     \* bound on the entries loaded

(* A tuple id in a leaf, the number of a record of the file above.         *)
Entry == [ref : Nat \ {0}, lo : Nat, hi : Nat]

Key == 0 .. MaxKey + 1

(* A grid on a level, with its counts.                                     *)
Level == [grid : [Key -> Seq(Entry)], unit : Nat \ {0}, noentries : Int,
          entrycount : Nat, nodecount : Nat, left : Seq(Entry) \cup {None}]

ASSUME RTreeLevelAssumption ==
  /\ Box \subseteq [lo : Nat, hi : Nat] /\ IsFiniteSet(Box) /\ Box # {}
  /\ \A b \in Box : b.lo <= b.hi
  /\ Unit \in Nat \ {0} /\ MaxKey \in Nat /\ MaxLoaded \in Nat
  /\ MinLeaf \in Nat \ {0} /\ MinInternal \in Nat \ {0}
  /\ MaxLeaf \in Nat /\ MaxLeaf >= 2 * MinLeaf
  /\ MaxInternal \in Nat /\ MaxInternal >= 2 * MinInternal
  /\ None \notin Seq(Entry) /\ None \notin Level

MaxEntries(k) == IF k = 1 THEN MaxLeaf ELSE MaxInternal

(* A fault: every level has the minimum of the leaves.                     *)
MinEntriesOfLeaf(k) == MinLeaf

MinEntries(k) == IF k = 1 THEN MinLeaf ELSE MinInternal

NewLevel(unit) ==
  [grid |-> [key \in Key |-> << >>], unit |-> unit, noentries |-> 0,
   entrycount |-> 0, nodecount |-> 0, left |-> None]

VARIABLES
  levels,   \* the levels from the leaves up
  old, wide, \* in GetRoot: the level last made of wider cells, and the one being made
  at,       \* the entry of the old level that moves: its key and index
  pending,  \* the insertion into a level under way, if there is one
  file,     \* the node records of the tree
  header,   \* of the tree
  pc, cur,  \* the call in progress, and the level it is at
  loaded,   \* number of entries loaded
  dealt     \* entries handed to the insertion of the R-tree, with their level

vars == <<levels, old, wide, at, pending, file, header, pc, cur, loaded, dealt>>

Init ==
  /\ levels = <<NewLevel(Unit)>>
  /\ old = None /\ wide = None /\ at = <<0, 1>>
  /\ pending = {} /\ file = << >>
  /\ header = [root |-> 0, height |-> 0, entryCount |-> 0, nodeCount |-> 0]
  /\ pc = "load" /\ cur = 1
  /\ loaded = 0 /\ dealt = {}
-----------------------------------------------------------------------------
(* convertMBR2P and toULL: the half extent of the box in cells.  All that  *)
(* is out of range has key 0.                                              *)
KeyOf(lo, hi, unit) ==
  LET v == (hi - lo) \div (2 * unit) IN IF v \in 0 .. MaxKey THEN v + 1 ELSE 0

(* The bounding box of a node; that of an empty one is undefined.          *)
Lowest(es) == IF es = << >> THEN 0 ELSE Min({e.lo : e \in ToSet(es)})

Highest(es) == IF es = << >> THEN 0 ELSE Max({e.hi : e \in ToSet(es)})

GridEntries(l) == FlattenSeq([i \in 1 .. MaxKey + 2 |-> l.grid[i - 1]])

(* The insertion of entry e into level k of ls.                            *)
Insertion(ls, k, e) ==
  [level |-> k, key |-> KeyOf(e.lo, e.hi, ls[k].unit), entry |-> e]

(* SaveNode2RTree for level k of ls: the node is written and its entry     *)
(* goes to the next level, which may have to be made.                      *)
SaveNode(ls, k, unit, es) ==
  LET above == IF k = Len(ls) THEN Append(ls, NewLevel(unit)) ELSE ls
  IN  /\ file' = Append(file, [leaf |-> k = 1, entries |-> es])
      /\ levels' = above
      /\ pending' = {Insertion(above, k + 1,
                       [ref |-> Len(file) + 1, lo |-> Lowest(es), hi |-> Highest(es)])}

WithEntry(l, key, e) ==
  [l EXCEPT !.grid[key] = Append(l.grid[key], e),
            !.noentries = l.noentries + 1, !.entrycount = l.entrycount + 1]

(* A fault: the node saved keeps its entries.                              *)
WithoutClear(l, key, max) ==
  [l EXCEPT !.noentries = l.noentries - max, !.nodecount = l.nodecount + 1]

(* A fault: the entry that filled the node is not subtracted.              *)
WithoutNodeButOne(l, key, max) ==
  [l EXCEPT !.grid[key] = << >>, !.noentries = l.noentries - (max - 1),
            !.nodecount = l.nodecount + 1]

(* The level once the node of a key was saved.                             *)
WithoutNode(l, key, max) ==
  [l EXCEPT !.grid[key] = << >>, !.noentries = l.noentries - max,
            !.nodecount = l.nodecount + 1]

IsFull(l, key, k) == Len(l.grid[key]) >= MaxEntries(k)

Kept(l, key, k) == IF IsFull(l, key, k) THEN WithoutNode(l, key, MaxEntries(k)) ELSE l

(* An entry goes into its node on a level; the node is saved when that     *)
(* fills it.                                                               *)
Insert ==
  /\ \E i \in pending :
       LET k == i.level
           l == WithEntry(levels[k], i.key, i.entry)
           ls == [levels EXCEPT ![k] = Kept(l, i.key, k)]
       IN  IF IsFull(l, i.key, k) THEN SaveNode(ls, k, l.unit, l.grid[i.key])
           ELSE levels' = ls /\ pending' = {} /\ UNCHANGED file
  /\ UNCHANGED <<old, wide, at, header, pc, cur, loaded, dealt>>

Load ==
  /\ pc = "load" /\ pending = {} /\ loaded < MaxLoaded
  /\ \E b \in Box :
       pending' = {Insertion(levels, 1, [ref |-> loaded + 1, lo |-> b.lo, hi |-> b.hi])}
  /\ loaded' = loaded + 1
  /\ UNCHANGED <<levels, old, wide, at, file, header, pc, cur, dealt>>

SetRTreeRoot ==
  /\ pc = "load" /\ pending = {}
  /\ pc' = "root"
  /\ UNCHANGED <<levels, old, wide, at, pending, file, header, cur, loaded, dealt>>
-----------------------------------------------------------------------------
(***************************************************************************)
(* GetRoot of the level cur                                                *)
(***************************************************************************)

(* oldrl: the level itself, or the last that was made of wider cells.      *)
Old == IF old = None THEN levels[cur] ELSE old

AtRoot == pc = "root" /\ pending = {}

(* A round of the loop begins: the nodes go to cells twice as wide, ...    *)
Widen ==
  /\ AtRoot /\ Old.noentries > MaxEntries(cur)
  /\ wide' = NewLevel(Old.unit * 2)
  /\ at' = <<0, 1>> /\ pc' = "widen"
  /\ UNCHANGED <<levels, old, pending, file, header, cur, loaded, dealt>>

Widening == pc = "widen" /\ pending = {}

(* A fault: the key is that of the old cells.                              *)
MoveEntryByOldUnit ==
  /\ Widening /\ at[1] \in Key /\ at[2] <= Len(Old.grid[at[1]])
  /\ LET es  == Old.grid[at[1]]
         key == KeyOf(Lowest(es), Highest(es), Old.unit)
         l   == WithEntry(wide, key, es[at[2]])
     IN  /\ wide' = Kept(l, key, cur)
         /\ IF IsFull(l, key, cur) THEN SaveNode(levels, cur, l.unit, l.grid[key])
            ELSE UNCHANGED <<levels, pending, file>>
  /\ at' = <<at[1], at[2] + 1>>
  /\ UNCHANGED <<old, header, pc, cur, loaded, dealt>>

(* ... entry by entry, but all of a node by the box of the node ...        *)
MoveEntry ==
  /\ Widening /\ at[1] \in Key /\ at[2] <= Len(Old.grid[at[1]])
  /\ LET es  == Old.grid[at[1]]
         key == KeyOf(Lowest(es), Highest(es), wide.unit)
         l   == WithEntry(wide, key, es[at[2]])
     IN  /\ wide' = Kept(l, key, cur)
         /\ IF IsFull(l, key, cur) THEN SaveNode(levels, cur, l.unit, l.grid[key])
            ELSE UNCHANGED <<levels, pending, file>>
  /\ at' = <<at[1], at[2] + 1>>
  /\ UNCHANGED <<old, header, pc, cur, loaded, dealt>>

MoveNextNode ==
  /\ Widening /\ at[1] \in Key /\ at[2] > Len(Old.grid[at[1]])
  /\ at' = <<at[1] + 1, 1>>
  /\ UNCHANGED <<levels, old, wide, pending, file, header, pc, cur, loaded, dealt>>

(* ... and ends.  The first round empties the level, a later one subtracts *)
(* from the count the first has set to zero.                               *)
Widened ==
  /\ Widening /\ at[1] \notin Key
  /\ LET l == levels[cur]
         m == IF cur = Len(levels) THEN l
              ELSE [l EXCEPT !.nodecount = l.nodecount + wide.nodecount,
                             !.noentries = l.noentries - wide.noentries]
     IN  levels' = [levels EXCEPT ![cur] =
           IF old = None THEN [m EXCEPT !.grid = [key \in Key |-> << >>], !.noentries = 0]
           ELSE m]
  /\ old' = wide /\ wide' = None
  /\ pc' = "root"
  /\ UNCHANGED <<at, pending, file, header, cur, loaded, dealt>>

(* Fewer entries are left than a node must have.                           *)
KeepLeft ==
  /\ AtRoot /\ cur < Len(levels) /\ Old.noentries < MinEntries(cur)
  /\ levels' = [levels EXCEPT ![cur].left = GridEntries(Old)]
  /\ old' = None /\ cur' = cur + 1
  /\ UNCHANGED <<wide, at, pending, file, header, pc, loaded, dealt>>

(* A fault: the count of the level is not reset.                           *)
SaveLeftCounted ==
  /\ AtRoot /\ cur < Len(levels)
  /\ MinEntries(cur) <= Old.noentries /\ Old.noentries <= MaxEntries(cur)
  /\ SaveNode(levels, cur, levels[cur].unit, GridEntries(Old))
  /\ old' = None /\ cur' = cur + 1
  /\ UNCHANGED <<wide, at, header, pc, loaded, dealt>>

SaveLeft ==
  /\ AtRoot /\ cur < Len(levels)
  /\ MinEntries(cur) <= Old.noentries /\ Old.noentries <= MaxEntries(cur)
  /\ SaveNode([levels EXCEPT ![cur].noentries = 0], cur, levels[cur].unit,
              GridEntries(Old))
  /\ old' = None /\ cur' = cur + 1
  /\ UNCHANGED <<wide, at, header, pc, loaded, dealt>>

(* What SetRTreeRoot puts in the header when the root is record n.         *)
HeaderOf(n, height) ==
  [root |-> n, height |-> height, entryCount |-> levels[1].entrycount,
   nodeCount |-> FoldLeft(LAMBDA s, l : s + l.nodecount, 0, levels)]

(* A fault: the height counts the levels.                                  *)
MakeRootOneHigher ==
  /\ AtRoot /\ cur = Len(levels) /\ Old.noentries <= MaxEntries(cur)
  /\ file' = Append(file, [leaf |-> FALSE, entries |-> GridEntries(Old)])
  /\ header' = HeaderOf(Len(file) + 1, cur)
  /\ levels' = [levels EXCEPT ![cur].noentries = 0]
  /\ old' = None /\ cur' = 1 /\ pc' = "left"
  /\ UNCHANGED <<wide, at, pending, loaded, dealt>>

(* The last level becomes the root, an internal node in every case.        *)
MakeRoot ==
  /\ AtRoot /\ cur = Len(levels) /\ Old.noentries <= MaxEntries(cur)
  /\ file' = Append(file, [leaf |-> FALSE, entries |-> GridEntries(Old)])
  /\ header' = HeaderOf(Len(file) + 1, cur - 1)
  /\ levels' = [levels EXCEPT ![cur].noentries = 0]
  /\ old' = None /\ cur' = 1 /\ pc' = "left"
  /\ UNCHANGED <<wide, at, pending, loaded, dealt>>

(* What is left on level k if its count is not zero: the insertion of the  *)
(* R-tree gets it, with the height of the level.                           *)
Dealt(k) ==
  IF levels[k].noentries = 0 THEN {} ELSE {<<k, e>> : e \in ToSet(levels[k].left)}

(* A fault: one level too far.                                             *)
DealPastEnd ==
  /\ pc = "left"
  /\ dealt' = dealt \cup Dealt(cur)
  /\ pc' = IF cur = Len(levels) THEN "done" ELSE pc
  /\ cur' = cur + 1
  /\ UNCHANGED <<levels, old, wide, at, pending, file, header, loaded>>

DealWithLeftEntries ==
  /\ pc = "left"
  /\ dealt' = dealt \cup Dealt(cur)
  /\ IF cur = Len(levels) THEN pc' = "done" /\ UNCHANGED cur
                          ELSE cur' = cur + 1 /\ UNCHANGED pc
  /\ UNCHANGED <<levels, old, wide, at, pending, file, header, loaded>>

Next ==
  \/ Load \/ Insert \/ SetRTreeRoot
  \/ Widen \/ MoveEntry \/ MoveNextNode \/ Widened
  \/ KeepLeft \/ SaveLeft \/ MakeRoot \/ DealWithLeftEntries

Spec == Init /\ [][Next]_vars
-----------------------------------------------------------------------------
(***************************************************************************)
(* Properties                                                              *)
(***************************************************************************)

(* The state of the load has its types.                                    *)
TypeOK ==
  /\ levels \in Seq(Level) /\ cur \in 1 .. Len(levels)
  /\ old \in Level \cup {None} /\ wide \in Level \cup {None}
  /\ at \in Nat \X (Nat \ {0})
  /\ pending \subseteq [level : 1 .. Len(levels), key : Key, entry : Entry]
  /\ file \in Seq([leaf : BOOLEAN, entries : Seq(Entry)])
  /\ header.root \in Nat /\ header.height \in Nat /\ header.entryCount \in Nat
  /\ pc \in {"load", "root", "widen", "left", "done"}
  /\ pc = "widen" => wide \in Level
  /\ loaded \in Nat
  /\ dealt \subseteq (1 .. Len(levels)) \X Entry

(* What has not moved yet to the wider cells.                              *)
Unmoved ==
  FlattenSeq([i \in 1 .. MaxKey + 2 |->
    LET es == Old.grid[i - 1]
    IN  IF i - 1 < at[1] THEN << >>
        ELSE IF i - 1 = at[1] THEN SubSeq(es, at[2], Len(es)) ELSE es])

(* What the grid of level k still answers for: GetRoot has not been at it, *)
(* or is there, and then the grid of its last round counts.                *)
LiveGrid(k) ==
  IF pc = "load" \/ (pc \in {"root", "widen"} /\ k > cur) THEN GridEntries(levels[k])
  ELSE IF pc = "root" /\ k = cur THEN GridEntries(Old)
  ELSE IF pc = "widen" /\ k = cur THEN Unmoved \o GridEntries(wide)
  ELSE << >>

LeftEntries(k) == IF levels[k].left = None THEN << >> ELSE levels[k].left

PendingEntries(k) == SetToSeq({i.entry : i \in {i \in pending : i.level = k}})

RootEntries(k) ==
  IF header.root # 0 /\ k = Len(levels) THEN file[header.root].entries ELSE << >>

FileEntries(leaf) ==
  FlattenSeq([n \in 1 .. Len(file) |->
    IF n # header.root /\ file[n].leaf = leaf THEN file[n].entries ELSE << >>])

HeldOnLevels(k1, k2) ==
  FlattenSeq([i \in 1 .. k2 - k1 + 1 |->
    LET k == i + k1 - 1
    IN  LiveGrid(k) \o LeftEntries(k) \o PendingEntries(k) \o RootEntries(k)])

RefersOnceTo(es, refs) ==
  Len(es) = Cardinality(refs) /\ {e.ref : e \in ToSet(es)} = refs

(* At every moment of the load each tuple is held exactly once, in a leaf, *)
(* in a grid, in the insertion under way or left over; and each node       *)
(* written has exactly one entry leading to it on some level above.        *)
EntriesKept ==
  /\ RefersOnceTo(FileEntries(TRUE) \o HeldOnLevels(1, 1), 1 .. loaded)
  /\ RefersOnceTo(FileEntries(FALSE) \o HeldOnLevels(2, Len(levels)),
                  (1 .. Len(file)) \ {header.root})

(* No node is written that is overfull, and none but the root with fewer   *)
(* entries than a node of its level must have.                             *)
NodesFilled ==
  \A n \in 1 .. Len(file) :
    LET size == Len(file[n].entries)
        min == IF file[n].leaf THEN MinLeaf ELSE MinInternal
        max == IF file[n].leaf THEN MaxLeaf ELSE MaxInternal
    IN  IF n = header.root THEN size <= MaxEntries(Len(levels))
        ELSE min <= size /\ size <= max

(* A root made of the only level holds tuples, whatever its flag says.     *)
HoldsTuples(n) == file[n].leaf \/ (n = header.root /\ Len(levels) = 1)

(* The height of every node of the file above those that hold tuples.      *)
Height ==
  LET h[n \in 1 .. Len(file)] ==
        IF HoldsTuples(n) THEN 0 ELSE h[file[n].entries[1].ref] + 1
  IN  h

(* All paths from a node to the leaves have one length, the header tells   *)
(* it for the root, and what the R-tree inserts for a level is of the      *)
(* height of that level, though GetRoot goes on adding levels.             *)
Balanced ==
  LET h == Height IN
  /\ \A n \in 1 .. Len(file) :
       ~HoldsTuples(n) => \A e \in ToSet(file[n].entries) : h[e.ref] = h[n] - 1
  /\ header.root # 0 => h[header.root] = header.height
  /\ \A d \in dealt : d[1] > 1 => h[d[2].ref] = d[1] - 2

(* DealWithLeftEntries goes by the count of a level, which GetRoot has     *)
(* reset or subtracted from; where it is not zero there is a node of left  *)
(* entries to go through.                                                  *)
LeftEntriesExist ==
  pc = "left" => \A k \in cur .. Len(levels) :
    levels[k].noentries # 0 => levels[k].left # None

(* The count GetRoot decides by is that of the entries in the grid: until  *)
(* GetRoot comes, and for each grid of wider cells.                        *)
CountsMatch ==
  /\ pc = "load" => \A k \in 1 .. Len(levels) :
       levels[k].noentries = Len(GridEntries(levels[k]))
  /\ \A l \in {old, wide} \ {None} : l.noentries = Len(GridEntries(l))

Extent == Max({b.hi : b \in Box}) - Min({b.lo : b \in Box})

(* The loop of GetRoot ends on every level: no round makes cells that are  *)
(* wider than all the boxes together, since the round before has brought   *)
(* what is left into one cell, and a cell is saved before it holds more    *)
(* than a node can.                                                        *)
WideningEnds ==
  \A l \in {old, wide} \ {None} : l.unit <= Extent
=============================================================================
