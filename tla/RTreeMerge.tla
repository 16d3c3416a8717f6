---------------------------- MODULE RTreeMerge ----------------------------
(***************************************************************************)
(* The bulk load of an R-tree node by node, the insertion of single        *)
(* entries and the merge of two R-trees of one file                        *)
(* (src/RTree/RTreeAlgebra.h), as streamoboupdatertree,                    *)
(* streamblupdatertree and mergertree run them                             *)
(* (src/CDistRange/CDistRangeAlgebra.cpp): the tuples of an update are     *)
(* inserted one by one, or are loaded into a tree of their own, which is   *)
(* then merged with the tree that is there.                                *)
(*                                                                         *)
(* A box is the set of the tuples whose boxes it is the union of; the      *)
(* empty set is the undefined box.  Whether an entry lies far from the one *)
(* before it on its level is open, and so is what an insertion decides by  *)
(* areas, margins and distances.  Records that no node is in (headers,   *)
(* the path record for a later coverage number) are left out of the file,  *)
(* and an empty root that was deleted stays there with no reference to it. *)
(***************************************************************************)
EXTENDS Integers, Sequences, FiniteSets, SequencesExt

CONSTANTS
  MaxLeaf, MinLeaf, MaxInternal, MinInternal,  \* entries of a node
  InitialSeq,  \* entries of a level before a node may be left early
  Percent,     \* of a full node are reinserted (forced_reinsertion_percent)
  MaxLoaded,   \* bound on the tuples loaded
  MaxUpdates,  \* bound on the updates, merges and insertions together
  MaxInserts   \* bound on the tuples inserted

ASSUME RTreeMergeAssumption ==
  /\ MinLeaf \in Nat \ {0} /\ MaxLeaf \in Nat /\ MaxLeaf >= 2 * MinLeaf
  /\ MinInternal \in Nat \ {0} /\ MaxInternal \in Nat /\ MaxInternal >= 2 * MinInternal
  /\ InitialSeq \in Nat \ {0, 1} /\ MaxLoaded \in Nat /\ MaxUpdates \in Nat
  /\ Percent \in Nat /\ MaxInserts \in Nat
  /\ \A node \in {<<MinLeaf, MaxLeaf>>, <<MinInternal, MaxInternal>>} :
       (Percent * node[2]) \div 100 \in 1 .. node[2] - node[1]

Tuple == 1 .. MaxLoaded

VARIABLES
  file,    \* the node records of both trees
  bli,     \* the bulk load: per level the open node and the entries seen
  tree,    \* header of the tree
  sub,     \* header of the tree of the update
  pc, at,  \* the call in progress, and the level FinalizeBulkLoad is at
  loaded,  \* number of tuples loaded
  work,    \* entries to insert: those of the call, and of each reinsertion
  place,   \* the way to the node that is to take an entry, and the entry
  merges,  \* number of updates by merge
  inserts, \* number of tuples inserted
  \* history, read by the properties only
  inTree,  \* the tuples loaded into the tree and merged with it
  harm     \* what merges have met

inserting == <<work, place, inserts>>

vars == <<file, bli, tree, sub, pc, at, loaded, merges, inTree, harm, inserting>>

MaxEntries(level) == IF level = 1 THEN MaxLeaf ELSE MaxInternal

(* The entries of the root of a tree of the given height.                  *)
MinOfRoot(height) == IF height = 0 THEN MinLeaf ELSE MinInternal

MaxOfRoot(height) == IF height = 0 THEN MaxLeaf ELSE MaxInternal

NoBulkLoad == [node |-> << >>, counter |-> << >>, nodeCount |-> 0, entryCount |-> 0]

(* R_Tree(fileid, pageSize): a tree with an empty leaf for a root.         *)
EmptyTree(root) == [root |-> root, height |-> 0, nodeCount |-> 1, entryCount |-> 0]

EmptyLeaf == [leaf |-> TRUE, entries |-> << >>]

NoPlace == [path |-> << >>, entry |-> [box |-> {}, ptr |-> 1]]

(* BoundingBox: undefined without entries and with one undefined box.      *)
BoundingBox(es) ==
  LET boxes == {e.box : e \in ToSet(es)}
  IN  IF {} \in boxes THEN {} ELSE UNION boxes

EntryFor(f, r) == [box |-> BoundingBox(f[r].entries), ptr |-> r]

Init ==
  /\ file = <<EmptyLeaf>> /\ tree = EmptyTree(1) /\ sub = EmptyTree(1)
  /\ bli = NoBulkLoad /\ pc = "load" /\ at = 1
  /\ loaded = 0 /\ merges = 0 /\ inTree = {} /\ harm = {}
  /\ work = << >> /\ place = NoPlace /\ inserts = 0
-----------------------------------------------------------------------------
(***************************************************************************)
(* Bulk load                                                               *)
(***************************************************************************)

(* The open node of a level takes no further entry: it is full, or the     *)
(* entry is far from the last one, which it may be up to level far.        *)
Closes(level, far) ==
  /\ level <= Len(bli.node)
  /\ \/ Len(bli.node[level]) >= MaxEntries(level)
     \/ /\ level <= far /\ bli.counter[level] >= InitialSeq
        /\ bli.node[level] # << >>

(* The level whose open node takes an entry: those below it are closed.    *)
Taking(level, far) ==
  CHOOSE t \in level .. Len(bli.node) + 1 :
    /\ t <= Len(bli.node) => ~Closes(t, far)
    /\ \A i \in level .. t - 1 : Closes(i, far)

(* Node i is written to the next free record.                              *)
Records(f, from, to) ==
  f \o [n \in 1 .. to - from + 1 |->
          [leaf |-> from + n - 1 = 1, entries |-> bli.node[from + n - 1]]]

(* A fault: all entries that go up point to the first record.              *)
CarriedFirst(f, level, e, i) ==
  IF i = level THEN e
  ELSE [box |-> BoundingBox(bli.node[i - 1]), ptr |-> Len(f) + 1]

(* The entry that reaches level i when e goes into a level: that of the    *)
(* node below, which was closed and written.                               *)
Carried(f, level, e, i) ==
  IF i = level THEN e
  ELSE [box |-> BoundingBox(bli.node[i - 1]), ptr |-> Len(f) + i - level]

(* InsertBulkLoad(node, entry) at a level, with its recursive calls: every *)
(* closed node is written and replaced by one with the entry from below.   *)
BulkLoadWith(f, level, e, far) ==
  LET t == Taking(level, far)
      new == IF t > Len(bli.node) THEN 1 ELSE 0
  IN  [node |-> [i \in 1 .. Len(bli.node) + new |->
         IF i < level \/ i > t THEN bli.node[i]
         ELSE IF i < t \/ i > Len(bli.node) THEN <<Carried(f, level, e, i)>>
         ELSE Append(bli.node[i], Carried(f, level, e, i))],
       counter |-> [i \in 1 .. Len(bli.node) + new |->
         (IF i > Len(bli.node) THEN 0 ELSE bli.counter[i])
           + (IF i \in level .. t THEN 1 ELSE 0)],
       nodeCount |-> bli.nodeCount + t - level + new,
       entryCount |-> bli.entryCount]

Levels == 1 .. Len(bli.node)

Loading == pc \in {"load", "subload"}

(* InsertBulkLoad(entry).                                                  *)
InsertBulkLoad ==
  /\ Loading /\ at = 1 /\ loaded < MaxLoaded
  /\ \E far \in Levels \cup {0} :
       /\ bli' = [BulkLoadWith(file, 1, [box |-> {loaded + 1}, ptr |-> loaded + 1], far)
                    EXCEPT !.entryCount = @ + 1]
       /\ file' = Records(file, 1, Taking(1, far) - 1)
  /\ loaded' = loaded + 1
  /\ UNCHANGED <<tree, sub, pc, at, merges, inTree, harm, inserting>>

(* FinalizeBulkLoad, the loop for a level below the topmost: the node is   *)
(* written and its entry goes into its father.                             *)
FinalizeLevel ==
  /\ Loading /\ at < Len(bli.node)
  /\ LET written == Append(file, [leaf |-> at = 1, entries |-> bli.node[at]])
     IN  \E far \in Levels :
           /\ bli' = BulkLoadWith(written, at + 1, EntryFor(written, Len(written)), far)
           /\ file' = Records(written, at + 1, Taking(at + 1, far) - 1)
  /\ at' = at + 1
  /\ UNCHANGED <<tree, sub, pc, loaded, merges, inTree, harm, inserting>>

(* The tree or the tree of the update gets its header.                     *)
Finished(header) ==
  /\ bli' = NoBulkLoad /\ at' = 1
  /\ IF pc = "load"
     THEN tree' = header /\ pc' = "idle" /\ inTree' = 1 .. loaded /\ UNCHANGED sub
     ELSE sub' = header /\ pc' = "merge" /\ UNCHANGED <<tree, inTree>>

(* A fault: the height counts the levels.                                  *)
FinalizeRootHigher ==
  /\ Loading /\ bli.node # << >> /\ at = Len(bli.node)
  /\ file' = Append(file, [leaf |-> at = 1, entries |-> bli.node[at]])
  /\ Finished([root |-> Len(file) + 1, height |-> at,
               nodeCount |-> bli.nodeCount, entryCount |-> bli.entryCount])
  /\ UNCHANGED <<loaded, merges, harm, inserting>>

(* The topmost node replaces the empty root.                               *)
FinalizeRoot ==
  /\ Loading /\ bli.node # << >> /\ at = Len(bli.node)
  /\ file' = Append(file, [leaf |-> at = 1, entries |-> bli.node[at]])
  /\ Finished([root |-> Len(file) + 1, height |-> at - 1,
               nodeCount |-> bli.nodeCount, entryCount |-> bli.entryCount])
  /\ UNCHANGED <<loaded, merges, harm, inserting>>

(* Without a tuple the empty root stays.                                   *)
FinalizeEmpty ==
  /\ Loading /\ bli.node = << >>
  /\ Finished(IF pc = "load" THEN tree ELSE sub)
  /\ UNCHANGED <<file, loaded, merges, harm, inserting>>

(* StreamBLUpdateRTreeVM: a second tree on the file of the first, ready    *)
(* for a bulk load.                                                        *)
StreamBLUpdateRTree ==
  /\ pc = "idle" /\ merges + inserts < MaxUpdates /\ loaded < MaxLoaded
  /\ file' = Append(file, EmptyLeaf)
  /\ sub' = EmptyTree(Len(file) + 1)
  /\ pc' = "subload" /\ merges' = merges + 1
  /\ UNCHANGED <<bli, tree, at, loaded, inTree, harm, inserting>>
-----------------------------------------------------------------------------
(***************************************************************************)
(* SwitchHeader and MergeRtree.  After the headers were switched the first *)
(* tree is that of the update, the second the tree that was there.         *)
(***************************************************************************)

Root(t) == file[t.root].entries

(* The nodes from the root of the higher tree down to the one above the    *)
(* height of the other, along the last or the first entries.               *)
PathOf(r, length, first) ==
  LET path[i \in 1 .. length] ==
        IF i = 1 THEN r
        ELSE LET es == file[path[i - 1]].entries
             IN  (IF first THEN Head(es) ELSE Last(es)).ptr
  IN  path

(* R_TreeNode::Read asserts count <= maxEntries, and every node on the way  *)
(* is read with the maximum for the root of the tree that was there: a     *)
(* leaf's, if that root is one.                                            *)
Readable ==
  LET way == IF sub.height > tree.height
             THEN PathOf(sub.root, sub.height - tree.height, FALSE)
             ELSE PathOf(tree.root, tree.height - sub.height, TRUE)
  IN  \A r \in {sub.root, tree.root} \cup ToSet(way) :
        Len(file[r].entries) <= MaxOfRoot(tree.height)

UpdateBox(es, ptr, box) ==
  [i \in DOMAIN es |-> IF es[i].ptr = ptr THEN [es[i] EXCEPT !.box = box] ELSE es[i]]

(* A fault: the nodes above the one that took the entry keep their boxes.  *)
ClimbedNowhere(f, path, k) == f

(* The entries of the nodes on the path above node k follow its new box.   *)
Climbed(f, path, k) ==
  LET c[j \in 1 .. k] ==
        IF j = k THEN f
        ELSE LET g == c[j + 1]
             IN  [g EXCEPT ![path[j]].entries =
                    UpdateBox(@, path[j + 1], BoundingBox(g[path[j + 1]].entries))]
  IN  c[1]

(* The nodes of the path that take another entry.                          *)
Room(path) == {i \in DOMAIN path : Len(file[path[i]].entries) < MaxInternal}

(* The entry of the lower root goes into the lowest node of the path that  *)
(* has room.  For each full node below that one a node is written whose    *)
(* one entry points to that node itself, and which goes on in place of the *)
(* root; without any room nothing is linked.                               *)
Link(high, low, first) ==
  LET length == high.height - low.height
      path   == PathOf(high.root, length, first)
      k      == IF Room(path) = {} THEN 0 ELSE Max(Room(path))
      box    == BoundingBox(Root(low))
      f      == file \o [n \in 1 .. length - k |->
                  [leaf |-> FALSE, entries |-> <<[box |-> box, ptr |-> Len(file) + n]>>]]
      e      == [box |-> box, ptr |-> IF k = length THEN low.root ELSE Len(f)]
  IN  /\ file' = IF k = 0 THEN f
                 ELSE Climbed([f EXCEPT ![path[k]].entries =
                                 IF first THEN <<e>> \o @ ELSE Append(@, e)], path, k)
      /\ tree' = [root |-> high.root, height |-> high.height,
                  nodeCount |-> tree.nodeCount + sub.nodeCount + length - k,
                  entryCount |-> tree.entryCount + sub.entryCount + (IF k = 0 THEN 0 ELSE 1)]
      /\ harm' = harm \cup (IF k = length THEN {} ELSE {"full"})
                      \cup (IF box = {} THEN {"empty"} ELSE {})

Merged == pc' = "idle" /\ inTree' = 1 .. loaded /\ UNCHANGED <<bli, sub, at, loaded, merges, inserting>>

(* The first tree is higher: the second goes behind its entries.           *)
MergeBehind ==
  /\ pc = "merge" /\ Readable /\ sub.height > tree.height
  /\ Link(sub, tree, FALSE)
  /\ Merged

(* The second tree is higher: the first goes before its entries.           *)
MergeBefore ==
  /\ pc = "merge" /\ Readable /\ sub.height < tree.height
  /\ Link(tree, sub, TRUE)
  /\ Merged

(* A fault: the root is the record that is appended next.                  *)
NewRootNext(g, entries, extra) ==
  /\ file' = Append(g, [leaf |-> FALSE, entries |-> entries])
  /\ tree' = [root |-> Len(g) + 2, height |-> tree.height + 1,
              nodeCount |-> tree.nodeCount + sub.nodeCount + 1,
              entryCount |-> tree.entryCount + sub.entryCount + extra]

(* A new root over the two roots, written after the nodes of g.            *)
NewRoot(g, entries, extra) ==
  /\ file' = Append(g, [leaf |-> FALSE, entries |-> entries])
  /\ tree' = [root |-> Len(g) + 1, height |-> tree.height + 1,
              nodeCount |-> tree.nodeCount + sub.nodeCount + 1,
              entryCount |-> tree.entryCount + sub.entryCount + extra]

EqualHeights == pc = "merge" /\ Readable /\ sub.height = tree.height

RootsFilled ==
  LET least == MinOfRoot(tree.height) IN Len(Root(sub)) >= least /\ Len(Root(tree)) >= least

(* Both roots have the least number of entries.                            *)
MergeRoots ==
  /\ EqualHeights /\ RootsFilled
  /\ NewRoot(file, <<EntryFor(file, sub.root), EntryFor(file, tree.root)>>, 2)
  /\ Merged /\ UNCHANGED harm

Together == Len(Root(sub)) + Len(Root(tree)) < MaxOfRoot(tree.height)

(* UpdateBox asserts that a node is internal: the entries of a leaf cannot *)
(* be moved to another leaf.                                               *)
Movable(es) == tree.height > 0 \/ es = << >>

(* The entries of the second root go into the first; the second is left.   *)
MergeJoined ==
  /\ EqualHeights /\ ~RootsFilled /\ Together /\ Movable(Root(tree))
  /\ LET g == [file EXCEPT ![sub.root].entries = @ \o Root(tree)]
     IN  NewRoot(g, <<EntryFor(g, sub.root)>>, 1)
  /\ harm' = harm \cup {"joined"}
                  \cup (IF BoundingBox(Root(sub) \o Root(tree)) = {} THEN {"empty"} ELSE {})
  /\ Merged

(* What the smaller of two roots lacks; what the other has to spare is     *)
(* asserted.                                                               *)
Lacks(t) == MinOfRoot(tree.height) - Len(Root(t))

Spares(t, n) == n > 0 /\ Len(Root(t)) - n > MinOfRoot(tree.height)

Apart == EqualHeights /\ ~RootsFilled /\ ~Together

(* The first root has more entries: its last ones go before those of the   *)
(* second.  Of the others it keeps as many as it gave away, from the       *)
(* front.  Both are written as internal nodes.                             *)
MergeFromFirst ==
  /\ Apart /\ Len(Root(sub)) > Len(Root(tree))
  /\ LET n    == Lacks(tree)
         kept == SubSeq(Root(sub), 1, n)
         tail == SubSeq(Root(sub), Len(Root(sub)) - n + 1, Len(Root(sub)))
         g    == [file EXCEPT ![sub.root] = [leaf |-> FALSE, entries |-> kept],
                              ![tree.root] = [leaf |-> FALSE, entries |-> tail \o @.entries]]
     IN  /\ Spares(sub, n)
         /\ NewRoot(g, <<EntryFor(g, sub.root), EntryFor(g, tree.root)>>, 2)
  /\ harm' = harm \cup {"cut"}
  /\ Merged

(* The second root has more entries: its first ones go behind those of the *)
(* first, whose entry in the new root keeps its old box.                   *)
MergeFromSecond ==
  /\ Apart /\ Len(Root(tree)) > Len(Root(sub)) /\ tree.height > 0
  /\ LET n == Lacks(sub)
         g == [file EXCEPT ![sub.root].entries = @ \o SubSeq(Root(tree), 1, n),
                           ![tree.root].entries = SubSeq(@, n + 1, Len(@))]
     IN  /\ Spares(tree, n)
         /\ NewRoot(g, <<EntryFor(file, sub.root), EntryFor(g, tree.root)>>, 2)
  /\ harm' = harm \cup {"stale"}
  /\ Merged

(* An assertion stops the program.                                         *)
MergeAborts ==
  /\ \/ pc = "merge" /\ ~Readable
     \/ EqualHeights /\ ~RootsFilled /\ Together /\ ~Movable(Root(tree))
     \/ /\ Apart
        /\ IF Len(Root(sub)) > Len(Root(tree)) THEN ~Spares(sub, Lacks(tree))
           ELSE tree.height = 0 \/ ~Spares(tree, Lacks(sub))
  /\ pc' = "aborted"
  /\ UNCHANGED <<file, bli, tree, sub, at, loaded, merges, inTree, harm, inserting>>

-----------------------------------------------------------------------------
(***************************************************************************)
(* Insert: InsertEntry calls itself for the father of a node it has split  *)
(* and for every entry of a node that it takes out to insert it again.     *)
(***************************************************************************)

(* A tree with undefined boxes, nodes that are their own sons or leaves    *)
(* above their height is not inserted into here.                           *)
Sound == harm \cap {"empty", "full", "cut"} = {}

Insert ==
  /\ pc = "idle" /\ Sound
  /\ loaded < MaxLoaded /\ merges + inserts < MaxUpdates /\ inserts < MaxInserts
  /\ work' = <<[above |-> 0, entries |-> <<[box |-> {loaded + 1}, ptr |-> loaded + 1]>>]>>
  /\ pc' = "insert" /\ loaded' = loaded + 1 /\ inserts' = inserts + 1
  /\ UNCHANGED <<file, bli, tree, sub, at, place, merges, inTree, harm>>

(* The ways down to the nodes that many steps below the root.              *)
Ways(depth) ==
  LET ways[d \in 0 .. depth] ==
        IF d = 0 THEN {<<tree.root>>}
        ELSE UNION {{Append(w, e.ptr) : e \in ToSet(file[Last(w)].entries)} : w \in ways[d - 1]}
  IN  ways[depth]

(* LocateBestNode, for the next entry.                                     *)
LocateBestNode ==
  LET call == Last(work)
  IN  /\ pc = "insert" /\ call.entries # << >>
      /\ \E way \in Ways(tree.height - call.above) :
           place' = [path |-> way, entry |-> Head(call.entries)]
      /\ work' = Append(Front(work), [call EXCEPT !.entries = Tail(@)])
      /\ pc' = "place"
      /\ UNCHANGED <<file, bli, tree, sub, at, loaded, merges, inserts, inTree, harm>>

(* The node that is to take the entry, and its entries then.               *)
Taker == Last(place.path)

Taken == Append(file[Taker].entries, place.entry)

Above == tree.height + 1 - Len(place.path)

Overflow == Len(Taken) > (IF Above = 0 THEN MaxLeaf ELSE MaxInternal)

(* The entry is in: the reinsertions return that have no other left.       *)
Placed ==
  /\ work' = SubSeq(work, 1, Max({1} \cup {i \in DOMAIN work : work[i].entries # << >>}))
  /\ place' = NoPlace /\ pc' = "insert"

(* overflowFlag: a reinsertion at this height has not returned.            *)
Flagged == \E i \in 2 .. Len(work) : work[i].above = Above

(* The node is written with these entries, and the boxes above it follow.  *)
Updated(f, es) ==
  Climbed([f EXCEPT ![Taker].entries = es], place.path, Len(place.path))

InsertFits ==
  /\ pc = "place" /\ ~Overflow
  /\ file' = Updated(file, Taken)
  /\ Placed
  /\ UNCHANGED <<bli, tree, sub, at, loaded, merges, inserts, inTree, harm>>

(* Remove fills the gap with the last entry.                               *)
Without(es, gone) ==
  FoldLeft(LAMBDA s, i : IF i \in gone THEN Front([s EXCEPT ![i] = Last(s)]) ELSE s,
           es, Reverse([i \in DOMAIN es |-> i]))

(* A fault: the last of the entries taken out is forgotten.                *)
ReinsertOneLess ==
  LET n == (Percent * (Len(Taken) - 1)) \div 100
  IN  /\ pc = "place" /\ Overflow /\ Len(place.path) > 1 /\ ~Flagged
      /\ \E out \in {q \in [1 .. n -> DOMAIN Taken] : IsInjective(q)} :
           /\ file' = Updated(file, Without(Taken, ToSet(out)))
           /\ work' = Append(work, [above |-> Above, entries |-> [i \in 1 .. n - 1 |-> Taken[out[i]]]])
      /\ place' = NoPlace /\ pc' = "insert"
      /\ UNCHANGED <<bli, tree, sub, at, loaded, merges, inserts, inTree, harm>>

(* Forced reinsertion: some entries, those farthest from the center, are   *)
(* taken out to be inserted again, the nearest first.                      *)
Reinsert ==
  LET n == (Percent * (Len(Taken) - 1)) \div 100
  IN  /\ pc = "place" /\ Overflow /\ Len(place.path) > 1 /\ ~Flagged
      /\ \E out \in {q \in [1 .. n -> DOMAIN Taken] : IsInjective(q)} :
           /\ file' = Updated(file, Without(Taken, ToSet(out)))
           /\ work' = Append(work, [above |-> Above, entries |-> [i \in 1 .. n |-> Taken[out[i]]]])
      /\ place' = NoPlace /\ pc' = "insert"
      /\ UNCHANGED <<bli, tree, sub, at, loaded, merges, inserts, inTree, harm>>

(* Split: the two halves have the least number of entries or more.  Their  *)
(* order, by an axis in the code, is the one they had.                     *)
Halves ==
  LET least == IF Above = 0 THEN MinLeaf ELSE MinInternal
      first == {g \in SUBSET DOMAIN Taken : Cardinality(g) \in least .. Len(Taken) - least}
      half(g) == [i \in 1 .. Cardinality(g) |-> Taken[SetToSortSeq(g, <)[i]]]
  IN  {<<half(g), half(DOMAIN Taken \ g)>> : g \in first}

(* The second half gets a record of its own, and its entry goes into the   *)
(* father.                                                                 *)
SplitNode ==
  /\ pc = "place" /\ Overflow /\ Len(place.path) > 1 /\ Flagged
  /\ \E h \in Halves :
       LET f == Append(file, [leaf |-> Above = 0, entries |-> h[2]])
       IN  /\ file' = Updated(f, h[1])
           /\ place' = [path |-> Front(place.path), entry |-> EntryFor(f, Len(f))]
  /\ tree' = [tree EXCEPT !.nodeCount = @ + 1]
  /\ UNCHANGED <<bli, sub, pc, at, loaded, work, merges, inserts, inTree, harm>>

(* A fault: the two new nodes count as one.                                *)
SplitRootAsOne ==
  /\ pc = "place" /\ Overflow /\ Len(place.path) = 1
  /\ \E h \in Halves :
       LET f == file \o [i \in 1 .. 2 |-> [leaf |-> Above = 0, entries |-> h[i]]]
       IN  file' = [f EXCEPT ![tree.root] =
                      [leaf |-> FALSE, entries |-> <<EntryFor(f, Len(f) - 1), EntryFor(f, Len(f))>>]]
  /\ tree' = [tree EXCEPT !.height = @ + 1, !.nodeCount = @ + 1]
  /\ Placed
  /\ UNCHANGED <<bli, sub, at, loaded, merges, inserts, inTree, harm>>

(* The root keeps its record.                                              *)
SplitRoot ==
  /\ pc = "place" /\ Overflow /\ Len(place.path) = 1
  /\ \E h \in Halves :
       LET f == file \o [i \in 1 .. 2 |-> [leaf |-> Above = 0, entries |-> h[i]]]
       IN  file' = [f EXCEPT ![tree.root] =
                      [leaf |-> FALSE, entries |-> <<EntryFor(f, Len(f) - 1), EntryFor(f, Len(f))>>]]
  /\ tree' = [tree EXCEPT !.height = @ + 1, !.nodeCount = @ + 2]
  /\ Placed
  /\ UNCHANGED <<bli, sub, at, loaded, merges, inserts, inTree, harm>>

(* The call returns.                                                       *)
Inserted ==
  /\ pc = "insert" /\ Last(work).entries = << >>
  /\ tree' = [tree EXCEPT !.entryCount = @ + 1]
  /\ work' = << >> /\ pc' = "idle" /\ inTree' = 1 .. loaded
  /\ UNCHANGED <<file, bli, sub, at, loaded, place, merges, inserts, harm>>

Next ==
  \/ InsertBulkLoad \/ FinalizeLevel \/ FinalizeRoot \/ FinalizeEmpty
  \/ StreamBLUpdateRTree
  \/ MergeBehind \/ MergeBefore
  \/ MergeRoots \/ MergeJoined \/ MergeFromFirst \/ MergeFromSecond \/ MergeAborts
  \/ Insert \/ LocateBestNode \/ InsertFits \/ Reinsert \/ SplitNode \/ SplitRoot
  \/ Inserted

Spec == Init /\ [][Next]_vars
-----------------------------------------------------------------------------
(***************************************************************************)
(* Properties                                                              *)
(***************************************************************************)

Entry == [box : SUBSET Tuple, ptr : Nat \ {0}]

Node == [leaf : BOOLEAN, entries : Seq(Entry)]

Header == [root : Nat \ {0}, height : Nat, nodeCount : Nat \ {0}, entryCount : Nat]

(* Type invariant.                                                         *)
TypeOK ==
  /\ file \in Seq(Node)
  /\ bli.node \in Seq(Seq(Entry))
  /\ bli.counter \in Seq(Nat) /\ Len(bli.counter) = Len(bli.node)
  /\ bli.nodeCount \in Nat /\ bli.entryCount \in Nat
  /\ tree \in Header /\ sub \in Header
  /\ \A t \in {tree, sub} : t.root \in DOMAIN file
  /\ pc \in {"load", "idle", "subload", "merge", "aborted", "insert", "place"} /\ at \in Nat \ {0}
  /\ \A i \in DOMAIN work :
       work[i].above \in 0 .. tree.height /\ work[i].entries \in Seq(Entry)
  /\ place \in [path : Seq(DOMAIN file), entry : Entry]
  /\ loaded \in 0 .. MaxLoaded /\ merges \in 0 .. MaxUpdates
  /\ inserts \in 0 .. MaxInserts /\ inTree \subseteq Tuple
  /\ harm \subseteq {"full", "empty", "joined", "cut", "stale"}

(* No insertion is under way.                                              *)
AtRest == pc \notin {"insert", "place"}

(* The entries of the nodes a set of records holds.                        *)
EntriesOf(records) == UNION {ToSet(file[r].entries) : r \in records}

(* The nodes of the tree depth steps below its root, along all entries.    *)
NodesAt ==
  LET n[d \in 0 .. tree.height] ==
        IF d = 0 THEN {tree.root} ELSE {e.ptr : e \in EntriesOf(n[d - 1])}
  IN  n

(* The tuples a search for tuple t at the box of t meets: it follows the   *)
(* entries whose boxes hold that box.                                      *)
FoundFor(t) ==
  LET n[d \in 0 .. tree.height] ==
        IF d = 0 THEN {tree.root}
        ELSE {e.ptr : e \in {x \in EntriesOf(n[d - 1]) : t \in x.box}}
  IN  \E e \in EntriesOf(n[tree.height]) : e.ptr = t /\ t \in e.box

(* The stored tree holds every tuple that was loaded or inserted into it   *)
(* or merged with it, and no other, unless a merge met a full node on its way or     *)
(* moved entries from a first root that had more.                          *)
EntriesKept ==
  AtRest /\ harm \cap {"full", "cut"} = {} =>
    {e.ptr : e \in EntriesOf(NodesAt[tree.height])} = inTree

(* Every tuple is found by a search at its box, after any sequence of      *)
(* insertions and merges, if furthermore no tree without a box was merged and no entry   *)
(* was moved to a first root that had less.                                *)
EntriesFound ==
  AtRest /\ harm \subseteq {"joined"} => \A t \in inTree : FoundFor(t)

(* Leaves are at the height the header says and nowhere above it, and no   *)
(* node has two fathers, unless a merge met a full node or cut a root.     *)
Balanced ==
  AtRest /\ harm \cap {"full", "cut"} = {} =>
    /\ \A d \in 0 .. tree.height :
         \A r \in NodesAt[d] : r \in DOMAIN file /\ (file[r].leaf <=> d = tree.height)
    /\ \A d \in 1 .. tree.height :
         Cardinality(NodesAt[d]) =
           FoldFunction(+, 0, [r \in NodesAt[d - 1] |-> Len(file[r].entries)])

(* The header counts the nodes of the tree, over bulk loads, insertions    *)
(* and merges, unless a merge met a full node or left the second root      *)
(* behind.                                                                 *)
NodesCounted ==
  AtRest /\ harm \cap {"full", "joined", "cut"} = {} =>
    tree.nodeCount = FoldFunction(+, 0, [d \in 0 .. tree.height |-> Cardinality(NodesAt[d])])

(* An update of at least one tuple is merged with the tree: the meaning of *)
(* streamblupdatertree.                                                    *)
UpdatesMerged == AtRest /\ "empty" \notin harm => \A t \in inTree : FoundFor(t)
=============================================================================
