# CDistRange: specifications, model checks and proofs

This directory specifies the parts of CDistRange that keep state of their own:
the SETI index, the semaphore under which several processes share it and the file
of pages it is stored in, the two bulk loads of R-trees and the merge of R-trees,
the TB-tree, and the filter that searches trees by distance.
CDistRange is a set of algebra modules for the extensible database system
Secondo; everything else in `src/` is the host's code, mostly unchanged.

To repeat the checks: `tlc -config SETISession.cfg MCSETI.tla`, and so on for the
runs listed below, each with the module and configuration that `PROJECT.json` names;
`tlapm SETIProofs.tla` for the proofs.

## The system

| component | source | state it keeps | operations |
|---|---|---|---|
| SETI index | `SETI/SETIAlgebra.cpp`, `.h`, `UploadUnit.*` | header, front line (last upload of every object), a grid of cells with a page number, a count and an R-tree each | `createSeti` (constructor), `insertUpload`, `insertStream`, `intersectsWindow`, `insideWindow`, `getTrajectory`, `currentUpload`, `setiFilter` pages; the type's In, Open, Save, Close, Delete |
| SETI semaphore | the same file | a boolean on the header page | `GetSemaphore`, `SetSemaphore` around `UpdateSETI` and the three searches |
| SmiUpdateFile | `StorageManager/bdbUpdateFile.cpp` | pages in a shared memory pool; a count of the sharing processes; the pages a process holds pinned | Create, Open, Close, AppendNewPage, GetPage, PutPage, SyncFile |
| R-tree | `RTree/RTreeAlgebra.h` | header and current node in memory, nodes in a record file, a path as the cursor of a search | Insert, Remove, First/Next, bulk load, MergeRtree, destructor |
| grid bulk load | `CDistRange/CDistRangeAlgebra.h` (`RTreeLevel`) | per level a map from grid position to an open node, left-over entries | Insert, Append, DealWithLeftEntries, GetRoot |
| filters | `CDistRange/CDistRangeAlgebra.h/.cpp` (`RTreeVisitor`, `TBTreeVisitor`, `SETIVisitor`) | a stack or queue of nodes still to visit, a queue of results | Init, getNext, perform; OPEN, REQUEST, CLOSE |
| TB-tree | `TBTree/TBTree.h` | leaf chains per trajectory, open leaves of a bulk load | insert, startBulkLoad, bulkLoadInsert, endBulkLoad |
| continuous range query | `CDistRange/CDistRangeAlgebra.cpp`, `Temporal/*` | none | `cdist_range`, `cdrange` |
| storage manager | `StorageManager/bdb*.cpp` | Berkeley DB environment, transactions, catalog | the host's; a library for the parts above |
| Load, Rectangle, Spatial, TransportationMode | directories of that name | none that outlives a tuple | parsing and geometry |

Interaction. An operator is called by the query processor with OPEN, REQUEST and
CLOSE; one query runs in one process, and several server processes share a
database. A SETI object of a process has the index in memory. `InsertHandle`
changes it there and writes trajectory segments to data pages, which come from
the shared pool and are seen by every process at once. Header, front line and
cells reach the header pages in `UpdateSETI` only: at the end of an operator and
after every 100000 uploads. The R-trees of the cells lie in a record file, and the
root each object holds is written back in its destructor. So one index has three
copies with three rules for when they are written, and this is where most of its
hazards come from.

What is hard, by component:

* semaphore: test and set are two accesses; polling ends with a refusal; three
  early returns under the semaphore.
* index: a segment is cut into pieces, one per cell, that lie on several pages; a
  page is full by the count of the cell and written by the count on the page; full
  pages are found through an interval stored when the page was closed; crashes and
  refused updates leave the three copies at different times.
* SmiUpdateFile: a count of processes that is read, changed and written without a
  lock; pages that are pinned, unpinned and marked dirty in different calls.
* R-trees: a node and a header cached per process and written back by a reader too;
  a cursor inside the tree object shared by two searches.
* grid bulk load: a level whose count no longer matches its grid after a round of
  wider cells, nodes that fill while other levels are being emptied, entries left
  over; few tuples or none.
* merging R-trees: roots of different heights, full nodes on the way, roots with
  fewer entries than a node needs; boxes and counts that must follow what is moved.
* TB-tree: bulk load and insertion on one tree, with leaves that are in memory, in
  the file, and in the tree at different times.
* filters: node ids on a stack while the tree they belong to is changed.

`PROJECT.json` lists each of these under `hazards` at its line with the property
that would catch it.

## Modules

`SETISemaphore` - the protocol around the flag, several processes.

* `sem` is the flag, `file[part]` a version for each of the three parts that
  `UpdateSETI` writes and `ReadSETI` reads, `mem[p]` the index in the memory of
  process p. `op`, `pc` and `polls` are the call in progress, the next access it
  makes and the reads of a set flag it has left (`timeout` in `GetSemaphore`).
* One step is one access of the shared header page. `GetSemaphoreFree`,
  `GetSemaphoreBusy` and `GetSemaphoreTimeout` are the three outcomes of a read;
  `SetSemaphore` is a step of its own because the code has no atomic test and set.
  `UpdateHeader`, `UpdateFLine`, `UpdateCells`, `ReleaseSemaphore` are
  `UpdateSETI`; `ReadHeader`, `ReadFLine`, `ReadCells` are `ReadSETI`, which does
  not look at the flag; `WindowOutside` is the early return of the searches.
* `leaked` is history: the flag was left up by such a return. So are `mixed` (the
  file was last written by updates that overlap, or from a `torn` memory), `torn` (the
  processes that opened the index across an update) and `met` (those whose update met
  another one); `UpdateBegins` keeps the books when an update sets the flag.

`SETI` - the index as one process uses it, with what is in memory (`header`,
`frontline`, `numEntries`, `currentPage`, `rtree`), in the file (the variables with
an f) and in the pool (`pages`, `sem`).

* `InsertRejected`, `InsertFirst`, `InsertNext` are `InsertHandle` up to its loop:
  out of area or out of date, the first upload of an object, and a further one.
  `InsertPiece` is a round of the loop: it cuts a piece at the border of the cell,
  closes a full page into the R-tree, appends a new one, and counts. `Counted` is
  the update after every `UpdateCycle` uploads.
* `UpdateRefused`, `UpdateHeader`, `UpdateFLine`, `UpdateCells` are `UpdateSETI`.
* `CloseAndOpen` is `SETI::Close` with the destructors of the R-trees and
  `SETI::Open` with `ReadSETI`; `Crash` the same without destructors, between any
  two of the steps above. The environment of the storage manager survives a crash
  of the process, with its pool.
* `FindTrjSegments`, `InsideWindow`, `GetTrajectory`, `SETIFilter` are the searches
  as operators on a state; they change nothing but the flag (`SearchOutside`).
* `accepted` and `saved` are history: the segments inserted, and those inserted
  before the last update that succeeded.

What is abstract: movement is along one row of the grid, so cells are intervals;
positions are integers, odd for uploads, and the tolerance of 0.00001 appears only
where it decides a cell (`CellOf`, `LeftCell`); an R-tree is the set of the boxes
entered into it; a page is the sequence of its segments.

`TrajectoryIndex` - the abstract index: a map from objects to their latest upload
and a set of segments. `SETI!Index` is the refinement mapping: the segments are
what `getTrajectory` returns, the uploads what `currentUpload` does.

`RTreeLevel` - the bulk load of an R-tree in `gridbulkloadrtree` and
`gridblupdaterelrtree`.

* `levels` is the list of `RTreeLevel` objects from the leaves up, `nextlevel` being
  the next in it; each has its grid (a node per cell; boxes of one size share a
  cell), the counts, and the left entries. `file` has the node records written,
  `header` what `SetRTreeRoot` puts into the tree's header.
* `Load` is a tuple of the stream and `Insert` an entry going into its node on one
  level. `SaveNode2RTree` inserts the node's own entry on the next level, which may
  fill a node there: `pending` is that insertion, and nothing else runs before it.
* `SetRTreeRoot` calls `GetRoot` of the leaf level, and each level that of the next:
  `cur`. `Widen`, `MoveEntry`, `MoveNextNode` and `Widened` are a round of its loop,
  with `old` and `wide` for `oldrl` and `rl` (`None` for `oldrl = this`); `KeepLeft`,
  `SaveLeft` and `MakeRoot` are its three ways out. `DealWithLeftEntries` goes through
  the levels once more.
* `dealt` are the entries it hands to the insertion of the R-tree, which is not in
  this module.

What is abstract: a box has one dimension (the three are treated alike), coordinates
are integers, and a cell without a node is one with an empty node.

`SmiUpdateFile` - the page file, several processes over a pool of frames.

* `got` is `gotPages` of each process, `last` the number of the last page; `frame`,
  `disk` and `dirty` are what the pool shows, what the file holds, and what the pool
  will write. The content of a page is the set of changes it shows. `count` is
  `shareByNum` on page 0, `copy[p]` a process's copy of that page between reading and
  putting it back: `OpenRead` and `RegisterInFile`, `CloseRead` and
  `UnRegisterInFile` are two steps each because the code takes no lock.
* `GetPage`, `Write`, `PutPage`, `AppendNewPage` are a process's work; `Close` is the
  rest of the call after the count went down: with a count of 0 `SyncFile`, otherwise
  the pins stay (`stuck`). `Evict` and `EvictCount` are the pool, which may drop what
  nobody has pinned: an unmarked page is then what the file holds.
* `flagged` chooses the storage manager the code is built against. From Berkeley DB
  4.6 on `put` takes no flag (the comment at `bdbUpdateFile.cpp:543` says so) and
  `isChanged` reaches the pool no more; before, it marks the page.
* `made`, `mine`, `doubt`, `raced` and `forgotten` are history: the changes made, those
  of a process on pages it holds, those nobody has put back as changed, and whether
  two processes had a copy of page 0 at a time or the pool dropped an unmarked count.

`Rectangles` - bounding boxes of one dimension in space and one in time, with the
operations the trees use.

`TBTree` - insertion and bulk load.

* `file` has the nodes, `rootId`, `level` and the counters are the header in memory.
  `InsertFirst`, `InsertIntoLeaf` and `InsertNewLeaf` are the outcomes of `insert`,
  with `SearchNode`, `UpdatePath`, `InsertLeaf` and `SplitNode`. `InsertLeafRec` is a
  fold over the path of the sons that grow least, from the leaf up.
* `StartBulkLoad`, `BulkInsertIntoLeaf`, `BulkInsertNewLeaf` and `EndBulkLoad` are the
  calls `streamupdatebltbtree` makes; `nodemap` and `sidmap` are the leaf of each trajectory
  in memory and its record. The order in which `endBulkLoad` goes through the map is
  that of the ids, as in the code's `map`.
* `given`, `narrow` and `dropped` are history: the units, the sons whose entry was not
  enlarged for a new leaf that came below them, and the roots a bulk load was given back
  and forgot.

`TBTreeFilter` - `tbtreefilter` over a `TBTree` that an update may change between two
requests. `Open`, `OpenFails`, `Request` and `Close` are the messages; `Perform` the
loop of the visitor, `Found` what a node that is visited adds to the stack or the queue,
`ResultNone` whether `CalcResultType` is `FNONE`. `TBTreeFilterAssumption` says what the
properties take for granted of units and queries: they last longer than an instant.

`RTreeMerge` - `InsertBulkLoad` and `FinalizeBulkLoad` of an R-tree, the merge of
the tree of an update with the one that is there, and `Insert`. A box is the set of the tuples it
is the union of, so that a search at a tuple's box follows the entries whose box has
the tuple. `Link` is the merge of trees of different heights, `MergeRoots` to
`MergeFromSecond` the cases of equal ones, `MergeAborts` where an assertion stops the
program: `Readable` is the one that a node read has no more entries than it may, by the
leaf's maximum where the tree that was there is a single leaf.

An insertion is several steps, for `InsertEntry` calls itself in two ways: for the
father of a node it has split, which is the next value of `place` (the way down and the
entry to put at its end), and for every entry it takes out of a full node to insert it
again, which is a frame of `work`; a frame stands for a call that has not returned, and
`Flagged` is its `overflowFlag`. Frames tell their level from the leaves, as the code
does, because the root may split under them. What is decided by areas, margins and
distances (the best son, the entries that go, the halves of a split) is an open choice;
only the order within a half, by an axis in the code, is left as it was. The four
properties are those of the tree at rest: they say that insertions and merges, in any
order, leave a tree that the other can work on, and that a search in it finds what went
in, which is what `SETI` takes for granted when it models the R-tree of a cell as the
set of its entries.

`harm` names what a merge has met; each property says what it excludes:

| harm | lines of `RTreeAlgebra.h` | what the code does |
|---|---|---|
| `full` | 4158-4184, 4441-4466 | a node on the way is full: the node written below it refers to itself and stands in for the other root; with all of them full nothing is linked |
| `cut` | 4275 | the larger root keeps as many entries as it gave away, not those that are left, and both roots are written as internal nodes |
| `stale` | 4305-4324 | entries move to the first root after its entry for the new root was made |
| `joined` | 4238-4253 | all entries of the second root move to the first; the count of nodes still has the second |
| `empty` | 4080 | the tree of an update without tuples has no box, and a box united with that has none |

`SETISemaphoreProofs`, `SETIProofs`, `TrajectoryIndexProofs`, `RTreeLevelProofs`,
`SmiUpdateFileProofs`, `TBTreeProofs`, `TBTreeFilterProofs` - the theorems;
`SequenceLemmas` - facts of least elements, greatest values, joined sequences, folds and
recursion by levels they use. `MCSETI` and `MCSmiUpdateFile` add symmetry for TLC, the other MC modules boxes,
and `MCTBTreeFilter` queries.

Definitions that a comment calls a fault are faulty variants of the definition after
them. No specification uses them; put in its place, each makes the property it is
listed with in `PROJECT.json` fail.

## Runs

| run | question | answer |
|---|---|---|
| `seti_semaphore_race` | two processes, both inserting, race for the flag: what does that do to the file, does every call return, can the flag get stuck? | Searches may clear the flag in the middle of an update, and that alone harms nothing: the file comes apart only by updates that are inside together, or one made from an index that was read across another; an update that met no other is in the file as a whole. Calls return, and the flag comes down but for one left by a search that missed the area. |
| `seti_semaphore_updates` | "Writes all SETI data into file": is it all there when the update returns? | Not when two updates are inside together, having both read the flag before either set it: one finds the other's header beside its own cells. |
| `seti_session` | two objects, two cells, pages filling and closing, updates, closing and opening | The searches are exact, `setifilter` misses only what is on current pages (`FilterFindsClosed`), no page is overfull, confirmed segments stay reachable, and the index implements `TrajectoryIndex`. |
| `seti_crash` | the process dies anywhere, updates are refused | In one cell, counts never run ahead of pages, in memory or in the file. |
| `seti_trajectory` | does `getTrajectory` return whole segments? | Not with three cells: pieces are met in the order of page numbers and one that does not fit is dropped. |
| `rtree_level_load` | up to nine tuples with boxes of three shapes: is anything lost or doubled, are nodes filled as they must be, is the tree balanced, does the widening of the cells end? | Every entry is in exactly one place until it is in the file, left over, or dealt with; nodes keep to their bounds; the counts match the grids while they are decided by; no round makes cells wider than all boxes together. |
| `tbtree_load` | up to five units of two trajectories, by inserts and bulk loads in any order | Every unit is in one leaf with its box, in the tree or below a root a bulk load forgot; nodes are filled, leaves at one depth; the leaves of a chain are of one trajectory, in the order of its units. |
| `tbtree_loaded` | "insert the new entry to tbtree using bulk load": are all units in the tree in the end? | No: a root that `insertLeaf` returns to a bulk load is dropped, with what is below it. |
| `tbtree_filter` | the filter with each condition, opened again, refused, closed, with insertions between requests | On a tree that stays as it is, all units are returned but those below an entry left too small; none twice, also while nodes are split; none without being asked for. |
| `update_file` | two processes share the file while the pool drops pages | The count is right unless two change it at a time or the pool drops it; what a process wrote to pages it holds stays; with the older interface no change put back as one is lost, and the last close writes it. |
| `rtree_merge` | a bulk load, then two updates: merged with the tree, or one of them an insertion | But for merges that meet a harm, no entry is lost or out of reach of a search, leaves are at one height and the nodes are counted. |
| `rtree_merge_updates` | "update the stream tuple to rel" and the tree: is the update in it? | Not when a node on the way is full. |

The four runs that end with a counterexample are the `findings` of `PROJECT.json`.
Further disagreements between the code and what it says show in the models and have
no run of their own:

* `intersectsWindow` "Returns all trajectory segments which intersects the search
  window", but one that passes over the window with both uploads outside is not
  returned; `WindowExact` states what is.
* An index opened while another process is in `UpdateSETI` may read its header before
  and its cells after the update (`torn`); its own next update writes that (`mixed`).
* A search whose window misses the area returns with the semaphore up
  (`SETIAlgebra.cpp:1742`, `:1918`, `:2081`); nobody takes it down (`FlagHasOwner`
  states the exception). Every update is refused then, and what it would have saved is
  in memory only (`UpdateRefused`); the caller learns of it by FALSE.
* `setifilter` finds no page that is not full yet (`CDistRangeAlgebra.h:454`).
* "Writes all SETI data into file" is not enough for a crash: R-trees are written in
  their destructor, so the boxes of pages closed since the index was opened are gone.
  The count of a cell then also lags behind that of its page, and the page is written
  past its end.
* "deal with the left entries in rtree level": a level that went through exactly one
  round of wider cells has a count of 0 (`CDistRangeAlgebra.h:1333`) and its left
  entries are not inserted. The root made of the leaf level is flagged as an internal
  node (`:1341`).
* In `MergeRtree` the count of entries grows by one or two with every merge, and the
  object goes on with the node of the old root; two trees with a leaf for a root end
  in an assertion when one has too few tuples. So does a merge of a tree whose nodes on
  the way have more entries than a leaf may, with a tree that is a single leaf.
* With Berkeley DB 4.6 or later a page put back as changed is not marked, so
  `ChangedPagesStay` and `LastCloseWrites` are stated for the older interface
  (`flagged`); with either, pages pinned by a process that closed the file before the
  last are never put back, and after a close of two processes at a time the count is
  wrong for good.
* `tbtreefilter`: an infinite second distance is passed on as -1
  (`CDistRangeAlgebra.h:534`), so that with a first distance other than 0 nothing is
  left out; the local info is deleted again by an OPEN after CLOSE
  (`CDistRangeAlgebra.cpp:213`), and an OPEN that fails leaves the address of the one
  it deleted.
* `insertLeafRec` leaves the entry of a son too small when the box of the whole node
  already holds the new leaf (`TBTree.h:1984`): units below it may not be found. An
  entry that is replaced may be too small as well: it is given the box of the node and
  the new leaf, and nodes below may have grown past that before. The proof of `BoxesCover`
  showed this second case. The
  first entry of the rest goes to the second group of a split whatever it prefers.

Bounds. Two cells are the least with a border (one is enough in `seti_crash`, where
the question is that of each cell), three the least where pieces are met
out of order. `MaxTrjSeg` is 2 instead of 70 and `UpdateCycle` 2 instead of 100000,
so that pages fill, close and reopen, and cyclic updates happen, within five
uploads. `MaxUploads` and `MaxPages` bound the runs; `Room` stops insertion once a
page is over its capacity, as the code's behaviour is undefined from there. `Polls`
is 1 instead of 100001: a read that finds the flag up and has another left, and one that
is the last. Two processes that update are the least that meet, and two versions (none
inserted, one inserted) the least that can be told apart. `ImplementsIndex`, `InsideExact` and the first half of
`WindowExact` are checked for two cells: `seti_trajectory` shows what three do.
Model checking is with one or two objects; they share cells, pages and ids, so two
are enough to interleave on a page.

In `rtree_level_load` a leaf takes 2 tuples and an inner node 4, and the three
boxes lie in three cells of the first grid. Nine tuples are the least that fill an inner level so
that its cells become wider and entries are left over there; levels go through two
rounds (three distinct grids), and counts below zero are reached.
`MaxKey` is 1 instead of 2^20: two cells, and the key of what is out of range. The load is one call that ends, so its run says
`CHECK_DEADLOCK FALSE`; that the loop of `GetRoot` ends is stated as a bound on the
cells' width (`WideningEnds`), which is cheaper to check than liveness and says how
it ends.

In `tbtree_load` nodes take 2 units and 3 sons (`LeafMax` counts one more, as in the
code) with two the least after a split, and the boxes are two: with five units leaves
fill and are chained, roots become inner nodes and split, and loads follow inserts
and each other. In
`tbtree_filter` inner nodes take 2 sons, so that four units make a tree of three
levels; the three boxes lie apart, so that each of the five queries keeps some and
drops some, and one query is refused. In `update_file` two processes, one page and
three changes let both hold the page, change it, and race for the count; `MaxCount`
bounds it only where the file is opened. In `rtree_merge` a leaf takes 2 tuples and an
internal node 3 to 6, and a level may leave a node early after two entries instead of
20; with nine tuples and two updates all five harms and the failing assertions are
reached, and so are the reinsertion of entries of leaves and of internal nodes, and the
split of both and of the root. Half of a full node is reinserted, not 30 in a hundred,
which would be none of two entries. One of the two updates at most is an insertion
(`MaxInserts`). These systems stop at their bounds on tuples, pages and merges, so their
configurations say `CHECK_DEADLOCK FALSE`.

Fairness. `SETISemaphore` assumes weak fairness of every process that is inside a
call: the query processor runs an operator to its end. Nothing makes a process
start one. The other modules have safety properties only: what they call ends by a
bound or waits for its caller. Deadlock is checked
in all passing runs of the index and its semaphore; an index may always be closed
and opened.

## Proofs

All for every value of the constants, under the named assumptions of the modules: that
numbers are numbers, and what the code's own constants guarantee (a full node can be
split in two that are filled enough, a box has its low end below its high one, there are
finitely many boxes, units and queries last longer than an instant, the null pointer is no
level and no list of entries).

* `SETISemaphoreProofs`: `TypeCorrect`; `FlagOwned` (the flag is up on behalf of
  somebody, or was left by a search), by one step of induction over `TypeOK /\
  FlagHasOwner`; `FileStaysConsistent` and `UpdateIsPublished`, for any number of
  processes that update. These two need `UpdateInv`: that a memory that is not torn is
  whole (`MemoryWhole`), how far a process that opens the index has read it while nobody
  writes (`ReadProgress`), and how far an update has copied it, as long as the file is not
  mixed (`WriteProgress`) and as long as it met no other (`PublishProgress`).
  `SingleUpdaterWritesAll`: what `seti_semaphore_updates` refutes holds if a single
  process updates (`SingleUpdater`), however many search and open; the code does not see
  to that.
* `TrajectoryIndexProofs`: `TypeCorrect` and `SegmentsChained`, that no gap opens
  between the segments of an object.
* `SETIProofs`: `TypeCorrect` and `CountsStayBacked`, also over crashes, refused
  updates and reopened indexes. The invariant `BackedInv` adds that the piece at hand
  starts off the edges of the area; with `PieceInside`, from integer arithmetic on
  the borders, its cell exists. `PagesGrow` (no page is lost or shrinks) carries the
  counts of the file from update to update. `BackedInv` is split into `DataInv` and
  `CallInv`, so that each action is looked at only for what it can disturb.
* `SETIProofs`, second part: `SavedStayReachable`, that without a crash every saved segment
  is reached in each cell it passes, whatever windows miss the area: the invariant
  (`ReachInv`) follows the segment, not the page - while its update is on the way it is
  on the pages of the cells done, and from then on the R-tree that a page is entered in
  has an interval that covers it. `PagesWithinCapacity`, that no page is written past its
  capacity, if no process dies and no window misses the area. The counts must be
  exact for that, not only backed, no page may be current in two cells, and the file
  must agree with the memory whenever the index may be closed (`CapacityInv`);
  the last fails exactly when an update may be refused or lost. `ClosedPagesFound`,
  under the same assumptions: `setifilter` returns every piece that meets the window
  and is not on a current page. Its invariant (`FilterInv`) is that the interval of a
  page covers its pieces, that a page which is no longer current is in an R-tree with
  that interval, that an object and a start tell the end of a segment (so what is
  found is the piece itself), and that an idle index has nothing unsaved.
* `RTreeLevelProofs`: every invariant of `rtree_level_load`, for any set of boxes, node
  sizes and range of keys, along four inductions that build on each other.
  `TypeCorrect` and `LeftEntriesThere` (a level with a count other than zero has left
  entries when they are gone through: the code goes through a null pointer otherwise)
  are one induction, over `IInv == TypeOK /\ LeftBehind`: what is dealt is an entry
  because it exists, and the levels `GetRoot` has left keep their counts because no
  insertion goes below the level it is at.
  `CountsAlwaysMatch`, `WideningAlwaysEnds` and `NodesAlwaysFilled` need each other
  (`LoadInv`): the loop saves what is left by the count, so a node is filled right only
  if the count is exact; and the widening ends because a cell that is wider than all
  boxes holds everything, while no cell holds a full node (`Sound`).
  `EntriesAlwaysKept`: what a step does to what the levels hold is one of four things
  (`PassedOn`: nothing goes, a tuple comes, a node is written and its entry goes up, the
  root is made), and `KeptCounts` says of each level how many entries it holds and to
  what they refer; that numbers and references agree is that none is lost or doubled.
  `AlwaysBalanced`: there is a height for every record (`Leveled`) such that what a level
  holds refers to nodes two below its number; `HeightIs` shows by a least
  counterexample that the recursive `Height` is that one.
* `SmiUpdateFileProofs`: all properties of `update_file`, for any finite set of
  processes and any number of pages. `HeldChanges`, `ChangedPages` and
  `LastCloseCorrect` rest on `PagesInv` (only pages of the file are held; a closed file
  holds none; frames and disk show nothing that was not made; no change is on two
  pages) and on `SavedInv` (a page the pool will not write is in the file as far as
  its changes were put back). `CountCorrect` needs that the one process with a copy of
  page 0 has the right one (`CountInv`) and the cardinality of finite sets.
  `LastCloseCorrect` puts them together: the last process to close has a count of 0 by
  `CountRight`, so it synchronises; after that `SavedInv` holds of all pages but the
  stuck ones.
* `TBTreeProofs`: `TypeAlways`, `FilledAlways` and `BalancedAlways`, for insertions and
  bulk loads in any order. The recursions of the code end because every node has a level,
  its sons one less (`Levelled`): with that the way down of `insertLeaf` has a turn at
  every level (`BestPathTurns`), and `searchNode` one to a last leaf (`SearchNodeLeads`).
  Up again, `AtLevel` says after each turn what is kept: the nodes above and the leaves are
  as they were, no node has two fathers (`Once`), sizes are legal (`SplitNodeHalves`: the
  halves of a split are, whatever the entries prefer), and what is handed on is new in the
  tree. `Standing` is the tree at rest, with the chains of leaves ascending in the file, so
  that the way along a chain ends. A bulk load breaks in: a root it is given back is
  dropped and keeps its sons, so `dropped` is left aside in `Used`, the nodes that have a
  father; and the leaves in memory (`HeldOK`) must have none yet, nor
  be held for two trajectories, or a leaf would come into the tree twice; while the root
  is a leaf no node has a father, and nothing is asked of them.
  `BelowUsed` and `DepthLevel` connect this with the recursions of the
  properties.
* `TBTreeProofs`, second part: `ChainsAlways`, `UnitsAlways` and `BoxesAlways`, the other
  three properties of `tbtree_load`. What the leaves hold is a matter of the leaves alone:
  `LeafView` is the leaves in the file and in memory, and `Bundled` says of it that every
  unit is in one leaf of its trajectory with its box, that chains go from leaf to later
  leaf, and that the units of a leaf come before those of the next. An insertion changes
  one leaf or adds one (`ViewWith`), whatever happens to the inner nodes. That every leaf
  is below the root, or below a root that was dropped, is `Hung`: a node without a father
  is one of those or on the way into the tree, through every turn of `insertLeafRec`.
  For the boxes, `Roomy` says that an entry covers what the son holds, unless the son is in
  `narrow`. It is broken and mended on the way: `updatePath` climbs with the box of the node
  it just left ahead of that node's entry (`Climbing`), and of `insertLeafRec` `Covered`
  says which entries its turns so far have made right. The first attempt failed where
  `narrow` had left out the entry that is replaced (see the disagreements above): the
  property was false of the model, beyond what the run reaches, and `narrow` was mended.
* `TBTreeFilterProofs`: for all boxes and distances, `AncestorsPass` - a box that holds
  a unit the query asks for is never `FNONE`, so no search that follows the entries'
  boxes loses it - and `LeafExact`, that what passes is asked for, with the exception
  of the infinite distance; by `DistanceAttained`, that every distance between the
  least and the greatest is that of two points.
* `TBTreeFilterProofs`, second part: `CompleteAlways`, `OnceAlways` and `WantedAlways`, the
  three properties of `tbtree_filter`, for every tree that insertions make. To the tree the
  filter is an update or nothing (`FilterStep`), so all that `TBTreeProofs` shows holds under
  `FilterSpec` (`TreeAlways`). The invariant `SearchOK` joins what was returned, what was
  found and what is still to visit: everything found passes (`FoundOK`); a unit that is asked
  for was found, or is below a node on the stack, or below one left too small, as long as the
  tree has not changed (`LostOK`); what was found is nowhere below the stack, and no two
  nodes of the stack have a node below both (`OnceOK`). `RoundVisits` and `PerformKeeps` take
  it through the rounds of `perform`, by `BoxBelow` (the boxes on the way down to a unit
  contain it) and `SonsApart` (sons have nothing in common). For `OnceOK` the updates between
  the requests are the hard part: nodes on the stack are split and get sons they did not
  have. `SonsFrom`, kept by every turn of `insertLeafRec`, says where the sons of a
  node come from: its own, or, in a node that was made, those of the node whose half it is.
  So of the nodes that were there before, those below a node can only get fewer
  (`BelowStays`), and what is below nodes apart stays apart.
* `SequenceLemmas`: `FlattenSeqType`, that joining sequences over a set gives one over
  the set, and what joining does to lengths and members, by the existence of the recursive function it
  is defined with (`JoinExists`); what a fold does, step by step (`FoldSteps`);
  and a least counterexample (`MinExists`, from the well-foundedness of < on Nat).

Only model-checked: the exact searches of `SETI` (`WindowExact`, `InsideExact`) and
`ImplementsIndex`, which hold for the two cells their run has and not for three (see
`seti_trajectory`: the merge drops pieces), so that there is nothing to prove for every
`Splits`; `RTreeMerge`, whose reinsertion is a stack of calls over a tree that is in several
pieces at a time, and whose properties each exclude harms that the invariant would have to
follow through all of them; and liveness, which is out of the prover's reach.
Least-counterexample arguments as in `SequenceLemmas` stand in for the library's
induction theorems, which the provers cannot instantiate.

## Plan

Done: `SETISemaphore`, `SETI` and `TrajectoryIndex`; `RTreeLevel`; `SmiUpdateFile`;
`TBTree` with `TBTreeFilter`; `RTreeMerge`; their proofs as listed above.

Left, in this order:

1. The R-tree's searches: the cursor and its use by `SETIVisitor`, the entries the grid
   bulk load hands over, and the write-back of a header by several processes.
2. The nodes an update finds after `MergeRtree` through the object it had before.
3. The periods of `cdist_range` as pure operators.
4. Theorems: the merge of R-trees, beginning with its types and the height of its leaves
   while no harm is met.

## Not modelled

The geometry of the grid's second dimension, `FindTrjPages` and `FindCells`; the
lists of In and Out, Delete and Clone of the SETI type; floating point beyond the
cell of a border; messages and results of operators; a process that dies with the
page file open, a write through the pointer `AppendNewPage` returns (its callers take the
page's number and call `GetPage`), and the pool's own failure when it is closed with pins; the TB-tree's
header record, its crash, Clone, and the insertion after a given leaf; removal (which
no operator calls), the cursor of searches, the nearest neighbours and `getcoverage` of the R-tree; the storage
manager's environment; the Load, Spatial, Temporal and TransportationMode algebras.
`PROJECT.json` gives the reason for each. The last three are the greater part of the
lines in `src/`: they are the host system's, geometry and conversions without state of
their own, which is why the models cover a small share of the repository's lines.
