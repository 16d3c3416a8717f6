------------------------------- MODULE SETI -------------------------------
(***************************************************************************)
(* The SETI index of trajectory segments (src/SETI/SETIAlgebra.cpp), as    *)
(* one process uses it: inserts, the update of the file, closing, crashing *)
(* and opening again, and the searches.                                    *)
(*                                                                         *)
(* Movement is along one row of the grid, so a cell is an interval of      *)
(* coordinates of CellWidth.  Borders are the multiples of CellWidth,      *)
(* which is even, and uploads lie at odd coordinates: an upload is never   *)
(* on a border.  The offset of 0.00001 the code adds to step over a border *)
(* lies below the 0.001 of CompareFloats and does not show.                *)
(***************************************************************************)
EXTENDS Integers, Sequences, FiniteSets, SequencesExt

CONSTANTS
  MO,           \* ids of moving objects
  None,         \* no upload in the front line
  Splits,       \* cells in the row
  CellWidth,    \* width of a cell
  Time,         \* instants of uploads
  MaxTrjSeg,    \* segments per page (70)
  UpdateCycle,  \* inserts between two updates of the file (100000)
  MaxUploads,   \* bound on the inserts
  MaxPages,     \* bound on the data pages
  Crashes,      \* may the process die?
  OutsideWindows \* may a search window miss the area?

ASSUME SETIAssumption ==
  /\ Splits \in Nat \ {0} /\ CellWidth \in Nat \ {0} /\ CellWidth % 2 = 0
  /\ Time \subseteq Nat
  /\ MaxTrjSeg \in Nat \ {0} /\ UpdateCycle \in Nat \ {0}
  /\ MaxUploads \in Nat /\ MaxPages \in Nat
  /\ Crashes \in BOOLEAN /\ OutsideWindows \in BOOLEAN
  /\ None \notin [time : Time, pos : Nat]

Cell == 0 .. Splits - 1

Coordinate == 0 .. Splits * CellWidth

Pos == {x \in Coordinate : x % 2 = 1}

OutOfArea == -1

Upload == [time : Time, pos : Pos]

(* A trajectory segment, or the piece of it in one cell.                   *)
TrjSeg == [mo : MO, id : Nat, start : Time, end : Time,
           from : Coordinate, to : Coordinate]

(* A segment on its way through the cells: written up to at.               *)
Segment == [mo : MO, start : Time, end : Time, from : Pos, at : Coordinate, to : Pos]

Page == [start : Time, end : Time, segs : Seq(TrjSeg)]

Header == [numEntries : Nat, numFlEntries : Nat, lc : BOOLEAN,
           start : Nat, end : Nat]

VARIABLES
  \* in the memory of the process: header, front line, cells
  header, frontline, numEntries, currentPage,
  \* in the file, as of the last UpdateSETI
  fHeader, fFrontline, fNumEntries, fCurrentPage,
  \* the R-trees of the cells, and in their file as of the last Close
  rtree, fRtree,
  \* in the pool of the file at once: data pages, the semaphore
  pages, sem,
  \* the operation in progress
  op, pc, final, seg,
  \* history: segments accepted, segments accepted before an UpdateSETI
  \* that returned true
  accepted, saved

memory == <<header, frontline, numEntries, currentPage>>
file == <<fHeader, fFrontline, fNumEntries, fCurrentPage>>
data == <<pages, rtree, fRtree>>
call == <<op, pc, final, seg>>
history == <<accepted, saved>>
vars == <<memory, file, data, sem, call, history>>

NoSeg == [mo |-> None, start |-> 0, end |-> 0, from |-> 0, at |-> 0, to |-> 0]

EmptyHeader == [numEntries |-> 0, numFlEntries |-> 0, lc |-> FALSE,
                start |-> 0, end |-> 0]

Init ==
  /\ header = EmptyHeader /\ fHeader = EmptyHeader
  /\ frontline = [m \in MO |-> None] /\ fFrontline = frontline
  /\ numEntries = [c \in Cell |-> 0] /\ fNumEntries = numEntries
  /\ currentPage = [c \in Cell |-> 0] /\ fCurrentPage = currentPage
  /\ pages = <<>>
  /\ rtree = [c \in Cell |-> {}] /\ fRtree = rtree
  /\ sem = FALSE
  /\ op = "none" /\ pc = "idle" /\ final = FALSE /\ seg = NoSeg
  /\ accepted = {} /\ saved = {}
-----------------------------------------------------------------------------
(* SETICompputeLine at x, or just past x when x is a border, on the way    *)
(* to y.                                                                   *)
CellOf(x, y) == IF y < x THEN (x - 1) \div CellWidth ELSE x \div CellWidth

(* ComputeTrjSegment: the piece from x ends at y, or where the way to y    *)
(* leaves the cell of x.                                                   *)
PieceEnd(x, y) ==
  LET c == CellOf(x, y) IN
  IF y < c * CellWidth THEN c * CellWidth
  ELSE IF y > (c + 1) * CellWidth THEN (c + 1) * CellWidth ELSE y

(* Where an operation goes after InsertHandle: insertUpload updates the    *)
(* file, insertStream requests the next tuple.                             *)
AfterInsert(o) == IF o = "insertUpload" THEN "lock" ELSE "next"

Handled(o) ==
  /\ pc' = AfterInsert(o)
  /\ final' = (o = "insertUpload")

(* InsertHandle counts the upload and updates the file in every cycle.     *)
Counted(o, h) ==
  /\ header' = [h EXCEPT !.numEntries = h.numEntries + 1]
  /\ IF (h.numEntries + 1) % UpdateCycle = 0
       THEN pc' = "lock" /\ final' = FALSE
       ELSE Handled(o)

(* insertUpload on an idle index, or the next tuple of insertStream.       *)
Receives(o) ==
  \/ pc = "idle" /\ o = "insertUpload"
  \/ pc = "next" /\ o = "insertStream"

(* Results 2 (out of area) and 3 (out of date): nothing is inserted.       *)
InsertRejected(o, m, t, x) ==
  /\ Receives(o)
  /\ x = OutOfArea \/ (frontline[m] # None /\ frontline[m].time >= t)
  /\ op' = o
  /\ Handled(o)
  /\ UNCHANGED <<memory, file, data, sem, seg, history>>

InsertFirst(o, m, t, x) ==
  /\ Receives(o) /\ x # OutOfArea /\ header.numEntries < MaxUploads
  /\ frontline[m] = None
  /\ op' = o
  /\ frontline' = [frontline EXCEPT ![m] = [time |-> t, pos |-> x]]
  /\ Counted(o, [header EXCEPT !.numFlEntries = header.numFlEntries + 1])
  /\ UNCHANGED <<numEntries, currentPage, file, data, sem, seg, history>>

(* Bounds of the model.  The code writes on when a page is over its        *)
(* capacity, past the end of the buffer, and all that follows is           *)
(* undefined: the model inserts no more.                                   *)
Room ==
  /\ Len(pages) + Splits <= MaxPages
  /\ \A i \in DOMAIN pages : Len(pages[i].segs) <= MaxTrjSeg

(* A fault: the replaced upload may be as old as the new one.              *)
InsertNextSameTime(o, m, t, x) ==
  /\ Receives(o) /\ x # OutOfArea
  /\ header.numEntries < MaxUploads /\ Room
  /\ frontline[m] # None
  /\ frontline[m].time <= t
  /\ op' = o
  /\ seg' = [mo |-> m, start |-> frontline[m].time, end |-> t,
             from |-> frontline[m].pos, at |-> frontline[m].pos, to |-> x]
  /\ frontline' = [frontline EXCEPT ![m] = [time |-> t, pos |-> x]]
  /\ pc' = "piece"
  /\ UNCHANGED <<header, numEntries, currentPage, file, data, sem, final, history>>

(* The upload replaces the one in the front line before the first piece of *)
(* the segment between them is written.                                    *)
InsertNext(o, m, t, x) ==
  /\ Receives(o) /\ x # OutOfArea
  /\ header.numEntries < MaxUploads /\ Room
  /\ frontline[m] # None
  /\ frontline[m].time < t
  /\ op' = o
  /\ seg' = [mo |-> m, start |-> frontline[m].time, end |-> t,
             from |-> frontline[m].pos, at |-> frontline[m].pos, to |-> x]
  /\ frontline' = [frontline EXCEPT ![m] = [time |-> t, pos |-> x]]
  /\ pc' = "piece"
  /\ UNCHANGED <<header, numEntries, currentPage, file, data, sem, final, history>>

(* The time interval of the whole index.                                   *)
ExtendTiv(h, s) ==
  [h EXCEPT !.lc = TRUE,
            !.start = IF ~h.lc \/ s.start < h.start THEN s.start ELSE h.start,
            !.end   = IF ~h.lc \/ s.end > h.end THEN s.end ELSE h.end]

(* A fault: the interval of the page keeps its end.                        *)
WithPieceUncovered(page, s) ==
  [page EXCEPT !.start = IF s.start < page.start THEN s.start ELSE page.start,
               !.segs  = Append(page.segs, s)]

(* The page with one more piece; its interval covers the piece.            *)
WithPiece(page, s) ==
  [start |-> IF s.start < page.start THEN s.start ELSE page.start,
   end   |-> IF s.end > page.end THEN s.end ELSE page.end,
   segs  |-> Append(page.segs, s)]

(* A fault: one segment too many.                                          *)
PageFullLate(c) == numEntries[c] % (MaxTrjSeg + 1) = 0

PageFull(c) == numEntries[c] % MaxTrjSeg = 0

(* One round of the loop of InsertHandle: the piece goes to the current    *)
(* page of its cell.  A full page is first entered into the R-tree of the  *)
(* cell with its time interval, and a new one appended to the file.        *)
InsertPiece ==
  /\ pc = "piece"
  /\ LET c == CellOf(seg.at, seg.to)
         stop == PieceEnd(seg.at, seg.to)
         piece == [mo |-> seg.mo, id |-> header.numEntries, start |-> seg.start,
                   end |-> seg.end, from |-> seg.at, to |-> stop]
         old == currentPage[c]
     IN
     /\ IF PageFull(c)
          THEN /\ rtree' = IF old = 0 THEN rtree
                           ELSE [rtree EXCEPT ![c] = rtree[c] \cup
                                  {[page |-> old, start |-> pages[old].start,
                                    end |-> pages[old].end]}]
               /\ pages' = Append(pages, [start |-> seg.start, end |-> seg.end,
                                          segs |-> <<piece>>])
               /\ currentPage' = [currentPage EXCEPT ![c] = Len(pages) + 1]
               /\ numEntries' = [numEntries EXCEPT ![c] =
                                   IF old = 0 THEN numEntries[c] + 1 ELSE 1]
          ELSE /\ pages' = [pages EXCEPT ![old] = WithPiece(pages[old], piece)]
               /\ numEntries' = [numEntries EXCEPT ![c] = numEntries[c] + 1]
               /\ UNCHANGED <<rtree, currentPage>>
     /\ IF stop = seg.to
          THEN /\ Counted(op, ExtendTiv(header, seg))
               /\ accepted' = accepted \cup
                    {[mo |-> seg.mo, start |-> seg.start, end |-> seg.end,
                      from |-> seg.from, to |-> seg.to]}
               /\ seg' = NoSeg
          ELSE /\ header' = ExtendTiv(header, seg)
               /\ seg' = [seg EXCEPT !.at = stop]
               /\ UNCHANGED <<pc, final, accepted>>
  /\ UNCHANGED <<frontline, file, fRtree, sem, op, saved>>

InsertStreamOpen ==
  /\ pc = "idle"
  /\ op' = "insertStream" /\ pc' = "next"
  /\ UNCHANGED <<memory, file, data, sem, final, seg, history>>

InsertStreamEnd ==
  /\ pc = "next"
  /\ pc' = "lock" /\ final' = TRUE
  /\ UNCHANGED <<memory, file, data, sem, op, seg, history>>
-----------------------------------------------------------------------------
(* After UpdateSETI the operation ends, or goes on when this was the       *)
(* update of a cycle.                                                      *)
Updated ==
  IF final THEN pc' = "idle" /\ op' = "none" /\ final' = FALSE
  ELSE Handled(op) /\ UNCHANGED op

UpdateRefused ==
  /\ pc = "lock" /\ sem
  /\ Updated
  /\ UNCHANGED <<memory, file, data, sem, seg, history>>

UpdateHeader ==
  /\ pc = "lock" /\ ~sem
  /\ sem' = TRUE
  /\ fHeader' = header
  /\ pc' = "fline"
  /\ UNCHANGED <<memory, fFrontline, fNumEntries, fCurrentPage, data, op, final,
                 seg, history>>

UpdateFLine ==
  /\ pc = "fline"
  /\ fFrontline' = frontline
  /\ pc' = "cells"
  /\ UNCHANGED <<memory, fHeader, fNumEntries, fCurrentPage, data, sem, op, final,
                 seg, history>>

(* A fault: the current pages are not written.                             *)
UpdateCellsCountsOnly ==
  /\ pc = "cells"
  /\ fNumEntries' = numEntries
  /\ sem' = FALSE
  /\ Updated
  /\ saved' = accepted
  /\ UNCHANGED <<memory, fHeader, fFrontline, fCurrentPage, data, seg, accepted>>

UpdateCells ==
  /\ pc = "cells"
  /\ fNumEntries' = numEntries /\ fCurrentPage' = currentPage
  /\ sem' = FALSE
  /\ Updated
  /\ saved' = accepted
  /\ UNCHANGED <<memory, fHeader, fFrontline, data, seg, accepted>>

(* ReadSETI in the next process.                                           *)
ReadSETI ==
  /\ header' = fHeader /\ frontline' = fFrontline
  /\ numEntries' = fNumEntries /\ currentPage' = fCurrentPage
  /\ op' = "none" /\ pc' = "idle" /\ final' = FALSE /\ seg' = NoSeg
  /\ accepted' = saved
  /\ UNCHANGED <<file, pages, sem, saved>>

(* A fault: Close leaves the R-trees as they were opened.                  *)
CloseWithoutRTrees ==
  /\ pc = "idle"
  /\ rtree' = fRtree
  /\ UNCHANGED fRtree
  /\ ReadSETI

(* Close saves nothing of the index, but the destructor of an R-tree       *)
(* writes the node and the header it holds.  The model's R-trees are of    *)
(* one node, which stays in memory until then.                             *)
CloseAndOpen ==
  /\ pc = "idle"
  /\ fRtree' = rtree
  /\ UNCHANGED rtree
  /\ ReadSETI

(* The process dies, and the environment of the storage manager survives   *)
(* with its pool: no destructor runs.                                      *)
Crash ==
  /\ Crashes
  /\ rtree' = fRtree
  /\ UNCHANGED fRtree
  /\ ReadSETI

(* A search whose window misses the area keeps the semaphore.              *)
SearchOutside ==
  /\ OutsideWindows /\ pc = "idle" /\ ~sem
  /\ sem' = TRUE
  /\ UNCHANGED <<memory, file, data, call, history>>

Next ==
  \/ \E o \in {"insertUpload", "insertStream"}, m \in MO, t \in Time,
        x \in Pos \cup {OutOfArea} :
       InsertRejected(o, m, t, x) \/ InsertFirst(o, m, t, x) \/ InsertNext(o, m, t, x)
  \/ InsertPiece
  \/ InsertStreamOpen \/ InsertStreamEnd
  \/ UpdateRefused \/ UpdateHeader \/ UpdateFLine \/ UpdateCells
  \/ CloseAndOpen \/ Crash \/ SearchOutside

Spec == Init /\ [][Next]_vars
-----------------------------------------------------------------------------
(***************************************************************************)
(* The searches                                                            *)
(***************************************************************************)

(* A fault: a page that ends when the window begins is not found.          *)
ClosedPagesStrict(c, t1, t2) ==
  {b.page : b \in {b \in rtree[c] : t1 < b.end /\ b.start < t2}}

ClosedPages(c, t1, t2) ==
  {b.page : b \in {b \in rtree[c] : t1 <= b.end /\ b.start <= t2}}

(* The current page of a cell is read whatever its interval, the others as *)
(* the R-tree of the cell finds them.                                      *)
CellPages(c, t1, t2) == ({currentPage[c]} \ {0}) \cup ClosedPages(c, t1, t2)

(* FindTrjSegments joins the pieces of a segment as it meets them, in the  *)
(* order of the page numbers: h is what is joined so far.  A piece that    *)
(* does not fit is dropped, as the id is already taken.                    *)
Join(h, p) ==
  IF h.to = p.from
    THEN IF h.from = p.to
           THEN [h EXCEPT !.start = p.start, !.from = p.from, !.end = p.end, !.to = p.to]
           ELSE [h EXCEPT !.end = p.end, !.to = p.to]
  ELSE IF h.from = p.to THEN [h EXCEPT !.start = p.start, !.from = p.from]
  ELSE h

Merged(ps) ==
  LET all == FlattenSeq([i \in 1 .. Len(pages) |->
                           IF i \in ps THEN pages[i].segs ELSE << >>])
  IN  {FoldLeft(Join, Head(q), Tail(q)) :
         q \in {SelectSeq(all, LAMBDA p : p.id = i) : i \in {s.id : s \in ToSet(all)}}}

Inside(x, x1, x2) == x1 <= x /\ x <= x2

(* A fault: the window is not widened.                                     *)
LeftCellOfEdge(x) == x \div CellWidth

(* ModifyArea has widened the window by the tolerance: an edge on a border *)
(* is in both cells.                                                       *)
LeftCell(x) == (x - 1) \div CellWidth

RightCell(x) == x \div CellWidth

(* The segments found in the cells of the window that lie in the time of   *)
(* the window and have an end in it.                                       *)
FindTrjSegments(x1, x2, t1, t2) ==
  LET cells == {c \in Cell : LeftCell(x1) <= c /\ c <= RightCell(x2)}
  IN  {s \in Merged(UNION {CellPages(c, t1, t2) : c \in cells}) :
         /\ t1 <= s.end /\ s.start <= t2
         /\ Inside(s.from, x1, x2) \/ Inside(s.to, x1, x2)}

(* insideWindow keeps what has both ends in the window and its time in the *)
(* time of the window.                                                     *)
InsideWindow(x1, x2, t1, t2) ==
  {s \in FindTrjSegments(x1, x2, t1, t2) :
     /\ t1 <= s.start /\ s.end <= t2
     /\ Inside(s.from, x1, x2) /\ Inside(s.to, x1, x2)}

AllTrajectories ==
  FindTrjSegments(0, Splits * CellWidth, header.start, header.end)

GetTrajectory(m) == {s \in AllTrajectories : s.mo = m}

(* setifilter walks the pages the R-trees of the cells find, no others.    *)
SETIFilter(cells, t1, t2) ==
  UNION {ToSet(pages[p].segs) : p \in UNION {ClosedPages(c, t1, t2) : c \in cells}}
-----------------------------------------------------------------------------
(***************************************************************************)
(* Properties                                                              *)
(***************************************************************************)

TypeOK ==
  /\ header \in Header /\ fHeader \in Header
  /\ frontline \in [MO -> Upload \cup {None}]
  /\ fFrontline \in [MO -> Upload \cup {None}]
  /\ numEntries \in [Cell -> Nat] /\ fNumEntries \in [Cell -> Nat]
  /\ currentPage \in [Cell -> 0 .. Len(pages)]
  /\ fCurrentPage \in [Cell -> 0 .. Len(pages)]
  /\ pages \in Seq(Page)
  /\ rtree \in [Cell -> SUBSET [page : 1 .. Len(pages), start : Time, end : Time]]
  /\ fRtree \in [Cell -> SUBSET [page : 1 .. Len(pages), start : Time, end : Time]]
  /\ sem \in BOOLEAN
  /\ op \in {"none", "insertUpload", "insertStream"}
  /\ pc \in {"idle", "next", "piece", "lock", "fline", "cells"}
  /\ final \in BOOLEAN
  /\ pc = "piece" =>
       seg \in Segment /\ seg.start < seg.end

Whole(s) == [mo |-> s.mo, start |-> s.start, end |-> s.end,
             from |-> s.from, to |-> s.to]

(* A page never holds more than maxTrjSeg segments ("Max number of trj     *)
(* segments in page"): its 4096 bytes end soon after.                      *)
PageCapacity == \A i \in DOMAIN pages : Len(pages[i].segs) <= MaxTrjSeg

(* What setifilter misses lies on the current pages of the cells: it       *)
(* returns every other piece of a segment that was inserted, at every time *)
(* of the segment, as pages are entered into the R-tree of their cell when *)
(* they are closed, with a box that covers all of their pieces.            *)
FilterFindsClosed ==
  pc = "idle" =>
    LET closed == DOMAIN pages \ {currentPage[c] : c \in Cell}
    IN  \A s \in accepted, t \in Time :
          s.start <= t /\ t <= s.end =>
            {q \in UNION {ToSet(pages[p].segs) : p \in closed} :
               q.mo = s.mo /\ q.start = s.start} \subseteq SETIFilter(Cell, t, t)

(* getTrajectory and currentUpload return what the abstract index holds,   *)
(* from insert to insert and across closing and opening.  The upload being *)
(* inserted counts when its last piece is written.                         *)
Index == INSTANCE TrajectoryIndex WITH
  current  <- IF pc = "piece"
                THEN [frontline EXCEPT ![seg.mo] =
                        [time |-> seg.start, pos |-> seg.from]]
                ELSE frontline,
  segments <- {Whole(s) : s \in {s \in AllTrajectories : s.id < header.numEntries}}

ImplementsIndex == Index!Spec

(* intersectsWindow returns nothing that does not intersect the window,    *)
(* and every segment with an upload in it.  A segment that passes over the *)
(* window with both uploads outside need not be returned.                  *)
WindowExact ==
  pc = "idle" =>
    \A x1, x2 \in Coordinate, t1, t2 \in Time :
      x1 <= x2 /\ t1 <= t2 =>
        LET found == {[mo |-> s.mo, start |-> s.start, end |-> s.end] :
                        s \in FindTrjSegments(x1, x2, t1, t2)}
            key(s) == [mo |-> s.mo, start |-> s.start, end |-> s.end]
            intime == {s \in accepted : t1 <= s.end /\ s.start <= t2}
        IN  /\ {key(s) : s \in {s \in intime : \/ Inside(s.from, x1, x2)
                                               \/ Inside(s.to, x1, x2)}} \subseteq found
            /\ found \subseteq {key(s) : s \in {s \in intime :
                   {s.from, s.to} \cap (x1 .. x2) # {} \/
                   (s.from < x1 /\ x2 < s.to) \/ (s.to < x1 /\ x2 < s.from)}}

(* insideWindow returns the segments inside the window, whole, and no      *)
(* others, also when an edge of the window is on the border of two cells   *)
(* and the pieces of a segment end there.                                  *)
InsideExact ==
  pc = "idle" =>
    \A x1, x2 \in Coordinate, t1, t2 \in Time :
      x1 <= x2 /\ t1 <= t2 =>
        {Whole(s) : s \in InsideWindow(x1, x2, t1, t2)} =
        {s \in accepted : /\ t1 <= s.start /\ s.end <= t2
                          /\ Inside(s.from, x1, x2) /\ Inside(s.to, x1, x2)}

(* "Returns all trajectory segments which belong to the stated moving      *)
(* object": whole, as they were uploaded.                                  *)
TrajectoryComplete ==
  pc = "idle" => \A s \in accepted : s \in {Whole(g) : g \in GetTrajectory(s.mo)}

(* "Writes all SETI data into file": a segment accepted before an          *)
(* UpdateSETI that returned true lies, from end to end, on pages the cells *)
(* still lead to, as long as no page ran over its capacity.                *)
SavedReachable ==
  PageCapacity =>
    \A s \in saved, c \in Cell :
      LET lo == IF s.from < s.to THEN s.from ELSE s.to
          hi == IF s.from < s.to THEN s.to ELSE s.from
      IN  lo \div CellWidth <= c /\ c <= hi \div CellWidth =>
            \E p \in CellPages(c, s.start, s.end) : \E q \in ToSet(pages[p].segs) :
               q.mo = s.mo /\ q.start = s.start /\ q.end = s.end

(* Neither in memory nor in the file does a cell count segments its        *)
(* current page does not hold, whatever a crash leaves behind.             *)
CountsBacked ==
  \A c \in Cell :
    /\ currentPage[c] = 0 => numEntries[c] = 0
    /\ currentPage[c] # 0 => numEntries[c] <= Len(pages[currentPage[c]].segs)
    /\ fCurrentPage[c] = 0 => fNumEntries[c] = 0
    /\ fCurrentPage[c] # 0 => fNumEntries[c] <= Len(pages[fCurrentPage[c]].segs)
=============================================================================
