---------------------------- MODULE SETIProofs ----------------------------
(***************************************************************************)
(* Theorems about the SETI index for any number of cells, pages, uploads   *)
(* and instants: its types, the counts of its cells, the capacity of its   *)
(* pages and how its segments are reached.                                 *)
(***************************************************************************)
EXTENDS SETI, TLAPS

(* Positions off the edges of the area: where uploads and the ends of      *)
(* pieces are.                                                             *)
Inner == 1 .. Splits * CellWidth - 1

LEMMA Euclid == ASSUME NEW a \in Int, NEW w \in Nat \ {0}
                PROVE  /\ a \div w \in Int
                       /\ (a \div w) * w <= a
                       /\ a < ((a \div w) + 1) * w
BY SMTT(20)

(* A multiple of a width lies between 0 and n widths only if its factor    *)
(* lies between 0 and n.                                                   *)
LEMMA FactorBounds ==
  ASSUME NEW w \in Nat \ {0}, NEW n \in Nat, NEW c \in Int
  PROVE  /\ c * w < n * w => c < n
         /\ (c + 1) * w > 0 => c >= 0
<1>1. ASSUME c >= n PROVE c * w >= n * w
  <2>1. (c - n) * w >= 0
    BY <1>1
  <2>2. (c - n) * w = c * w - n * w
    OBVIOUS
  <2> QED
    BY <2>1, <2>2
<1>2. ASSUME c + 1 <= 0 PROVE (c + 1) * w <= 0
  <2>1. (0 - (c + 1)) * w >= 0
    BY <1>2
  <2>2. (0 - (c + 1)) * w = 0 - (c + 1) * w
    OBVIOUS
  <2> QED
    BY <2>1, <2>2
<1> QED
  BY <1>1, <1>2

(* An upload is never on an edge, as the area has an even width.           *)
LEMMA PosInner == Pos \subseteq Inner
<1> SUFFICES ASSUME NEW x \in Pos PROVE x \in Inner
  OBVIOUS
<1>1. Splits * CellWidth \in Nat /\ (Splits * CellWidth) % 2 = 0
  <2>1. PICK k \in Nat : CellWidth = 2 * k
    BY SETIAssumption
  <2>2. Splits * CellWidth = 2 * (Splits * k) /\ Splits * k \in Nat
    BY <2>1, SETIAssumption
  <2> QED
    BY <2>2
<1>2. x \in 0 .. Splits * CellWidth /\ x % 2 = 1
  BY DEF Pos, Coordinate
<1> HIDE DEF Inner
<1>3. x # 0 /\ x # Splits * CellWidth
  BY <1>1, <1>2
<1> QED
  BY <1>1, <1>2, <1>3 DEF Inner

(* The cell of a piece exists, and the piece ends off the edges.           *)
LEMMA PieceInside ==
  ASSUME NEW x \in Inner, NEW y \in Inner
  PROVE  CellOf(x, y) \in Cell /\ PieceEnd(x, y) \in Inner
<1> DEFINE c == CellOf(x, y)
           W == CellWidth
           L == Splits * CellWidth
<1>1. W \in Nat \ {0} /\ Splits \in Nat \ {0} /\ L \in Nat
  BY SETIAssumption
<1>2. x \in Int /\ y \in Int /\ 1 <= x /\ x <= L - 1 /\ 1 <= y /\ y <= L - 1
  BY <1>1 DEF Inner
<1>3. PICK a \in {x - 1, x} : c = a \div W
  BY DEF CellOf
<1>4. a \in Int /\ 0 <= a /\ a <= x
  BY <1>2, <1>3
<1>5. c \in Int /\ c * W <= a /\ a < (c + 1) * W
  BY <1>1, <1>3, <1>4, Euclid
<1> HIDE DEF c
<1>6. c * W \in Int /\ (c + 1) * W \in Int
  BY <1>1, <1>5
<1>7. c < Splits /\ c >= 0
  <2>1. c * W < Splits * W /\ (c + 1) * W > 0
    BY <1>1, <1>2, <1>4, <1>5, <1>6
  <2> QED
    BY <2>1, <1>1, <1>5, FactorBounds
<1>8. c \in Cell
  BY <1>1, <1>5, <1>7 DEF Cell
<1>9. PieceEnd(x, y) = IF y < c * W THEN c * W
                       ELSE IF y > (c + 1) * W THEN (c + 1) * W ELSE y
  BY DEF PieceEnd, c
<1>10. PieceEnd(x, y) \in Int /\ 1 <= PieceEnd(x, y) /\ PieceEnd(x, y) <= L - 1
  BY <1>1, <1>2, <1>4, <1>5, <1>6, <1>9
<1> QED
  BY <1>8, <1>10, <1>1 DEF c, Inner
-----------------------------------------------------------------------------
(* The inductive invariant of the types and the counts: the piece at hand  *)
(* starts off the edges.                                                   *)
AtInner == pc = "piece" => seg.at \in Inner

BackedInv == TypeOK /\ CountsBacked /\ AtInner

BoxesIn(n) == SUBSET [page : 1 .. n, start : Time, end : Time]

(* A page may grow, but none is lost and none shrinks.                     *)
PagesGrow ==
  /\ Len(pages) <= Len(pages')
  /\ \A i \in 1 .. Len(pages) : Len(pages[i].segs) <= Len(pages'[i].segs)

LEMMA BoxesGrow ==
  ASSUME NEW n \in Nat, NEW k \in Nat, n <= k
  PROVE  BoxesIn(n) \subseteq BoxesIn(k)
BY DEF BoxesIn

LEMMA PieceType ==
  ASSUME TypeOK, AtInner, pc = "piece"
  PROVE  /\ CellOf(seg.at, seg.to) \in Cell
         /\ PieceEnd(seg.at, seg.to) \in Inner
         /\ [mo |-> seg.mo, id |-> header.numEntries, start |-> seg.start,
             end |-> seg.end, from |-> seg.at,
             to |-> PieceEnd(seg.at, seg.to)] \in TrjSeg
<1>1. seg.at \in Inner /\ seg.to \in Inner
  BY PosInner DEF TypeOK, AtInner, Segment
<1>2. Inner \subseteq Coordinate
  BY SETIAssumption DEF Inner, Coordinate
<1>3. header.numEntries \in Nat
  BY DEF TypeOK, Header
<1>4. CellOf(seg.at, seg.to) \in Cell /\ PieceEnd(seg.at, seg.to) \in Inner
  BY <1>1, PieceInside
<1> QED
  BY <1>1, <1>2, <1>3, <1>4 DEF TypeOK, TrjSeg, Segment

LEMMA PageWithPiece ==
  ASSUME NEW page \in Page, NEW s \in TrjSeg
  PROVE  /\ WithPiece(page, s) \in Page
         /\ Len(WithPiece(page, s).segs) = Len(page.segs) + 1
BY DEF WithPiece, Page, TrjSeg

(* What a round of the loop does to the cells and the pages.               *)
LEMMA PieceWritten ==
  ASSUME BackedInv, InsertPiece
  PROVE  /\ pages' \in Seq(Page) /\ PagesGrow
         /\ numEntries' \in [Cell -> Nat]
         /\ currentPage' \in [Cell -> 0 .. Len(pages')]
         /\ rtree' \in [Cell -> BoxesIn(Len(pages'))]
         /\ \A c \in Cell :
              /\ currentPage'[c] = 0 => numEntries'[c] = 0
              /\ currentPage'[c] # 0 => numEntries'[c] <= Len(pages'[currentPage'[c]].segs)
<1> DEFINE c == CellOf(seg.at, seg.to)
           piece == [mo |-> seg.mo, id |-> header.numEntries, start |-> seg.start,
                     end |-> seg.end, from |-> seg.at,
                     to |-> PieceEnd(seg.at, seg.to)]
           old == currentPage[c]
           fresh == [start |-> seg.start, end |-> seg.end, segs |-> <<piece>>]
           n == Len(pages)
<1>1. pc = "piece" /\ TypeOK /\ CountsBacked /\ AtInner
  BY DEF InsertPiece, BackedInv
<1>2. c \in Cell /\ piece \in TrjSeg
  BY <1>1, PieceType
<1>3. fresh \in Page /\ Len(fresh.segs) = 1
  BY <1>1, <1>2 DEF TypeOK, Page, Segment
<1>4. /\ pages \in Seq(Page) /\ n \in Nat
      /\ numEntries \in [Cell -> Nat] /\ currentPage \in [Cell -> 0 .. n]
      /\ rtree \in [Cell -> BoxesIn(n)]
      /\ old \in 0 .. n /\ numEntries[c] \in Nat
  BY <1>1, <1>2 DEF TypeOK, BoxesIn
<1>5. \A d \in Cell :
        /\ currentPage[d] = 0 => numEntries[d] = 0
        /\ currentPage[d] # 0 => numEntries[d] <= Len(pages[currentPage[d]].segs)
  BY <1>1 DEF CountsBacked
<1>6. \A i \in 1 .. n : pages[i] \in Page /\ Len(pages[i].segs) \in Nat
  <2> TAKE i \in 1 .. n
  <2>1. pages[i] \in Page
    BY <1>4
  <2>2. pages[i].segs \in Seq(TrjSeg)
    BY <2>1 DEF Page
  <2> QED
    BY <2>1, <2>2
<1>7. CASE PageFull(c)
  <2>1. /\ rtree' = IF old = 0 THEN rtree
                    ELSE [rtree EXCEPT ![c] = rtree[c] \cup
                           {[page |-> old, start |-> pages[old].start,
                             end |-> pages[old].end]}]
        /\ pages' = Append(pages, fresh)
        /\ currentPage' = [currentPage EXCEPT ![c] = n + 1]
        /\ numEntries' = [numEntries EXCEPT ![c] =
                             IF old = 0 THEN numEntries[c] + 1 ELSE 1]
    BY <1>7 DEF InsertPiece
  <2> HIDE DEF c, fresh, n, old
  <2>2. /\ pages' \in Seq(Page) /\ Len(pages') = n + 1 /\ pages'[n + 1] = fresh
        /\ \A i \in 1 .. n : pages'[i] = pages[i]
    BY <2>1, <1>3, <1>4 DEF n
  <2>3. PagesGrow
    BY <2>2, <1>4, <1>6 DEF PagesGrow, n
  <2>4. numEntries' \in [Cell -> Nat] /\ currentPage' \in [Cell -> 0 .. Len(pages')]
    <3>1. currentPage \in [Cell -> 0 .. n + 1] /\ n + 1 \in 0 .. n + 1
      BY <1>4
    <3>2. (IF old = 0 THEN numEntries[c] + 1 ELSE 1) \in Nat
      BY <1>4
    <3>3. numEntries' \in [Cell -> Nat]
      BY <2>1, <3>2, <1>4
    <3>4. currentPage' \in [Cell -> 0 .. n + 1]
      BY <2>1, <3>1
    <3> QED
      BY <3>3, <3>4, <2>2
  <2>5. rtree' \in [Cell -> BoxesIn(Len(pages'))]
    <3>1. rtree \in [Cell -> BoxesIn(n + 1)]
      <4>1. BoxesIn(n) \subseteq BoxesIn(n + 1)
        BY <1>4, BoxesGrow
      <4> QED
        BY <4>1, <1>4
    <3>2. CASE old = 0
      BY <3>1, <3>2, <2>1, <2>2
    <3>3. CASE old # 0
      <4>1. old \in 1 .. n
        BY <3>3, <1>4
      <4>2. pages[old] \in Page
        BY <4>1, <1>6
      <4>3. [page |-> old, start |-> pages[old].start, end |-> pages[old].end]
              \in [page : 1 .. n + 1, start : Time, end : Time]
        BY <4>1, <4>2, <1>4 DEF Page
      <4>4. rtree[c] \cup {[page |-> old, start |-> pages[old].start,
                            end |-> pages[old].end]} \in BoxesIn(n + 1)
        BY <4>3, <3>1, <1>2 DEF BoxesIn
      <4> QED
        BY <4>4, <3>1, <3>3, <2>1, <2>2
    <3> QED
      BY <3>2, <3>3
  <2>6. ASSUME NEW d \in Cell
        PROVE  /\ currentPage'[d] = 0 => numEntries'[d] = 0
               /\ currentPage'[d] # 0 => numEntries'[d] <= Len(pages'[currentPage'[d]].segs)
    <3>1. CASE d = c
      <4>1. currentPage'[d] = n + 1 /\ numEntries'[d] = 1
        BY <3>1, <2>1, <1>2, <1>4, <1>5 DEF old
      <4> QED
        BY <4>1, <2>2, <1>3, <1>4
    <3>2. CASE d # c
      <4>1. currentPage'[d] = currentPage[d] /\ numEntries'[d] = numEntries[d]
        BY <3>2, <2>1, <1>4
      <4>2. currentPage[d] \in 0 .. n
        BY <1>4
      <4> QED
        BY <4>1, <4>2, <2>2, <1>5, <1>4
    <3> QED
      BY <3>1, <3>2
  <2> QED
    BY <2>2, <2>3, <2>4, <2>5, <2>6
<1>8. CASE ~PageFull(c)
  <2>1. /\ pages' = [pages EXCEPT ![old] = WithPiece(pages[old], piece)]
        /\ numEntries' = [numEntries EXCEPT ![c] = numEntries[c] + 1]
        /\ rtree' = rtree /\ currentPage' = currentPage
    BY <1>8 DEF InsertPiece
  <2>2. old \in 1 .. n
    <3>1. numEntries[c] # 0
      BY <1>8, SETIAssumption DEF PageFull
    <3> QED
      BY <3>1, <1>2, <1>4, <1>5
  <2> HIDE DEF c, n, old, piece
  <2>3. /\ WithPiece(pages[old], piece) \in Page
        /\ Len(WithPiece(pages[old], piece).segs) = Len(pages[old].segs) + 1
    BY <2>2, <1>2, <1>6, PageWithPiece
  <2>4. /\ pages' \in Seq(Page) /\ Len(pages') = n
        /\ pages'[old] = WithPiece(pages[old], piece)
        /\ \A i \in 1 .. n : i # old => pages'[i] = pages[i]
    BY <2>1, <2>2, <2>3, <1>4 DEF n
  <2>5. \A i \in 1 .. n : Len(pages'[i].segs) =
          IF i = old THEN Len(pages[i].segs) + 1 ELSE Len(pages[i].segs)
    BY <2>3, <2>4
  <2>6. PagesGrow
    BY <2>4, <2>5, <1>4, <1>6 DEF PagesGrow, n
  <2>7. ASSUME NEW d \in Cell
        PROVE  /\ currentPage'[d] = 0 => numEntries'[d] = 0
               /\ currentPage'[d] # 0 => numEntries'[d] <= Len(pages'[currentPage'[d]].segs)
    <3>1. currentPage'[d] = currentPage[d] /\ currentPage[d] \in 0 .. n
      BY <2>1, <1>4
    <3>2. CASE d = c
      <4>1. numEntries'[d] = numEntries[c] + 1 /\ currentPage[d] = old
        BY <3>2, <2>1, <1>2, <1>4 DEF old
      <4>2. numEntries[c] <= Len(pages[old].segs) /\ old # 0
        BY <2>2, <1>2, <1>5 DEF old
      <4> QED
        BY <4>1, <4>2, <3>1, <2>2, <2>5, <1>4, <1>6
    <3>3. CASE d # c
      <4>1. numEntries'[d] = numEntries[d] /\ numEntries[d] \in Nat
        BY <3>3, <2>1, <1>4
      <4>2. CASE currentPage[d] = 0
        BY <4>1, <4>2, <3>1, <1>5
      <4>3. CASE currentPage[d] # 0
        <5>1. currentPage[d] \in 1 .. n /\ numEntries[d] <= Len(pages[currentPage[d]].segs)
          BY <4>3, <3>1, <1>5
        <5>2. Len(pages[currentPage[d]].segs) <= Len(pages'[currentPage[d]].segs)
              /\ Len(pages[currentPage[d]].segs) \in Nat
          <6>1. Len(pages[currentPage[d]].segs) \in Nat
            BY <5>1, <1>6
          <6>2. \/ Len(pages'[currentPage[d]].segs) = Len(pages[currentPage[d]].segs)
                \/ Len(pages'[currentPage[d]].segs) = Len(pages[currentPage[d]].segs) + 1
            BY <5>1, <2>5
          <6> QED
            BY <6>1, <6>2
        <5>3. Len(pages'[currentPage[d]].segs) \in Nat
          BY <5>1, <5>2, <2>5, <1>6
        <5> QED
          BY <5>1, <5>2, <5>3, <4>1, <4>3, <3>1
      <4> QED
        BY <4>2, <4>3
    <3> QED
      BY <3>2, <3>3
  <2>8. /\ numEntries' \in [Cell -> Nat] /\ currentPage' \in [Cell -> 0 .. Len(pages')]
        /\ rtree' \in [Cell -> BoxesIn(Len(pages'))]
    <3>1. numEntries' \in [Cell -> Nat]
      <4>1. numEntries[c] + 1 \in Nat
        BY <1>4
      <4> QED
        BY <4>1, <2>1, <1>4
    <3>2. currentPage' \in [Cell -> 0 .. Len(pages')]
      BY <2>1, <2>4, <1>4
    <3>3. rtree' \in [Cell -> BoxesIn(Len(pages'))]
      BY <2>1, <2>4, <1>4
    <3> QED
      BY <3>1, <3>2, <3>3
  <2> QED
    BY <2>4, <2>6, <2>7, <2>8
<1> QED
  BY <1>7, <1>8
-----------------------------------------------------------------------------
(* The invariant in two parts: the index and its file, and the calls.      *)
DataInv ==
  /\ numEntries \in [Cell -> Nat] /\ fNumEntries \in [Cell -> Nat]
  /\ currentPage \in [Cell -> 0 .. Len(pages)]
  /\ fCurrentPage \in [Cell -> 0 .. Len(pages)]
  /\ pages \in Seq(Page)
  /\ rtree \in [Cell -> BoxesIn(Len(pages))]
  /\ fRtree \in [Cell -> BoxesIn(Len(pages))]
  /\ CountsBacked

CallInv ==
  /\ header \in Header /\ fHeader \in Header
  /\ frontline \in [MO -> Upload \cup {None}]
  /\ fFrontline \in [MO -> Upload \cup {None}]
  /\ sem \in BOOLEAN
  /\ op \in {"none", "insertUpload", "insertStream"}
  /\ pc \in {"idle", "next", "piece", "lock", "fline", "cells"}
  /\ final \in BOOLEAN
  /\ pc = "piece" =>
       seg \in Segment /\ seg.start < seg.end
  /\ AtInner

LEMMA InvParts == BackedInv <=> DataInv /\ CallInv
BY DEF BackedInv, TypeOK, DataInv, CallInv, BoxesIn

LEMMA HandledType ==
  ASSUME NEW o, Handled(o)
  PROVE  pc' \in {"lock", "next"} /\ final' \in BOOLEAN
BY DEF Handled, AfterInsert

LEMMA CountedType ==
  ASSUME NEW o, NEW h \in Header, Counted(o, h)
  PROVE  header' \in Header /\ pc' \in {"lock", "next"} /\ final' \in BOOLEAN
<1>1. header' \in Header
  BY DEF Counted, Header
<1>2. CASE (h.numEntries + 1) % UpdateCycle = 0
  BY <1>1, <1>2 DEF Counted
<1>3. CASE (h.numEntries + 1) % UpdateCycle # 0
  BY <1>1, <1>3, HandledType DEF Counted
<1> QED
  BY <1>2, <1>3

LEMMA UpdatedType ==
  ASSUME Updated, CallInv
  PROVE  /\ pc' \in {"idle", "lock", "next"} /\ final' \in BOOLEAN
         /\ op' \in {"none", "insertUpload", "insertStream"}
BY HandledType DEF Updated, CallInv

(* The copies of the R-trees in the file stay within the pages.            *)
LEMMA FileGrows ==
  ASSUME DataInv, PagesGrow, pages' \in Seq(Page), UNCHANGED <<file, fRtree>>
  PROVE  /\ fNumEntries' \in [Cell -> Nat]
         /\ fCurrentPage' \in [Cell -> 0 .. Len(pages')]
         /\ fRtree' \in [Cell -> BoxesIn(Len(pages'))]
         /\ \A c \in Cell :
              /\ fCurrentPage'[c] = 0 => fNumEntries'[c] = 0
              /\ fCurrentPage'[c] # 0 => fNumEntries'[c] <= Len(pages'[fCurrentPage'[c]].segs)
<1> DEFINE n == Len(pages)
           k == Len(pages')
<1>1. n \in Nat /\ k \in Nat /\ n <= k
  BY DEF DataInv, PagesGrow
<1>2. fNumEntries' = fNumEntries /\ fCurrentPage' = fCurrentPage /\ fRtree' = fRtree
  BY DEF file
<1>3. fCurrentPage \in [Cell -> 0 .. n] /\ fRtree \in [Cell -> BoxesIn(n)]
      /\ fNumEntries \in [Cell -> Nat]
  BY DEF DataInv
<1>4. ASSUME NEW i \in 1 .. n
      PROVE  /\ Len(pages[i].segs) \in Nat /\ Len(pages'[i].segs) \in Nat
             /\ Len(pages[i].segs) <= Len(pages'[i].segs)
  <2>1. pages[i] \in Page /\ pages'[i] \in Page
    BY <1>1, <1>4 DEF DataInv
  <2>2. pages[i].segs \in Seq(TrjSeg) /\ pages'[i].segs \in Seq(TrjSeg)
    BY <2>1 DEF Page
  <2> QED
    BY <2>2 DEF PagesGrow
<1> HIDE DEF n, k
<1>5. fRtree \in [Cell -> BoxesIn(k)]
  <2>1. BoxesIn(n) \subseteq BoxesIn(k)
    BY <1>1, BoxesGrow
  <2> QED
    BY <2>1, <1>3
<1>6. fCurrentPage \in [Cell -> 0 .. k]
  BY <1>1, <1>3
<1>7. ASSUME NEW c \in Cell
      PROVE  /\ fCurrentPage[c] = 0 => fNumEntries[c] = 0
             /\ fCurrentPage[c] # 0 => fNumEntries[c] <= Len(pages'[fCurrentPage[c]].segs)
  <2>1. /\ fCurrentPage[c] = 0 => fNumEntries[c] = 0
        /\ fCurrentPage[c] # 0 => fNumEntries[c] <= Len(pages[fCurrentPage[c]].segs)
    BY DEF DataInv, CountsBacked
  <2>2. fCurrentPage[c] \in 0 .. n /\ fNumEntries[c] \in Nat
    BY <1>3
  <2>3. CASE fCurrentPage[c] # 0
    <3>1. fCurrentPage[c] \in 1 .. n
      BY <2>2, <2>3, <1>1
    <3> QED
      BY <3>1, <2>1, <2>2, <2>3, <1>4
  <2> QED
    BY <2>1, <2>3
<1> QED
  BY <1>2, <1>3, <1>5, <1>6, <1>7 DEF k

LEMMA DataStep ==
  ASSUME BackedInv, [Next]_vars
  PROVE  DataInv'
<1>0. DataInv /\ CallInv
  BY InvParts
<1>1. CASE UNCHANGED <<numEntries, currentPage, file, data>>
  BY <1>1, <1>0 DEF DataInv, CountsBacked, file, data
<1>2. CASE InsertPiece
  <2>1. UNCHANGED <<file, fRtree>>
    BY <1>2 DEF InsertPiece
  <2>2. /\ pages' \in Seq(Page) /\ PagesGrow
        /\ numEntries' \in [Cell -> Nat]
        /\ currentPage' \in [Cell -> 0 .. Len(pages')]
        /\ rtree' \in [Cell -> BoxesIn(Len(pages'))]
        /\ \A c \in Cell :
             /\ currentPage'[c] = 0 => numEntries'[c] = 0
             /\ currentPage'[c] # 0 => numEntries'[c] <= Len(pages'[currentPage'[c]].segs)
    BY <1>2, PieceWritten
  <2>3. /\ fNumEntries' \in [Cell -> Nat]
        /\ fCurrentPage' \in [Cell -> 0 .. Len(pages')]
        /\ fRtree' \in [Cell -> BoxesIn(Len(pages'))]
        /\ \A c \in Cell :
             /\ fCurrentPage'[c] = 0 => fNumEntries'[c] = 0
             /\ fCurrentPage'[c] # 0 => fNumEntries'[c] <= Len(pages'[fCurrentPage'[c]].segs)
    BY <2>1, <2>2, <1>0, FileGrows
  <2> QED
    BY <2>2, <2>3 DEF DataInv, CountsBacked
<1>3. CASE UpdateCells
  BY <1>3, <1>0 DEF UpdateCells, memory, data, DataInv, CountsBacked
<1>4. CASE CloseAndOpen
  BY <1>4, <1>0 DEF CloseAndOpen, ReadSETI, file, DataInv, CountsBacked
<1>5. CASE Crash
  BY <1>5, <1>0 DEF Crash, ReadSETI, file, DataInv, CountsBacked
<1>6. ASSUME NEW o \in {"insertUpload", "insertStream"}, NEW m \in MO,
             NEW t \in Time, NEW x \in Pos \cup {OutOfArea},
             InsertRejected(o, m, t, x) \/ InsertFirst(o, m, t, x)
               \/ InsertNext(o, m, t, x)
      PROVE  UNCHANGED <<numEntries, currentPage, file, data>>
  BY <1>6 DEF InsertRejected, InsertFirst, InsertNext, memory
<1>7. InsertStreamOpen \/ InsertStreamEnd \/ UpdateRefused \/ UpdateHeader
        \/ UpdateFLine \/ SearchOutside \/ UNCHANGED vars
      => UNCHANGED <<numEntries, currentPage, data>> /\ UNCHANGED <<fNumEntries, fCurrentPage>>
  BY DEF InsertStreamOpen, InsertStreamEnd, UpdateRefused, UpdateHeader,
         UpdateFLine, SearchOutside, vars, memory, file
<1>8. CASE UNCHANGED <<numEntries, currentPage, data>> /\ UNCHANGED <<fNumEntries, fCurrentPage>>
  BY <1>8, <1>0 DEF DataInv, CountsBacked, data
<1> QED
  BY <1>1, <1>2, <1>3, <1>4, <1>5, <1>6, <1>7, <1>8 DEF Next

LEMMA InsertCall ==
  ASSUME CallInv, NEW o \in {"insertUpload", "insertStream"}, NEW m \in MO,
         NEW t \in Time, NEW x \in Pos \cup {OutOfArea},
         InsertRejected(o, m, t, x) \/ InsertFirst(o, m, t, x)
           \/ InsertNext(o, m, t, x)
  PROVE  CallInv'
<1>1. CASE InsertRejected(o, m, t, x)
  <2>1. pc' \in {"lock", "next"} /\ final' \in BOOLEAN
    BY <1>1, HandledType DEF InsertRejected
  <2> QED
    BY <1>1, <2>1 DEF InsertRejected, CallInv, AtInner, memory, file
<1>2. CASE InsertFirst(o, m, t, x)
  <2>1. [header EXCEPT !.numFlEntries = header.numFlEntries + 1] \in Header
    BY DEF CallInv, Header
  <2>2. header' \in Header /\ pc' \in {"lock", "next"} /\ final' \in BOOLEAN
    BY <1>2, <2>1, CountedType DEF InsertFirst
  <2>3. [time |-> t, pos |-> x] \in Upload
    BY <1>2 DEF InsertFirst, Upload
  <2>4. frontline' \in [MO -> Upload \cup {None}]
    BY <1>2, <2>3 DEF InsertFirst, CallInv
  <2> QED
    BY <1>2, <2>2, <2>4 DEF InsertFirst, CallInv, AtInner, file
<1>3. CASE InsertNext(o, m, t, x)
  <2>1. frontline[m] \in Upload /\ x \in Pos
    BY <1>3 DEF InsertNext, CallInv
  <2>2. [time |-> t, pos |-> x] \in Upload
    BY <2>1 DEF Upload
  <2>3. frontline' \in [MO -> Upload \cup {None}]
    BY <1>3, <2>2 DEF InsertNext, CallInv
  <2>4. seg' = [mo |-> m, start |-> frontline[m].time, end |-> t,
                from |-> frontline[m].pos, at |-> frontline[m].pos, to |-> x]
    BY <1>3 DEF InsertNext
  <2>5. /\ frontline[m].time \in Time /\ frontline[m].time < t
        /\ frontline[m].pos \in Pos
    BY <1>3, <2>1 DEF InsertNext, Upload
  <2>6. /\ seg' \in Segment /\ seg'.start < seg'.end
        /\ seg'.at \in Inner
    BY <2>1, <2>4, <2>5, PosInner DEF Pos, Segment
  <2> QED
    BY <1>3, <2>3, <2>6 DEF InsertNext, CallInv, AtInner, file
<1> QED
  BY <1>1, <1>2, <1>3

LEMMA CallStep ==
  ASSUME BackedInv, [Next]_vars
  PROVE  CallInv'
<1>0. DataInv /\ CallInv
  BY InvParts
<1>1. ASSUME NEW o \in {"insertUpload", "insertStream"}, NEW m \in MO,
             NEW t \in Time, NEW x \in Pos \cup {OutOfArea},
             InsertRejected(o, m, t, x) \/ InsertFirst(o, m, t, x)
               \/ InsertNext(o, m, t, x)
      PROVE  CallInv'
  BY <1>0, <1>1, InsertCall
<1>2. CASE InsertPiece
  <2> DEFINE stop == PieceEnd(seg.at, seg.to)
  <2>1. pc = "piece" /\ UNCHANGED <<frontline, file, sem, op>>
    BY <1>2 DEF InsertPiece
  <2>2. ExtendTiv(header, seg) \in Header
    <3>1. seg.start \in Nat /\ seg.end \in Nat
      BY <2>1, <1>0, SETIAssumption DEF CallInv, Segment
    <3> QED
      BY <3>1, <1>0 DEF CallInv, ExtendTiv, Header
  <2>3. CASE stop = seg.to
    <3>1. Counted(op, ExtendTiv(header, seg)) /\ seg' = NoSeg
      BY <1>2, <2>3 DEF InsertPiece
    <3>2. header' \in Header /\ pc' \in {"lock", "next"} /\ final' \in BOOLEAN
      BY <3>1, <2>2, CountedType
    <3> QED
      BY <3>2, <2>1, <1>0 DEF CallInv, AtInner, file
  <2>4. CASE stop # seg.to
    <3>1. /\ header' = ExtendTiv(header, seg) /\ seg' = [seg EXCEPT !.at = stop]
          /\ UNCHANGED <<pc, final>>
      BY <1>2, <2>4 DEF InsertPiece
    <3>2. stop \in Inner /\ Inner \subseteq Coordinate
      <4>1. stop \in Inner
        BY <2>1, PieceType DEF BackedInv
      <4>2. Inner \subseteq Coordinate
        BY SETIAssumption DEF Inner, Coordinate
      <4> QED
        BY <4>1, <4>2
    <3> HIDE DEF stop
    <3>3. /\ seg' \in Segment /\ seg'.start < seg'.end
          /\ seg'.at \in Inner
      BY <3>1, <3>2, <2>1, <1>0 DEF CallInv, Segment
    <3> QED
      BY <3>1, <3>2, <3>3, <2>1, <2>2, <1>0 DEF CallInv, AtInner, file
  <2> QED
    BY <2>3, <2>4
<1>3. CASE InsertStreamOpen \/ InsertStreamEnd
  BY <1>3, <1>0 DEF InsertStreamOpen, InsertStreamEnd, CallInv, AtInner, memory, file
<1>4. CASE UpdateRefused
  BY <1>4, <1>0, UpdatedType DEF UpdateRefused, CallInv, AtInner, memory, file
<1>5. CASE UpdateHeader \/ UpdateFLine
  BY <1>5, <1>0 DEF UpdateHeader, UpdateFLine, CallInv, AtInner, memory
<1>6. CASE UpdateCells
  BY <1>6, <1>0, UpdatedType DEF UpdateCells, CallInv, AtInner, memory
<1>7. CASE CloseAndOpen \/ Crash
  BY <1>7, <1>0 DEF CloseAndOpen, Crash, ReadSETI, CallInv, AtInner, file
<1>8. CASE SearchOutside \/ UNCHANGED vars
  BY <1>8, <1>0 DEF SearchOutside, CallInv, AtInner, vars, memory, file, call
<1> QED
  BY <1>1, <1>2, <1>3, <1>4, <1>5, <1>6, <1>7, <1>8 DEF Next

LEMMA InitBacked == Init => BackedInv
<1> SUFFICES ASSUME Init PROVE DataInv /\ CallInv
  BY InvParts
<1>1. Len(pages) = 0 /\ pages \in Seq(Page)
  BY DEF Init
<1>2. DataInv
  BY <1>1 DEF Init, DataInv, CountsBacked, BoxesIn
<1>3. CallInv
  BY DEF Init, CallInv, AtInner, Header, EmptyHeader
<1> QED
  BY <1>2, <1>3

LEMMA BackedAlways == Spec => []BackedInv
<1>1. Init => BackedInv
  BY InitBacked
<1>2. BackedInv /\ [Next]_vars => BackedInv'
  <2> SUFFICES ASSUME BackedInv, [Next]_vars PROVE BackedInv'
    OBVIOUS
  <2>1. DataInv' /\ CallInv'
    BY DataStep, CallStep
  <2>2. (DataInv /\ CallInv => BackedInv)'
    BY InvParts DEF BackedInv, TypeOK, DataInv, CallInv, BoxesIn
  <2> QED
    BY <2>1, <2>2
<1> QED
  BY <1>1, <1>2, PTL DEF Spec

(* The index, its file and the operation in progress keep their types,     *)
(* whatever is inserted, refused, closed or lost.                          *)
THEOREM TypeCorrect == Spec => []TypeOK
<1>1. BackedInv => TypeOK
  BY DEF BackedInv
<1> QED
  BY <1>1, BackedAlways, PTL

(* A cell never counts segments that its current page does not hold, in    *)
(* memory or in the file, also when the process dies between two steps.    *)
THEOREM CountsStayBacked == Spec => []CountsBacked
<1>1. BackedInv => CountsBacked
  BY DEF BackedInv
<1> QED
  BY <1>1, BackedAlways, PTL
-----------------------------------------------------------------------------
(***************************************************************************)
(* As long as no process dies and no search window misses the area, no     *)
(* page of a SETI index is written past its capacity, and setifilter finds *)
(* every piece on the pages that are closed.  As long as no process dies   *)
(* every saved segment is reached from its cells.                          *)
(***************************************************************************)

(* The count of a cell is the count of its current page, no page is the    *)
(* current one of two cells, and the file agrees with the memory whenever  *)
(* the index may be closed.                                                *)
CountsExact ==
  \A c \in Cell : currentPage[c] # 0 => numEntries[c] = Len(pages[currentPage[c]].segs)

PagesDistinct ==
  \A c, d \in Cell : currentPage[c] # 0 /\ currentPage[c] = currentPage[d] => c = d

FileCurrent ==
  /\ pc = "idle" => fNumEntries = numEntries /\ fCurrentPage = currentPage
  /\ sem => pc \in {"fline", "cells"}

CapacityInv ==
  BackedInv /\ PageCapacity /\ CountsExact /\ PagesDistinct /\ FileCurrent

(* The two ways a round of the loop goes, seen from the counts.            *)
NewPage(c) ==
  /\ PageFull(c)
  /\ Len(pages') = Len(pages) + 1
  /\ Len(pages'[Len(pages) + 1].segs) = 1
  /\ \A i \in 1 .. Len(pages) : pages'[i] = pages[i]
  /\ currentPage' = [currentPage EXCEPT ![c] = Len(pages) + 1]
  /\ numEntries' = [numEntries EXCEPT ![c] = 1]

SamePage(c) ==
  /\ ~PageFull(c)
  /\ currentPage[c] \in 1 .. Len(pages)
  /\ Len(pages') = Len(pages)
  /\ \A i \in 1 .. Len(pages) :
       Len(pages'[i].segs) = IF i = currentPage[c] THEN Len(pages[i].segs) + 1
                             ELSE Len(pages[i].segs)
  /\ currentPage' = currentPage
  /\ numEntries' = [numEntries EXCEPT ![c] = numEntries[c] + 1]

LEMMA PieceEffect ==
  ASSUME BackedInv, InsertPiece
  PROVE  \E c \in Cell : NewPage(c) \/ SamePage(c)
<1> DEFINE c == CellOf(seg.at, seg.to)
           piece == [mo |-> seg.mo, id |-> header.numEntries, start |-> seg.start,
                     end |-> seg.end, from |-> seg.at,
                     to |-> PieceEnd(seg.at, seg.to)]
           fresh == [start |-> seg.start, end |-> seg.end, segs |-> <<piece>>]
           old == currentPage[c]
           n == Len(pages)
<1>1. pc = "piece" /\ TypeOK /\ CountsBacked /\ AtInner
  BY DEF InsertPiece, BackedInv
<1>2. c \in Cell /\ piece \in TrjSeg
  BY <1>1, PieceType
<1>3. fresh \in Page /\ Len(fresh.segs) = 1
  BY <1>1, <1>2 DEF TypeOK, Page, Segment
<1>4. /\ pages \in Seq(Page) /\ n \in Nat
      /\ numEntries \in [Cell -> Nat] /\ currentPage \in [Cell -> 0 .. n]
      /\ old \in 0 .. n /\ numEntries[c] \in Nat
      /\ old = 0 => numEntries[c] = 0
  BY <1>1, <1>2 DEF TypeOK, CountsBacked
<1>5. CASE PageFull(c)
  <2>1. /\ pages' = Append(pages, fresh)
        /\ currentPage' = [currentPage EXCEPT ![c] = n + 1]
        /\ numEntries' = [numEntries EXCEPT ![c] =
                             IF old = 0 THEN numEntries[c] + 1 ELSE 1]
    BY <1>5 DEF InsertPiece
  <2>2. (IF old = 0 THEN numEntries[c] + 1 ELSE 1) = 1
    BY <1>4
  <2>3. NewPage(c)
    <3> HIDE DEF c, fresh, old
    <3>1. /\ Len(pages') = n + 1 /\ pages'[n + 1] = fresh
          /\ \A i \in 1 .. n : pages'[i] = pages[i]
      BY <2>1, <1>3, <1>4
    <3> QED
      BY <3>1, <2>1, <2>2, <1>3, <1>5 DEF NewPage
  <2> QED
    BY <2>3, <1>2
<1>6. CASE ~PageFull(c)
  <2>1. /\ pages' = [pages EXCEPT ![old] = WithPiece(pages[old], piece)]
        /\ numEntries' = [numEntries EXCEPT ![c] = numEntries[c] + 1]
        /\ currentPage' = currentPage
    BY <1>6 DEF InsertPiece
  <2>2. old \in 1 .. n
    BY <1>4, <1>6, SETIAssumption DEF PageFull
  <2>3. Len(WithPiece(pages[old], piece).segs) = Len(pages[old].segs) + 1
    <3>1. pages[old] \in Page
      BY <2>2, <1>4
    <3> QED
      BY <3>1, <1>2, PageWithPiece
  <2>4. SamePage(c)
    <3>1. /\ Len(pages') = n /\ pages'[old] = WithPiece(pages[old], piece)
          /\ \A i \in 1 .. n : i # old => pages'[i] = pages[i]
      <4> HIDE DEF c, piece, old
      <4> QED
        BY <2>1, <2>2, <1>4
    <3> HIDE DEF c, piece
    <3> QED
      BY <3>1, <2>1, <2>2, <2>3, <1>6 DEF SamePage
  <2> QED
    BY <2>4, <1>2
<1> QED
  BY <1>5, <1>6

LEMMA LenNat ==
  ASSUME TypeOK, NEW i \in 1 .. Len(pages)
  PROVE  Len(pages[i].segs) \in Nat
<1>1. pages[i] \in Page
  BY DEF TypeOK
<1>2. pages[i].segs \in Seq(TrjSeg)
  BY <1>1 DEF Page
<1> QED
  BY <1>2

(* A new page is filled to one segment; a page that is not full has room   *)
(* for one more, and belongs to one cell only.                             *)
LEMMA PieceCapacity ==
  ASSUME CapacityInv, InsertPiece
  PROVE  PageCapacity' /\ CountsExact' /\ PagesDistinct'
<1>1. PICK c \in Cell : NewPage(c) \/ SamePage(c)
  BY PieceEffect DEF CapacityInv
<1>2. /\ numEntries \in [Cell -> Nat] /\ currentPage \in [Cell -> 0 .. Len(pages)]
      /\ Len(pages) \in Nat
      /\ \A i \in 1 .. Len(pages) : Len(pages[i].segs) \in 0 .. MaxTrjSeg
      /\ MaxTrjSeg \in Nat \ {0}
  <2>1. TypeOK /\ PageCapacity
    BY DEF CapacityInv, BackedInv
  <2>2. pages \in Seq(Page) /\ Len(pages) \in Nat /\ DOMAIN pages = 1 .. Len(pages)
    BY <2>1 DEF TypeOK
  <2>3. \A i \in 1 .. Len(pages) : Len(pages[i].segs) \in 0 .. MaxTrjSeg
    BY <2>1, <2>2, LenNat, SETIAssumption DEF PageCapacity
  <2> QED
    BY <2>1, <2>2, <2>3, SETIAssumption DEF TypeOK
<1>3. CountsExact /\ PagesDistinct
  BY DEF CapacityInv
<1>4. DOMAIN pages' = 1 .. Len(pages')
  <2>1. pages' \in Seq(Page)
    BY PieceWritten DEF CapacityInv
  <2> QED
    BY <2>1
<1>5. CASE NewPage(c)
  <2>1. ASSUME NEW i \in 1 .. Len(pages') PROVE Len(pages'[i].segs) <= MaxTrjSeg
    <3>1. i \in 1 .. Len(pages) \/ i = Len(pages) + 1
      BY <1>2, <1>5 DEF NewPage
    <3>2. CASE i \in 1 .. Len(pages)
      <4>1. pages'[i] = pages[i]
        BY <3>2, <1>5 DEF NewPage
      <4>2. Len(pages[i].segs) <= MaxTrjSeg
        BY <3>2, <1>2
      <4> QED
        BY <4>1, <4>2
    <3>3. CASE i = Len(pages) + 1
      BY <3>3, <1>2, <1>5 DEF NewPage
    <3> QED
      BY <3>1, <3>2, <3>3
  <2>2. \A d \in Cell : /\ currentPage'[d] = IF d = c THEN Len(pages) + 1 ELSE currentPage[d]
                        /\ numEntries'[d] = IF d = c THEN 1 ELSE numEntries[d]
    BY <1>2, <1>5 DEF NewPage
  <2>3. CountsExact'
    <3> SUFFICES ASSUME NEW d \in Cell, currentPage'[d] # 0
                 PROVE  numEntries'[d] = Len(pages'[currentPage'[d]].segs)
      BY DEF CountsExact
    <3>1. CASE d = c
      BY <3>1, <2>2, <1>5 DEF NewPage
    <3>2. CASE d # c
      <4>1. currentPage[d] \in 1 .. Len(pages) /\ currentPage'[d] = currentPage[d]
        BY <3>2, <2>2, <1>2
      <4>2. pages'[currentPage[d]] = pages[currentPage[d]]
        BY <4>1, <1>5 DEF NewPage
      <4>3. numEntries[d] = Len(pages[currentPage[d]].segs)
        BY <4>1, <1>2, <1>3 DEF CountsExact
      <4> QED
        BY <4>1, <4>2, <4>3, <3>2, <2>2
    <3> QED
      BY <3>1, <3>2
  <2>4. PagesDistinct'
    BY <2>2, <1>2, <1>3 DEF PagesDistinct
  <2> QED
    BY <2>1, <2>3, <2>4, <1>4 DEF PageCapacity
<1>6. CASE SamePage(c)
  <2>1. numEntries[c] = Len(pages[currentPage[c]].segs) /\ numEntries[c] < MaxTrjSeg
    <3>1. numEntries[c] = Len(pages[currentPage[c]].segs)
      BY <1>2, <1>3, <1>6 DEF SamePage, CountsExact
    <3>2. numEntries[c] \in 0 .. MaxTrjSeg
      BY <3>1, <1>2, <1>6 DEF SamePage
    <3>3. numEntries[c] # MaxTrjSeg
      <4>1. MaxTrjSeg % MaxTrjSeg = 0
        BY <1>2
      <4> QED
        BY <4>1, <1>6 DEF SamePage, PageFull
    <3> QED
      BY <3>1, <3>2, <3>3, <1>2
  <2>2. \A i \in 1 .. Len(pages') : Len(pages'[i].segs) <= MaxTrjSeg
    BY <2>1, <1>2, <1>6, SMTT(60) DEF SamePage
  <2>3. CountsExact'
    <3> SUFFICES ASSUME NEW d \in Cell, currentPage'[d] # 0
                 PROVE  numEntries'[d] = Len(pages'[currentPage'[d]].segs)
      BY DEF CountsExact
    <3>1. currentPage'[d] = currentPage[d] /\ currentPage[d] \in 1 .. Len(pages)
      BY <1>2, <1>6 DEF SamePage
    <3>2. numEntries[d] = Len(pages[currentPage[d]].segs)
      BY <3>1, <1>2, <1>3 DEF CountsExact
    <3>3. currentPage[d] = currentPage[c] <=> d = c
      BY <3>1, <1>2, <1>3 DEF PagesDistinct
    <3>4. numEntries'[d] = IF d = c THEN numEntries[c] + 1 ELSE numEntries[d]
      BY <1>2, <1>6 DEF SamePage
    <3>5. Len(pages'[currentPage[d]].segs) =
            IF d = c THEN Len(pages[currentPage[d]].segs) + 1
            ELSE Len(pages[currentPage[d]].segs)
      BY <3>1, <3>3, <1>6 DEF SamePage
    <3> QED
      BY <3>1, <3>2, <3>4, <3>5
  <2>4. PagesDistinct'
    BY <1>3, <1>6 DEF SamePage, PagesDistinct
  <2> QED
    BY <2>2, <2>3, <2>4, <1>4 DEF PageCapacity
<1> QED
  BY <1>1, <1>5, <1>6

(* The file is written before the index is idle again: no update is        *)
(* refused, as the semaphore is free whenever none is in progress.         *)
LEMMA CapacityStep ==
  ASSUME ~Crashes, ~OutsideWindows, CapacityInv, [Next]_vars
  PROVE  CapacityInv'
<1>0. /\ BackedInv /\ PageCapacity /\ CountsExact /\ PagesDistinct /\ FileCurrent
      /\ TypeOK
  BY DEF CapacityInv, BackedInv
<1>1. BackedInv'
  <2>1. DataInv' /\ CallInv'
    BY <1>0, DataStep, CallStep
  <2>2. (DataInv /\ CallInv => BackedInv)'
    BY InvParts DEF BackedInv, TypeOK, DataInv, CallInv, BoxesIn
  <2> QED
    BY <2>1, <2>2
<1> USE DEF CapacityInv
<1>2. ASSUME UNCHANGED <<numEntries, currentPage, pages>>
      PROVE  PageCapacity' /\ CountsExact' /\ PagesDistinct'
  BY <1>0, <1>2 DEF PageCapacity, CountsExact, PagesDistinct
<1>3. ASSUME NEW o \in {"insertUpload", "insertStream"}, NEW m \in MO,
             NEW t \in Time, NEW x \in Pos \cup {OutOfArea},
             InsertRejected(o, m, t, x) \/ InsertFirst(o, m, t, x)
               \/ InsertNext(o, m, t, x)
      PROVE  CapacityInv'
  <2>1. UNCHANGED <<numEntries, currentPage, pages>> /\ UNCHANGED sem
    BY <1>3 DEF InsertRejected, InsertFirst, InsertNext, memory, data
  <2>2. pc \in {"idle", "next"} /\ pc' # "idle"
    BY <1>3 DEF InsertRejected, InsertFirst, InsertNext, Receives, Counted,
                Handled, AfterInsert
  <2>3. FileCurrent'
    BY <2>1, <2>2, <1>0 DEF FileCurrent
  <2> QED
    BY <2>1, <2>3, <1>1, <1>2
<1>4. CASE InsertPiece
  <2>1. FileCurrent'
    <3>1. pc = "piece" /\ pc' # "idle" /\ UNCHANGED sem
      BY <1>4 DEF InsertPiece, Counted, Handled, AfterInsert
    <3> QED
      BY <3>1, <1>0 DEF FileCurrent
  <2> QED
    BY <2>1, <1>1, <1>4, PieceCapacity
<1>5. CASE InsertStreamOpen \/ InsertStreamEnd
  BY <1>5, <1>0, <1>1, <1>2 DEF InsertStreamOpen, InsertStreamEnd, FileCurrent, memory,
     file, data
<1>6. CASE UpdateRefused
  BY <1>6, <1>0 DEF UpdateRefused, FileCurrent
<1>7. CASE UpdateHeader \/ UpdateFLine
  BY <1>7, <1>0, <1>1, <1>2 DEF UpdateHeader, UpdateFLine, FileCurrent, memory, data
<1>8. CASE UpdateCells
  BY <1>8, <1>0, <1>1, <1>2 DEF UpdateCells, FileCurrent, memory, data
<1>9. CASE CloseAndOpen \/ Crash
  BY <1>9, <1>0, <1>1, <1>2 DEF CloseAndOpen, Crash, ReadSETI, FileCurrent, file
<1>10. CASE SearchOutside \/ UNCHANGED vars
  BY <1>10, <1>0, <1>1, <1>2 DEF SearchOutside, FileCurrent, vars, memory, file, data, call
<1> QED
  BY <1>3, <1>4, <1>5, <1>6, <1>7, <1>8, <1>9, <1>10 DEF Next

LEMMA InitCapacity == Init => CapacityInv
<1> SUFFICES ASSUME Init PROVE CapacityInv
  OBVIOUS
<1>1. BackedInv
  BY InitBacked
<1>2. DOMAIN pages = {} /\ pc = "idle" /\ ~sem
  BY DEF Init
<1>3. PageCapacity /\ CountsExact /\ PagesDistinct /\ FileCurrent
  BY <1>2 DEF Init, PageCapacity, CountsExact, PagesDistinct, FileCurrent
<1> QED
  BY <1>1, <1>3 DEF CapacityInv

(* No page is ever written past its capacity, for any number of cells,     *)
(* uploads and pages, when no process dies and every window meets the      *)
(* area.  After a crash one may be: the count of a cell lags behind.       *)
THEOREM PagesWithinCapacity ==
  ASSUME ~Crashes, ~OutsideWindows
  PROVE  Spec => []PageCapacity
<1>1. Init => CapacityInv
  BY InitCapacity
<1>2. CapacityInv /\ [Next]_vars => CapacityInv'
  BY CapacityStep
<1>3. CapacityInv => PageCapacity
  BY DEF CapacityInv
<1> QED
  BY <1>1, <1>2, <1>3, PTL DEF Spec
-----------------------------------------------------------------------------
(***************************************************************************)
(* Under the same conditions a search in the R-trees of the cells misses   *)
(* only what is on their current pages.                                    *)
(***************************************************************************)

(* The pieces on a page.                                                   *)
On(i) == ToSet(pages[i].segs)

(* The interval of a page covers its pieces.                               *)
Covered ==
  \A i \in 1 .. Len(pages) : \A q \in On(i) :
    pages[i].start <= q.start /\ q.end <= pages[i].end

(* A page that is not the current one of a cell is in an R-tree with its   *)
(* interval.                                                               *)
Entered ==
  \A i \in 1 .. Len(pages) :
    \/ \E c \in Cell : currentPage[c] = i
    \/ \E c \in Cell : [page |-> i, start |-> pages[i].start, end |-> pages[i].end] \in rtree[c]

(* What object m has moved before instant t: its segments end at its last  *)
(* upload at the latest, and before the segment that is being inserted.    *)
Before(s) ==
  /\ frontline[s.mo] # None
  /\ s.start < s.end /\ s.end <= frontline[s.mo].time

(* So an object and the start of a segment tell its end.                   *)
PiecesKeyed ==
  \A i \in 1 .. Len(pages) : \A q \in On(i) :
    /\ Before(q)
    /\ pc = "piece" /\ q.mo = seg.mo =>
         q.end <= seg.start \/ (q.start = seg.start /\ q.end = seg.end)
    /\ \A s \in accepted : q.mo = s.mo /\ q.start = s.start => q.end = s.end

AcceptedKeyed ==
  \A s \in accepted :
    /\ s.mo \in MO /\ s.start \in Nat /\ s.end \in Nat
    /\ Before(s)
    /\ pc = "piece" /\ s.mo = seg.mo => s.end <= seg.start

SegmentLast ==
  pc = "piece" => frontline[seg.mo] # None /\ frontline[seg.mo].time = seg.end

(* An index that is closed when idle loses nothing.                        *)
NothingUnsaved ==
  /\ pc \in {"idle", "cells"} => fFrontline = frontline
  /\ pc = "idle" => saved = accepted

FilterInv ==
  /\ Covered /\ Entered
  /\ PiecesKeyed /\ AcceptedKeyed /\ SegmentLast
  /\ NothingUnsaved

LEMMA OnAppended ==
  ASSUME NEW segs \in Seq(TrjSeg), NEW q \in TrjSeg
  PROVE  ToSet(Append(segs, q)) = ToSet(segs) \cup {q}
<1>1. Append(segs, q) \in Seq(TrjSeg) /\ DOMAIN Append(segs, q) = 1 .. Len(segs) + 1
      /\ DOMAIN segs = 1 .. Len(segs) /\ Len(segs) \in Nat
  OBVIOUS
<1>2. \A k \in 1 .. Len(segs) : Append(segs, q)[k] = segs[k]
  OBVIOUS
<1>3. Append(segs, q)[Len(segs) + 1] = q
  OBVIOUS
<1> QED
  BY <1>1, <1>2, <1>3 DEF ToSet

(* A round of the loop, seen from the pieces: a new page with one piece,   *)
(* the full one entered, or one more piece on the current page.            *)
Opens(c, q) ==
  /\ currentPage' = [currentPage EXCEPT ![c] = Len(pages) + 1]
  /\ Len(pages') = Len(pages) + 1
  /\ pages'[Len(pages) + 1].start = seg.start /\ pages'[Len(pages) + 1].end = seg.end
  /\ ToSet(pages'[Len(pages) + 1].segs) = {q}
  /\ \A i \in 1 .. Len(pages) : pages'[i] = pages[i]
  /\ rtree' = IF currentPage[c] = 0 THEN rtree
              ELSE [rtree EXCEPT ![c] = rtree[c] \cup
                      {[page |-> currentPage[c], start |-> pages[currentPage[c]].start,
                        end |-> pages[currentPage[c]].end]}]

Extends(c, q) ==
  /\ currentPage' = currentPage /\ rtree' = rtree
  /\ currentPage[c] \in 1 .. Len(pages)
  /\ Len(pages') = Len(pages)
  /\ \A i \in 1 .. Len(pages) : i # currentPage[c] => pages'[i] = pages[i]
  /\ ToSet(pages'[currentPage[c]].segs) = On(currentPage[c]) \cup {q}
  /\ pages'[currentPage[c]].start =
       IF q.start < pages[currentPage[c]].start THEN q.start ELSE pages[currentPage[c]].start
  /\ pages'[currentPage[c]].end =
       IF q.end > pages[currentPage[c]].end THEN q.end ELSE pages[currentPage[c]].end

OfSegment(q) == q \in TrjSeg /\ q.mo = seg.mo /\ q.start = seg.start /\ q.end = seg.end

LEMMA PieceSeen ==
  ASSUME BackedInv, InsertPiece
  PROVE  \E c \in Cell, q \in TrjSeg :
           c = CellOf(seg.at, seg.to) /\ OfSegment(q) /\ (Opens(c, q) \/ Extends(c, q))
<1> DEFINE c == CellOf(seg.at, seg.to)
           piece == [mo |-> seg.mo, id |-> header.numEntries, start |-> seg.start,
                     end |-> seg.end, from |-> seg.at,
                     to |-> PieceEnd(seg.at, seg.to)]
           fresh == [start |-> seg.start, end |-> seg.end, segs |-> <<piece>>]
           old == currentPage[c]
           n == Len(pages)
<1>1. pc = "piece" /\ TypeOK /\ CountsBacked /\ AtInner
  BY DEF InsertPiece, BackedInv
<1>2. c \in Cell /\ piece \in TrjSeg
  BY <1>1, PieceType
<1>3. OfSegment(piece)
  BY <1>2 DEF OfSegment
<1>4. /\ pages \in Seq(Page) /\ n \in Nat
      /\ numEntries \in [Cell -> Nat] /\ currentPage \in [Cell -> 0 .. n]
      /\ old \in 0 .. n /\ numEntries[c] \in Nat
      /\ old = 0 => numEntries[c] = 0
  BY <1>1, <1>2 DEF TypeOK, CountsBacked
<1>5. CASE PageFull(c)
  <2>1. /\ pages' = Append(pages, fresh)
        /\ currentPage' = [currentPage EXCEPT ![c] = n + 1]
        /\ rtree' = IF old = 0 THEN rtree
                    ELSE [rtree EXCEPT ![c] = rtree[c] \cup
                            {[page |-> old, start |-> pages[old].start,
                              end |-> pages[old].end]}]
    BY <1>5 DEF InsertPiece
  <2>2. fresh \in Page
    BY <1>1, <1>2 DEF TypeOK, Page, Segment
  <2>3. /\ Len(pages') = n + 1 /\ pages'[n + 1] = fresh
        /\ \A i \in 1 .. n : pages'[i] = pages[i]
    <3> HIDE DEF fresh
    <3> QED
      BY <2>1, <2>2, <1>4
  <2>4. ToSet(pages'[n + 1].segs) = {piece}
    <3>1. ToSet(<<piece>>) = {piece}
      BY DEF ToSet
    <3> QED
      BY <2>3, <3>1
  <2>5. Opens(c, piece)
    <3> HIDE DEF c, piece
    <3> QED
      BY <2>1, <2>3, <2>4 DEF Opens
  <2> QED
    BY <2>5, <1>2, <1>3
<1>6. CASE ~PageFull(c)
  <2>1. /\ pages' = [pages EXCEPT ![old] = WithPiece(pages[old], piece)]
        /\ currentPage' = currentPage /\ rtree' = rtree
    BY <1>6 DEF InsertPiece
  <2>2. old \in 1 .. n
    BY <1>4, <1>6, SETIAssumption DEF PageFull
  <2>3. pages[old].segs \in Seq(TrjSeg)
    <3>1. pages[old] \in Page
      BY <2>2, <1>4
    <3> QED
      BY <3>1 DEF Page
  <2>4. /\ Len(pages') = n /\ pages'[old] = WithPiece(pages[old], piece)
        /\ \A i \in 1 .. n : i # old => pages'[i] = pages[i]
    <3> HIDE DEF c, piece, old
    <3> QED
      BY <2>1, <2>2, <1>4
  <2>5. ToSet(pages'[old].segs) = ToSet(pages[old].segs) \cup {piece}
    <3> HIDE DEF c, piece, old
    <3> QED
      BY <2>3, <2>4, <1>2, OnAppended DEF WithPiece
  <2>6. Extends(c, piece)
    <3> HIDE DEF c, piece
    <3> QED
      BY <2>1, <2>2, <2>4, <2>5 DEF Extends, WithPiece, On
  <2> QED
    BY <2>6, <1>2, <1>3
<1> QED
  BY <1>5, <1>6

(* The interval of the page is extended to the new piece.                  *)
LEMMA PieceCovered ==
  ASSUME BackedInv, Covered, InsertPiece
  PROVE  Covered'
<1>1. PICK c \in Cell, q \in TrjSeg : OfSegment(q) /\ (Opens(c, q) \/ Extends(c, q))
  BY PieceSeen
<1>2. /\ currentPage \in [Cell -> 0 .. Len(pages)] /\ Len(pages) \in Nat
      /\ rtree \in [Cell -> BoxesIn(Len(pages))]
      /\ \A i \in 1 .. Len(pages) : pages[i].start \in Nat /\ pages[i].end \in Nat
      /\ q.start \in Nat /\ q.end \in Nat
  <2>1. TypeOK
    BY DEF BackedInv
  <2>2. /\ Len(pages) \in Nat /\ currentPage \in [Cell -> 0 .. Len(pages)]
        /\ rtree \in [Cell -> BoxesIn(Len(pages))]
        /\ \A i \in 1 .. Len(pages) : pages[i] \in Page
    BY <2>1 DEF TypeOK, BoxesIn
  <2>3. \A i \in 1 .. Len(pages) : pages[i].start \in Nat /\ pages[i].end \in Nat
    BY <2>2, SETIAssumption DEF Page
  <2>4. q.start \in Nat /\ q.end \in Nat
    BY <1>1, SETIAssumption DEF OfSegment, TrjSeg
  <2> QED
    BY <2>2, <2>3, <2>4
<1>3. CASE Opens(c, q)
  <2>1. ASSUME NEW i \in 1 .. Len(pages'), NEW p \in ToSet(pages'[i].segs)
        PROVE  pages'[i].start <= p.start /\ p.end <= pages'[i].end
    <3>1. CASE i = Len(pages) + 1
      BY <3>1, <2>1, <1>1, <1>2, <1>3 DEF Opens, OfSegment
    <3>2. CASE i # Len(pages) + 1
      <4>1. i \in 1 .. Len(pages) /\ pages'[i] = pages[i]
        BY <3>2, <1>2, <1>3 DEF Opens
      <4> QED
        BY <4>1, <2>1 DEF Covered, On
    <3> QED
      BY <3>1, <3>2
  <2> QED
    BY <2>1 DEF Covered, On
<1>4. CASE Extends(c, q)
  <2>1. ASSUME NEW i \in 1 .. Len(pages'), NEW p \in ToSet(pages'[i].segs)
        PROVE  pages'[i].start <= p.start /\ p.end <= pages'[i].end
    <3>1. CASE i = currentPage[c]
      <4>1. p = q \/ p \in On(i)
        BY <3>1, <2>1, <1>4 DEF Extends
      <4>2. CASE p = q
        BY <4>2, <3>1, <1>2, <1>4 DEF Extends
      <4>3. CASE p \in On(i)
        <5>1. pages[i].start <= p.start /\ p.end <= pages[i].end /\ p \in TrjSeg
          <6>1. pages[i] \in Page
            BY <3>1, <1>4 DEF Extends, BackedInv, TypeOK
          <6>2. p \in TrjSeg
            BY <4>3, <6>1 DEF On, ToSet, Page
          <6> QED
            BY <6>2, <3>1, <4>3, <1>4 DEF Covered, Extends
        <5>2. p.start \in Nat /\ p.end \in Nat
          BY <5>1, SETIAssumption DEF TrjSeg
        <5> QED
          BY <5>1, <5>2, <3>1, <1>2, <1>4 DEF Extends
      <4> QED
        BY <4>1, <4>2, <4>3
    <3>2. CASE i # currentPage[c]
      BY <3>2, <2>1, <1>4 DEF Extends, Covered, On
    <3> QED
      BY <3>1, <3>2
  <2> QED
    BY <2>1 DEF Covered, On
<1> QED
  BY <1>1, <1>3, <1>4

(* The page that is entered in the R-tree is the one that was the current  *)
(* one of the cell, and of no other.                                       *)
LEMMA PieceEntered ==
  ASSUME BackedInv, PagesDistinct, Entered, InsertPiece
  PROVE  Entered'
<1>1. PICK c \in Cell, q \in TrjSeg : OfSegment(q) /\ (Opens(c, q) \/ Extends(c, q))
  BY PieceSeen
<1>2. /\ currentPage \in [Cell -> 0 .. Len(pages)] /\ Len(pages) \in Nat
      /\ rtree \in [Cell -> BoxesIn(Len(pages))]
      /\ \A i \in 1 .. Len(pages) : pages[i].start \in Nat /\ pages[i].end \in Nat
      /\ q.start \in Nat /\ q.end \in Nat
  <2>1. TypeOK
    BY DEF BackedInv
  <2>2. /\ Len(pages) \in Nat /\ currentPage \in [Cell -> 0 .. Len(pages)]
        /\ rtree \in [Cell -> BoxesIn(Len(pages))]
        /\ \A i \in 1 .. Len(pages) : pages[i] \in Page
    BY <2>1 DEF TypeOK, BoxesIn
  <2>3. \A i \in 1 .. Len(pages) : pages[i].start \in Nat /\ pages[i].end \in Nat
    BY <2>2, SETIAssumption DEF Page
  <2>4. q.start \in Nat /\ q.end \in Nat
    BY <1>1, SETIAssumption DEF OfSegment, TrjSeg
  <2> QED
    BY <2>2, <2>3, <2>4
<1>3. CASE Opens(c, q)
  <2>1. ASSUME NEW i \in 1 .. Len(pages')
        PROVE  \/ \E d \in Cell : currentPage'[d] = i
               \/ \E d \in Cell : [page |-> i, start |-> pages'[i].start,
                                    end |-> pages'[i].end] \in rtree'[d]
    <3>1. CASE i = Len(pages) + 1
      BY <3>1, <1>2, <1>3 DEF Opens
    <3>2. CASE i # Len(pages) + 1
      <4>1. i \in 1 .. Len(pages) /\ pages'[i] = pages[i]
        BY <3>2, <1>2, <1>3 DEF Opens
      <4>2. \A d \in Cell : rtree[d] \subseteq rtree'[d]
        BY <1>2, <1>3 DEF Opens
      <4>3. CASE currentPage[c] = i
        <5>1. [page |-> i, start |-> pages[i].start, end |-> pages[i].end] \in rtree'[c]
          BY <4>1, <4>3, <1>2, <1>3 DEF Opens
        <5> QED
          BY <5>1, <4>1
      <4>4. ASSUME NEW d \in Cell, d # c, currentPage[d] = i PROVE currentPage'[d] = i
        BY <4>4, <1>2, <1>3 DEF Opens
      <4> QED
        BY <4>1, <4>2, <4>3, <4>4 DEF Entered
    <3> QED
      BY <3>1, <3>2
  <2> QED
    BY <2>1 DEF Entered
<1>4. CASE Extends(c, q)
  <2>1. ASSUME NEW i \in 1 .. Len(pages')
        PROVE  \/ \E d \in Cell : currentPage'[d] = i
               \/ \E d \in Cell : [page |-> i, start |-> pages'[i].start,
                                    end |-> pages'[i].end] \in rtree'[d]
    <3>1. CASE i = currentPage[c]
      BY <3>1, <1>4 DEF Extends
    <3>2. CASE i # currentPage[c]
      BY <3>2, <1>4 DEF Extends, Entered
    <3> QED
      BY <3>1, <3>2
  <2> QED
    BY <2>1 DEF Entered
<1> QED
  BY <1>1, <1>3, <1>4

(* What a piece of the segment at hand adds.                               *)
LEMMA PieceKeyed ==
  ASSUME BackedInv, PiecesKeyed, AcceptedKeyed, SegmentLast, InsertPiece
  PROVE  PiecesKeyed' /\ AcceptedKeyed' /\ SegmentLast'
<1>1. PICK c \in Cell, q \in TrjSeg : OfSegment(q) /\ (Opens(c, q) \/ Extends(c, q))
  BY PieceSeen
<1>2. pc = "piece" /\ TypeOK
  BY DEF InsertPiece, BackedInv
<1>3. /\ seg.mo \in MO /\ seg.start \in Nat /\ seg.end \in Nat /\ seg.start < seg.end
      /\ Len(pages) \in Nat /\ currentPage \in [Cell -> 0 .. Len(pages)]
  <2>1. seg \in Segment /\ seg.start < seg.end /\ pages \in Seq(Page)
        /\ currentPage \in [Cell -> 0 .. Len(pages)]
    BY <1>2 DEF TypeOK
  <2>2. Len(pages) \in Nat
    BY <2>1
  <2> QED
    BY <2>1, <2>2, SETIAssumption DEF Segment
<1>4. frontline' = frontline
  BY DEF InsertPiece
<1>5. \/ /\ pc' = "piece" /\ accepted' = accepted
         /\ seg'.mo = seg.mo /\ seg'.start = seg.start /\ seg'.end = seg.end
      \/ /\ pc' # "piece"
         /\ accepted' = accepted \cup
               {[mo |-> seg.mo, start |-> seg.start, end |-> seg.end,
                 from |-> seg.from, to |-> seg.to]}
  <2>1. CASE PieceEnd(seg.at, seg.to) = seg.to
    BY <2>1 DEF InsertPiece, Counted, Handled, AfterInsert
  <2>2. CASE PieceEnd(seg.at, seg.to) # seg.to
    <3>1. seg' = [seg EXCEPT !.at = PieceEnd(seg.at, seg.to)] /\ UNCHANGED <<pc, accepted>>
      BY <2>2 DEF InsertPiece
    <3> QED
      BY <3>1, <1>2 DEF TypeOK, Segment
  <2> QED
    BY <2>1, <2>2
<1>6. \A i \in 1 .. Len(pages') : \A p \in ToSet(pages'[i].segs) :
        p = q \/ (i \in 1 .. Len(pages) /\ p \in On(i))
  <2> SUFFICES ASSUME NEW i \in 1 .. Len(pages'), NEW p \in ToSet(pages'[i].segs)
               PROVE  p = q \/ (i \in 1 .. Len(pages) /\ p \in On(i))
    OBVIOUS
  <2>1. CASE Opens(c, q)
    <3>1. i \in 1 .. Len(pages) \/ i = Len(pages) + 1
      BY <2>1, <1>3 DEF Opens
    <3> QED
      BY <3>1, <2>1 DEF Opens, On
  <2>2. CASE Extends(c, q)
    BY <2>2 DEF Extends, On
  <2> QED
    BY <2>1, <2>2, <1>1
<1>7. frontline[seg.mo] # None /\ frontline[seg.mo].time = seg.end
  BY <1>2 DEF SegmentLast
<1>8. ASSUME NEW s \in accepted'
      PROVE  \/ s \in accepted
             \/ pc' # "piece" /\ s.mo = seg.mo /\ s.start = seg.start /\ s.end = seg.end
  BY <1>5
<1>9. AcceptedKeyed'
  <2> SUFFICES ASSUME NEW s \in accepted'
               PROVE  /\ s.mo \in MO /\ s.start \in Nat /\ s.end \in Nat
                      /\ Before(s)'
                      /\ pc' = "piece" /\ s.mo = seg'.mo => s.end <= seg'.start
    BY DEF AcceptedKeyed
  <2>1. CASE s \in accepted
    BY <2>1, <1>2, <1>4, <1>5 DEF AcceptedKeyed, Before
  <2>2. CASE pc' # "piece" /\ s.mo = seg.mo /\ s.start = seg.start /\ s.end = seg.end
    BY <2>2, <1>3, <1>4, <1>7 DEF Before
  <2> QED
    BY <2>1, <2>2, <1>8
<1>10. PiecesKeyed'
  <2> SUFFICES ASSUME NEW i \in 1 .. Len(pages'), NEW p \in ToSet(pages'[i].segs)
               PROVE  /\ Before(p)'
                      /\ pc' = "piece" /\ p.mo = seg'.mo =>
                           p.end <= seg'.start \/ (p.start = seg'.start /\ p.end = seg'.end)
                      /\ \A s \in accepted' : p.mo = s.mo /\ p.start = s.start => p.end = s.end
    BY DEF PiecesKeyed, On
  <2>1. CASE p = q
    <3>1. p.mo = seg.mo /\ p.start = seg.start /\ p.end = seg.end
      BY <2>1, <1>1 DEF OfSegment
    <3>2. ASSUME NEW s \in accepted, p.mo = s.mo, p.start = s.start PROVE FALSE
      BY <3>1, <3>2, <1>2, <1>3 DEF AcceptedKeyed, Before
    <3> QED
      BY <3>1, <3>2, <1>3, <1>4, <1>5, <1>7, <1>8 DEF Before
  <2>2. CASE i \in 1 .. Len(pages) /\ p \in On(i)
    <3>1. /\ Before(p)
          /\ p.mo = seg.mo =>
               p.end <= seg.start \/ (p.start = seg.start /\ p.end = seg.end)
          /\ \A s \in accepted : p.mo = s.mo /\ p.start = s.start => p.end = s.end
      BY <2>2, <1>2 DEF PiecesKeyed
    <3>2. p.start \in Nat /\ p.end \in Nat
      <4>1. pages[i] \in Page
        BY <2>2, <1>2 DEF TypeOK
      <4>2. p \in TrjSeg
        BY <2>2, <4>1 DEF On, ToSet, Page
      <4> QED
        BY <4>2, SETIAssumption DEF TrjSeg
    <3>3. ASSUME NEW s \in accepted', p.mo = s.mo, p.start = s.start PROVE p.end = s.end
      <4>1. CASE s \in accepted
        BY <4>1, <3>1, <3>3
      <4>2. CASE s.mo = seg.mo /\ s.start = seg.start /\ s.end = seg.end
        BY <4>2, <3>1, <3>2, <3>3, <1>3 DEF Before
      <4> QED
        BY <4>1, <4>2, <1>8
    <3> QED
      BY <3>1, <3>3, <1>4, <1>5 DEF Before
  <2> QED
    BY <2>1, <2>2, <1>6
<1>11. SegmentLast'
  BY <1>4, <1>5, <1>7 DEF SegmentLast
<1> QED
  BY <1>9, <1>10, <1>11

(* The first upload of an object, or a further one, whose segment begins   *)
(* where the last one ended.                                               *)
LEMMA InsertKeyed ==
  ASSUME TypeOK, PiecesKeyed, AcceptedKeyed,
         NEW o, NEW m \in MO, NEW t \in Time, NEW x \in Pos \cup {OutOfArea},
         InsertFirst(o, m, t, x) \/ InsertNext(o, m, t, x)
  PROVE  PiecesKeyed' /\ AcceptedKeyed' /\ SegmentLast'
<1>1. /\ UNCHANGED <<pages, accepted>> /\ pc # "piece"
      /\ frontline \in [MO -> Upload \cup {None}]
      /\ frontline' = [frontline EXCEPT ![m] = [time |-> t, pos |-> x]]
  BY DEF InsertFirst, InsertNext, Receives, data, history, TypeOK
<1>2. \/ frontline[m] = None /\ pc' # "piece"
      \/ /\ frontline[m] # None /\ frontline[m].time < t /\ frontline[m].time \in Nat
         /\ pc' = "piece" /\ seg'.mo = m /\ seg'.start = frontline[m].time /\ seg'.end = t
  <2>1. CASE InsertFirst(o, m, t, x)
    BY <2>1 DEF InsertFirst, Counted, Handled, AfterInsert
  <2>2. CASE InsertNext(o, m, t, x)
    <3>1. frontline[m] \in Upload
      BY <2>2, <1>1 DEF InsertNext
    <3> QED
      BY <3>1, <2>2, SETIAssumption DEF InsertNext, Upload
  <2> QED
    BY <2>1, <2>2
<1>3. t \in Nat
  BY SETIAssumption
<1>4. frontline'[m] # None /\ frontline'[m].time = t
  <2>1. x \in Nat
    BY DEF InsertFirst, InsertNext, Pos, Coordinate
  <2>2. [time |-> t, pos |-> x] \in [time : Nat, pos : Nat]
    BY <2>1, <1>3
  <2>3. frontline'[m] = [time |-> t, pos |-> x]
    BY <1>1
  <2> QED
    BY <2>2, <2>3, SETIAssumption
<1>5. ASSUME NEW s, s.mo \in MO, s.start \in Nat, s.end \in Nat, Before(s)
      PROVE  /\ Before(s)'
             /\ pc' = "piece" /\ s.mo = seg'.mo => s.end <= seg'.start
  <2>1. CASE s.mo = m
    BY <2>1, <1>2, <1>3, <1>4, <1>5 DEF Before
  <2>2. CASE s.mo # m
    <3>1. frontline'[s.mo] = frontline[s.mo]
      BY <2>2, <1>1
    <3> QED
      BY <3>1, <2>2, <1>2, <1>5 DEF Before
  <2> QED
    BY <2>1, <2>2
<1>6. ASSUME NEW i \in 1 .. Len(pages), NEW q \in On(i)
      PROVE  q.mo \in MO /\ q.start \in Nat /\ q.end \in Nat
  <2>1. pages[i] \in Page
    BY DEF TypeOK
  <2>2. q \in TrjSeg
    BY <2>1 DEF On, ToSet, Page
  <2> QED
    BY <2>2, SETIAssumption DEF TrjSeg
<1>7. PiecesKeyed'
  <2> SUFFICES ASSUME NEW i \in 1 .. Len(pages), NEW q \in On(i)
               PROVE  /\ Before(q)'
                      /\ pc' = "piece" /\ q.mo = seg'.mo => q.end <= seg'.start
                      /\ \A s \in accepted : q.mo = s.mo /\ q.start = s.start => q.end = s.end
    BY <1>1 DEF PiecesKeyed, On
  <2>1. Before(q) /\ \A s \in accepted : q.mo = s.mo /\ q.start = s.start => q.end = s.end
    BY DEF PiecesKeyed
  <2> QED
    BY <2>1, <1>5, <1>6
<1>8. AcceptedKeyed'
  <2> SUFFICES ASSUME NEW s \in accepted
               PROVE  /\ s.mo \in MO /\ s.start \in Nat /\ s.end \in Nat
                      /\ Before(s)'
                      /\ pc' = "piece" /\ s.mo = seg'.mo => s.end <= seg'.start
    BY <1>1 DEF AcceptedKeyed
  <2>1. s.mo \in MO /\ s.start \in Nat /\ s.end \in Nat /\ Before(s)
    BY DEF AcceptedKeyed
  <2> QED
    BY <2>1, <1>5
<1>9. SegmentLast'
  BY <1>2, <1>4 DEF SegmentLast
<1> QED
  BY <1>7, <1>8, <1>9

LEMMA FilterStep ==
  ASSUME ~Crashes, ~OutsideWindows, CapacityInv, FilterInv, [Next]_vars
  PROVE  FilterInv'
<1>0. /\ BackedInv /\ TypeOK /\ PagesDistinct /\ FileCurrent
      /\ Covered /\ Entered /\ PiecesKeyed /\ AcceptedKeyed /\ SegmentLast /\ NothingUnsaved
  BY DEF CapacityInv, BackedInv, FilterInv
<1> USE DEF FilterInv
<1>1. ASSUME UNCHANGED <<pages, rtree, currentPage>> PROVE Covered' /\ Entered'
  BY <1>0, <1>1 DEF Covered, Entered, On
<1>2. ASSUME UNCHANGED <<pages, frontline, accepted>>, pc' # "piece"
      PROVE  PiecesKeyed' /\ AcceptedKeyed' /\ SegmentLast'
  BY <1>0, <1>2 DEF PiecesKeyed, AcceptedKeyed, SegmentLast, Before, On
<1>3. ASSUME NEW o \in {"insertUpload", "insertStream"}, NEW m \in MO,
             NEW t \in Time, NEW x \in Pos \cup {OutOfArea},
             InsertFirst(o, m, t, x) \/ InsertNext(o, m, t, x)
      PROVE  FilterInv'
  <2>1. UNCHANGED <<pages, rtree, currentPage>> /\ pc' \in {"lock", "next", "piece"}
    BY <1>3 DEF InsertFirst, InsertNext, Counted, Handled, AfterInsert, data
  <2>2. NothingUnsaved'
    BY <2>1 DEF NothingUnsaved
  <2> QED
    BY <2>1, <2>2, <1>0, <1>1, <1>3, InsertKeyed
<1>4. ASSUME NEW o \in {"insertUpload", "insertStream"}, NEW m \in MO,
             NEW t \in Time, NEW x \in Pos \cup {OutOfArea}, InsertRejected(o, m, t, x)
      PROVE  FilterInv'
  <2>1. UNCHANGED <<pages, rtree, currentPage, frontline, accepted>> /\ pc' \in {"lock", "next"}
    BY <1>4 DEF InsertRejected, Handled, AfterInsert, data, memory, history
  <2> QED
    BY <2>1, <1>1, <1>2 DEF NothingUnsaved
<1>5. CASE InsertPiece
  <2>1. pc' \in {"piece", "lock", "next"}
    BY <1>5 DEF InsertPiece, Counted, Handled, AfterInsert
  <2> QED
    BY <2>1, <1>0, <1>5, PieceCovered, PieceEntered, PieceKeyed DEF NothingUnsaved
<1>6. CASE InsertStreamOpen \/ InsertStreamEnd
  BY <1>6, <1>1, <1>2 DEF InsertStreamOpen, InsertStreamEnd, NothingUnsaved, memory, data,
     history
<1>7. CASE UpdateRefused
  BY <1>7, <1>0 DEF UpdateRefused, FileCurrent
<1>8. CASE UpdateHeader \/ UpdateFLine
  BY <1>8, <1>1, <1>2 DEF UpdateHeader, UpdateFLine, NothingUnsaved, memory, data, history
<1>9. CASE UpdateCells
  <2>1. UNCHANGED <<pages, rtree, currentPage, frontline, accepted>>
        /\ UNCHANGED fFrontline /\ saved' = accepted /\ pc = "cells"
    BY <1>9 DEF UpdateCells, data, memory
  <2>2. pc' \in {"idle", "lock", "next"}
    BY <1>9 DEF UpdateCells, Updated, Handled, AfterInsert
  <2> QED
    BY <2>1, <2>2, <1>0, <1>1, <1>2 DEF NothingUnsaved
<1>10. CASE CloseAndOpen
  <2>1. /\ pc = "idle" /\ pc' = "idle" /\ UNCHANGED <<pages, rtree, fFrontline, saved>>
        /\ frontline' = fFrontline /\ accepted' = saved /\ currentPage' = fCurrentPage
    BY <1>10 DEF CloseAndOpen, ReadSETI, file
  <2>2. frontline' = frontline /\ accepted' = accepted /\ currentPage' = currentPage
    BY <2>1, <1>0 DEF NothingUnsaved, FileCurrent
  <2> QED
    BY <2>1, <2>2, <1>1, <1>2 DEF NothingUnsaved
<1>11. CASE Crash \/ SearchOutside
  BY <1>11 DEF Crash, SearchOutside
<1>12. CASE UNCHANGED vars
  BY <1>12, <1>0 DEF vars, memory, file, data, call, history, Covered, Entered, PiecesKeyed,
     AcceptedKeyed, SegmentLast, NothingUnsaved, Before, On
<1> QED
  BY <1>3, <1>4, <1>5, <1>6, <1>7, <1>8, <1>9, <1>10, <1>11, <1>12 DEF Next

(* A page of the R-tree covers its pieces, and a piece of a segment lasts  *)
(* as long as the segment.                                                 *)
LEMMA FilterFinds ==
  ASSUME TypeOK, FilterInv
  PROVE  FilterFindsClosed
<1> SUFFICES ASSUME NEW s \in accepted, NEW t \in Time, s.start <= t, t <= s.end,
                    NEW p \in DOMAIN pages, p \notin {currentPage[c] : c \in Cell},
                    NEW q \in ToSet(pages[p].segs), q.mo = s.mo, q.start = s.start
             PROVE  q \in SETIFilter(Cell, t, t)
  BY DEF FilterFindsClosed
<1>1. p \in 1 .. Len(pages) /\ pages[p] \in Page /\ q \in On(p)
  BY DEF TypeOK, On
<1>2. PICK c \in Cell :
        [page |-> p, start |-> pages[p].start, end |-> pages[p].end] \in rtree[c]
  BY <1>1 DEF FilterInv, Entered
<1>3. q.end = s.end /\ pages[p].start <= q.start /\ q.end <= pages[p].end
  BY <1>1 DEF FilterInv, PiecesKeyed, Covered
<1>4. /\ t \in Nat /\ pages[p].start \in Nat /\ pages[p].end \in Nat
      /\ s.start \in Nat /\ s.end \in Nat
  BY <1>1, SETIAssumption DEF Page, FilterInv, AcceptedKeyed
<1>5. pages[p].start <= t /\ t <= pages[p].end
  BY <1>3, <1>4
<1>6. p \in ClosedPages(c, t, t)
  BY <1>2, <1>5 DEF ClosedPages
<1> QED
  BY <1>6 DEF SETIFilter

(* For any number of cells, uploads and pages: without crashes and windows *)
(* off the area setifilter misses no piece but those on current pages, as  *)
(* every closed page is in the R-tree of its cell with an interval that    *)
(* covers it.                                                              *)
THEOREM ClosedPagesFound ==
  ASSUME ~Crashes, ~OutsideWindows
  PROVE  Spec => []FilterFindsClosed
<1>1. Init => CapacityInv /\ FilterInv
  <2> SUFFICES ASSUME Init PROVE CapacityInv /\ FilterInv
    OBVIOUS
  <2>1. CapacityInv
    BY InitCapacity
  <2>2. Len(pages) = 0 /\ pc = "idle" /\ accepted = {} /\ saved = {} /\ fFrontline = frontline
    BY DEF Init
  <2>3. FilterInv
    BY <2>2 DEF FilterInv, Covered, Entered, PiecesKeyed, AcceptedKeyed, SegmentLast,
                NothingUnsaved
  <2> QED
    BY <2>1, <2>3
<1>2. (CapacityInv /\ FilterInv) /\ [Next]_vars => (CapacityInv /\ FilterInv)'
  BY CapacityStep, FilterStep
<1>3. CapacityInv /\ FilterInv => FilterFindsClosed
  BY FilterFinds DEF CapacityInv, BackedInv
<1> QED
  BY <1>1, <1>2, <1>3, PTL DEF Spec
-----------------------------------------------------------------------------
(***************************************************************************)
(* Whatever windows miss the area, and whether updates are refused or not, *)
(* what was saved stays reachable as long as no process dies: the pages of *)
(* a saved segment are current in memory and in the file, or entered.      *)
(***************************************************************************)

(* The cells a segment from one upload to the other passes.                *)
Crossed(from, to, c) ==
  IF from < to THEN from \div CellWidth <= c /\ c <= to \div CellWidth
               ELSE to \div CellWidth <= c /\ c <= from \div CellWidth

(* The cells before the one of the piece that starts at at.                *)
Passed(from, at, to, c) ==
  IF to < at THEN CellOf(at, to) < c /\ c <= from \div CellWidth
             ELSE from \div CellWidth <= c /\ c < CellOf(at, to)

OnWay(from, at, to) ==
  IF to < from THEN to < at /\ at <= from ELSE from <= at /\ at <= to

LEMMA QuotientUnique ==
  ASSUME NEW w \in Nat \ {0}, NEW a \in Nat, NEW c \in Nat,
         c * w <= a, a < (c + 1) * w
  PROVE  a \div w = c
<1> DEFINE q == a \div w
<1>1. q \in Int /\ q * w <= a /\ a < (q + 1) * w
  BY Euclid
<1> HIDE DEF q
<1>2. q * w \in Int /\ (q + 1) * w \in Int /\ c * w \in Int /\ (c + 1) * w \in Int
  BY <1>1
<1>3. (q + 1) * w > 0 /\ q * w < (c + 1) * w
  BY <1>1, <1>2
<1>4. q >= 0 /\ q < c + 1
  BY <1>1, <1>3, FactorBounds
<1>5. c * w < (q + 1) * w /\ q + 1 \in Nat
  BY <1>1, <1>2, <1>4
<1>6. c < q + 1
  BY <1>5, FactorBounds
<1> QED
  BY <1>1, <1>4, <1>6 DEF q

(* An upload is off the borders: it has one cell, from either side.        *)
LEMMA UploadOffBorder ==
  ASSUME NEW x \in Pos
  PROVE  /\ x \in Nat \ {0} /\ x \div CellWidth \in Nat
         /\ (x - 1) \div CellWidth = x \div CellWidth
         /\ (x \div CellWidth) * CellWidth < x
<1> DEFINE q == x \div CellWidth
<1>1. x \in Nat /\ x % 2 = 1 /\ CellWidth \in Nat \ {0} /\ Splits * CellWidth \in Nat
  BY SETIAssumption DEF Pos, Coordinate
<1>2. q \in Int /\ q * CellWidth <= x /\ x < (q + 1) * CellWidth
  BY <1>1, Euclid
<1> HIDE DEF q
<1>3. q * CellWidth # x
  <2>1. PICK k \in Nat : CellWidth = 2 * k
    BY SETIAssumption
  <2>2. q * CellWidth = 2 * (q * k) /\ q * k \in Int
    BY <2>1, <1>2
  <2> QED
    BY <2>2, <1>1
<1>4. q * CellWidth \in Int /\ (q + 1) * CellWidth \in Int
  BY <1>1, <1>2
<1>5. x # 0
  BY <1>1
<1>6. q >= 0
  <2>1. (q + 1) * CellWidth > 0
    BY <1>1, <1>2, <1>4
  <2> QED
    BY <2>1, <1>1, <1>2, FactorBounds
<1>7. (x - 1) \div CellWidth = q
  <2>1. x - 1 \in Nat /\ q \in Nat /\ q * CellWidth <= x - 1 /\ x - 1 < (q + 1) * CellWidth
    BY <1>1, <1>2, <1>3, <1>4, <1>5, <1>6
  <2> QED
    BY <2>1, <1>1, QuotientUnique
<1> QED
  BY <1>1, <1>2, <1>3, <1>4, <1>5, <1>6, <1>7 DEF q

(* The pieces leave out no cell: the last one ends in the cell of the      *)
(* upload, and any other hands on to the cell next to its own.             *)
LEMMA PieceWay ==
  ASSUME NEW from \in Pos, NEW at \in Inner, NEW to \in Pos, OnWay(from, at, to),
         NEW d \in Cell
  PROVE  /\ PieceEnd(at, to) = to /\ Crossed(from, to, d) =>
              d = CellOf(at, to) \/ Passed(from, at, to, d)
         /\ PieceEnd(at, to) # to =>
              /\ OnWay(from, PieceEnd(at, to), to)
              /\ Passed(from, PieceEnd(at, to), to, d) =>
                   d = CellOf(at, to) \/ Passed(from, at, to, d)
<1> DEFINE W == CellWidth
           c == CellOf(at, to)
<1>1. /\ W \in Nat \ {0} /\ from \in Nat \ {0} /\ to \in Nat \ {0} /\ at \in Nat \ {0}
      /\ from \div W \in Nat /\ to \div W \in Nat /\ d \in Nat
      /\ (to \div W) * W < to /\ to < ((to \div W) + 1) * W
      /\ c \in Nat
  <2>1. c \in Cell
    BY PosInner, PieceInside
  <2>2. at \in Nat \ {0} /\ W \in Nat \ {0} /\ d \in Nat /\ c \in Nat
    BY <2>1, SETIAssumption DEF Inner, Cell
  <2>3. to < ((to \div W) + 1) * W
    <3>1. to \in Int
      BY UploadOffBorder
    <3> QED
      BY <3>1, <2>2, Euclid
  <2> QED
    BY <2>2, <2>3, UploadOffBorder
<1>2. /\ c * W \in Nat /\ (c + 1) * W \in Nat
  BY <1>1
<1>3. PieceEnd(at, to) = IF to < c * W THEN c * W
                         ELSE IF to > (c + 1) * W THEN (c + 1) * W ELSE to
  BY DEF PieceEnd
<1>4. CASE to < at
  <2>1. c = (at - 1) \div W
    BY <1>4 DEF CellOf
  <2>2. c * W <= at - 1 /\ at - 1 < (c + 1) * W
    BY <1>1, <2>1, Euclid
  <2> HIDE DEF c
  <2>3. to < from /\ at <= from
    BY <1>1, <1>4 DEF OnWay
  <2>4. CASE to < c * W
    <3>1. PieceEnd(at, to) = c * W /\ PieceEnd(at, to) # to
      BY <2>4, <1>1, <1>2, <1>3
    <3>2. OnWay(from, PieceEnd(at, to), to)
      BY <3>1, <2>2, <2>3, <2>4, <1>1, <1>2 DEF OnWay
    <3>3. CellOf(PieceEnd(at, to), to) = c - 1
      <4>1. c # 0
        BY <2>4, <1>1, <1>2
      <4>2. c - 1 \in Nat /\ (c - 1) * W = c * W - W /\ ((c - 1) + 1) * W = c * W
        BY <4>1, <1>1
      <4>3. c * W - 1 \in Nat /\ (c - 1) * W <= c * W - 1 /\ c * W - 1 < ((c - 1) + 1) * W
        BY <4>2, <2>4, <1>1, <1>2
      <4>4. (c * W - 1) \div W = c - 1
        BY <4>2, <4>3, <1>1, QuotientUnique
      <4> QED
        BY <4>4, <3>1, <2>4 DEF CellOf
    <3>4. Passed(from, PieceEnd(at, to), to, d) <=> c - 1 < d /\ d <= from \div W
      BY <3>1, <3>3, <2>4 DEF Passed
    <3>5. Passed(from, at, to, d) <=> c < d /\ d <= from \div W
      BY <1>4 DEF Passed, c
    <3> QED
      BY <3>1, <3>2, <3>4, <3>5, <1>1 DEF c
  <2>5. CASE ~(to < c * W)
    <3>1. PieceEnd(at, to) = to
      BY <2>2, <2>5, <1>1, <1>2, <1>3, <1>4
    <3>2. to \div W = c
      BY <2>2, <2>5, <1>1, <1>2, <1>4, QuotientUnique
    <3>3. Passed(from, at, to, d) <=> c < d /\ d <= from \div W
      BY <1>4 DEF Passed, c
    <3>4. Crossed(from, to, d) => c <= d /\ d <= from \div W
      BY <2>3, <3>2, <1>1 DEF Crossed
    <3> QED
      BY <3>1, <3>3, <3>4, <1>1 DEF c
  <2> QED
    BY <2>4, <2>5
<1>5. CASE ~(to < at)
  <2>1. c = at \div W
    BY <1>5 DEF CellOf
  <2>2. c * W <= at /\ at < (c + 1) * W
    BY <1>1, <2>1, Euclid
  <2> HIDE DEF c
  <2>3. from <= to /\ from <= at /\ at <= to
    BY <1>1, <1>5 DEF OnWay
  <2>4. CASE to > (c + 1) * W
    <3>1. PieceEnd(at, to) = (c + 1) * W /\ PieceEnd(at, to) # to
      <4>1. ~(to < c * W)
        BY <2>2, <2>3, <1>1, <1>2
      <4> QED
        BY <4>1, <2>4, <1>1, <1>2, <1>3
    <3>2. OnWay(from, PieceEnd(at, to), to)
      BY <3>1, <2>2, <2>3, <2>4, <1>1, <1>2 DEF OnWay
    <3>3. CellOf(PieceEnd(at, to), to) = c + 1
      <4>1. (c + 1) * W < ((c + 1) + 1) * W
        <5>1. ((c + 1) + 1) * W = (c + 1) * W + W
          BY <1>1
        <5> QED
          BY <5>1, <1>1, <1>2
      <4>2. ((c + 1) * W) \div W = c + 1
        BY <4>1, <1>1, <1>2, QuotientUnique
      <4> QED
        BY <4>2, <3>1, <2>4, <1>1, <1>2 DEF CellOf
    <3>4. Passed(from, PieceEnd(at, to), to, d) <=> from \div W <= d /\ d < c + 1
      BY <3>1, <3>3, <2>4, <1>1, <1>2 DEF Passed
    <3>5. Passed(from, at, to, d) <=> from \div W <= d /\ d < c
      BY <1>5 DEF Passed, c
    <3> QED
      BY <3>1, <3>2, <3>4, <3>5, <1>1 DEF c
  <2>5. CASE ~(to > (c + 1) * W)
    <3>1. PieceEnd(at, to) = to
      BY <2>2, <2>3, <2>5, <1>1, <1>2, <1>3
    <3>2. to \div W = c
      <4> DEFINE q == to \div W
      <4>1. q \in Nat /\ q * W < to /\ to < (q + 1) * W
        BY <1>1
      <4> HIDE DEF q
      <4>2. q * W \in Nat /\ (q + 1) * W \in Nat
        BY <4>1, <1>1
      <4>3. q * W < (c + 1) * W /\ c * W < (q + 1) * W
        BY <4>1, <4>2, <2>2, <2>3, <2>5, <1>1, <1>2
      <4>4. q < c + 1 /\ c < q + 1
        BY <4>1, <4>3, <1>1, FactorBounds
      <4> QED
        BY <4>1, <4>4, <1>1 DEF q
    <3>3. Passed(from, at, to, d) <=> from \div W <= d /\ d < c
      BY <1>5 DEF Passed, c
    <3>4. Crossed(from, to, d) => from \div W <= d /\ d <= c
      BY <2>3, <3>2, <1>1 DEF Crossed
    <3> QED
      BY <3>1, <3>3, <3>4, <1>1 DEF c
  <2> QED
    BY <2>4, <2>5
<1> QED
  BY <1>4, <1>5

(* A piece of the segment of object m from t1 to t2 in cell c: on the page *)
(* cp has for the cell, or on one the cell's R-tree finds for its time.    *)
Leads(cp, m, t1, t2, c) ==
  \E i \in 1 .. Len(pages) : \E q \in On(i) :
    /\ q.mo = m /\ q.start = t1 /\ q.end = t2
    /\ \/ cp[c] = i
       \/ \E b \in rtree[c] : b.page = i /\ b.start <= t1 /\ t2 <= b.end

AllLead(cp, s) ==
  /\ s.start \in Time /\ s.end \in Time /\ s.start < s.end
  /\ \A c \in Cell : Crossed(s.from, s.to, c) => Leads(cp, s.mo, s.start, s.end, c)

AcceptedLead == \A s \in accepted : AllLead(currentPage, s)

SavedLead == \A s \in saved : AllLead(currentPage, s) /\ AllLead(fCurrentPage, s)

SegmentLeads ==
  pc = "piece" =>
    /\ OnWay(seg.from, seg.at, seg.to)
    /\ \A c \in Cell : Passed(seg.from, seg.at, seg.to, c) =>
         Leads(currentPage, seg.mo, seg.start, seg.end, c)

ReachInv == BackedInv /\ Covered /\ AcceptedLead /\ SavedLead /\ SegmentLeads

(* A page that is no longer the current one of its cell is entered with    *)
(* an interval that covers its pieces.                                     *)
LEMMA StillLeads ==
  ASSUME BackedInv, Covered, InsertPiece, NEW m, NEW t1, NEW t2, NEW c \in Cell
  PROVE  /\ Leads(currentPage, m, t1, t2, c) => Leads(currentPage, m, t1, t2, c)'
         /\ Leads(fCurrentPage, m, t1, t2, c) => Leads(fCurrentPage, m, t1, t2, c)'
<1>1. PICK d \in Cell, q \in TrjSeg : OfSegment(q) /\ (Opens(d, q) \/ Extends(d, q))
  BY PieceSeen
<1>2. /\ Len(pages) \in Nat /\ currentPage \in [Cell -> 0 .. Len(pages)]
      /\ rtree \in [Cell -> BoxesIn(Len(pages))]
      /\ fCurrentPage' = fCurrentPage
  BY SMTT(60) DEF BackedInv, TypeOK, BoxesIn, InsertPiece, file
<1>3. Len(pages') >= Len(pages)
  BY <1>1, <1>2 DEF Opens, Extends
<1>4. ASSUME NEW i \in 1 .. Len(pages)
      PROVE  i \in 1 .. Len(pages') /\ On(i) \subseteq ToSet(pages'[i].segs)
  BY <1>1, <1>2, <1>3, SMTT(60) DEF Opens, Extends, On
<1>5. rtree[c] \subseteq rtree'[c]
  BY <1>1, <1>2 DEF Opens, Extends
<1>6. ASSUME NEW i \in 1 .. Len(pages), NEW p \in On(i), currentPage[c] = i,
             p.start = t1, p.end = t2
      PROVE  \/ currentPage'[c] = i
             \/ \E b \in rtree'[c] : b.page = i /\ b.start <= t1 /\ t2 <= b.end
  <2>1. CASE Opens(d, q) /\ d = c
    <3> DEFINE b == [page |-> i, start |-> pages[i].start, end |-> pages[i].end]
    <3>1. b \in rtree'[c]
      BY <2>1, <1>2, <1>6 DEF Opens
    <3>2. b.page = i /\ b.start <= t1 /\ t2 <= b.end
      BY <1>6 DEF Covered
    <3> QED
      BY <3>1, <3>2
  <2>2. CASE ~(Opens(d, q) /\ d = c)
    BY <2>2, <1>1, <1>2, <1>6 DEF Opens, Extends
  <2> QED
    BY <2>1, <2>2
<1>7. ASSUME Leads(currentPage, m, t1, t2, c) PROVE Leads(currentPage, m, t1, t2, c)'
  <2>1. PICK i \in 1 .. Len(pages) : \E p \in On(i) :
          /\ p.mo = m /\ p.start = t1 /\ p.end = t2
          /\ \/ currentPage[c] = i
             \/ \E b \in rtree[c] : b.page = i /\ b.start <= t1 /\ t2 <= b.end
    BY <1>7 DEF Leads
  <2>2. \/ currentPage'[c] = i
        \/ \E b \in rtree'[c] : b.page = i /\ b.start <= t1 /\ t2 <= b.end
    BY <2>1, <1>5, <1>6
  <2> QED
    BY <2>1, <2>2, <1>4 DEF Leads, On
<1>8. ASSUME Leads(fCurrentPage, m, t1, t2, c) PROVE Leads(fCurrentPage, m, t1, t2, c)'
  BY <1>8, <1>2, <1>4, <1>5 DEF Leads, On
<1> QED
  BY <1>7, <1>8


(* The new piece is on the page that is the current one of its cell now.   *)
LEMMA PieceLeads ==
  ASSUME BackedInv, InsertPiece, NEW m, NEW t1, NEW t2, NEW c,
         c = CellOf(seg.at, seg.to), m = seg.mo, t1 = seg.start, t2 = seg.end
  PROVE  Leads(currentPage, m, t1, t2, c)'
<1>1. PICK q \in TrjSeg : OfSegment(q) /\ (Opens(c, q) \/ Extends(c, q))
  BY PieceSeen
<1>2. /\ Len(pages) \in Nat /\ currentPage \in [Cell -> 0 .. Len(pages)] /\ c \in Cell
  BY PieceSeen DEF BackedInv, TypeOK
<1>3. PICK i \in 1 .. Len(pages') : q \in ToSet(pages'[i].segs) /\ currentPage'[c] = i
  <2>1. CASE Opens(c, q)
    <3>1. Len(pages) + 1 \in 1 .. Len(pages') /\ currentPage'[c] = Len(pages) + 1
      BY <2>1, <1>2 DEF Opens
    <3>2. q \in ToSet(pages'[Len(pages) + 1].segs)
      BY <2>1 DEF Opens
    <3> QED
      BY <3>1, <3>2
  <2>2. CASE Extends(c, q)
    <3>1. currentPage[c] \in 1 .. Len(pages') /\ currentPage'[c] = currentPage[c]
      BY <2>2 DEF Extends
    <3>2. q \in ToSet(pages'[currentPage[c]].segs)
      BY <2>2 DEF Extends
    <3> QED
      BY <3>1, <3>2
  <2> QED
    BY <1>1, <2>1, <2>2
<1> QED
  BY <1>1, <1>3 DEF Leads, On, OfSegment

(* The round of the loop that writes a piece, from cell to cell.           *)
LEMMA PieceReach ==
  ASSUME ReachInv, InsertPiece
  PROVE  AcceptedLead' /\ SavedLead' /\ SegmentLeads'
<1>1. /\ pc = "piece" /\ TypeOK /\ BackedInv /\ Covered
      /\ AcceptedLead /\ SavedLead /\ SegmentLeads
      /\ UNCHANGED <<saved, fCurrentPage>>
  BY DEF InsertPiece, ReachInv, BackedInv, file
<1> PICK m, t1, t2, from, at, to :
      m = seg.mo /\ t1 = seg.start /\ t2 = seg.end /\ from = seg.from /\ at = seg.at /\ to = seg.to
  OBVIOUS
<1> DEFINE stop == PieceEnd(at, to)
<1>2. from \in Pos /\ to \in Pos /\ at \in Inner /\ OnWay(from, at, to)
  BY <1>1 DEF BackedInv, TypeOK, AtInner, Segment, SegmentLeads
<1>3. ASSUME NEW c \in Cell, Passed(from, at, to, c) \/ c = CellOf(at, to)
      PROVE  Leads(currentPage, m, t1, t2, c)'
  BY <1>1, <1>3, StillLeads, PieceLeads DEF SegmentLeads
<1>4. ASSUME NEW s, AllLead(currentPage, s) PROVE AllLead(currentPage, s)'
  BY <1>1, <1>4, StillLeads DEF AllLead
<1>5. ASSUME NEW s, AllLead(fCurrentPage, s) PROVE AllLead(fCurrentPage, s)'
  BY <1>1, <1>5, StillLeads DEF AllLead
<1>6. SavedLead'
  BY <1>1, <1>4, <1>5 DEF SavedLead
<1>7. CASE stop = to
  <2>1. /\ pc' # "piece"
        /\ accepted' = accepted \cup {[mo |-> m, start |-> t1, end |-> t2,
                                       from |-> from, to |-> to]}
    BY <1>7 DEF InsertPiece, Counted, Handled, AfterInsert
  <2> DEFINE new == [mo |-> m, start |-> t1, end |-> t2, from |-> from, to |-> to]
  <2>2. ASSUME NEW c \in Cell, Crossed(from, to, c) PROVE Leads(currentPage, m, t1, t2, c)'
    BY <2>2, <1>2, <1>3, <1>7, PieceWay
  <2>3. AllLead(currentPage, new)'
    BY <1>1, <2>2 DEF AllLead, TypeOK, Segment
  <2>4. AcceptedLead'
    BY <2>1, <2>3, <1>1, <1>4 DEF AcceptedLead
  <2> QED
    BY <2>1, <2>4, <1>6 DEF SegmentLeads
<1>8. CASE stop # to
  <2>1. /\ pc' = "piece" /\ accepted' = accepted
        /\ seg' = [seg EXCEPT !.at = stop]
    BY <1>1, <1>8 DEF InsertPiece
  <2>2. /\ seg'.mo = m /\ seg'.start = t1 /\ seg'.end = t2
        /\ seg'.from = from /\ seg'.at = stop /\ seg'.to = to
    BY <2>1, <1>1 DEF TypeOK, Segment
  <2>3. OnWay(from, stop, to)
    <3>1. CellOf(at, to) \in Cell
      BY <1>2, PosInner, PieceInside
    <3> QED
      BY <3>1, <1>2, <1>8, PieceWay
  <2>4. ASSUME NEW c \in Cell, Passed(from, stop, to, c)
        PROVE  Leads(currentPage, m, t1, t2, c)'
    BY <2>4, <1>2, <1>3, <1>8, PieceWay
  <2>5. SegmentLeads'
    BY <2>1, <2>2, <2>3, <2>4 DEF SegmentLeads
  <2> QED
    BY <2>1, <2>5, <1>1, <1>4, <1>6 DEF AcceptedLead
<1> QED
  BY <1>7, <1>8

LEMMA ReachStep ==
  ASSUME ~Crashes, ReachInv, [Next]_vars
  PROVE  ReachInv'
<1>0. /\ BackedInv /\ TypeOK /\ Covered /\ AcceptedLead /\ SavedLead /\ SegmentLeads
  BY DEF ReachInv, BackedInv
<1>1. BackedInv'
  <2>1. DataInv' /\ CallInv'
    BY <1>0, DataStep, CallStep
  <2>2. (DataInv /\ CallInv => BackedInv)'
    BY InvParts DEF BackedInv, TypeOK, DataInv, CallInv, BoxesIn
  <2> QED
    BY <2>1, <2>2
<1>2. ASSUME UNCHANGED <<pages, rtree, currentPage, fCurrentPage>>
      PROVE  /\ Covered'
             /\ \A s : AllLead(currentPage, s) => AllLead(currentPage, s)'
             /\ \A s : AllLead(fCurrentPage, s) => AllLead(fCurrentPage, s)'
             /\ pc = "piece" /\ UNCHANGED <<pc, seg>> => SegmentLeads'
  BY <1>0, <1>2 DEF Covered, On, AllLead, Leads, SegmentLeads
<1>3. ASSUME UNCHANGED <<pages, rtree, currentPage, fCurrentPage, accepted, saved>>,
             pc' # "piece"
      PROVE  ReachInv'
  BY <1>0, <1>1, <1>2, <1>3 DEF ReachInv, AcceptedLead, SavedLead, SegmentLeads
<1>4. ASSUME NEW o \in {"insertUpload", "insertStream"}, NEW m \in MO,
             NEW t \in Time, NEW x \in Pos \cup {OutOfArea},
             InsertRejected(o, m, t, x) \/ InsertFirst(o, m, t, x)
      PROVE  ReachInv'
  <2>1. UNCHANGED <<pages, rtree, currentPage, fCurrentPage, accepted, saved>>
    BY <1>4 DEF InsertRejected, InsertFirst, memory, file, data, history
  <2>2. pc' # "piece"
    BY <1>4 DEF InsertRejected, InsertFirst, Counted, Handled, AfterInsert
  <2> QED
    BY <2>1, <2>2, <1>3
<1>5. ASSUME NEW o \in {"insertUpload", "insertStream"}, NEW m \in MO,
             NEW t \in Time, NEW x \in Pos \cup {OutOfArea}, InsertNext(o, m, t, x)
      PROVE  ReachInv'
  <2>1. UNCHANGED <<pages, rtree, currentPage, fCurrentPage, accepted, saved>>
    BY <1>5 DEF InsertNext, file, data, history
  <2>2. seg'.from \in Pos /\ seg'.at = seg'.from /\ seg'.to \in Pos
    BY <1>5, <1>0 DEF InsertNext, TypeOK, Upload
  <2>3. ASSUME NEW from \in Pos, NEW to \in Pos
        PROVE  OnWay(from, from, to) /\ \A c \in Cell : ~Passed(from, from, to, c)
    <3>1. from \in Nat /\ to \in Nat /\ from \div CellWidth \in Nat /\ Cell \subseteq Nat
          /\ (from - 1) \div CellWidth = from \div CellWidth
      BY UploadOffBorder DEF Cell
    <3> QED
      BY <3>1 DEF OnWay, Passed, CellOf
  <2>4. SegmentLeads'
    <3>1. PICK from \in Pos, to \in Pos : seg'.from = from /\ seg'.at = from /\ seg'.to = to
      BY <2>2
    <3>2. OnWay(from, from, to) /\ \A c \in Cell : ~Passed(from, from, to, c)
      BY <2>3
    <3> QED
      BY <3>1, <3>2 DEF SegmentLeads
  <2> QED
    BY <2>1, <2>4, <1>0, <1>1, <1>2 DEF ReachInv, AcceptedLead, SavedLead
<1>6. CASE InsertPiece
  BY <1>0, <1>1, <1>6, PieceCovered, PieceReach DEF ReachInv
<1>7. CASE InsertStreamOpen \/ InsertStreamEnd
  BY <1>7, <1>3 DEF InsertStreamOpen, InsertStreamEnd, memory, file, data, history
<1>8. CASE UpdateRefused
  BY <1>8, <1>3 DEF UpdateRefused, Updated, Handled, AfterInsert, memory, file, data, history
<1>9. CASE UpdateHeader \/ UpdateFLine
  BY <1>9, <1>3 DEF UpdateHeader, UpdateFLine, memory, data, history
<1>10. CASE UpdateCells
  <2>1. /\ UNCHANGED <<pages, rtree, currentPage, accepted>>
        /\ fCurrentPage' = currentPage /\ saved' = accepted /\ pc' # "piece"
    BY <1>10 DEF UpdateCells, memory, data, Updated, Handled, AfterInsert
  <2>2. ASSUME NEW s, AllLead(currentPage, s)
        PROVE  AllLead(currentPage, s)' /\ AllLead(fCurrentPage, s)'
    BY <2>1, <2>2 DEF AllLead, Leads, On
  <2> QED
    BY <2>1, <2>2, <1>0, <1>1
    DEF ReachInv, Covered, On, AcceptedLead, SavedLead, SegmentLeads
<1>11. CASE CloseAndOpen
  <2>1. /\ UNCHANGED <<pages, rtree, fCurrentPage, saved>>
        /\ currentPage' = fCurrentPage /\ accepted' = saved /\ pc' # "piece"
    BY <1>11 DEF CloseAndOpen, ReadSETI, file
  <2>2. ASSUME NEW s, AllLead(fCurrentPage, s)
        PROVE  AllLead(currentPage, s)' /\ AllLead(fCurrentPage, s)'
    BY <2>1, <2>2 DEF AllLead, Leads, On
  <2> QED
    BY <2>1, <2>2, <1>0, <1>1
    DEF ReachInv, Covered, On, AcceptedLead, SavedLead, SegmentLeads
<1>12. CASE Crash
  BY <1>12 DEF Crash
<1>13. CASE SearchOutside
  BY <1>13, <1>3 DEF SearchOutside, memory, file, data, call, history
<1>14. CASE UNCHANGED vars
  BY <1>14, <1>0, <1>1, <1>2
  DEF vars, memory, file, data, call, history, ReachInv, AcceptedLead, SavedLead, SegmentLeads
<1> QED
  BY <1>4, <1>5, <1>6, <1>7, <1>8, <1>9, <1>10, <1>11, <1>12, <1>13, <1>14 DEF Next

(* "Writes all SETI data into file", for any number of cells, uploads and  *)
(* pages, whatever windows miss the area: without a crash every segment    *)
(* that an update has saved lies, in each cell it passes, on a page that   *)
(* is current or that the R-tree of the cell finds.                        *)
THEOREM SavedStayReachable ==
  ASSUME ~Crashes
  PROVE  Spec => []SavedReachable
<1>1. Init => ReachInv
  <2> SUFFICES ASSUME Init PROVE ReachInv
    OBVIOUS
  <2>1. Len(pages) = 0 /\ pc = "idle" /\ accepted = {} /\ saved = {}
    BY DEF Init
  <2> QED
    BY <2>1, InitBacked DEF ReachInv, Covered, AcceptedLead, SavedLead, SegmentLeads
<1>2. ReachInv /\ [Next]_vars => ReachInv'
  BY ReachStep
<1>3. ReachInv => SavedReachable
  <2> SUFFICES ASSUME ReachInv, NEW s \in saved, NEW c \in Cell,
                      Crossed(s.from, s.to, c)
               PROVE  \E p \in CellPages(c, s.start, s.end) : \E q \in ToSet(pages[p].segs) :
                         q.mo = s.mo /\ q.start = s.start /\ q.end = s.end
    BY DEF SavedReachable, Crossed
  <2>1. Leads(currentPage, s.mo, s.start, s.end, c)
    BY DEF ReachInv, SavedLead, AllLead
  <2>2. PICK i \in 1 .. Len(pages) : \E q \in On(i) :
          /\ q.mo = s.mo /\ q.start = s.start /\ q.end = s.end
          /\ \/ currentPage[c] = i
             \/ \E b \in rtree[c] : b.page = i /\ b.start <= s.start /\ s.end <= b.end
    BY <2>1 DEF Leads
  <2>3. PICK q \in On(i) :
          /\ q.mo = s.mo /\ q.start = s.start /\ q.end = s.end
          /\ \/ currentPage[c] = i
             \/ \E b \in rtree[c] : b.page = i /\ b.start <= s.start /\ s.end <= b.end
    BY <2>2
  <2>4. i \in CellPages(c, s.start, s.end)
    <3>1. CASE currentPage[c] = i
      BY <3>1 DEF CellPages
    <3>2. ASSUME NEW b \in rtree[c], b.page = i, b.start <= s.start, s.end <= b.end
          PROVE  i \in CellPages(c, s.start, s.end)
      <4>1. s.start \in Nat /\ s.end \in Nat /\ s.start < s.end
        BY SETIAssumption DEF ReachInv, SavedLead, AllLead
      <4>2. b.start \in Nat /\ b.end \in Nat
        <5>1. rtree[c] \subseteq [page : 1 .. Len(pages), start : Time, end : Time]
          BY DEF ReachInv, BackedInv, TypeOK
        <5>2. b \in [page : 1 .. Len(pages), start : Time, end : Time]
          BY <5>1, <3>2
        <5> QED
          BY <5>2, SETIAssumption
      <4> QED
        BY <3>2, <4>1, <4>2 DEF CellPages, ClosedPages
    <3> QED
      BY <2>3, <3>1, <3>2
  <2> QED
    BY <2>3, <2>4 DEF On
<1> QED
  BY <1>1, <1>2, <1>3, PTL DEF Spec
=============================================================================
