--------------------------- MODULE TBTreeFilter ---------------------------
(***************************************************************************)
(* The operator tbtreefilter (TBTreeFilterVM in                            *)
(* src/CDistRange/CDistRangeAlgebra.cpp, TBTreeVisitor and CalcResultType  *)
(* in CDistRangeAlgebra.h) over a TB-tree that streamupdatetbtree may      *)
(* update between two of its requests: the stream an update reads may come *)
(* from a filter on the same tree.                                         *)
(*                                                                         *)
(* Of a unit that is found the operator uses the tuple id only, so of the  *)
(* three results of CalcResultType only whether it is FNONE is kept.       *)
(* rtreefilter runs the same code over an R-tree.                          *)
(***************************************************************************)
EXTENDS TBTree

CONSTANTS
  Query,    \* queries: a box, two distances, and whether the second is inf
  NoQuery

(* Units and queries last longer than an instant.                          *)
ASSUME TBTreeFilterAssumption ==
  /\ NoQuery \notin Query
  /\ Query \subseteq [rect : {b \in Box : Proper(b) /\ b["t"].lo < b["t"].hi},
                     dist1 : Int, dist2 : Int, inf : BOOLEAN]
  /\ \A b \in UnitBox : b["t"].lo < b["t"].hi

VARIABLES
  local,    \* the local info: none, there, or deleted with its address kept
  query,    \* the query of the visitor
  sidstack, \* nodes to visit
  tidqueue, \* tuples found and not yet asked for
  yielded,  \* history: the tuples returned since OPEN, in order
  changed   \* history: the tree was changed since OPEN

filter == <<local, query, sidstack, tidqueue, yielded, changed>>

allVars == <<vars, filter>>

FilterInit ==
  /\ Init
  /\ local = "null" /\ query = NoQuery
  /\ sidstack = << >> /\ tidqueue = << >>
  /\ yielded = << >> /\ changed = FALSE
-----------------------------------------------------------------------------
Conditions == 1 .. 4

(* OPEN: the distances decide the condition; 0: they are refused.          *)
Condition(q) ==
  IF q.inf THEN IF q.dist1 < 0 THEN 0 ELSE IF q.dist1 = 0 THEN 3 ELSE 2
  ELSE IF q.dist1 < 0 \/ q.dist1 >= q.dist2 THEN 0 ELSE IF q.dist1 = 0 THEN 1 ELSE 4

(* An infinite second distance is passed on as -1.                         *)
Dist2(q) == IF q.inf THEN -1 ELSE q.dist2

(* Faults: a unit at the greatest distance is left out; the greatest       *)
(* distance is not compared.                                               *)
ResultNoneStrict(b, q) ==
  CASE Condition(q) = 1 -> MinDist(b, q.rect) >= Dist2(q)
    [] Condition(q) = 4 -> \/ MaxDist(b, q.rect) < q.dist1
                           \/ MinDist(b, q.rect) >= Dist2(q)
    [] OTHER -> FALSE

ResultNoneNear(b, q) ==
  Condition(q) = 4 /\ MaxDist(b, q.rect) < q.dist1

(* CalcResultType is FNONE.                                                *)
ResultNone(b, q) ==
  LET maxdist == MaxDist(b, q.rect)
      mindist == MinDist(b, q.rect)
  IN  CASE Condition(q) = 1 -> maxdist > Dist2(q) /\ mindist > Dist2(q)
        [] Condition(q) = 2 -> mindist < q.dist1 /\ maxdist < Dist2(q)
        [] Condition(q) = 3 -> FALSE
        [] Condition(q) = 4 -> maxdist < q.dist1 \/ mindist > Dist2(q)
        [] OTHER -> TRUE

(* The comparison of the time intervals: to touch is not enough.           *)
SkipsTime(b, q) ==
  q.rect["t"].lo >= b["t"].hi \/ q.rect["t"].hi <= b["t"].lo

Passes(b, q) == ~SkipsTime(b, q) /\ ~ResultNone(b, q)

(* What the entries of a node refer to that are not passed over.           *)
Found(n, q) ==
  FoldLeft(LAMBDA refs, e : IF Passes(e.box, q) THEN Append(refs, e.ref) ELSE refs,
           << >>, n.entries)

(* A fault: a leaf stays on the stack.                                     *)
VisitWithoutPop(s, q) ==
  LET n == file[Last(s.stack)]
  IN  IF n.leaf THEN [stack |-> s.stack, queue |-> s.queue \o Found(n, q)]
      ELSE [stack |-> Front(s.stack) \o Found(n, q), queue |-> s.queue]

(* A round of perform: the node on top of the stack is taken.              *)
Visit(s, q) ==
  LET n == file[Last(s.stack)]
  IN  IF n.leaf THEN [stack |-> Front(s.stack), queue |-> s.queue \o Found(n, q)]
      ELSE [stack |-> Front(s.stack) \o Found(n, q), queue |-> s.queue]

(* perform: until a tuple is found or there is no node left.  No node is   *)
(* visited twice, which bounds the rounds.                                 *)
Perform(stack, queue, q) ==
  FoldLeft(LAMBDA s, n : IF s.queue = << >> /\ s.stack # << >> THEN Visit(s, q) ELSE s,
           [stack |-> stack, queue |-> queue], file)

HasNext(s) == s.stack # << >> \/ s.queue # << >>

(* An OPEN that succeeds; an info that is there is deleted first.  After   *)
(* CLOSE its address is still there, and what deleting it once more does   *)
(* is undefined: that call is left out.                                    *)
Open(q) ==
  /\ local # "deleted" /\ rootId # 0
  /\ Condition(q) \in Conditions
  /\ \E s \in {Perform(<<rootId>>, << >>, q)} :
       HasNext(s) /\ sidstack' = s.stack /\ tidqueue' = s.queue
  /\ local' = "info" /\ query' = q
  /\ yielded' = << >> /\ changed' = FALSE
  /\ UNCHANGED vars

(* CANCEL: the distances are wrong, or there is nothing to find.  The new  *)
(* info is lost, and the one there was has been deleted.                   *)
OpenFails(q) ==
  /\ local # "deleted" /\ rootId # 0
  /\ Condition(q) = 0 \/ ~HasNext(Perform(<<rootId>>, << >>, q))
  /\ local' = IF local = "info" THEN "deleted" ELSE "null"
  /\ query' = q /\ sidstack' = << >> /\ tidqueue' = << >>
  /\ yielded' = << >> /\ changed' = FALSE
  /\ UNCHANGED vars

(* REQUEST, the visitor performing first if the queue has run empty: YIELD *)
(* of a tuple, or CANCEL.                                                  *)
Request ==
  /\ local = "info" /\ HasNext([stack |-> sidstack, queue |-> tidqueue])
  /\ \E s \in {IF tidqueue = << >> THEN Perform(sidstack, tidqueue, query)
               ELSE [stack |-> sidstack, queue |-> tidqueue]} :
       /\ sidstack' = s.stack
       /\ IF s.queue = << >> THEN UNCHANGED <<tidqueue, yielded>>
          ELSE tidqueue' = Tail(s.queue) /\ yielded' = Append(yielded, Head(s.queue))
  /\ UNCHANGED <<vars, local, query, changed>>

Close ==
  /\ local = "info"
  /\ local' = "deleted" /\ query' = NoQuery
  /\ sidstack' = << >> /\ tidqueue' = << >>
  /\ yielded' = << >> /\ changed' = FALSE
  /\ UNCHANGED vars

(* The query ends, and the next one has operators of its own.              *)
NextQuery ==
  /\ local # "info"
  /\ local' = "null" /\ query' = NoQuery /\ yielded' = << >>
  /\ changed' = FALSE
  /\ UNCHANGED <<vars, sidstack, tidqueue>>

StreamUpdate ==
  /\ \E trj \in Trj, b \in UnitBox : Insert(trj, b)
  /\ changed' = (query # NoQuery)
  /\ UNCHANGED <<local, query, sidstack, tidqueue, yielded>>

FilterNext ==
  \/ \E q \in Query : Open(q) \/ OpenFails(q)
  \/ Request \/ Close \/ NextQuery \/ StreamUpdate

FilterSpec == FilterInit /\ [][FilterNext]_allVars
-----------------------------------------------------------------------------
(***************************************************************************)
(* Properties                                                              *)
(***************************************************************************)

(* What the query asks of a unit: a point of its box and one of the box of *)
(* the query at a distance in the range, and more than an instant in       *)
(* common (units and queries last longer than one).                        *)
Near(b, q) ==
  \E x \in b["x"].lo .. b["x"].hi, y \in q.rect["x"].lo .. q.rect["x"].hi :
    LET d == Greater(x - y, y - x)
    IN  q.dist1 <= d /\ (q.inf \/ d <= q.dist2)

LongerThanInstant(b, q) ==
  Greater(b["t"].lo, q.rect["t"].lo) < Lesser(b["t"].hi, q.rect["t"].hi)

Wanted(t) ==
  Near(given[t].box, query) /\ LongerThanInstant(given[t].box, query)

(* The units below sons whose entries insertLeaf left too small.           *)
UnderNarrow ==
  UNION {Refs(file[id]) : id \in Leaves(UNION {Below(r) : r \in narrow})}

(* On a tree that does not change while it is searched, a filter that has  *)
(* come to its end has returned every unit the query asks for, but those   *)
(* below an entry that insertLeaf left too small.                          *)
FilterComplete ==
  LET atEnd == ~HasNext([stack |-> sidstack, queue |-> tidqueue])
  IN  query # NoQuery /\ Condition(query) # 0 /\ atEnd /\ ~changed
        => \A t \in DOMAIN given : Wanted(t) => t \in ToSet(yielded) \cup UnderNarrow

(* However the tree is changed between the requests, no unit is returned   *)
(* twice: no node gets on the stack twice, though nodes are split and      *)
(* their entries move while they are on it.                                *)
YieldedOnce == IsInjective(yielded \o tidqueue)

(* No unit is returned that the query does not ask for (with an infinite   *)
(* second distance nothing is left out by distance).                       *)
YieldedWanted ==
  \A t \in ToSet(yielded) : Wanted(t) \/ (Condition(query) = 2 /\ LongerThanInstant(given[t].box, query))
=============================================================================
