------------------------ MODULE TBTreeFilterProofs ------------------------
(***************************************************************************)
(* What the classification of a box by CalcResultType promises, for all    *)
(* boxes and all distances: a search that follows it loses no unit and     *)
(* visits no leaf entry in vain.                                           *)
(*                                                                         *)
(* From it, and from what TBTreeProofs shows of the tree, the properties of*)
(* the filter. The invariant SearchOK speaks of the units returned or found*)
(* and of the nodes still to visit: what was found passes, nothing comes up*)
(* twice, and, while the tree stays as it is, a unit that is asked for was *)
(* found or is below a node on the stack. perform keeps it round by round. *)
(* An update keeps that nothing comes up twice, since what is below a node *)
(* that was in the tree before can only get less there, but for the new    *)
(* unit (BelowStays).                                                      *)
(***************************************************************************)
EXTENDS TBTreeFilter, TBTreeProofs

QueryBoxes == {b \in Box : Proper(b) /\ b["t"].lo < b["t"].hi}

Queries == [rect : QueryBoxes, dist1 : Int, dist2 : Int, inf : BOOLEAN]

(* Any difference between the extreme ones is one of two points of the     *)
(* intervals.                                                              *)
LEMMA DifferenceAttained ==
  ASSUME NEW al \in Nat, NEW ah \in Nat, NEW bl \in Nat, NEW bh \in Nat, NEW k \in Int,
         al <= ah, bl <= bh, al - bh <= k, k <= ah - bl
  PROVE  \E x \in al .. ah, y \in bl .. bh : x - y = k
<1> DEFINE y == IF bh <= ah - k THEN bh ELSE ah - k
<1>1. y \in bl .. bh /\ y + k \in al .. ah OBVIOUS
<1>2. (y + k) - y = k OBVIOUS
<1> QED BY <1>1, <1>2

(* So is any distance between the least and the greatest.                  *)
LEMMA DistanceAttained ==
  ASSUME NEW a \in Box, NEW b \in Box, Proper(a), Proper(b),
         NEW d \in Int, MinDist(a, b) <= d, d <= MaxDist(a, b)
  PROVE  \E x \in a["x"].lo .. a["x"].hi, y \in b["x"].lo .. b["x"].hi :
           Greater(x - y, y - x) = d
<1> DEFINE al == a["x"].lo  ah == a["x"].hi  bl == b["x"].lo  bh == b["x"].hi
<1>1. al \in Nat /\ ah \in Nat /\ bl \in Nat /\ bh \in Nat BY DEF Box, Dim
<1>2. al <= ah /\ bl <= bh BY DEF Proper, Dim
<1>3. d >= 0 /\ bl - ah <= d /\ al - bh <= d BY <1>1 DEF MinDist, Greater
<1>4. d <= ah - bl \/ d <= bh - al BY <1>1 DEF MaxDist, Greater
<1> HIDE DEF al, ah, bl, bh
<1> DEFINE Attained(k) == \E x \in al .. ah, y \in bl .. bh : x - y = k
<1>0. \A k \in Int : al - bh <= k /\ k <= ah - bl => Attained(k)
  BY <1>1, <1>2, DifferenceAttained
<1>5. CASE d <= ah - bl
  <2>1. Attained(d) BY <1>0, <1>3, <1>5
  <2>2. PICK x \in al .. ah, y \in bl .. bh : x - y = d BY <2>1
  <2>3. Greater(x - y, y - x) = d BY <1>1, <1>3, <2>2 DEF Greater
  <2> QED BY <2>3 DEF al, ah, bl, bh
<1>6. CASE d <= bh - al
  <2>1. -d \in Int /\ al - bh <= -d /\ -d <= ah - bl BY <1>1, <1>3, <1>6
  <2>2. PICK x \in al .. ah, y \in bl .. bh : x - y = -d BY <1>0, <2>1
  <2>3. Greater(x - y, y - x) = d BY <1>1, <1>3, <2>2 DEF Greater
  <2> QED BY <2>3 DEF al, ah, bl, bh
<1> QED BY <1>4, <1>5, <1>6

(* No point is nearer than the least distance or farther than the greatest.*)
LEMMA DistanceBounds ==
  ASSUME NEW a \in Box, NEW b \in Box,
         NEW x \in a["x"].lo .. a["x"].hi, NEW y \in b["x"].lo .. b["x"].hi
  PROVE  /\ MinDist(a, b) <= Greater(x - y, y - x)
         /\ Greater(x - y, y - x) <= MaxDist(a, b)
<1>1. a["x"].lo \in Nat /\ a["x"].hi \in Nat /\ b["x"].lo \in Nat /\ b["x"].hi \in Nat
  BY DEF Box, Dim
<1> QED BY <1>1 DEF MinDist, MaxDist, Greater

(* The least distance is not above the greatest, and both are natural      *)
(* numbers.                                                                *)
LEMMA DistInt ==
  ASSUME NEW a \in Box, NEW b \in Box, Proper(a), Proper(b)
  PROVE  /\ MinDist(a, b) \in Nat /\ MaxDist(a, b) \in Nat
         /\ MinDist(a, b) <= MaxDist(a, b)
<1>1. a["x"].lo \in Nat /\ a["x"].hi \in Nat /\ b["x"].lo \in Nat /\ b["x"].hi \in Nat
  BY DEF Box, Dim
<1>2. a["x"].lo <= a["x"].hi /\ b["x"].lo <= b["x"].hi BY DEF Proper, Dim
<1> QED BY <1>1, <1>2 DEF MinDist, MaxDist, Greater

(* TBTreeVisitor follows an entry whose box is larger than that of a unit  *)
(* below it: no unit the query asks for is lost on the way down, whatever  *)
(* the boxes and the distances are.                                        *)
THEOREM AncestorsPass ==
  ASSUME NEW q \in Queries, NEW b \in Box, NEW big \in Box,
         Proper(b), Proper(big), ContainsBox(big, b),
         Condition(q) # 0, Near(b, q), LongerThanInstant(b, q)
  PROVE  Passes(big, q)
<1>0. q.rect \in Box /\ Proper(q.rect) /\ q.dist1 \in Int /\ q.dist2 \in Int
      /\ q.inf \in BOOLEAN
  BY DEF Queries, QueryBoxes
<1>1. /\ b["x"].lo \in Nat /\ b["x"].hi \in Nat /\ big["x"].lo \in Nat
      /\ big["x"].hi \in Nat /\ big["x"].lo <= b["x"].lo /\ b["x"].hi <= big["x"].hi
  BY DEF Box, Dim, ContainsBox
<1>2. /\ b["t"].lo \in Nat /\ b["t"].hi \in Nat /\ big["t"].lo \in Nat
      /\ big["t"].hi \in Nat /\ big["t"].lo <= b["t"].lo /\ b["t"].hi <= big["t"].hi
  BY DEF Box, Dim, ContainsBox
<1>3. q.rect["t"].lo \in Nat /\ q.rect["t"].hi \in Nat BY <1>0 DEF Box, Dim
<1>4. ~SkipsTime(big, q)
  BY <1>2, <1>3 DEF SkipsTime, LongerThanInstant, Greater, Lesser
<1>5. PICK x \in b["x"].lo .. b["x"].hi, y \in q.rect["x"].lo .. q.rect["x"].hi :
        LET d == Greater(x - y, y - x)
        IN  q.dist1 <= d /\ (q.inf \/ d <= q.dist2)
  BY DEF Near
<1> DEFINE d == Greater(x - y, y - x)
           min == MinDist(big, q.rect)
           max == MaxDist(big, q.rect)
<1>6. q.dist1 <= d /\ (q.inf \/ d <= q.dist2) BY <1>5
<1>7. x \in big["x"].lo .. big["x"].hi BY <1>1
<1>8. min <= d /\ d <= max BY <1>0, <1>7, DistanceBounds
<1>9. min \in Nat /\ max \in Nat BY <1>0, DistInt
<1>10. d \in Int
  <2>1. x \in Int /\ y \in Int BY <1>0, <1>1 DEF Box, Dim
  <2> QED BY <2>1 DEF Greater
<1> HIDE DEF d, min, max
<1>11. ~ResultNone(big, q)
  <2>1. ResultNone(big, q) <=>
          CASE Condition(q) = 1 -> max > Dist2(q) /\ min > Dist2(q)
            [] Condition(q) = 2 -> min < q.dist1 /\ max < Dist2(q)
            [] Condition(q) = 3 -> FALSE
            [] Condition(q) = 4 -> max < q.dist1 \/ min > Dist2(q)
            [] OTHER -> TRUE
    BY DEF ResultNone, min, max
  <2>2. Condition(q) \in {1, 2, 3, 4} BY DEF Condition
  <2>3. CASE Condition(q) = 1
    <3>1. ~q.inf /\ Dist2(q) = q.dist2 BY <1>0, <2>3 DEF Condition, Dist2
    <3> QED BY <1>0, <1>6, <1>8, <1>9, <1>10, <2>1, <2>3, <3>1
  <2>4. CASE Condition(q) = 2
    <3>1. q.inf /\ Dist2(q) = -1 BY <1>0, <2>4 DEF Condition, Dist2
    <3> QED BY <1>9, <2>1, <2>4, <3>1
  <2>5. CASE Condition(q) = 3 BY <2>1, <2>5
  <2>6. CASE Condition(q) = 4
    <3>1. ~q.inf /\ Dist2(q) = q.dist2 BY <1>0, <2>6 DEF Condition, Dist2
    <3> QED BY <1>0, <1>6, <1>8, <1>9, <1>10, <2>1, <2>6, <3>1
  <2> QED BY <2>2, <2>3, <2>4, <2>5, <2>6
<1> QED BY <1>4, <1>11 DEF Passes

(* What passes in a leaf is what the query asks for, unless the second     *)
(* distance is infinite and the first is not 0: then CalcResultType leaves *)
(* nothing out by distance.                                                *)
THEOREM LeafExact ==
  ASSUME NEW q \in Queries, NEW b \in QueryBoxes, Condition(q) \in {1, 3, 4},
         Passes(b, q)
  PROVE  Near(b, q) /\ LongerThanInstant(b, q)
<1>0. /\ q.rect \in Box /\ Proper(q.rect) /\ q.dist1 \in Int /\ q.dist2 \in Int
      /\ q.inf \in BOOLEAN /\ b \in Box /\ Proper(b)
      /\ q.rect["t"].lo < q.rect["t"].hi /\ b["t"].lo < b["t"].hi
  BY DEF Queries, QueryBoxes
<1>1. LongerThanInstant(b, q)
  <2>1. /\ b["t"].lo \in Nat /\ b["t"].hi \in Nat
        /\ q.rect["t"].lo \in Nat /\ q.rect["t"].hi \in Nat
    BY <1>0 DEF Box, Dim
  <2> QED BY <1>0, <2>1 DEF Passes, SkipsTime, LongerThanInstant, Greater, Lesser
<1> DEFINE min == MinDist(b, q.rect)
           max == MaxDist(b, q.rect)
           d == Greater(min, q.dist1)
<1>2. min \in Nat /\ max \in Nat /\ min <= max BY <1>0, DistInt
<1>3. ~CASE Condition(q) = 1 -> max > Dist2(q) /\ min > Dist2(q)
         [] Condition(q) = 2 -> min < q.dist1 /\ max < Dist2(q)
         [] Condition(q) = 3 -> FALSE
         [] Condition(q) = 4 -> max < q.dist1 \/ min > Dist2(q)
         [] OTHER -> TRUE
  BY DEF Passes, ResultNone
<1> HIDE DEF min, max
<1>4. d \in Int /\ min <= d /\ q.dist1 <= d BY <1>0, <1>2 DEF Greater
<1>5. d <= max /\ (q.inf \/ d <= q.dist2)
  BY <1>0, <1>2, <1>3 DEF Condition, Dist2, Greater
<1> HIDE DEF d
<1>6. PICK x \in b["x"].lo .. b["x"].hi, y \in q.rect["x"].lo .. q.rect["x"].hi :
        Greater(x - y, y - x) = d
  BY <1>0, <1>4, <1>5, DistanceAttained DEF min, max
<1>7. Near(b, q) BY <1>4, <1>5, <1>6 DEF Near
<1> QED BY <1>1, <1>7
-----------------------------------------------------------------------------
(* What Found has after one entry more.                                    *)
Picked(refs, e, q) == IF Passes(e.box, q) THEN Append(refs, e.ref) ELSE refs

(* The references of the entries up to k that are not passed over.         *)
FollowedUpTo(es, k, q) == {es[i].ref : i \in {j \in 1 .. k : Passes(es[j].box, q)}}

(* Found goes through the entries one after the other.                     *)
LEMMA FoundFold ==
  ASSUME NEW n \in Node, NEW q
  PROVE  \E h \in [0 .. Len(n.entries) -> Seq(Nat)] :
           /\ h[0] = << >> /\ Found(n, q) = h[Len(n.entries)]
           /\ \A k \in 0 .. Len(n.entries) - 1 : h[k + 1] = Picked(h[k], n.entries[k + 1], q)
<1>1. PICK es : es = n.entries
  OBVIOUS
<1>2. es \in Seq(Entry) /\ DOMAIN es = 1 .. Len(es) /\ Len(es) \in Nat
  BY <1>1, NodeParts
<1> DEFINE S == Seq(Nat)
           Step(it) == [s \in SUBSET DOMAIN es |->
                          IF s = {} THEN << >> ELSE Picked(it[s \ {Max(s)}], es[Max(s)], q)]
           F == CHOOSE it : it = Step(it)
           step == [x \in S \X Entry |-> Picked(x[1], x[2], q)]
<1>3. \A s \in S : \A e \in Entry : Picked(s, e, q) \in S
  BY EntryParts DEF Picked
<1> HIDE DEF S
<1>4. step \in [S \X Entry -> S] /\ \A s \in S : \A e \in Entry : step[<<s, e>>] = Picked(s, e, q)
  BY <1>3
<1>5. FoldStep(S, Entry, es, << >>, step)
  <2>1. << >> \in S
    BY DEF S
  <2> HIDE DEF step
  <2> QED BY <1>2, <1>4, <2>1 DEF FoldStep
<1>6. PICK it : Folds(it, S, es, << >>, step)
  <2> HIDE DEF step
  <2> QED BY <1>5, FoldExists, Zenon
<1>7. it = Step(it)
  <2> HIDE DEF step
  <2>1. ASSUME NEW s \in SUBSET DOMAIN es, s # {}
        PROVE  it[s] = Picked(it[s \ {Max(s)}], es[Max(s)], q)
    <3>1. Max(s) \in 1 .. Len(es)
      BY <1>2, <2>1, MaxIn
    <3>2. it[s \ {Max(s)}] \in S /\ es[Max(s)] \in Entry
      BY <1>2, <1>6, <3>1 DEF Folds
    <3> QED BY <1>4, <1>6, <2>1, <3>2 DEF Folds
  <2> QED BY <1>6, <2>1 DEF Folds
<1>8. F = Step(F)
  BY <1>7, Zenon
<1>9. Found(n, q) = F[DOMAIN es]
  BY <1>1, Zenon DEF Found, Picked, FoldLeft, MapThenFoldSet
<1> HIDE DEF F, step
<1>10. FoldsBy(F, S, Entry, es, << >>, step)
  <2>1. F[{}] = << >>
    BY <1>8
  <2>2. ASSUME NEW s \in SUBSET DOMAIN es, s # {}, F[s \ {Max(s)}] \in S
        PROVE  F[s] = step[<<F[s \ {Max(s)}], es[Max(s)]>>]
    <3>1. F[s] = Picked(F[s \ {Max(s)}], es[Max(s)], q)
      BY <1>8, <2>2
    <3>2. es[Max(s)] \in Entry
      <4>1. Max(s) \in 1 .. Len(es)
        BY <1>2, <2>2, MaxIn
      <4> QED BY <1>2, <4>1
    <3> QED BY <1>4, <2>2, <3>1, <3>2
  <2> QED BY <1>5, <2>1, <2>2 DEF FoldsBy
<1>11. PICK h : StepsOf(h, S, es, << >>, step) /\ h[Len(es)] = F[DOMAIN es]
  BY <1>10, FoldSteps
<1>12. h \in [0 .. Len(es) -> S] /\ h[0] = << >>
       /\ \A k \in 0 .. Len(es) - 1 : h[k + 1] = step[<<h[k], es[k + 1]>>]
  BY <1>11 DEF StepsOf
<1>13. \A k \in 0 .. Len(es) - 1 : h[k + 1] = Picked(h[k], es[k + 1], q)
  <2>1. \A k \in 0 .. Len(es) - 1 : h[k] \in S /\ es[k + 1] \in Entry
    BY <1>2, <1>12
  <2> QED BY <1>4, <1>12, <2>1
<1> QED BY <1>1, <1>9, <1>11, <1>12, <1>13 DEF S

(* It returns what the entries that are not passed over refer to, and      *)
(* nothing twice when the entries refer to different things.               *)
LEMMA FoundFacts ==
  ASSUME NEW n \in Node, NEW q
  PROVE  /\ Found(n, q) \in Seq(Nat)
         /\ ToSet(Found(n, q)) = FollowedUpTo(n.entries, Len(n.entries), q)
         /\ Distinct(n.entries) => IsInjective(Found(n, q))
<1>1. PICK es, m : es = n.entries /\ m = Len(es)
  OBVIOUS
<1>2. es \in Seq(Entry) /\ m \in Nat /\ \A i \in 1 .. m : es[i].ref \in Nat
  BY <1>1, NodeParts, EntryParts
<1>3. PICK h \in [0 .. m -> Seq(Nat)] :
         /\ h[0] = << >> /\ Found(n, q) = h[m]
         /\ \A k \in 0 .. m - 1 : h[k + 1] = Picked(h[k], es[k + 1], q)
  BY <1>1, FoundFold
<1> DEFINE G == {k \in 0 .. m : /\ ToSet(h[k]) = FollowedUpTo(es, k, q)
                                /\ Distinct(es) => IsInjective(h[k])}
<1>4. 0 \in G
  BY <1>2, <1>3 DEF FollowedUpTo, ToSet, IsInjective
<1>5. ASSUME NEW k \in 0 .. m - 1, k \in G PROVE k + 1 \in G
  <2>1. k \in 0 .. m /\ k + 1 \in 0 .. m /\ k + 1 \in 1 .. m /\ h[k] \in Seq(Nat) /\ k \in Nat
    BY <1>2
  <2>2. PICK x : x = es[k + 1].ref
    OBVIOUS
  <2>3. x \in Nat
    BY <1>2, <2>1, <2>2
  <2>4. \A i \in 1 .. k + 1 : i \in 1 .. k \/ i = k + 1
    BY <2>1
  <2>5. 1 .. k \subseteq 1 .. k + 1 /\ k + 1 \in 1 .. k + 1 /\ 1 .. k \subseteq 1 .. m /\ k + 1 \notin 1 .. k
    BY <1>2, <2>1
  <2>6. CASE Passes(es[k + 1].box, q)
    <3>1. h[k + 1] = Append(h[k], x)
      BY <1>3, <2>2, <2>6 DEF Picked
    <3>2. FollowedUpTo(es, k + 1, q) = FollowedUpTo(es, k, q) \cup {x}
      BY <2>2, <2>4, <2>5, <2>6 DEF FollowedUpTo
    <3>3. Distinct(es) => x \notin FollowedUpTo(es, k, q)
      BY <1>1, <2>1, <2>2, <2>5 DEF FollowedUpTo, Distinct
    <3>4. ToSet(h[k]) = FollowedUpTo(es, k, q) /\ (Distinct(es) => IsInjective(h[k]))
      BY <1>5
    <3>5. /\ ToSet(Append(h[k], x)) = ToSet(h[k]) \cup {x}
          /\ x \notin ToSet(h[k]) /\ IsInjective(h[k]) => IsInjective(Append(h[k], x))
      BY <2>1, <2>3, AppendedTo
    <3> QED BY <2>1, <3>1, <3>2, <3>3, <3>4, <3>5
  <2>7. CASE ~Passes(es[k + 1].box, q)
    <3>1. h[k + 1] = h[k]
      BY <1>3, <2>7 DEF Picked
    <3>2. FollowedUpTo(es, k + 1, q) = FollowedUpTo(es, k, q)
      BY <2>4, <2>5, <2>7 DEF FollowedUpTo
    <3> QED BY <1>5, <2>1, <3>1, <3>2
  <2> QED BY <2>6, <2>7
<1>6. \A k \in 0 .. m : k \in G
  <2> HIDE DEF G
  <2> QED BY <1>2, <1>4, <1>5, FromZero
<1>7. m \in 0 .. m
  BY <1>2
<1> QED BY <1>1, <1>3, <1>6, <1>7

(* The sons of inner nodes are in the file.                                *)
SonsInFile ==
  /\ file \in Seq(Node)
  /\ \A x \in DOMAIN file : ~file[x].leaf => RefsOf(file[x].entries) \subseteq DOMAIN file

(* The searches that a round of perform makes of each other.               *)
Searches == [stack : Seq(DOMAIN file), queue : Seq(Nat)]

Round(s, q) == IF s.queue = << >> /\ s.stack # << >> THEN Visit(s, q) ELSE s

(* The node x is on top of the stack, before and after it is visited.      *)
Visited(s, q, rest, x, t) ==
  /\ rest \in Seq(DOMAIN file) /\ x \in DOMAIN file /\ s.stack = Append(rest, x)
  /\ s.queue = << >> /\ t \in Searches
  /\ file[x].leaf => t.stack = rest /\ t.queue = Found(file[x], q)
  /\ ~file[x].leaf => t.stack = rest \o Found(file[x], q) /\ t.queue = << >>

(* A round of perform leaves the search alone or takes the node on top of  *)
(* the stack.                                                              *)
LEMMA RoundVisits ==
  ASSUME SonsInFile, NEW q, NEW s \in Searches
  PROVE  /\ Round(s, q) \in Searches
         /\ Round(s, q) = s \/ \E rest, x : Visited(s, q, rest, x, Round(s, q))
<1>1. PICK st, qu : st = s.stack /\ qu = s.queue
  OBVIOUS
<1>2. st \in Seq(DOMAIN file) /\ qu \in Seq(Nat) /\ s = [stack |-> st, queue |-> qu]
  BY <1>1 DEF Searches
<1>3. CASE ~(qu = << >> /\ st # << >>)
  BY <1>1, <1>3 DEF Round
<1>4. CASE qu = << >> /\ st # << >>
  <2>1. PICK rest, x : rest = Front(st) /\ x = Last(st)
    OBVIOUS
  <2>2. x \in DOMAIN file /\ rest \in Seq(DOMAIN file) /\ st = Append(rest, x)
    BY <1>2, <1>4, <2>1, TopTaken
  <2>3. PICK refs : refs = Found(file[x], q)
    OBVIOUS
  <2>4. file[x] \in Node
    BY <2>2 DEF SonsInFile
  <2>5. refs \in Seq(Nat) /\ ToSet(refs) \subseteq RefsOf(file[x].entries)
    <3>1. FollowedUpTo(file[x].entries, Len(file[x].entries), q) \subseteq RefsOf(file[x].entries)
      BY DEF FollowedUpTo, RefsOf
    <3> QED BY <2>3, <2>4, <3>1, FoundFacts
  <2>6. Round(s, q) = IF file[x].leaf THEN [stack |-> rest, queue |-> qu \o refs]
                      ELSE [stack |-> rest \o refs, queue |-> qu]
    BY <1>1, <1>4, <2>1, <2>3 DEF Round, Visit
  <2>7. qu \o refs = refs
    BY <1>4, <2>5
  <2>8. CASE file[x].leaf
    <3>1. Round(s, q) = [stack |-> rest, queue |-> refs]
      BY <2>6, <2>7, <2>8
    <3>2. Round(s, q) \in Searches
      BY <2>2, <2>5, <3>1 DEF Searches
    <3> QED BY <1>1, <1>4, <2>2, <2>3, <2>8, <3>1, <3>2 DEF Visited
  <2>9. CASE ~file[x].leaf
    <3>1. Round(s, q) = [stack |-> rest \o refs, queue |-> << >>]
      BY <1>4, <2>6, <2>9
    <3>2. refs \in Seq(DOMAIN file)
      <4>1. ToSet(refs) \subseteq DOMAIN file
        BY <2>2, <2>5, <2>9 DEF SonsInFile
      <4>2. \A i \in 1 .. Len(refs) : refs[i] \in DOMAIN file
        BY <2>5, <4>1 DEF ToSet
      <4> QED BY <2>5, <4>2
    <3>3. rest \o refs \in Seq(DOMAIN file)
      BY <2>2, <3>2
    <3>4. Round(s, q) \in Searches
      BY <3>1, <3>3 DEF Searches
    <3>5. Round(s, q).stack = rest \o Found(file[x], q) /\ Round(s, q).queue = << >>
      BY <2>3, <3>1
    <3>6. Visited(s, q, rest, x, Round(s, q))
      BY <1>1, <1>4, <2>2, <2>9, <3>4, <3>5 DEF Visited
    <3> QED BY <3>4, <3>6
  <2> QED BY <2>8, <2>9
<1> QED BY <1>3, <1>4

(* What every round keeps holds when perform has ended.                    *)
LEMMA PerformKeeps ==
  ASSUME SonsInFile, NEW q, NEW stack, NEW queue, NEW G, G \subseteq Searches,
         [stack |-> stack, queue |-> queue] \in G,
         \A s \in G : Round(s, q) \in G
  PROVE  Perform(stack, queue, q) \in G
<1> DEFINE base == [stack |-> stack, queue |-> queue]
           Step(it) == [s \in SUBSET DOMAIN file |->
                          IF s = {} THEN base ELSE Round(it[s \ {Max(s)}], q)]
           F == CHOOSE it : it = Step(it)
           step == [x \in G \X Node |-> Round(x[1], q)]
<1>1. file \in Seq(Node) /\ DOMAIN file = 1 .. Len(file) /\ Len(file) \in Nat
  BY DEF SonsInFile
<1>2. base \in G
  OBVIOUS
<1>3. step \in [G \X Node -> G] /\ \A s \in G : \A n \in Node : step[<<s, n>>] = Round(s, q)
  OBVIOUS
<1>4. FoldStep(G, Node, file, base, step)
  <2> HIDE DEF step, base
  <2> QED BY <1>1, <1>2, <1>3 DEF FoldStep
<1> HIDE DEF base
<1>5. PICK it : Folds(it, G, file, base, step)
  <2> HIDE DEF step
  <2> QED BY <1>4, FoldExists, Zenon
<1>6. it = Step(it)
  <2> HIDE DEF step
  <2>1. ASSUME NEW s \in SUBSET DOMAIN file, s # {} PROVE it[s] = Round(it[s \ {Max(s)}], q)
    <3>1. Max(s) \in 1 .. Len(file)
      BY <1>1, <2>1, MaxIn
    <3>2. it[s \ {Max(s)}] \in G /\ file[Max(s)] \in Node
      BY <1>1, <1>5, <3>1 DEF Folds
    <3> QED BY <1>3, <1>5, <2>1, <3>2 DEF Folds
  <2> QED BY <1>5, <2>1 DEF Folds
<1>7. F = Step(F)
  BY <1>6, Zenon
<1>8. Perform(stack, queue, q) = F[DOMAIN file]
  BY Zenon DEF Perform, Round, FoldLeft, MapThenFoldSet, base
<1> HIDE DEF F, step
<1>9. FoldsBy(F, G, Node, file, base, step)
  <2>1. F[{}] = base
    BY <1>7
  <2>2. ASSUME NEW s \in SUBSET DOMAIN file, s # {}, F[s \ {Max(s)}] \in G
        PROVE  F[s] = step[<<F[s \ {Max(s)}], file[Max(s)]>>]
    <3>1. F[s] = Round(F[s \ {Max(s)}], q)
      BY <1>7, <2>2
    <3>2. Max(s) \in 1 .. Len(file)
      BY <1>1, <2>2, MaxIn
    <3>3. file[Max(s)] \in Node
      BY <1>1, <3>2
    <3> QED BY <1>3, <2>2, <3>1, <3>3
  <2> QED BY <1>4, <2>1, <2>2 DEF FoldsBy
<1>10. PICK h : StepsOf(h, G, file, base, step) /\ h[Len(file)] = F[DOMAIN file]
  BY <1>9, FoldSteps
<1>11. Len(file) \in 0 .. Len(file)
  BY <1>1
<1> QED BY <1>8, <1>10, <1>11 DEF StepsOf

(* No bulk load is at work, and none has been.                             *)
Quiet ==
  /\ ~loading /\ dropped = {}
  /\ \A t \in 1 .. Len(given) : given[t].box \in UnitBox

(* What the search takes of the tree.                                      *)
TreeOK == IInv /\ LeavesOK /\ Hung /\ Roomy /\ Quiet

(* To the tree a step of the filter is an update or nothing.               *)
LEMMA FilterStep == [FilterNext]_allVars => [Next]_vars
<1> SUFFICES ASSUME [FilterNext]_allVars PROVE [Next]_vars
  OBVIOUS
<1>1. CASE UNCHANGED allVars
  BY <1>1 DEF allVars
<1>2. CASE StreamUpdate
  BY <1>2 DEF StreamUpdate, Next
<1>3. CASE \E q \in Query : Open(q) \/ OpenFails(q)
  <2>1. UNCHANGED vars
    BY <1>3 DEF Open, OpenFails
  <2> QED BY <2>1
<1>4. CASE Request \/ Close \/ NextQuery
  <2>1. UNCHANGED vars
    BY <1>4 DEF Request, Close, NextQuery
  <2> QED BY <2>1
<1> QED BY <1>1, <1>2, <1>3, <1>4 DEF FilterNext

(* No bulk load begins, nothing is dropped, and every unit is one the type *)
(* allows.                                                                 *)
LEMMA QuietStep == IInv /\ Quiet /\ [FilterNext]_allVars => Quiet'
<1> SUFFICES ASSUME IInv, Quiet, [FilterNext]_allVars PROVE Quiet'
  OBVIOUS
<1>1. CASE UNCHANGED vars
  BY <1>1 DEF vars, Quiet
<1>2. CASE StreamUpdate
  <2>1. PICK trj \in Trj, b \in UnitBox : Insert(trj, b)
    BY <1>2 DEF StreamUpdate
  <2>2. given' = Append(given, [trj |-> trj, box |-> b]) /\ loading' = loading /\ dropped' = dropped
    BY <2>1 DEF Insert, InsertFirst, InsertIntoLeaf, InsertNewLeaf, Given
  <2>3. PICK g, e : g = given /\ e = [trj |-> trj, box |-> b]
    OBVIOUS
  <2>4. g \in Seq([trj : Trj, box : Box]) /\ e \in [trj : Trj, box : Box] /\ e.box = b
    <3>1. b \in Box
      BY TBTreeAssumption
    <3> QED BY <2>3, <3>1 DEF IInv, TypeOK
  <2>5. Len(g) \in Nat /\ Len(Append(g, e)) = Len(g) + 1 /\ Append(g, e)[Len(g) + 1] = e
        /\ \A t \in 1 .. Len(g) : Append(g, e)[t] = g[t]
    BY <2>4
  <2>6. ASSUME NEW t \in 1 .. Len(g) + 1 PROVE Append(g, e)[t].box \in UnitBox
    <3>1. t \in 1 .. Len(g) \/ t = Len(g) + 1
      BY <2>5
    <3> QED BY <2>3, <2>4, <2>5, <3>1 DEF Quiet
  <2>7. given' = Append(g, e)
    BY <2>2, <2>3
  <2> QED BY <2>2, <2>5, <2>6, <2>7 DEF Quiet
<1>3. UNCHANGED vars \/ StreamUpdate
  BY DEF allVars, FilterNext, Open, OpenFails, Request, Close, NextQuery
<1> QED BY <1>1, <1>2, <1>3

(* What is known of the tree is known of it under the filter.              *)
LEMMA TreeAlways == FilterSpec => []TreeOK
<1>1. FilterInit => Init
  BY DEF FilterInit
<1>2. Init => Quiet
  BY DEF Init, Quiet
<1>3. FilterSpec => Spec
  BY <1>1, FilterStep, PTL DEF FilterSpec, Spec
<1>4. FilterSpec => []IInv
  BY <1>3, IInvAlways, PTL
<1>5. FilterSpec => []Quiet
  BY <1>1, <1>2, <1>4, QuietStep, PTL DEF FilterSpec
<1> QED BY <1>3, <1>4, <1>5, LeavesAlways, HungAlways, RoomAlways, PTL DEF TreeOK

(* The entries of a leaf are units that were given.                        *)
LEMMA LeafUnits ==
  ASSUME TreeOK
  PROVE  /\ Bundled(FileView(file), given)
         /\ \A x \in DOMAIN file : file[x].leaf =>
              /\ Distinct(file[x].entries)
              /\ \A i \in 1 .. Len(file[x].entries) :
                   /\ file[x].entries[i].ref \in 1 .. Len(given)
                   /\ file[x].entries[i].box = given[file[x].entries[i].ref].box
<1>1. InMemory = {}
  BY DEF TreeOK, Quiet, IInv, HeldOK
<1>2. LeafView = FileView(file)
  BY <1>1, FileStands DEF TreeOK, LeavesOK, FileView
<1>3. Bundled(FileView(file), given)
  BY <1>2 DEF TreeOK, LeavesOK
<1>4. \A x \in DOMAIN file : file[x].leaf => x \in DOMAIN FileView(file) /\ FileView(file)[x] = file[x]
  BY DEF FileView
<1>5. \A x \in DOMAIN file : file[x].leaf => Owned(file[x], given)
  BY <1>3, <1>4 DEF Bundled
<1> QED BY <1>3, <1>5 DEF Owned

(* The unit t is in a leaf below x.                                        *)
Has(x, t) == \E id \in Leaves(Below(x)) : t \in Refs(file[id])

(* The levels of the nodes, when the tree is not empty.                    *)
LEMMA TreeLevels ==
  ASSUME TreeOK, rootId # 0
  PROVE  \E lv : /\ Levelled(file, lv, {}) /\ lv \in [DOMAIN file -> Nat] /\ file \in Seq(Node)
                 /\ Once(file, {}) /\ rootId \in DOMAIN file /\ SonsInFile
<1>1. PICK lv : Standing(file, lv, dropped, rootId)
  BY TreeRanked DEF TreeOK
<1>2. Levelled(file, lv, {}) /\ Once(file, {}) /\ rootId \in DOMAIN file /\ file \in Seq(Node)
  BY <1>1, StandingFile DEF Standing, Shape, TreeOK, Quiet
<1>3. lv \in [DOMAIN file -> Nat] /\ SonsInFile
  BY <1>2 DEF Levelled, SonsInFile, Son
<1> QED BY <1>2, <1>3

(* What a node refers to, as the proofs about the tree write it.           *)
LEMMA NodeRefs == \A n \in Node : Refs(n) = RefsOf(n.entries)
  BY NodeParts DEF Refs, RefsOf

(* What is below a node is it or below one of its sons.                    *)
LEMMA BelowIs ==
  ASSUME NEW lv, NEW gone, Levelled(file, lv, gone)
  PROVE  \A x \in DOMAIN file :
           /\ file[x].leaf => Below(x) = {x}
           /\ ~file[x].leaf => \A y : y \in Below(x) <=>
                                        y = x \/ \E u \in RefsOf(file[x].entries) : y \in Below(u)
           /\ Below(x) \subseteq DOMAIN file /\ x \in Below(x)
<1>1. PICK g : \A d \in DOMAIN file :
        /\ Below(d) = g[d]
        /\ g[d] = {d} \cup IF file[d].leaf THEN {} ELSE UNION {g[s] : s \in Refs(file[d])}
  BY BelowSons
<1>2. file \in Seq(Node)
  BY DEF Levelled
<1>3. ASSUME NEW x \in DOMAIN file, ~file[x].leaf
      PROVE  /\ Refs(file[x]) = RefsOf(file[x].entries)
             /\ \A u \in Refs(file[x]) : u \in DOMAIN file
  BY <1>2, <1>3, NodeRefs, SonFacts
<1>4. ASSUME NEW x \in DOMAIN file, ~file[x].leaf, NEW y
      PROVE  y \in Below(x) <=> y = x \/ \E u \in RefsOf(file[x].entries) : y \in Below(u)
  <2>1. y \in g[x] <=> y = x \/ \E u \in Refs(file[x]) : y \in g[u]
    BY <1>1, <1>4
  <2> QED BY <1>1, <1>3, <1>4, <2>1
<1>5. \A x \in DOMAIN file : x \in Below(x) /\ (file[x].leaf => Below(x) = {x})
  BY <1>1
<1>6. lv \in [DOMAIN file -> Nat]
  BY DEF Levelled
<1>7. ASSUME NEW x \in DOMAIN file PROVE Below(x) \subseteq DOMAIN file
  <2> DEFINE G == {d \in DOMAIN file : Below(d) \subseteq DOMAIN file}
  <2>1. ASSUME NEW d \in DOMAIN file, \A e \in DOMAIN file : lv[e] < lv[d] => e \in G PROVE d \in G
    <3>1. CASE file[d].leaf
      BY <1>5, <3>1
    <3>2. CASE ~file[d].leaf
      <4>1. \A u \in RefsOf(file[d].entries) : u \in G
        BY <1>3, <2>1, <3>2, SonFacts
      <4> QED BY <1>4, <3>2, <4>1
    <3> QED BY <3>1, <3>2
  <2> HIDE DEF G
  <2>2. \A d \in DOMAIN file : d \in G
    BY <1>6, <2>1, ByLevel
  <2> QED BY <2>2 DEF G
<1> QED BY <1>4, <1>5, <1>7

(* The units below a node are those of its sons, or its own.               *)
LEMMA HasIs ==
  ASSUME NEW lv, NEW gone, Levelled(file, lv, gone)
  PROVE  \A x \in DOMAIN file : \A t :
           /\ file[x].leaf => (Has(x, t) <=> t \in RefsOf(file[x].entries))
           /\ ~file[x].leaf => (Has(x, t) <=> \E u \in RefsOf(file[x].entries) : Has(u, t))
<1>1. file \in Seq(Node)
  BY DEF Levelled
<1>2. ASSUME NEW x \in DOMAIN file, file[x].leaf, NEW t
      PROVE  Has(x, t) <=> t \in RefsOf(file[x].entries)
  <2>1. Below(x) = {x} /\ Refs(file[x]) = RefsOf(file[x].entries)
    BY <1>1, <1>2, BelowIs, NodeRefs
  <2> QED BY <1>2, <2>1 DEF Has, Leaves
<1>3. ASSUME NEW x \in DOMAIN file, ~file[x].leaf, NEW t
      PROVE  Has(x, t) <=> \E u \in RefsOf(file[x].entries) : Has(u, t)
  <2>1. \A y : y \in Below(x) <=> y = x \/ \E u \in RefsOf(file[x].entries) : y \in Below(u)
    BY <1>3, BelowIs
  <2>2. \A y : y \in Leaves(Below(x)) <=> \E u \in RefsOf(file[x].entries) : y \in Leaves(Below(u))
    BY <1>3, <2>1 DEF Leaves
  <2> QED BY <2>2 DEF Has
<1> QED BY <1>2, <1>3

(* The units below sons whose entries were left too small.                 *)
LEMMA NarrowHas == \A t : t \in UnderNarrow <=> \E r \in narrow : Has(r, t)
  BY DEF UnderNarrow, Has, Leaves

(* A query has a proper box and lasts longer than an instant ...           *)
LEMMA QueryParts ==
  ASSUME NEW q \in Query
  PROVE  q \in Queries
BY TBTreeFilterAssumption DEF Queries, QueryBoxes

(* ... and so does a unit that was given.                                  *)
LEMMA UnitParts ==
  ASSUME TreeOK, NEW t \in 1 .. Len(given)
  PROVE  given[t].box \in QueryBoxes
<1>1. given[t].box \in UnitBox
  BY DEF TreeOK, Quiet
<1> QED BY <1>1, TBTreeAssumption, TBTreeFilterAssumption DEF QueryBoxes

(* The box of a node holds that of every unit below it, but of those below *)
(* an entry that was left too small.                                       *)
LEMMA BoxBelow ==
  ASSUME TreeOK, rootId # 0, NEW t \in 1 .. Len(given), t \notin UnderNarrow
  PROVE  \A x \in DOMAIN file : Has(x, t) =>
           file[x].entries # << >> /\ ContainsBox(BoxOf(file[x].entries), given[t].box)
<1>1. PICK lv : /\ Levelled(file, lv, {}) /\ lv \in [DOMAIN file -> Nat] /\ file \in Seq(Node)
                /\ Once(file, {}) /\ SonsInFile
  BY TreeLevels
<1>2. PICK b : b = given[t].box
  OBVIOUS
<1>3. b \in Box
  BY <1>2, UnitParts DEF QueryBoxes
<1> DEFINE HeldIn(x) == file[x].entries # << >> /\ ContainsBox(BoxOf(file[x].entries), b)
           G == {x \in DOMAIN file : Has(x, t) => HeldIn(x)}
<1>4. ASSUME NEW d \in DOMAIN file, \A e \in DOMAIN file : lv[e] < lv[d] => e \in G PROVE d \in G
  <2>1. SUFFICES ASSUME Has(d, t) PROVE HeldIn(d)
    OBVIOUS
  <2>2. PICK es : es = file[d].entries
    OBVIOUS
  <2>3. es \in Seq(Entry)
    <3>1. file[d] \in Node
      BY <1>1
    <3> QED BY <2>2, <3>1, NodeParts
  <2>4. ASSUME NEW i \in 1 .. Len(es), ContainsBox(es[i].box, b) PROVE HeldIn(d)
    <3>1. es # << >> /\ es[i].box \in Box
      BY <2>3, Places, EntryParts
    <3>2. BoxOf(es) \in Box
      BY <2>3, <3>1, BoxOfType
    <3>3. ContainsBox(BoxOf(es), BoxOf(es))
      BY <3>2 DEF ContainsBox, Box
    <3>4. ContainsBox(BoxOf(es), es[i].box)
      BY <2>3, <3>1, <3>2, <3>3, BoxHeld DEF Holds
    <3>5. ContainsBox(BoxOf(es), b)
      BY <1>3, <2>4, <3>1, <3>2, <3>4, HoldsOn
    <3> QED BY <2>2, <3>1, <3>5
  <2>5. CASE file[d].leaf
    <3>1. t \in RefsOf(es)
      BY <1>1, <2>1, <2>2, <2>5, HasIs
    <3>2. PICK i \in 1 .. Len(es) : es[i].ref = t
      BY <3>1 DEF RefsOf
    <3>3. es[i].box = b
      BY <1>2, <2>2, <2>5, <3>2, LeafUnits
    <3>4. ContainsBox(b, b)
      BY <1>3 DEF ContainsBox, Box
    <3> QED BY <2>4, <3>3, <3>4
  <2>6. CASE ~file[d].leaf
    <3>1. PICK u \in RefsOf(es) : Has(u, t)
      BY <1>1, <2>1, <2>2, <2>6, HasIs
    <3>2. PICK i \in 1 .. Len(es) : es[i].ref = u
      BY <3>1 DEF RefsOf
    <3>3. u \in DOMAIN file /\ lv[u] < lv[d] /\ u # 0
      <4>1. Refs(file[d]) = RefsOf(es)
        BY <1>1, <2>2, NodeRefs
      <4>2. u \in DOMAIN file /\ lv[u] < lv[d]
        BY <1>1, <2>6, <3>1, <4>1, SonFacts
      <4> QED BY <1>1, <4>2
    <3>4. HeldIn(u)
      BY <1>4, <3>1, <3>3
    <3>5. u \notin narrow
      BY <3>1, NarrowHas
    <3>6. ContainsBox(es[i].box, BoxOf(file[u].entries))
      <4>1. d \in Inners(file, dropped) /\ es[i] \in ToSet(file[d].entries)
        BY <2>2, <2>3, <2>6 DEF Inners, TreeOK, Quiet, ToSet
      <4>2. Encloses(file, narrow, es[i])
        BY <3>2, <3>3, <4>1 DEF TreeOK, Roomy, Covered
      <4> QED BY <3>2, <3>5, <4>2 DEF Encloses
    <3>7. BoxOf(file[u].entries) \in Box /\ es[i].box \in Box
      <4>1. file[u].entries \in Seq(Entry)
        BY <1>1, <3>3, NodeParts
      <4> QED BY <2>3, <3>4, <4>1, BoxOfType, EntryParts
    <3>8. ContainsBox(es[i].box, b)
      BY <1>3, <3>4, <3>6, <3>7, HoldsOn
    <3> QED BY <2>4, <3>8
  <2> QED BY <2>5, <2>6
<1>5. \A d \in DOMAIN file : d \in G
  <2>1. lv \in [DOMAIN file -> Nat]
    BY <1>1
  <2> HIDE DEF G
  <2> QED BY <1>4, <2>1, ByLevel
<1> QED BY <1>2, <1>5

(* What the search has come to: the nodes still to visit and the units     *)
(* found since OPEN.  Those found pass; ...                                *)
PassOnly(out, q) == \A t \in ToSet(out) : t \in 1 .. Len(given) /\ Passes(given[t].box, q)

(* ... those asked for are found, or below a node still to visit; ...      *)
NoneLost(stack, out, q) ==
  \A t \in 1 .. Len(given) :
    Near(given[t].box, q) /\ LongerThanInstant(given[t].box, q) =>
      t \in ToSet(out) \/ t \in UnderNarrow \/ \E x \in ToSet(stack) : Has(x, t)

(* ... and none is found twice or still to be found again, below nodes     *)
(* still to visit or below two of them.                                    *)
NoneTwice(stack, out) ==
  /\ IsInjective(out)
  /\ \A t \in ToSet(out) : \A x \in ToSet(stack) : ~Has(x, t)
  /\ IsInjective(stack)
  /\ \A a, b \in ToSet(stack) : a # b => Below(a) \cap Below(b) = {}

(* The nodes to visit and the units found, after the units y.              *)
TakenOn(s, q, rest, x, t, y) ==
  /\ ToSet(s.stack) = ToSet(rest) \cup {x} /\ y \o s.queue = y
  /\ Found(file[x], q) \in Seq(Nat)
  /\ ToSet(Found(file[x], q)) = FollowedUpTo(file[x].entries, Len(file[x].entries), q)
  /\ file[x].leaf => /\ ToSet(y \o t.queue) = ToSet(y) \cup ToSet(Found(file[x], q))
                     /\ t.stack = rest
  /\ ~file[x].leaf => /\ ToSet(t.stack) = ToSet(rest) \cup ToSet(Found(file[x], q))
                      /\ y \o t.queue = y

(* What a visit makes of the stack and of what was found.                  *)
LEMMA Visits ==
  ASSUME NEW s, NEW q, NEW rest, NEW x, NEW t, SonsInFile, Visited(s, q, rest, x, t),
         NEW y \in Seq(Nat)
  PROVE  TakenOn(s, q, rest, x, t, y)
<1>1. /\ rest \in Seq(DOMAIN file) /\ x \in DOMAIN file /\ s.stack = Append(rest, x)
      /\ s.queue = << >> /\ t \in Searches
      /\ file[x].leaf => t.stack = rest /\ t.queue = Found(file[x], q)
      /\ ~file[x].leaf => t.stack = rest \o Found(file[x], q) /\ t.queue = << >>
  BY DEF Visited
<1>2. file[x] \in Node
  BY <1>1 DEF SonsInFile
<1>3. PICK refs : refs = Found(file[x], q)
  OBVIOUS
<1>4. refs \in Seq(Nat)
  BY <1>2, <1>3, FoundFacts
<1>5. ToSet(s.stack) = ToSet(rest) \cup {x}
  BY <1>1, AppendedTo
<1>6. y \o << >> = y
  OBVIOUS
<1>7. rest \in Seq(Nat)
  <2>1. DOMAIN file \subseteq Nat
    BY DEF SonsInFile
  <2>2. \A i \in 1 .. Len(rest) : rest[i] \in DOMAIN file
    BY <1>1
  <2> QED BY <1>1, <2>1, <2>2
<1>8. ToSet(rest \o refs) = ToSet(rest) \cup ToSet(refs) /\ ToSet(y \o refs) = ToSet(y) \cup ToSet(refs)
  BY <1>4, <1>7, ConcatMembers
<1>9. ToSet(refs) = FollowedUpTo(file[x].entries, Len(file[x].entries), q)
  BY <1>2, <1>3, FoundFacts
<1> QED BY <1>1, <1>3, <1>4, <1>5, <1>6, <1>8, <1>9 DEF TakenOn

(* A round of perform keeps what has been found apart from what is not.    *)
LEMMA VisitPasses ==
  ASSUME TreeOK, SonsInFile, NEW q, NEW s, NEW rest, NEW x, NEW t, Visited(s, q, rest, x, t),
         NEW y \in Seq(Nat), PassOnly(y \o s.queue, q)
  PROVE  PassOnly(y \o t.queue, q)
<1>1. x \in DOMAIN file /\ file[x] \in Node
  BY DEF Visited, SonsInFile
<1>0. TakenOn(s, q, rest, x, t, y)
  BY Visits
<1>2. PassOnly(y, q)
  BY <1>0 DEF TakenOn
<1>3. CASE ~file[x].leaf
  BY <1>0, <1>2, <1>3 DEF TakenOn
<1>4. CASE file[x].leaf
  <2>1. ToSet(y \o t.queue) = ToSet(y) \cup FollowedUpTo(file[x].entries, Len(file[x].entries), q)
    BY <1>0, <1>4 DEF TakenOn
  <2>2. \A i \in 1 .. Len(file[x].entries) :
          /\ file[x].entries[i].ref \in 1 .. Len(given)
          /\ file[x].entries[i].box = given[file[x].entries[i].ref].box
    BY <1>1, <1>4, LeafUnits
  <2>3. ASSUME NEW u \in FollowedUpTo(file[x].entries, Len(file[x].entries), q)
        PROVE  u \in 1 .. Len(given) /\ Passes(given[u].box, q)
    <3>1. PICK i \in 1 .. Len(file[x].entries) :
            Passes(file[x].entries[i].box, q) /\ file[x].entries[i].ref = u
      BY <2>3 DEF FollowedUpTo
    <3> QED BY <2>2, <3>1
  <2> QED BY <1>2, <2>1, <2>3 DEF PassOnly
<1> QED BY <1>3, <1>4

(* A visit loses no unit: of those below the node that are asked for, each *)
(* is below a son that is followed, or in the leaf and found.              *)
LEMMA VisitLoses ==
  ASSUME TreeOK, rootId # 0, NEW q \in Query, Condition(q) # 0,
         NEW s, NEW rest, NEW x, NEW t, Visited(s, q, rest, x, t),
         NEW y \in Seq(Nat), NoneLost(s.stack, y \o s.queue, q)
  PROVE  NoneLost(t.stack, y \o t.queue, q)
<1>1. PICK lv : /\ Levelled(file, lv, {}) /\ lv \in [DOMAIN file -> Nat] /\ file \in Seq(Node)
                /\ Once(file, {}) /\ SonsInFile
  BY TreeLevels
<1>2. x \in DOMAIN file /\ file[x] \in Node
  BY <1>1 DEF Visited, SonsInFile
<1>3. PICK es : es = file[x].entries
  OBVIOUS
<1>4. TakenOn(s, q, rest, x, t, y)
  BY <1>1, Visits
<1>5. SUFFICES ASSUME NEW u \in 1 .. Len(given),
                      Near(given[u].box, q) /\ LongerThanInstant(given[u].box, q)
               PROVE  u \in ToSet(y \o t.queue) \/ u \in UnderNarrow \/ \E z \in ToSet(t.stack) : Has(z, u)
  BY DEF NoneLost
<1>6. PICK b : b = given[u].box
  OBVIOUS
<1>7. b \in Box /\ Proper(b) /\ q \in Queries /\ Near(b, q) /\ LongerThanInstant(b, q)
  BY <1>5, <1>6, UnitParts, QueryParts DEF QueryBoxes
<1>8. \A big \in Box : ContainsBox(big, b) => Passes(big, q)
  <2>1. ASSUME NEW big \in Box, ContainsBox(big, b) PROVE Proper(big)
    <3>1. ASSUME NEW d \in Dim PROVE big[d].lo <= big[d].hi
      <4>1. /\ big[d].lo \in Nat /\ big[d].hi \in Nat /\ b[d].lo \in Nat /\ b[d].hi \in Nat
            /\ big[d].lo <= b[d].lo /\ b[d].lo <= b[d].hi /\ b[d].hi <= big[d].hi
        BY <1>7, <2>1 DEF ContainsBox, Box, Proper
      <4> QED BY <4>1
    <3> QED BY <3>1 DEF Proper
  <2> QED BY <1>7, <2>1, AncestorsPass
<1>9. u \in ToSet(y) \/ u \in UnderNarrow \/ Has(x, u) \/ \E z \in ToSet(rest) : Has(z, u)
  BY <1>4, <1>5 DEF NoneLost, TakenOn
<1>10. es \in Seq(Entry)
  BY <1>2, <1>3, NodeParts
<1>11. CASE file[x].leaf
  <2>1. ToSet(y \o t.queue) = ToSet(y) \cup FollowedUpTo(es, Len(es), q) /\ t.stack = rest
    BY <1>3, <1>4, <1>11 DEF TakenOn
  <2>2. ASSUME Has(x, u) PROVE u \in FollowedUpTo(es, Len(es), q)
    <3>1. PICK i \in 1 .. Len(es) : es[i].ref = u
      <4>1. u \in RefsOf(file[x].entries)
        BY <1>1, <1>2, <1>11, <2>2, HasIs
      <4> QED BY <1>3, <4>1 DEF RefsOf
    <3>2. es[i].box = b
      BY <1>2, <1>3, <1>6, <1>11, <3>1, LeafUnits
    <3>3. ContainsBox(b, b)
      BY <1>7 DEF ContainsBox, Box
    <3> QED BY <1>7, <1>8, <3>1, <3>2, <3>3 DEF FollowedUpTo
  <2> QED BY <1>9, <2>1, <2>2
<1>12. CASE ~file[x].leaf
  <2>1. ToSet(t.stack) = ToSet(rest) \cup FollowedUpTo(es, Len(es), q) /\ y \o t.queue = y
    BY <1>3, <1>4, <1>12 DEF TakenOn
  <2>2. ASSUME Has(x, u), u \notin UnderNarrow PROVE \E z \in FollowedUpTo(es, Len(es), q) : Has(z, u)
    <3>1. PICK z \in RefsOf(es) : Has(z, u)
      BY <1>1, <1>2, <1>3, <1>12, <2>2, HasIs
    <3>2. PICK i \in 1 .. Len(es) : es[i].ref = z
      BY <3>1 DEF RefsOf
    <3>3. z \in DOMAIN file /\ z # 0
      <4>1. z \in DOMAIN file
        BY <1>1, <1>2, <1>3, <1>12, <3>1 DEF SonsInFile
      <4> QED BY <1>1, <4>1
    <3>4. file[z].entries # << >> /\ ContainsBox(BoxOf(file[z].entries), b)
      BY <1>6, <2>2, <3>1, <3>3, BoxBelow
    <3>5. z \notin narrow
      BY <2>2, <3>1, NarrowHas
    <3>6. ContainsBox(es[i].box, BoxOf(file[z].entries))
      <4>1. x \in Inners(file, dropped) /\ es[i] \in ToSet(file[x].entries)
        BY <1>2, <1>3, <1>10, <1>12 DEF Inners, TreeOK, Quiet, ToSet
      <4>2. Encloses(file, narrow, es[i])
        BY <3>2, <3>3, <4>1 DEF TreeOK, Roomy, Covered
      <4> QED BY <3>2, <3>5, <4>2 DEF Encloses
    <3>7. BoxOf(file[z].entries) \in Box /\ es[i].box \in Box
      <4>1. file[z].entries \in Seq(Entry)
        BY <1>1, <3>3, NodeParts
      <4> QED BY <1>10, <3>4, <4>1, BoxOfType, EntryParts
    <3>8. ContainsBox(es[i].box, b)
      BY <1>7, <3>4, <3>6, <3>7, HoldsOn
    <3>9. Passes(es[i].box, q)
      BY <1>8, <3>7, <3>8
    <3> QED BY <3>1, <3>2, <3>9 DEF FollowedUpTo
  <2> QED BY <1>9, <2>1, <2>2
<1> QED BY <1>11, <1>12

(* There is one way to every node: what is below two nodes is below one of *)
(* them that is below the other.                                           *)
OneWay(lv) ==
  /\ \A x \in DOMAIN file : \A y \in Below(x) :
       /\ y \in DOMAIN file /\ lv[y] <= lv[x] /\ (lv[y] = lv[x] => y = x)
       /\ Below(y) \subseteq Below(x)
  /\ \A u, v \in DOMAIN file : \A y \in Below(u) \cap Below(v) : u \in Below(v) \/ v \in Below(u)

(* Every node is below one father only, so what is below two nodes shows   *)
(* that one of them is below the other.                                    *)
LEMMA WaysMeet ==
  ASSUME NEW lv, Levelled(file, lv, {}), Once(file, {})
  PROVE  OneWay(lv)
<1>1. file \in Seq(Node) /\ lv \in [DOMAIN file -> Nat] /\ DOMAIN file = 1 .. Len(file) /\ Len(file) \in Nat
  BY DEF Levelled
<1>2. ASSUME NEW x \in DOMAIN file, ~file[x].leaf, NEW u \in RefsOf(file[x].entries)
      PROVE  u \in DOMAIN file /\ lv[u] \in Nat /\ lv[x] \in Nat /\ lv[u] + 1 = lv[x] /\ lv[u] < lv[x]
  <2>1. u \in Refs(file[x])
    BY <1>1, <1>2, NodeRefs
  <2> QED BY <1>2, <2>1, SonFacts
<1>3. \A x \in DOMAIN file :
        /\ file[x].leaf => Below(x) = {x}
        /\ ~file[x].leaf => \A y : y \in Below(x) <=>
                                     y = x \/ \E u \in RefsOf(file[x].entries) : y \in Below(u)
        /\ Below(x) \subseteq DOMAIN file /\ x \in Below(x)
  BY BelowIs
<1> DEFINE Fine(x, y) ==
             /\ y \in DOMAIN file /\ lv[y] <= lv[x] /\ (lv[y] = lv[x] => y = x)
             /\ Below(y) \subseteq Below(x)
             /\ y = x \/ \E d \in Below(x) : ~file[d].leaf /\ y \in RefsOf(file[d].entries)
           G == {x \in DOMAIN file : \A y \in Below(x) : Fine(x, y)}
<1>4. ASSUME NEW x \in DOMAIN file, \A e \in DOMAIN file : lv[e] < lv[x] => e \in G PROVE x \in G
  <2>1. SUFFICES ASSUME NEW y \in Below(x) PROVE Fine(x, y)
    OBVIOUS
  <2>2. CASE y = x
    BY <1>1, <1>3, <2>2
  <2>3. CASE y # x
    <3>1. ~file[x].leaf
      BY <1>3, <2>1, <2>3
    <3>2. PICK u \in RefsOf(file[x].entries) : y \in Below(u)
      BY <1>3, <2>1, <2>3, <3>1
    <3>3. u \in DOMAIN file /\ lv[u] \in Nat /\ lv[x] \in Nat /\ lv[u] + 1 = lv[x] /\ lv[u] < lv[x]
      BY <1>2, <3>1
    <3>4. Fine(u, y)
      BY <1>4, <3>2, <3>3
    <3>5. Below(u) \subseteq Below(x) /\ x \in Below(x)
      BY <1>3, <3>1
    <3>6. lv[y] \in Nat
      BY <1>1, <3>4
    <3>7. lv[y] <= lv[x] /\ lv[y] # lv[x]
      BY <3>3, <3>4, <3>6
    <3>8. \E d \in Below(x) : ~file[d].leaf /\ y \in RefsOf(file[d].entries)
      <4>1. CASE y = u
        BY <3>1, <3>5, <4>1
      <4>2. CASE y # u
        BY <3>4, <3>5, <4>2
      <4> QED BY <4>1, <4>2
    <3> QED BY <3>4, <3>5, <3>7, <3>8
  <2> QED BY <2>2, <2>3
<1>5. \A x \in DOMAIN file : x \in G
  <2>1. lv \in [DOMAIN file -> Nat]
    BY <1>1
  <2> HIDE DEF G
  <2> QED BY <1>4, <2>1, ByLevel
<1>6. \A x \in DOMAIN file : \A y \in Below(x) : Fine(x, y)
  BY <1>5
<1>7. PICK K \in Nat : \A x \in DOMAIN file : lv[x] <= K
  BY <1>1, LevelsBounded
<1> DEFINE H == {y \in DOMAIN file : \A u, v \in DOMAIN file :
                   y \in Below(u) /\ y \in Below(v) => u \in Below(v) \/ v \in Below(u)}
           up == [y \in DOMAIN file |-> K - lv[y]]
<1>8. up \in [DOMAIN file -> Nat] /\ \A y \in DOMAIN file : up[y] = K - lv[y]
  <2>1. \A y \in DOMAIN file : K - lv[y] \in Nat
    BY <1>1, <1>7
  <2> QED BY <2>1
<1>9. ASSUME NEW y \in DOMAIN file, \A e \in DOMAIN file : up[e] < up[y] => e \in H PROVE y \in H
  <2>1. SUFFICES ASSUME NEW u \in DOMAIN file, NEW v \in DOMAIN file, y \in Below(u), y \in Below(v),
                        y # u, y # v
                 PROVE  u \in Below(v) \/ v \in Below(u)
    OBVIOUS
  <2>2. PICK d \in Below(u) : ~file[d].leaf /\ y \in RefsOf(file[d].entries)
    BY <1>6, <2>1
  <2>3. PICK e \in Below(v) : ~file[e].leaf /\ y \in RefsOf(file[e].entries)
    BY <1>6, <2>1
  <2>4. d \in DOMAIN file /\ e \in DOMAIN file
    BY <1>3, <2>2, <2>3
  <2>5. d = e
    BY <2>2, <2>3, <2>4 DEF Once, Inners
  <2>6. up[d] < up[y]
    <3>1. lv[y] \in Nat /\ lv[d] \in Nat /\ lv[y] + 1 = lv[d]
      BY <1>2, <2>2, <2>4
    <3> QED BY <1>8, <2>4, <3>1
  <2>7. d \in H
    BY <1>9, <2>4, <2>6
  <2> QED BY <2>5, <2>7
<1>10. \A y \in DOMAIN file : y \in H
  <2> HIDE DEF H, up
  <2> QED BY <1>8, <1>9, ByLevel
<1>11. \A u, v \in DOMAIN file : \A y \in Below(u) \cap Below(v) : u \in Below(v) \/ v \in Below(u)
  BY <1>3, <1>10
<1> QED BY <1>6, <1>11 DEF OneWay

(* What is below two sons of a node, ...                                   *)
LEMMA SonsApart ==
  ASSUME NEW lv, Levelled(file, lv, {}), Once(file, {}), NEW x \in DOMAIN file, ~file[x].leaf,
         NEW u \in RefsOf(file[x].entries), NEW v \in RefsOf(file[x].entries), u # v
  PROVE  Below(u) \cap Below(v) = {}
<1>1. file \in Seq(Node)
  BY DEF Levelled
<1>2. u \in Refs(file[x]) /\ v \in Refs(file[x])
  BY <1>1, NodeRefs
<1>3. u \in DOMAIN file /\ v \in DOMAIN file /\ lv[u] + 1 = lv[x] /\ lv[v] + 1 = lv[x] /\ lv[u] \in Nat /\ lv[v] \in Nat
  BY <1>2, SonFacts
<1>4. lv[u] = lv[v]
  BY <1>3
<1> QED BY <1>3, <1>4, WaysMeet DEF OneWay

(* ... and the leaf that holds a unit, is one.                             *)
LEMMA OneLeaf ==
  ASSUME TreeOK, NEW a \in DOMAIN file, NEW b \in DOMAIN file, file[a].leaf, file[b].leaf,
         NEW t \in RefsOf(file[a].entries), t \in RefsOf(file[b].entries)
  PROVE  a = b
<1>1. a \in DOMAIN FileView(file) /\ b \in DOMAIN FileView(file)
      /\ FileView(file)[a] = file[a] /\ FileView(file)[b] = file[b]
  BY DEF FileView
<1>2. a # b => Apart(file[a].entries, file[b].entries)
  BY <1>1, LeafUnits DEF Bundled
<1> QED BY <1>2 DEF Apart, RefsOf

(* Below two nodes that have nothing in common there are no units in       *)
(* common.                                                                 *)
LEMMA HasOne ==
  ASSUME TreeOK, rootId # 0, NEW x \in DOMAIN file, NEW z \in DOMAIN file, Below(x) \cap Below(z) = {}, NEW t
  PROVE  ~(Has(x, t) /\ Has(z, t))
<1>1. SUFFICES ASSUME Has(x, t), Has(z, t) PROVE FALSE
  OBVIOUS
<1>2. PICK a \in Leaves(Below(x)) : t \in Refs(file[a])
  BY <1>1 DEF Has
<1>3. PICK b \in Leaves(Below(z)) : t \in Refs(file[b])
  BY <1>1 DEF Has
<1>4. PICK lv : Levelled(file, lv, {}) /\ file \in Seq(Node)
  BY TreeLevels
<1>5. a \in DOMAIN file /\ b \in DOMAIN file /\ file[a].leaf /\ file[b].leaf
  BY <1>2, <1>3, <1>4, BelowIs DEF Leaves
<1>6. t \in RefsOf(file[a].entries) /\ t \in RefsOf(file[b].entries)
  BY <1>2, <1>3, <1>4, <1>5, NodeRefs
<1>7. a = b
  BY <1>5, <1>6, OneLeaf
<1> QED BY <1>2, <1>3, <1>7 DEF Leaves

(* A visit finds no unit twice and pushes no node twice: the sons of the   *)
(* node have nothing in common with each other or with the rest of the     *)
(* stack.                                                                  *)
LEMMA VisitOnce ==
  ASSUME TreeOK, rootId # 0, NEW q, NEW s, NEW rest, NEW x, NEW t, Visited(s, q, rest, x, t),
         NEW y \in Seq(Nat), NoneTwice(s.stack, y \o s.queue)
  PROVE  NoneTwice(t.stack, y \o t.queue)
<1>1. PICK lv : /\ Levelled(file, lv, {}) /\ file \in Seq(Node) /\ Once(file, {}) /\ SonsInFile
  BY TreeLevels
<1>2. x \in DOMAIN file /\ file[x] \in Node /\ rest \in Seq(DOMAIN file)
  BY <1>1 DEF Visited, SonsInFile
<1>3. PICK es, refs : es = file[x].entries /\ refs = Found(file[x], q)
  OBVIOUS
<1>4. TakenOn(s, q, rest, x, t, y)
  BY <1>1, Visits
<1>5. refs \in Seq(Nat) /\ ToSet(refs) \subseteq RefsOf(es) /\ (Distinct(es) => IsInjective(refs))
  <2>1. FollowedUpTo(es, Len(es), q) \subseteq RefsOf(es)
    BY DEF FollowedUpTo, RefsOf
  <2>2. ToSet(refs) = FollowedUpTo(es, Len(es), q) /\ (Distinct(es) => IsInjective(refs)) /\ refs \in Seq(Nat)
    BY <1>2, <1>3, FoundFacts
  <2> QED BY <2>1, <2>2
<1>6. x \notin ToSet(rest) /\ IsInjective(rest)
  <2>1. IsInjective(Append(rest, x))
    BY DEF NoneTwice, Visited
  <2> QED BY <1>2, <2>1, AppendedTo
<1>7. /\ IsInjective(y) /\ \A u \in ToSet(y) : ~Has(x, u) /\ \A z \in ToSet(rest) : ~Has(z, u)
      /\ \A a, b \in ToSet(rest) : a # b => Below(a) \cap Below(b) = {}
      /\ \A a \in ToSet(rest) : Below(a) \cap Below(x) = {}
  BY <1>4, <1>6 DEF NoneTwice, TakenOn
<1>8. ToSet(rest) \subseteq DOMAIN file /\ rest \in Seq(Nat)
  <2>1. \A i \in 1 .. Len(rest) : rest[i] \in DOMAIN file
    BY <1>2
  <2>2. DOMAIN file \subseteq Nat
    BY <1>1
  <2> QED BY <1>2, <2>1, <2>2 DEF ToSet
<1>9. CASE file[x].leaf
  <2>1. ToSet(y \o t.queue) = ToSet(y) \cup ToSet(refs) /\ t.stack = rest /\ t.queue = refs
    BY <1>3, <1>4, <1>9 DEF TakenOn, Visited
  <2>2. \A u : Has(x, u) <=> u \in RefsOf(es)
    BY <1>1, <1>2, <1>3, <1>9, HasIs
  <2>3. IsInjective(y \o refs)
    <3>1. IsInjective(refs)
      BY <1>2, <1>3, <1>5, <1>9, LeafUnits
    <3>2. ToSet(y) \cap ToSet(refs) = {}
      BY <1>5, <1>7, <2>2
    <3> QED BY <1>5, <1>7, <3>1, <3>2, ConcatOnce
  <2>4. ASSUME NEW u \in ToSet(refs), NEW z \in ToSet(rest) PROVE ~Has(z, u)
    <3>1. Has(x, u) /\ z \in DOMAIN file /\ Below(x) \cap Below(z) = {}
      BY <1>5, <1>7, <1>8, <2>2
    <3> QED BY <1>2, <3>1, HasOne
  <2> QED BY <1>6, <1>7, <2>1, <2>3, <2>4 DEF NoneTwice
<1>10. CASE ~file[x].leaf
  <2>1. ToSet(t.stack) = ToSet(rest) \cup ToSet(refs) /\ y \o t.queue = y /\ t.stack = rest \o refs
    BY <1>3, <1>4, <1>10 DEF TakenOn, Visited
  <2>2. \A u : Has(x, u) <=> \E v \in RefsOf(es) : Has(v, u)
    BY <1>1, <1>2, <1>3, <1>10, HasIs
  <2>3. ASSUME NEW u \in RefsOf(es) PROVE u \in DOMAIN file /\ u \in Below(u) /\ Below(u) \subseteq Below(x)
    <3>1. u \in DOMAIN file
      BY <1>1, <1>2, <1>3, <1>10, <2>3 DEF SonsInFile
    <3>2. u \in Below(u) /\ \A z \in Below(u) : z \in Below(x)
      BY <1>1, <1>2, <1>3, <1>10, <2>3, <3>1, BelowIs
    <3> QED BY <3>1, <3>2
  <2>4. \A a, b \in RefsOf(es) : a # b => Below(a) \cap Below(b) = {}
    BY <1>1, <1>2, <1>3, <1>10, SonsApart
  <2>5. \A a \in ToSet(rest) : \A b \in ToSet(refs) : a # b /\ Below(a) \cap Below(b) = {}
    <3>1. ASSUME NEW a \in ToSet(rest), NEW b \in ToSet(refs) PROVE a # b /\ Below(a) \cap Below(b) = {}
      <4>1. b \in Below(b) /\ Below(b) \subseteq Below(x)
        BY <1>5, <2>3
      <4> QED BY <1>7, <4>1
    <3> QED BY <3>1
  <2>6. IsInjective(rest \o refs)
    <3>1. Distinct(es)
      BY <1>1, <1>2, <1>3, <1>10 DEF Once, Inners
    <3> QED BY <1>5, <1>6, <1>8, <2>5, <3>1, ConcatOnce
  <2>7. \A u \in ToSet(y) : \A z \in ToSet(rest) \cup ToSet(refs) : ~Has(z, u)
    BY <1>5, <1>7, <2>2
  <2>8. \A a, b \in ToSet(rest) \cup ToSet(refs) : a # b => Below(a) \cap Below(b) = {}
    BY <1>5, <1>7, <2>4, <2>5
  <2> QED BY <1>7, <2>1, <2>6, <2>7, <2>8 DEF NoneTwice
<1> QED BY <1>9, <1>10

(* The search s, of which the units y were returned before.                *)
SearchKept(s, y, q, a, b, c) ==
  /\ a => PassOnly(y \o s.queue, q)
  /\ b => NoneLost(s.stack, y \o s.queue, q)
  /\ c => NoneTwice(s.stack, y \o s.queue)

(* What perform returns.                                                   *)
LEMMA PerformSearch ==
  ASSUME TreeOK, rootId # 0, NEW q \in Query, Condition(q) # 0,
         NEW stack \in Seq(DOMAIN file), NEW queue \in Seq(Nat), NEW y \in Seq(Nat),
         NEW a \in BOOLEAN, NEW b \in BOOLEAN, NEW c \in BOOLEAN,
         SearchKept([stack |-> stack, queue |-> queue], y, q, a, b, c)
  PROVE  /\ Perform(stack, queue, q) \in Searches
         /\ SearchKept(Perform(stack, queue, q), y, q, a, b, c)
<1>1. SonsInFile
  BY TreeLevels
<1> DEFINE G == {s \in Searches : SearchKept(s, y, q, a, b, c)}
<1>2. [stack |-> stack, queue |-> queue] \in G
  BY DEF Searches
<1>3. ASSUME NEW s \in G PROVE Round(s, q) \in G
  <2>1. s \in Searches /\ SearchKept(s, y, q, a, b, c)
    BY <1>3
  <2>2. Round(s, q) \in Searches /\ (Round(s, q) = s \/ \E rest, x : Visited(s, q, rest, x, Round(s, q)))
    BY <1>1, <2>1, RoundVisits
  <2>3. CASE Round(s, q) = s
    BY <1>3, <2>3
  <2>4. ASSUME NEW rest, NEW x, Visited(s, q, rest, x, Round(s, q)) PROVE Round(s, q) \in G
    <3>1. PICK t : t = Round(s, q)
      OBVIOUS
    <3>2. Visited(s, q, rest, x, t)
      BY <2>4, <3>1
    <3>3. a => PassOnly(y \o t.queue, q)
      BY <1>1, <2>1, <3>2, VisitPasses DEF SearchKept
    <3>4. b => NoneLost(t.stack, y \o t.queue, q)
      BY <2>1, <3>2, VisitLoses DEF SearchKept
    <3>5. c => NoneTwice(t.stack, y \o t.queue)
      BY <2>1, <3>2, VisitOnce DEF SearchKept
    <3> QED BY <2>2, <3>1, <3>3, <3>4, <3>5 DEF SearchKept
  <2> QED BY <2>2, <2>3, <2>4
<1>4. Perform(stack, queue, q) \in G
  <2>1. G \subseteq Searches
    OBVIOUS
  <2> HIDE DEF G
  <2> QED BY <1>1, <1>2, <1>3, <2>1, PerformKeeps
<1> QED BY <1>4

(* At first every unit is below the root, and none has been found.         *)
LEMMA OpenSearch ==
  ASSUME TreeOK, rootId # 0, NEW q
  PROVE  /\ <<rootId>> \in Seq(DOMAIN file)
         /\ SearchKept([stack |-> <<rootId>>, queue |-> << >>], << >>, q, TRUE, TRUE, TRUE)
<1>1. PICK lv : Levelled(file, lv, {}) /\ file \in Seq(Node) /\ rootId \in DOMAIN file
  BY TreeLevels
<1>2. ToSet(<<rootId>>) = {rootId} /\ IsInjective(<<rootId>>) /\ << >> \o << >> = << >>
      /\ ToSet(<< >>) = {} /\ IsInjective(<< >>)
  BY DEF ToSet, IsInjective
<1>3. ASSUME NEW t \in 1 .. Len(given) PROVE Has(rootId, t)
  <2>1. PICK id \in DOMAIN FileView(file) : t \in RefsOf(FileView(file)[id].entries)
    BY LeafUnits DEF Bundled
  <2>2. id \in DOMAIN file /\ file[id].leaf /\ t \in RefsOf(file[id].entries)
    BY <2>1 DEF FileView
  <2>3. t \in Refs(file[id])
    BY <1>1, <2>2, NodeRefs
  <2>4. Rooted(id) /\ id \in Below(id)
    BY <2>2, AllRooted DEF TreeOK
  <2>5. Held = {} /\ dropped = {}
    BY DEF TreeOK, Quiet, IInv, HeldOK, InMemory, Held
  <2>6. id \in Below(rootId)
    BY <2>4, <2>5 DEF Rooted
  <2> QED BY <2>2, <2>3, <2>6 DEF Has, Leaves
<1>4. <<rootId>> \in Seq(DOMAIN file)
  BY <1>1
<1>5. PassOnly(<< >>, q) /\ NoneLost(<<rootId>>, << >>, q) /\ NoneTwice(<<rootId>>, << >>)
  BY <1>2, <1>3 DEF PassOnly, NoneLost, NoneTwice
<1> QED BY <1>2, <1>4, <1>5 DEF SearchKept

(* With the file as it was, what is below a node is what was.              *)
LEMMA BelowSame == ASSUME file' = file, NEW CONSTANT r PROVE Below(r)' = Below(r)
  BY SMT DEF Below, Refs

(* With the tree as it was, what is said of a search stays true.           *)
LEMMA SearchSame ==
  ASSUME UNCHANGED vars, NEW CONSTANT stack, NEW CONSTANT out, NEW CONSTANT q
  PROVE  /\ PassOnly(out, q)' <=> PassOnly(out, q)
         /\ NoneLost(stack, out, q)' <=> NoneLost(stack, out, q)
         /\ NoneTwice(stack, out)' <=> NoneTwice(stack, out)
<1>1. file' = file /\ given' = given /\ narrow' = narrow
  BY DEF vars
<1>2. \A r : Below(r)' = Below(r)
  BY <1>1, BelowSame
<1>3. \A x, t : Has(x, t)' <=> Has(x, t)
  BY <1>1, <1>2 DEF Has, Leaves, Refs
<1>4. \A t : (t \in UnderNarrow)' <=> t \in UnderNarrow
  BY <1>1, <1>2 DEF UnderNarrow, Leaves, Refs
<1>5. PassOnly(out, q)' <=> PassOnly(out, q)
  BY <1>1 DEF PassOnly
<1>6. NoneLost(stack, out, q)' <=> NoneLost(stack, out, q)
  BY <1>1, <1>3, <1>4 DEF NoneLost
<1>7. NoneTwice(stack, out)' <=> NoneTwice(stack, out)
  BY <1>1, <1>2, <1>3 DEF NoneTwice
<1> QED BY <1>5, <1>6, <1>7

(* The types of the visitor's variables.                                   *)
SearchType ==
  /\ sidstack \in Seq(DOMAIN file) /\ tidqueue \in Seq(Nat) /\ yielded \in Seq(Nat)
  /\ query \in Query \cup {NoQuery}
  /\ local = "info" => query \in Query /\ Condition(query) # 0 /\ rootId # 0
  /\ local # "info" => sidstack = << >> /\ tidqueue = << >> /\ yielded = << >>

(* The search invariant: what was found passes, ...                        *)
FoundOK == PassOnly(yielded \o tidqueue, query)

(* ... nothing is lost while the tree stays as it is, ...                  *)
LostOK ==
  query \in Query /\ Condition(query) # 0 /\ ~changed =>
    NoneLost(sidstack, yielded \o tidqueue, query)

(* ... and nothing comes up twice.                                         *)
OnceOK == NoneTwice(sidstack, yielded \o tidqueue)

SearchOK == SearchType /\ FoundOK /\ LostOK /\ OnceOK

(* A step of the filter leads to a search that is given.                   *)
LEMMA SearchNext ==
  ASSUME UNCHANGED vars, NEW CONSTANT st, NEW CONSTANT qu, NEW CONSTANT y, NEW CONSTANT q,
         sidstack' = st, tidqueue' = qu, yielded' = y, query' = q
  PROVE  /\ PassOnly(y \o qu, q) => FoundOK'
         /\ NoneTwice(st, y \o qu) => OnceOK'
         /\ (q \in Query /\ Condition(q) # 0 /\ ~changed' => NoneLost(st, y \o qu, q)) => LostOK'
<1>1. PICK out : out = y \o qu
  OBVIOUS
<1>2. /\ PassOnly(out, q)' <=> PassOnly(out, q)
      /\ NoneLost(st, out, q)' <=> NoneLost(st, out, q)
      /\ NoneTwice(st, out)' <=> NoneTwice(st, out)
  BY SearchSame
<1>3. (yielded \o tidqueue)' = out
  BY <1>1
<1>4. FoundOK' <=> PassOnly(out, q)'
  BY <1>3 DEF FoundOK, PassOnly
<1>5. OnceOK' <=> NoneTwice(st, out)'
  BY <1>3 DEF OnceOK, NoneTwice
<1>6. LostOK' <=> (q \in Query /\ Condition(q) # 0 /\ ~changed' => NoneLost(st, out, q)')
  BY <1>3 DEF LostOK, NoneLost
<1> QED BY <1>1, <1>2, <1>4, <1>5, <1>6

(* Nothing found and nothing to visit.                                     *)
LEMMA EmptySearch ==
  ASSUME NEW q
  PROVE  << >> \o << >> = << >> /\ PassOnly(<< >>, q) /\ NoneTwice(<< >>, << >>)
BY DEF PassOnly, NoneTwice, ToSet, IsInjective

(* OPEN starts with the root on the stack.                                 *)
LEMMA OpenKeeps ==
  ASSUME TreeOK, NEW q \in Query, Open(q)
  PROVE  SearchOK'
<1>1. UNCHANGED vars /\ rootId # 0 /\ Condition(q) # 0 /\ local' = "info" /\ query' = q /\ yielded' = << >>
  BY DEF Open, Conditions
<1>2. PICK s : s = Perform(<<rootId>>, << >>, q) /\ sidstack' = s.stack /\ tidqueue' = s.queue
  BY DEF Open
<1>3. /\ <<rootId>> \in Seq(DOMAIN file)
      /\ SearchKept([stack |-> <<rootId>>, queue |-> << >>], << >>, q, TRUE, TRUE, TRUE)
  BY <1>1, OpenSearch
<1>4. s \in Searches /\ SearchKept(s, << >>, q, TRUE, TRUE, TRUE)
  <2>1. << >> \in Seq(Nat)
    OBVIOUS
  <2> QED BY <1>1, <1>2, <1>3, <2>1, PerformSearch
<1>5. FoundOK' /\ LostOK' /\ OnceOK'
  BY <1>1, <1>2, <1>4, SearchNext DEF SearchKept
<1>6. SearchType'
  <2>1. file' = file /\ rootId' = rootId
    BY <1>1 DEF vars
  <2> QED BY <1>1, <1>2, <1>4, <2>1 DEF SearchType, Searches, Condition
<1> QED BY <1>5, <1>6 DEF SearchOK

(* When there is nothing to find the search has lost nothing.              *)
LEMMA OpenFailsKeeps ==
  ASSUME TreeOK, NEW q \in Query, OpenFails(q)
  PROVE  SearchOK'
<1>1. /\ UNCHANGED vars /\ rootId # 0 /\ local' # "info" /\ query' = q /\ yielded' = << >>
      /\ sidstack' = << >> /\ tidqueue' = << >>
  BY DEF OpenFails
<1>2. ASSUME Condition(q) # 0 PROVE NoneLost(<< >>, << >>, q)
  <2>1. PICK s : s = Perform(<<rootId>>, << >>, q)
    OBVIOUS
  <2>2. /\ <<rootId>> \in Seq(DOMAIN file)
        /\ SearchKept([stack |-> <<rootId>>, queue |-> << >>], << >>, q, TRUE, TRUE, TRUE)
    BY <1>1, OpenSearch
  <2>3. s \in Searches /\ SearchKept(s, << >>, q, TRUE, TRUE, TRUE)
    <3>1. << >> \in Seq(Nat)
      OBVIOUS
    <3> QED BY <1>1, <1>2, <2>1, <2>2, <3>1, PerformSearch
  <2>4. s.stack = << >> /\ s.queue = << >>
    BY <1>2, <2>1 DEF OpenFails, HasNext
  <2> QED BY <2>3, <2>4, EmptySearch DEF SearchKept
<1>3. FoundOK' /\ LostOK' /\ OnceOK'
  BY <1>1, <1>2, EmptySearch, SearchNext
<1>4. SearchType'
  BY <1>1 DEF SearchType
<1> QED BY <1>3, <1>4 DEF SearchOK

(* After CLOSE and before the next query there is no search.               *)
LEMMA CloseKeeps ==
  ASSUME SearchOK, Close \/ NextQuery
  PROVE  SearchOK'
<1>1. /\ UNCHANGED vars /\ local' # "info" /\ query' = NoQuery /\ yielded' = << >>
      /\ sidstack' = << >> /\ tidqueue' = << >>
  BY DEF Close, NextQuery, SearchOK, SearchType
<1>2. NoQuery \notin Query
  BY TBTreeFilterAssumption
<1>3. FoundOK' /\ LostOK' /\ OnceOK'
  BY <1>1, <1>2, EmptySearch, SearchNext
<1>4. SearchType'
  BY <1>1 DEF SearchType
<1> QED BY <1>3, <1>4 DEF SearchOK

(* REQUEST performs first if the queue has run empty.                      *)
LEMMA RequestKeeps ==
  ASSUME TreeOK, SearchOK, Request
  PROVE  SearchOK'
<1>1. UNCHANGED vars /\ local = "info" /\ local' = local /\ query' = query /\ changed' = changed
  BY DEF Request
<1>2. PICK q, y, s0 : q = query /\ y = yielded /\ s0 = [stack |-> sidstack, queue |-> tidqueue]
  OBVIOUS
<1>3. /\ q \in Query /\ Condition(q) # 0 /\ rootId # 0 /\ y \in Seq(Nat)
      /\ s0 \in Searches /\ s0.stack \in Seq(DOMAIN file) /\ s0.queue \in Seq(Nat)
      /\ s0.stack = sidstack /\ s0.queue = tidqueue
  BY <1>1, <1>2 DEF SearchOK, SearchType, Searches
<1>4. PICK b \in BOOLEAN : b = ~changed
  <2>1. (~changed) \in BOOLEAN
    OBVIOUS
  <2> QED BY <2>1
<1>5. SearchKept(s0, y, q, TRUE, b, TRUE)
  BY <1>2, <1>3, <1>4 DEF SearchOK, FoundOK, LostOK, OnceOK, SearchKept
<1>6. PICK s : /\ s = IF tidqueue = << >> THEN Perform(sidstack, tidqueue, query) ELSE s0
               /\ sidstack' = s.stack
               /\ IF s.queue = << >> THEN UNCHANGED <<tidqueue, yielded>>
                  ELSE tidqueue' = Tail(s.queue) /\ yielded' = Append(yielded, Head(s.queue))
  BY <1>2 DEF Request
<1>7. s \in Searches /\ SearchKept(s, y, q, TRUE, b, TRUE)
  <2>1. CASE s = s0
    BY <1>3, <1>5, <2>1
  <2>2. CASE s = Perform(s0.stack, s0.queue, q)
    <3>1. PICK st, qu : st = s0.stack /\ qu = s0.queue
      OBVIOUS
    <3>2. s0 = [stack |-> st, queue |-> qu]
      BY <1>2, <1>3, <3>1
    <3> QED BY <1>3, <1>5, <2>2, <3>1, <3>2, PerformSearch
  <2> QED BY <1>2, <1>3, <1>6, <2>1, <2>2
<1>8. PICK st, qu, z : st = sidstack' /\ qu = tidqueue' /\ z = yielded'
  OBVIOUS
<1>9. st = s.stack /\ z \o qu = y \o s.queue /\ st \in Seq(DOMAIN file) /\ qu \in Seq(Nat) /\ z \in Seq(Nat)
  <2>1. s.stack \in Seq(DOMAIN file) /\ s.queue \in Seq(Nat)
    BY <1>7 DEF Searches
  <2>2. CASE s.queue = << >>
    <3>1. qu = << >> /\ z = y
      <4>1. tidqueue = << >>
        BY <1>3, <1>6, <2>2
      <4> QED BY <1>2, <1>6, <1>8, <2>2, <4>1
    <3> QED BY <1>3, <1>6, <1>8, <2>1, <2>2, <3>1
  <2>3. CASE s.queue # << >>
    <3>1. PICK r : r = s.queue
      OBVIOUS
    <3>2. qu = Tail(r) /\ z = Append(y, Head(r)) /\ r \in Seq(Nat) /\ r # << >>
      BY <1>2, <1>6, <1>8, <2>1, <2>3, <3>1
    <3>3. Tail(r) \in Seq(Nat) /\ Head(r) \in Nat /\ Append(y, Head(r)) \in Seq(Nat)
      BY <1>3, <3>2
    <3>4. Append(y, Head(r)) \o Tail(r) = y \o r
      BY <1>3, <3>2, HeadMoved
    <3> QED BY <1>6, <1>8, <2>1, <3>1, <3>2, <3>3, <3>4
  <2> QED BY <2>2, <2>3
<1>10. FoundOK' /\ LostOK' /\ OnceOK'
  <2>1. PassOnly(z \o qu, q) /\ NoneTwice(st, z \o qu) /\ (~changed' => NoneLost(st, z \o qu, q))
    BY <1>1, <1>4, <1>7, <1>9 DEF SearchKept
  <2>2. sidstack' = st /\ tidqueue' = qu /\ yielded' = z /\ query' = q
    BY <1>1, <1>2, <1>8
  <2> QED BY <1>1, <2>1, <2>2, SearchNext
<1>11. SearchType'
  <2>1. file' = file /\ rootId' = rootId
    BY <1>1 DEF vars
  <2>2. Condition(query') # 0
    BY <1>1, <1>2, <1>3
  <2> QED BY <1>1, <1>2, <1>3, <1>8, <1>9, <2>1, <2>2 DEF SearchType, Condition
<1> QED BY <1>10, <1>11 DEF SearchOK

(* The units given before stay, and no node goes.                          *)
LEMMA UpdateGrows ==
  ASSUME TreeOK, StreamUpdate
  PROVE  /\ DOMAIN file \subseteq DOMAIN file'
         /\ Len(given') \in Nat /\ 1 .. Len(given) \subseteq 1 .. Len(given')
         /\ \A t \in 1 .. Len(given) : given'[t] = given[t]
         /\ local' = local /\ query' = query /\ sidstack' = sidstack
         /\ tidqueue' = tidqueue /\ yielded' = yielded /\ changed' = (query # NoQuery)
<1>1. PICK trj \in Trj, b \in UnitBox : Insert(trj, b)
  BY DEF StreamUpdate
<1>2. given' = Append(given, [trj |-> trj, box |-> b])
  BY <1>1 DEF Insert, InsertFirst, InsertIntoLeaf, InsertNewLeaf, Given
<1>3. PICK g, e : g = given /\ e = [trj |-> trj, box |-> b]
  OBVIOUS
<1>4. g \in Seq([trj : Trj, box : Box]) /\ e \in [trj : Trj, box : Box]
  <2>1. b \in Box
    BY TBTreeAssumption
  <2> QED BY <1>3, <2>1 DEF TreeOK, IInv, TypeOK
<1>5. Len(g) \in Nat /\ Len(Append(g, e)) = Len(g) + 1 /\ \A t \in 1 .. Len(g) : Append(g, e)[t] = g[t]
  BY <1>4
<1>6. DOMAIN file \subseteq DOMAIN file'
  <2>1. CASE InsertFirst(trj, b)
    <3>1. file = << >>
      BY <2>1 DEF InsertFirst, TreeOK, IInv, Ranked
    <3> QED BY <3>1
  <2>2. CASE InsertIntoLeaf(trj, b)
    <3>1. UnitWritten(trj, b)
      BY <2>2, InsertIntoLeafKeeps DEF TreeOK
    <3> QED BY <3>1 DEF UnitWritten, LeafWritten
  <2>3. CASE InsertNewLeaf(trj, b)
    <3>1. LeafMade(trj, b)
      BY <2>3, InsertNewLeafKeeps DEF TreeOK
    <3>2. PICK f : LeafWritten(f, Len(file) + 1, Leaf(<<Unit(b)>>, trj), file') /\ DOMAIN f = DOMAIN file
      BY <3>1 DEF LeafMade, WithNext
    <3> QED BY <3>2 DEF LeafWritten
  <2> QED BY <1>1, <2>1, <2>2, <2>3 DEF Insert
<1> QED BY <1>2, <1>3, <1>5, <1>6 DEF StreamUpdate

(* An update changes neither what was found nor what is typed; what may be *)
(* lost is not asked of a tree that is changed.                            *)
LEMMA UpdateKeeps ==
  ASSUME TreeOK, TreeOK', SearchOK, StreamUpdate
  PROVE  SearchType' /\ FoundOK' /\ LostOK'
<1>1. /\ DOMAIN file \subseteq DOMAIN file'
      /\ Len(given') \in Nat /\ 1 .. Len(given) \subseteq 1 .. Len(given')
      /\ \A t \in 1 .. Len(given) : given'[t] = given[t]
      /\ local' = local /\ query' = query /\ sidstack' = sidstack
      /\ tidqueue' = tidqueue /\ yielded' = yielded /\ changed' = (query # NoQuery)
  BY UpdateGrows
<1>2. SearchType'
  <2>1. sidstack \in Seq(DOMAIN file')
    <3>1. PICK s, C, D : s = sidstack /\ C = DOMAIN file /\ D = DOMAIN file'
      OBVIOUS
    <3>2. s \in Seq(C) /\ C \subseteq D
      BY <1>1, <3>1 DEF SearchOK, SearchType
    <3>3. \A i \in 1 .. Len(s) : s[i] \in D
      BY <3>2
    <3>4. s \in Seq(D)
      BY ONLY <3>2, <3>3
    <3> QED BY <3>1, <3>4
  <2>2. rootId # 0 => rootId' # 0
    <3>1. rootId # 0 => rootId \in DOMAIN file
      BY TreeLevels
    <3>2. rootId' = 0 => file' = << >>
      BY DEF TreeOK, IInv, Ranked
    <3> QED BY <1>1, <3>1, <3>2
  <2>3. Condition(query') = Condition(query)
    BY <1>1 DEF Condition
  <2> QED BY <1>1, <2>1, <2>2, <2>3 DEF SearchOK, SearchType
<1>3. FoundOK'
  <2>1. PICK out, q : out = yielded \o tidqueue /\ q = query
    OBVIOUS
  <2>2. PassOnly(out, q)
    BY <2>1 DEF SearchOK, FoundOK
  <2>3. PassOnly(out, q)'
    BY <1>1, <2>2 DEF PassOnly
  <2>4. (yielded \o tidqueue)' = out /\ query' = q
    BY <1>1, <2>1
  <2> QED BY <2>3, <2>4 DEF FoundOK, PassOnly
<1>4. LostOK'
  <2>1. NoQuery \notin Query
    BY TBTreeFilterAssumption
  <2> QED BY <1>1, <2>1 DEF LostOK
<1> QED BY <1>2, <1>3, <1>4

(* B gives what is below the nodes of f; what is below two nodes is below  *)
(* one of them that is below the other.                                    *)
Ways(f, lv, B) ==
  /\ Levelled(f, lv, {}) /\ lv \in [DOMAIN f -> Nat]
  /\ \A x \in DOMAIN f :
       /\ f[x].leaf => B[x] = {x}
       /\ ~f[x].leaf => \A y : y \in B[x] <=> y = x \/ \E u \in RefsOf(f[x].entries) : y \in B[u]
       /\ B[x] \subseteq DOMAIN f /\ x \in B[x]
  /\ \A u, v \in DOMAIN f : \A y \in B[u] \cap B[v] : u \in B[v] \/ v \in B[u]

(* What is below the nodes of the tree, for every node at once.            *)
LEMMA TreeWays ==
  TreeOK /\ rootId # 0 =>
    /\ \E lv : Ways(file, lv, [x \in DOMAIN file |-> Below(x)])
    /\ rootId \notin Used(file, {}) /\ file \in Seq(Node)
<1> SUFFICES ASSUME TreeOK, rootId # 0
             PROVE  /\ \E lv : Ways(file, lv, [x \in DOMAIN file |-> Below(x)])
                    /\ rootId \notin Used(file, {}) /\ file \in Seq(Node)
  OBVIOUS
<1>1. PICK lv : /\ Levelled(file, lv, {}) /\ lv \in [DOMAIN file -> Nat] /\ file \in Seq(Node)
                /\ Once(file, {})
  BY TreeLevels
<1>2. PICK B : B = [x \in DOMAIN file |-> Below(x)]
  OBVIOUS
<1>3. \A x \in DOMAIN file : B[x] = Below(x)
  BY <1>2
<1>4. ASSUME NEW x \in DOMAIN file
      PROVE  /\ file[x].leaf => Below(x) = {x}
             /\ ~file[x].leaf => \A y : y \in Below(x) <=>
                                   y = x \/ \E u \in RefsOf(file[x].entries) : y \in Below(u)
             /\ Below(x) \subseteq DOMAIN file /\ x \in Below(x)
             /\ ~file[x].leaf => RefsOf(file[x].entries) \subseteq DOMAIN file
  <2>1. ~file[x].leaf => RefsOf(file[x].entries) \subseteq DOMAIN file
    BY <1>1 DEF Levelled, Son
  <2> QED BY <1>1, <2>1, BelowIs
<1>5. \A u, v \in DOMAIN file : \A y \in Below(u) \cap Below(v) : u \in Below(v) \/ v \in Below(u)
  BY <1>1, WaysMeet DEF OneWay
<1>6. Ways(file, lv, B)
  <2>1. ASSUME NEW x \in DOMAIN file, ~file[x].leaf, NEW y
        PROVE  y \in B[x] <=> y = x \/ \E u \in RefsOf(file[x].entries) : y \in B[u]
    <3>1. \A u \in RefsOf(file[x].entries) : B[u] = Below(u)
      BY <1>3, <1>4, <2>1
    <3> QED BY <1>3, <1>4, <2>1, <3>1
  <2>2. \A u, v \in DOMAIN file : \A y \in B[u] \cap B[v] : u \in B[v] \/ v \in B[u]
    BY <1>3, <1>5
  <2> QED BY <1>1, <1>3, <1>4, <2>1, <2>2 DEF Ways
<1>7. rootId \notin Used(file, {})
  <2>1. PICK l2 : Standing(file, l2, dropped, rootId)
    BY TreeRanked DEF TreeOK
  <2> QED BY <2>1 DEF Standing, TreeOK, Quiet
<1> QED BY <1>1, <1>2, <1>6, <1>7

(* A file g made of f: its leaves are those of f and id, its sons come     *)
(* from sons of f, but those of the root on top.                           *)
Outgrown(f, id, g, top, half) ==
  /\ SonsFrom(f, {}, id, g, top, half) /\ id \notin DOMAIN f
  /\ \A x \in DOMAIN g : g[x].leaf => x = id \/ (x \in DOMAIN f /\ f[x].leaf)
  /\ id \in DOMAIN g => g[id].leaf
  /\ \A x \in top : x \notin Used(g, {})

(* What is below a node that is not on top was below the node it comes     *)
(* from.                                                                   *)
LEMMA BelowStays ==
  ASSUME NEW f, NEW l1, NEW B, Ways(f, l1, B), NEW g, NEW l2, NEW C, Ways(g, l2, C),
         NEW id, NEW top, NEW half, Outgrown(f, id, g, top, half)
  PROVE  \A x \in DOMAIN g : x \notin top /\ x # id =>
           \A y \in C[x] \cap DOMAIN f : Origin(f, half, x) \in DOMAIN f /\ y \in B[Origin(f, half, x)]
<1> DEFINE Fine(x) == \A y \in C[x] \cap DOMAIN f :
                        Origin(f, half, x) \in DOMAIN f /\ y \in B[Origin(f, half, x)]
           G == {x \in DOMAIN g : x \notin top /\ x # id => Fine(x)}
<1>1. ASSUME NEW d \in DOMAIN g, \A e \in DOMAIN g : l2[e] < l2[d] => e \in G PROVE d \in G
  <2> SUFFICES ASSUME d \notin top, d # id, NEW y \in C[d], y \in DOMAIN f
               PROVE  Origin(f, half, d) \in DOMAIN f /\ y \in B[Origin(f, half, d)]
    OBVIOUS
  <2>1. CASE g[d].leaf
    <3>1. d \in DOMAIN f /\ y = d
      BY <2>1 DEF Outgrown, Ways
    <3> QED BY <3>1 DEF Origin, Ways
  <2>2. CASE ~g[d].leaf
    <3>1. PICK o : o = Origin(f, half, d)
      OBVIOUS
    <3>2. /\ o \in DOMAIN f /\ ~f[o].leaf
          /\ \A u \in RefsOf(g[d].entries) : u = id \/ Origin(f, half, u) \in RefsOf(f[o].entries)
      <4>1. d \in Inners(g, top)
        BY <2>2 DEF Inners
      <4> QED BY <3>1, <4>1 DEF Outgrown, SonsFrom, Inners
    <3>3. CASE y = d
      <4>1. o = d
        BY <3>1, <3>3 DEF Origin
      <4> QED BY <3>1, <3>2, <3>3, <4>1 DEF Ways
    <3>4. ASSUME NEW u \in RefsOf(g[d].entries), y \in C[u]
          PROVE  y \in B[o]
      <4>1. u \in DOMAIN g /\ l2[u] < l2[d] /\ u \in Used(g, {})
        <5>1. u \in DOMAIN g /\ l2[u] + 1 = l2[d]
          BY <2>2 DEF Ways, Levelled, Son
        <5>2. l2[u] \in Nat /\ l2[d] \in Nat
          BY <5>1 DEF Ways
        <5>3. d \in Inners(g, {})
          BY <2>2 DEF Inners
        <5>4. l2[u] < l2[d]
          BY <5>1, <5>2
        <5> QED BY <5>1, <5>3, <5>4 DEF Used
      <4>2. u # id
        <5>1. id \in DOMAIN g => C[id] = {id}
          BY DEF Outgrown, Ways
        <5>2. y # id
          BY DEF Outgrown
        <5> QED BY <3>4, <4>1, <5>1, <5>2
      <4>3. u \notin top
        BY <4>1 DEF Outgrown
      <4>4. Origin(f, half, u) \in DOMAIN f /\ y \in B[Origin(f, half, u)]
        BY <1>1, <3>4, <4>1, <4>2, <4>3
      <4>5. Origin(f, half, u) \in RefsOf(f[o].entries)
        BY <3>2, <4>2
      <4> QED BY <3>2, <4>4, <4>5 DEF Ways
    <3>5. y = d \/ \E u \in RefsOf(g[d].entries) : y \in C[u]
      BY <2>2 DEF Ways
    <3> QED BY <3>1, <3>2, <3>3, <3>4, <3>5
  <2> QED BY <2>1, <2>2
<1>2. \A x \in DOMAIN g : x \in G
  <2>1. l2 \in [DOMAIN g -> Nat]
    BY DEF Ways
  <2> HIDE DEF G
  <2> QED BY <1>1, <2>1, ByLevel
<1> QED BY <1>2

(* In leaves only the new unit is new.                                     *)
NewUnitOnly ==
  \A x \in DOMAIN file' : file'[x].leaf =>
    \A t \in RefsOf(file'[x].entries) :
      t = TupleId \/ (x \in DOMAIN file /\ file[x].leaf /\ t \in RefsOf(file[x].entries))

(* What an update makes of the file.                                       *)
Regrown(id, top) ==
  /\ \E half : Outgrown(file, id, file', top, half)
  /\ top \cap DOMAIN file = {} /\ id \notin DOMAIN file /\ NewUnitOnly

(* An update makes the file grow in this way: its sons come from sons of   *)
(* the file before, the root may get a new one on top, and the new leaf is *)
(* the one node more that a search can meet.                               *)
LEMMA UpdateOutgrows ==
  ASSUME TreeOK, TreeOK', rootId # 0, StreamUpdate
  PROVE  Regrown(Len(file) + 1, {rootId'} \ {rootId})
<1>1. PICK trj \in Trj, b \in UnitBox : InsertIntoLeaf(trj, b) \/ InsertNewLeaf(trj, b)
  BY DEF StreamUpdate, Insert, InsertFirst
<1>2. PICK id, top, u : id = Len(file) + 1 /\ top = {rootId'} \ {rootId} /\ u = Unit(b)
  OBVIOUS
<1>3. IInv /\ dropped = {} /\ file \in Seq(Node) /\ dropped' = {}
  BY DEF TreeOK, Quiet, IInv, TypeOK
<1>4. id \notin DOMAIN file /\ id # 0
  BY <1>2, <1>3
<1>5. SonsStay /\ HangsOn
  BY <1>1, <1>3, InsertIntoLeafKeeps, InsertNewLeafKeeps
<1>6. PICK half : SonsFrom(file, {}, id, file', top, half)
  <2>1. dropped \cup ({rootId'} \ {rootId}) = top
    BY <1>2, <1>3
  <2> QED BY <1>2, <1>3, <1>5, <2>1 DEF SonsStay
<1>7. u \in Entry /\ u.ref = TupleId
  <2>1. Given(trj, b)
    BY <1>1 DEF InsertIntoLeaf, InsertNewLeaf
  <2> QED BY <1>2, <1>3, <2>1, UnitGiven DEF IInv, Unit
<1>8. /\ \A x \in DOMAIN file' : file'[x].leaf => x = id \/ (x \in DOMAIN file /\ file[x].leaf)
      /\ id \in DOMAIN file' => file'[id].leaf
      /\ NewUnitOnly
  <2>1. CASE InsertIntoLeaf(trj, b)
    <3>1. PICK leaf, n : LastOf(trj, leaf) /\ OneUnitMore(file[leaf], b, n) /\ LeafWritten(file, leaf, n, file')
      BY <1>3, <2>1, InsertIntoLeafKeeps DEF UnitWritten
    <3>2. /\ leaf \in DOMAIN file /\ file[leaf].leaf /\ file'[leaf] = n
          /\ n.entries = Append(file[leaf].entries, u)
          /\ \A x \in DOMAIN file : x # leaf => file'[x].leaf = file[x].leaf /\ (file[x].leaf => file'[x] = file[x])
          /\ \A x \in DOMAIN file' : x \notin DOMAIN file => ~file'[x].leaf
      BY <1>2, <3>1 DEF LastOf, OneUnitMore, LeafWritten
    <3>3. PICK es : es = file[leaf].entries /\ es \in Seq(Entry)
      BY <1>3, <3>2, NodeParts
    <3>4. \A t \in RefsOf(n.entries) : t = TupleId \/ t \in RefsOf(es)
      <4>1. Len(Append(es, u)) = Len(es) + 1 /\ Len(es) \in Nat
            /\ Append(es, u)[Len(es) + 1] = u /\ \A i \in 1 .. Len(es) : Append(es, u)[i] = es[i]
        BY <1>7, <3>3
      <4>2. \A i \in 1 .. Len(es) + 1 : i \in 1 .. Len(es) \/ i = Len(es) + 1
        BY <4>1
      <4>3. n.entries = Append(es, u)
        BY <3>2, <3>3
      <4> QED BY <1>7, <4>1, <4>2, <4>3 DEF RefsOf
    <3>5. DOMAIN file' = DOMAIN file
      BY <1>3, <2>1, InsertIntoLeafKeeps DEF UnitWritten
    <3>6. ASSUME NEW x \in DOMAIN file', file'[x].leaf
          PROVE  /\ x \in DOMAIN file /\ file[x].leaf
                 /\ \A t \in RefsOf(file'[x].entries) : t = TupleId \/ t \in RefsOf(file[x].entries)
      BY <3>2, <3>3, <3>4, <3>5, <3>6
    <3> QED BY <1>4, <3>5, <3>6 DEF NewUnitOnly
  <2>2. CASE InsertNewLeaf(trj, b)
    <3>1. PICK f : /\ LeafWritten(f, id, Leaf(<<u>>, trj), file')
                   /\ \/ f = file
                      \/ \E last : /\ LastOf(trj, last) /\ f = WithNext(file, last, id)
      BY <1>2, <1>3, <2>2, InsertNewLeafKeeps DEF LeafMade
    <3>2. /\ DOMAIN f = DOMAIN file
          /\ \A x \in DOMAIN file : f[x].leaf = file[x].leaf /\ f[x].entries = file[x].entries
      <4>1. ASSUME NEW last, LastOf(trj, last), f = WithNext(file, last, id)
            PROVE  /\ DOMAIN f = DOMAIN file
                   /\ \A x \in DOMAIN file : f[x].leaf = file[x].leaf /\ f[x].entries = file[x].entries
        <5>1. \A x \in DOMAIN file : f[x] = IF x = last THEN [file[x] EXCEPT !.next = id] ELSE file[x]
          BY <4>1 DEF WithNext, LastOf
        <5>2. \A x \in DOMAIN file : file[x] \in Node
          BY <1>3
        <5> QED BY <4>1, <5>1, <5>2 DEF WithNext, Node
      <4> QED BY <3>1, <4>1
    <3>3. /\ id \in DOMAIN file' /\ file'[id] = Leaf(<<u>>, trj) /\ Leaf(<<u>>, trj).leaf
          /\ \A t \in RefsOf(Leaf(<<u>>, trj).entries) : t = TupleId
      <4>1. <<u>> \in Seq(Entry) /\ Len(<<u>>) = 1 /\ <<u>>[1] = u
        BY <1>7
      <4>2. Leaf(<<u>>, trj).leaf /\ Leaf(<<u>>, trj).entries = <<u>>
        BY <4>1, LeafNode
      <4> QED BY <1>7, <3>1, <4>1, <4>2 DEF LeafWritten, RefsOf
    <3>4. /\ \A x \in DOMAIN file : file'[x].leaf = f[x].leaf /\ (f[x].leaf => file'[x] = f[x])
          /\ \A x \in DOMAIN file' : x \notin DOMAIN file /\ x # id => ~file'[x].leaf
      BY <1>4, <3>1, <3>2 DEF LeafWritten
    <3>5. ASSUME NEW x \in DOMAIN file', file'[x].leaf
          PROVE  x = id \/ (x \in DOMAIN file /\ file[x].leaf /\ file'[x].entries = file[x].entries)
      BY <3>2, <3>4, <3>5
    <3> QED BY <3>3, <3>5 DEF NewUnitOnly
  <2> QED BY <1>1, <2>1, <2>2
<1>9. rootId' # 0
  <2>1. rootId \in DOMAIN file
    BY TreeLevels
  <2>2. DOMAIN file \subseteq DOMAIN file'
    BY UpdateGrows
  <2>3. rootId' = 0 => file' = << >>
    BY DEF TreeOK, IInv, Ranked
  <2> QED BY <2>1, <2>2, <2>3
<1>10. rootId' \notin Used(file', {})
  <2>1. (TreeOK /\ rootId # 0 =>
           /\ \E lv : Ways(file, lv, [x \in DOMAIN file |-> Below(x)])
           /\ rootId \notin Used(file, {}) /\ file \in Seq(Node))'
    BY TreeWays, PTL
  <2> QED BY <1>9, <2>1
<1>11. top \cap DOMAIN file = {}
  <2>1. ASSUME rootId' \in DOMAIN file, rootId' # rootId PROVE FALSE
    <3>1. rootId' \in Used(file, {})
      BY <1>3, <2>1 DEF TreeOK, Hung, Quiet, IInv, HeldOK, InMemory, Held
    <3> QED BY <1>5, <1>10, <3>1 DEF HangsOn
  <2> QED BY <1>2, <2>1
<1>12. \A x \in top : x \notin Used(file', {})
  BY <1>2, <1>10
<1>13. Outgrown(file, id, file', top, half)
  BY <1>4, <1>6, <1>8, <1>12 DEF Outgrown
<1> QED BY <1>2, <1>4, <1>8, <1>11, <1>13 DEF Regrown

(* What is below every node.                                               *)
Unders == [x \in DOMAIN file |-> Below(x)]

(* The unit t is in a leaf of f that B has below x.                        *)
HasBy(f, B, x, t) == \E y \in B[x] : f[y].leaf /\ t \in RefsOf(f[y].entries)

UndersAre ==
  /\ \E lv : Ways(file, lv, Unders)
  /\ \A x \in DOMAIN file : Below(x) = Unders[x] /\ \A t : Has(x, t) <=> HasBy(file, Unders, x, t)

(* The units below a node, in terms of the file and of what is below its   *)
(* nodes.                                                                  *)
LEMMA UndersHave == TreeOK /\ rootId # 0 => UndersAre
<1> SUFFICES ASSUME TreeOK, rootId # 0 PROVE UndersAre
  OBVIOUS
<1>1. PICK lv : Ways(file, lv, Unders) /\ file \in Seq(Node)
  BY TreeWays DEF Unders
<1>2. ASSUME NEW x \in DOMAIN file, NEW t
      PROVE  Below(x) = Unders[x] /\ (Has(x, t) <=> HasBy(file, Unders, x, t))
  <2>1. Below(x) = Unders[x]
    BY DEF Unders
  <2>2. \A y \in Below(x) : Refs(file[y]) = RefsOf(file[y].entries)
    BY <1>1, <2>1, NodeRefs DEF Ways
  <2> QED BY <2>1, <2>2 DEF Has, Leaves, HasBy
<1> QED BY <1>1, <1>2 DEF UndersAre

(* However nodes are split, no unit gets below a node on the stack that    *)
(* was not below it, but the new one: nothing comes up twice.              *)
LEMMA UpdateOnce ==
  ASSUME TreeOK, TreeOK', SearchOK, StreamUpdate
  PROVE  OnceOK'
<1>1. PICK st, out : st = sidstack /\ out = yielded \o tidqueue
  OBVIOUS
<1>2. (yielded \o tidqueue)' = out /\ sidstack' = st /\ DOMAIN file \subseteq DOMAIN file'
  BY <1>1, UpdateGrows
<1>3. /\ IsInjective(out) /\ IsInjective(st)
      /\ \A t \in ToSet(out) : \A x \in ToSet(st) : ~Has(x, t)
      /\ \A a, b \in ToSet(st) : a # b => Below(a) \cap Below(b) = {}
  BY <1>1 DEF SearchOK, OnceOK, NoneTwice
<1>4. \A t \in ToSet(out) : t # TupleId
  <2>1. \A t \in ToSet(out) : t \in 1 .. Len(given)
    BY <1>1 DEF SearchOK, FoundOK, PassOnly
  <2>2. Len(given) \in Nat
    BY DEF TreeOK, IInv, TypeOK
  <2> QED BY <2>1, <2>2 DEF TupleId
<1>5. ToSet(st) \subseteq DOMAIN file
  <2>1. st \in Seq(DOMAIN file)
    BY <1>1 DEF SearchOK, SearchType
  <2> QED BY <2>1 DEF ToSet
<1>6. SUFFICES /\ \A t \in ToSet(out) : \A x \in ToSet(st) : ~Has(x, t)'
               /\ \A a, b \in ToSet(st) : a # b => Below(a)' \cap Below(b)' = {}
  BY <1>2, <1>3 DEF OnceOK, NoneTwice
<1>7. CASE rootId = 0
  <2>1. st = << >>
    BY <1>1, <1>7 DEF SearchOK, SearchType
  <2>2. ToSet(st) = {}
    BY <2>1 DEF ToSet
  <2> QED BY <2>2
<1>8. CASE rootId # 0
  <2>1. Regrown(Len(file) + 1, {rootId'} \ {rootId}) /\ rootId' # 0
    <3>1. rootId \in DOMAIN file
      BY <1>8, TreeLevels
    <3>2. rootId' = 0 => file' = << >>
      BY DEF TreeOK, IInv, Ranked
    <3> QED BY <1>2, <1>8, <3>1, <3>2, UpdateOutgrows
  <2>2. PICK f, B, l1 :
          /\ f = file /\ B = Unders /\ Ways(f, l1, B)
          /\ \A x \in DOMAIN f : Below(x) = B[x] /\ \A t : Has(x, t) <=> HasBy(f, B, x, t)
    BY <1>8, UndersHave DEF UndersAre
  <2>3. PICK g, C, l2 :
          /\ g = file' /\ C = Unders' /\ Ways(g, l2, C)
          /\ \A x \in DOMAIN g : Below(x)' = C[x] /\ \A t : Has(x, t)' <=> HasBy(g, C, x, t)
    <3>1. (TreeOK /\ rootId # 0 => UndersAre)'
      BY UndersHave, PTL
    <3>2. /\ \E lv : Ways(file', lv, Unders')
          /\ \A x \in DOMAIN file' : /\ Below(x)' = Unders'[x]
                                     /\ \A t : Has(x, t)' <=> HasBy(file', Unders', x, t)
      BY <2>1, <3>1 DEF UndersAre, HasBy, Ways, Levelled, Son
    <3> QED BY <3>2
  <2>4. PICK id, top, half : /\ Outgrown(f, id, g, top, half)
                             /\ top \cap DOMAIN f = {} /\ id \notin DOMAIN f
    BY <2>1, <2>2, <2>3 DEF Regrown
  <2>5. \A x \in DOMAIN f : x \in DOMAIN g /\ \A y \in C[x] \cap DOMAIN f : y \in B[x]
    <3>1. \A x \in DOMAIN g : x \notin top /\ x # id =>
            \A y \in C[x] \cap DOMAIN f : Origin(f, half, x) \in DOMAIN f /\ y \in B[Origin(f, half, x)]
      BY <2>2, <2>3, <2>4, BelowStays
    <3>2. \A x \in DOMAIN f : x \in DOMAIN g /\ x \notin top /\ x # id /\ Origin(f, half, x) = x
      BY <1>2, <2>2, <2>3, <2>4 DEF Origin
    <3> QED BY <3>1, <3>2
  <2>6. ASSUME NEW t \in ToSet(out), NEW x \in ToSet(st), Has(x, t)' PROVE FALSE
    <3>1. x \in DOMAIN f /\ x \in DOMAIN g
      BY <1>5, <2>2, <2>5
    <3>2. PICK y : y \in C[x] /\ g[y].leaf /\ t \in RefsOf(g[y].entries)
      BY <2>3, <2>6, <3>1 DEF HasBy
    <3>3. y \in DOMAIN g
      BY <2>3, <3>1, <3>2 DEF Ways
    <3>4. y \in DOMAIN f /\ f[y].leaf /\ t \in RefsOf(f[y].entries)
      BY <1>4, <2>1, <2>2, <2>3, <3>2, <3>3 DEF Regrown, NewUnitOnly
    <3>5. HasBy(f, B, x, t)
      BY <2>5, <3>1, <3>2, <3>4 DEF HasBy
    <3> QED BY <1>3, <2>2, <3>1, <3>5
  <2>7. ASSUME NEW a \in ToSet(st), NEW b \in ToSet(st), a # b, NEW y \in Below(a)', y \in Below(b)'
        PROVE  FALSE
    <3>1. a \in DOMAIN f /\ b \in DOMAIN f /\ a \in DOMAIN g /\ b \in DOMAIN g
      BY <1>5, <2>2, <2>5
    <3>2. y \in C[a] /\ y \in C[b]
      BY <2>3, <2>7, <3>1
    <3>3. a \in C[b] \/ b \in C[a]
      BY <2>3, <3>1, <3>2 DEF Ways
    <3>4. a \in B[b] \/ b \in B[a]
      BY <2>5, <3>1, <3>3
    <3>5. a \in B[a] /\ b \in B[b]
      BY <2>2, <3>1 DEF Ways
    <3>6. B[a] \cap B[b] = {}
      BY <1>3, <2>2, <2>7, <3>1
    <3> QED BY <3>4, <3>5, <3>6
  <2> QED BY <2>6, <2>7
<1> QED BY <1>7, <1>8

(* A step that changes nothing.                                            *)
LEMMA StutterKeeps ==
  ASSUME SearchOK, UNCHANGED allVars
  PROVE  SearchOK'
<1>1. /\ UNCHANGED vars /\ local' = local /\ query' = query /\ sidstack' = sidstack
      /\ tidqueue' = tidqueue /\ yielded' = yielded /\ changed' = changed
  BY DEF allVars, filter
<1>2. PICK st, qu, y, q : st = sidstack /\ qu = tidqueue /\ y = yielded /\ q = query
  OBVIOUS
<1>3. /\ PassOnly(y \o qu, q) /\ NoneTwice(st, y \o qu)
      /\ q \in Query /\ Condition(q) # 0 /\ ~changed' => NoneLost(st, y \o qu, q)
  BY <1>1, <1>2 DEF SearchOK, FoundOK, LostOK, OnceOK
<1>4. FoundOK' /\ LostOK' /\ OnceOK'
  BY <1>1, <1>2, <1>3, SearchNext
<1>5. SearchType'
  <2>1. file' = file /\ rootId' = rootId
    BY <1>1 DEF vars
  <2> QED BY <1>1, <2>1 DEF SearchOK, SearchType, Condition
<1> QED BY <1>4, <1>5 DEF SearchOK

(* At the start there is no search.                                        *)
LEMMA SearchInit == FilterInit => SearchOK
<1> SUFFICES ASSUME FilterInit PROVE SearchOK
  OBVIOUS
<1>1. /\ sidstack = << >> /\ tidqueue = << >> /\ yielded = << >> /\ query = NoQuery
      /\ local = "null"
  BY DEF FilterInit
<1>2. NoQuery \notin Query
  BY TBTreeFilterAssumption
<1>3. FoundOK /\ OnceOK
  BY <1>1, EmptySearch DEF FoundOK, OnceOK
<1> QED BY <1>1, <1>2, <1>3 DEF SearchOK, SearchType, LostOK

(* Every step keeps the search invariant.                                  *)
LEMMA SearchStep == TreeOK /\ TreeOK' /\ SearchOK /\ [FilterNext]_allVars => SearchOK'
<1> SUFFICES ASSUME TreeOK, TreeOK', SearchOK, [FilterNext]_allVars PROVE SearchOK'
  OBVIOUS
<1>1. CASE UNCHANGED allVars
  BY <1>1, StutterKeeps
<1>2. ASSUME NEW q \in Query, Open(q) PROVE SearchOK'
  BY <1>2, OpenKeeps
<1>3. ASSUME NEW q \in Query, OpenFails(q) PROVE SearchOK'
  BY <1>3, OpenFailsKeeps
<1>4. CASE Request
  BY <1>4, RequestKeeps
<1>5. CASE Close \/ NextQuery
  BY <1>5, CloseKeeps
<1>6. CASE StreamUpdate
  BY <1>6, UpdateKeeps, UpdateOnce DEF SearchOK
<1> QED BY <1>1, <1>2, <1>3, <1>4, <1>5, <1>6 DEF FilterNext

(* The search invariant holds always, and with it what it takes of the     *)
(* tree.                                                                   *)
LEMMA SearchAlways == FilterSpec => [](TreeOK /\ SearchOK)
<1>1. FilterInit => SearchOK
  BY SearchInit
<1>2. TreeOK /\ TreeOK' /\ SearchOK /\ [FilterNext]_allVars => SearchOK'
  BY SearchStep
<1>3. FilterSpec => []TreeOK
  BY TreeAlways
<1> QED BY <1>1, <1>2, <1>3, PTL DEF FilterSpec

(* tbtreefilter returns every unit the query asks for, but those below an  *)
(* entry that insertLeaf left too small, when the tree does not change     *)
(* while it is searched: of every tree that the insertions make, for every *)
(* query.                                                                  *)
THEOREM CompleteAlways == FilterSpec => []FilterComplete
<1>1. SearchOK => FilterComplete
  <2> SUFFICES ASSUME SearchOK, query # NoQuery, Condition(query) # 0, ~changed,
                      ~HasNext([stack |-> sidstack, queue |-> tidqueue]),
                      NEW t \in DOMAIN given, Wanted(t)
               PROVE  t \in ToSet(yielded) \cup UnderNarrow
    BY DEF FilterComplete
  <2>1. sidstack = << >> /\ tidqueue = << >> /\ yielded \in Seq(Nat) /\ query \in Query
    BY DEF HasNext, SearchOK, SearchType
  <2>2. yielded \o tidqueue = yielded
    BY <2>1
  <2>3. NoneLost(sidstack, yielded, query)
    BY <2>1, <2>2 DEF SearchOK, LostOK
  <2>4. ToSet(sidstack) = {}
    BY <2>1 DEF ToSet
  <2>5. t \in 1 .. Len(given)
    OBVIOUS
  <2> QED BY <2>3, <2>4, <2>5 DEF NoneLost, Wanted
<1> QED BY <1>1, SearchAlways, PTL

(* However the tree is changed between two requests, tbtreefilter returns  *)
(* no unit twice.                                                          *)
THEOREM OnceAlways == FilterSpec => []YieldedOnce
<1>1. SearchOK => YieldedOnce
  BY DEF SearchOK, OnceOK, NoneTwice, YieldedOnce
<1> QED BY <1>1, SearchAlways, PTL

(* It returns no unit that the query does not ask for; with an infinite    *)
(* second distance it leaves nothing out by distance.                      *)
THEOREM WantedAlways == FilterSpec => []YieldedWanted
<1>1. TreeOK /\ SearchOK => YieldedWanted
  <2> SUFFICES ASSUME TreeOK, SearchOK, NEW t \in ToSet(yielded)
               PROVE  \/ Wanted(t)
                      \/ Condition(query) = 2 /\ LongerThanInstant(given[t].box, query)
    BY DEF YieldedWanted
  <2>1. yielded # << >>
    BY DEF ToSet
  <2>2. PICK q : q = query
    OBVIOUS
  <2>3. q \in Query /\ Condition(q) # 0
    BY <2>1, <2>2 DEF SearchOK, SearchType
  <2>4. t \in ToSet(yielded \o tidqueue)
    BY ConcatMembers DEF SearchOK, SearchType
  <2>5. t \in 1 .. Len(given) /\ Passes(given[t].box, q)
    BY <2>2, <2>4 DEF SearchOK, FoundOK, PassOnly
  <2>6. PICK b : b = given[t].box
    OBVIOUS
  <2>7. q \in Queries /\ b \in QueryBoxes /\ Passes(b, q)
    BY <2>3, <2>5, <2>6, QueryParts, UnitParts
  <2>8. CASE Condition(q) \in {1, 3, 4}
    <3>1. Near(b, q) /\ LongerThanInstant(b, q)
      BY <2>7, <2>8, LeafExact
    <3> QED BY <2>2, <2>6, <3>1 DEF Wanted
  <2>9. CASE Condition(q) = 2
    <3>1. /\ b["t"].lo \in Nat /\ b["t"].hi \in Nat /\ b["t"].lo < b["t"].hi
          /\ q.rect["t"].lo \in Nat /\ q.rect["t"].hi \in Nat /\ q.rect["t"].lo < q.rect["t"].hi
      BY <2>7 DEF Queries, QueryBoxes, Box, Dim
    <3>2. LongerThanInstant(b, q)
      BY <2>7, <3>1 DEF Passes, SkipsTime, LongerThanInstant, Greater, Lesser
    <3> QED BY <2>2, <2>6, <2>9, <3>2
  <2>10. Condition(q) \in {0, 1, 2, 3, 4}
    BY DEF Condition
  <2> QED BY <2>3, <2>8, <2>9, <2>10
<1> QED BY <1>1, SearchAlways, PTL
=============================================================================
