------------------------- MODULE RTreeLevelProofs -------------------------
(***************************************************************************)
(* What the bulk load through grids keeps, for any boxes, node sizes and   *)
(* range of keys.  IInv: types, and that the left entries of a level are   *)
(* there when DealWithLeftEntries goes through them.  LoadInv: the counts  *)
(* of grids are exact while they decide anything, no cell holds a full     *)
(* node, and wide cells hold all in one, so that GetRoot's loop ends.      *)
(* KeptInv: what is written and what the levels hold, entry by entry.      *)
(* BalanceInv: the nodes a level holds are of one height.                  *)
(***************************************************************************)
EXTENDS RTreeLevel, SequenceLemmas

(* A level whose count is not zero has left entries.                       *)
HasLeft(k) == levels[k].noentries # 0 => levels[k].left # None

(* GetRoot has been through the levels below cur, and no insertion goes    *)
(* back to them.                                                           *)
LeftBehind ==
  /\ pc = "load" => cur = 1
  /\ pc \in {"root", "widen"} =>
       /\ \A k \in 1 .. cur - 1 : HasLeft(k)
       /\ \A i \in pending : cur <= i.level
  /\ pc \in {"left", "done"} =>
       pending = {} /\ \A k \in 1 .. Len(levels) : HasLeft(k)

IInv == TypeOK /\ LeftBehind
-----------------------------------------------------------------------------
LEMMA MaxEntriesType == \A k \in Nat : MaxEntries(k) \in Nat \ {0}
  BY RTreeLevelAssumption DEF MaxEntries

LEMMA KeyType == \A lo, hi, unit : KeyOf(lo, hi, unit) \in Key
<1> SUFFICES ASSUME NEW lo, NEW hi, NEW unit PROVE KeyOf(lo, hi, unit) \in Key
  OBVIOUS
<1> DEFINE v == (hi - lo) \div (2 * unit)
<1>1. KeyOf(lo, hi, unit) = IF v \in 0 .. MaxKey THEN v + 1 ELSE 0
  BY DEF KeyOf
<1> HIDE DEF v
<1> QED BY <1>1, RTreeLevelAssumption DEF Key

LEMMA NewLevelType == \A unit \in Nat \ {0} : NewLevel(unit) \in Level
  BY DEF NewLevel, Level

(* The bounding box of a node has edges.                                   *)
LEMMA BoxType ==
  ASSUME NEW es \in Seq(Entry)
  PROVE  Lowest(es) \in Nat /\ Highest(es) \in Nat
<1>1. CASE es = << >>
  BY <1>1 DEF Lowest, Highest
<1>2. CASE es # << >>
  <2> DEFINE lows == {e.lo : e \in ToSet(es)}
             highs == {e.hi : e \in ToSet(es)}
             high == [i \in 1 .. Len(es) |-> es[i].hi]
  <2>0. Len(es) \in Nat /\ Len(es) # 0 /\ \A i \in 1 .. Len(es) : es[i] \in Entry
    BY <1>2
  <2>1. ToSet(es) = {es[i] : i \in 1 .. Len(es)}
    BY DEF ToSet
  <2>2. lows \in SUBSET Nat /\ lows # {}
    <3>1. 1 \in 1 .. Len(es) /\ es[1] \in ToSet(es)
      BY <2>0, <2>1
    <3>2. \A e \in ToSet(es) : e \in Entry
      BY <2>0, <2>1
    <3> QED BY <3>1, <3>2 DEF Entry
  <2>3. PICK x \in lows : \A y \in lows : x <= y
    BY <2>2, MinExists
  <2>4. Min(lows) \in lows
    BY <2>3 DEF Min
  <2>5. high \in [1 .. Len(es) -> Nat]
    BY <2>0 DEF Entry
  <2>6. PICK i \in 1 .. Len(es) : \A j \in 1 .. Len(es) : high[j] <= high[i]
    BY <2>0, <2>5, MaxExists
  <2>7. highs = {high[j] : j \in 1 .. Len(es)}
    BY <2>1
  <2>8. high[i] \in highs /\ \A y \in highs : high[i] >= y
    BY <2>5, <2>6, <2>7
  <2>9. Max(highs) \in highs
    BY <2>8 DEF Max
  <2>10. highs \subseteq Nat
    BY <2>5, <2>7
  <2> QED BY <1>2, <2>2, <2>4, <2>9, <2>10 DEF Lowest, Highest
<1> QED BY <1>1, <1>2

LEMMA GridEntriesType ==
  ASSUME NEW l \in Level
  PROVE  GridEntries(l) \in Seq(Entry)
<1> DEFINE cells == [i \in 1 .. MaxKey + 2 |-> l.grid[i - 1]]
<1>1. \A i \in 1 .. MaxKey + 2 : i - 1 \in Key
  BY RTreeLevelAssumption DEF Key
<1>2. cells \in [1 .. MaxKey + 2 -> Seq(Entry)]
  BY <1>1 DEF Level
<1>3. cells \in Seq(Seq(Entry))
  BY <1>2, RTreeLevelAssumption
<1> QED BY <1>3, FlattenSeqType DEF GridEntries

(* A level is one after an update of its fields.                           *)
LEMMA ZeroedType ==
  ASSUME NEW l \in Level
  PROVE  [l EXCEPT !.noentries = 0] \in Level /\ [l EXCEPT !.noentries = 0].noentries = 0
  BY DEF Level

LEMMA EmptiedType ==
  ASSUME NEW l \in Level, NEW g \in [Key -> Seq(Entry)]
  PROVE  [l EXCEPT !.grid = g, !.noentries = 0] \in Level
<1> DEFINE n == 0
<1>1. n \in Int
  OBVIOUS
<1> HIDE DEF n
<1>2. [l EXCEPT !.grid = g, !.noentries = n] \in Level
  BY <1>1 DEF Level
<1> QED BY <1>2 DEF n

LEMMA WithEntryType ==
  ASSUME NEW l \in Level, NEW key \in Key, NEW e \in Entry
  PROVE  /\ WithEntry(l, key, e) \in Level
         /\ WithEntry(l, key, e).unit = l.unit
<1> DEFINE g == [l.grid EXCEPT ![key] = Append(l.grid[key], e)]
<1>1. /\ l.grid \in [Key -> Seq(Entry)] /\ l.noentries + 1 \in Int
      /\ l.entrycount + 1 \in Nat
  BY DEF Level
<1>2. g \in [Key -> Seq(Entry)]
  BY <1>1
<1>3. WithEntry(l, key, e) =
        [l EXCEPT !.grid = g, !.noentries = l.noentries + 1, !.entrycount = l.entrycount + 1]
  BY DEF WithEntry, Level
<1> DEFINE noentries == l.noentries + 1
           entrycount == l.entrycount + 1
<1> HIDE DEF g, noentries, entrycount
<1>4. noentries \in Int /\ entrycount \in Nat
  BY <1>1 DEF noentries, entrycount
<1>5. WithEntry(l, key, e) =
        [l EXCEPT !.grid = g, !.noentries = noentries, !.entrycount = entrycount]
  BY <1>3 DEF noentries, entrycount
<1> DEFINE new == [l EXCEPT !.grid = g, !.noentries = noentries, !.entrycount = entrycount]
<1>6. new \in Level /\ new.unit = l.unit
  BY <1>2, <1>4 DEF Level
<1> HIDE DEF new
<1> QED BY <1>5, <1>6 DEF new

LEMMA KeptType ==
  ASSUME NEW l \in Level, NEW key \in Key, NEW k \in Nat
  PROVE  Kept(l, key, k) \in Level
<1> DEFINE g == [l.grid EXCEPT ![key] = << >>]
           n == l.noentries - MaxEntries(k)
<1>1. l.grid \in [Key -> Seq(Entry)] /\ l.noentries \in Int /\ l.nodecount + 1 \in Nat
  BY DEF Level
<1>2. g \in [Key -> Seq(Entry)]
  BY <1>1
<1>3. n \in Int
  <2>1. MaxEntries(k) \in Int
    BY MaxEntriesType
  <2> QED BY <1>1, <2>1
<1>4. WithoutNode(l, key, MaxEntries(k)) =
        [l EXCEPT !.grid = g, !.noentries = n, !.nodecount = l.nodecount + 1]
  BY DEF WithoutNode, Level
<1> DEFINE nodecount == l.nodecount + 1
<1> HIDE DEF g, n, nodecount
<1>5. nodecount \in Nat
  BY <1>1 DEF nodecount
<1>6. WithoutNode(l, key, MaxEntries(k)) =
        [l EXCEPT !.grid = g, !.noentries = n, !.nodecount = nodecount]
  BY <1>4 DEF nodecount
<1>7. WithoutNode(l, key, MaxEntries(k)) \in Level
  <2> DEFINE new == [l EXCEPT !.grid = g, !.noentries = n, !.nodecount = nodecount]
  <2>1. new \in Level
    BY <1>2, <1>3, <1>5 DEF Level
  <2> HIDE DEF new
  <2> QED BY <1>6, <2>1 DEF new
<1> QED BY <1>7 DEF Kept
-----------------------------------------------------------------------------
(* What SaveNode2RTree leaves: perhaps one level more, and an insertion    *)
(* into the level above.                                                   *)
LEMMA SaveNodeType ==
  ASSUME NEW ls \in Seq(Level), NEW k \in 1 .. Len(ls), NEW unit \in Nat \ {0},
         NEW es \in Seq(Entry),
         file \in Seq([leaf : BOOLEAN, entries : Seq(Entry)]),
         SaveNode(ls, k, unit, es)
  PROVE  /\ levels' \in Seq(Level) /\ Len(levels') >= Len(ls)
         /\ \A j \in 1 .. Len(ls) : levels'[j] = ls[j]
         /\ file' \in Seq([leaf : BOOLEAN, entries : Seq(Entry)])
         /\ pending' \subseteq [level : {k + 1}, key : Key, entry : Entry]
         /\ k + 1 \in 1 .. Len(levels')
<1> DEFINE e == [ref |-> Len(file) + 1, lo |-> Lowest(es), hi |-> Highest(es)]
<1>1. e \in Entry
  BY BoxType DEF Entry
<1>2. file' \in Seq([leaf : BOOLEAN, entries : Seq(Entry)])
  BY DEF SaveNode
<1>3. CASE k = Len(ls)
  <2>1. levels' = Append(ls, NewLevel(unit)) /\ NewLevel(unit) \in Level
    BY <1>3, NewLevelType DEF SaveNode
  <2>2. pending' = {Insertion(levels', k + 1, e)}
    BY <1>3 DEF SaveNode
  <2> QED BY <1>1, <1>2, <1>3, <2>1, <2>2, KeyType DEF Insertion
<1>4. CASE k # Len(ls)
  <2>1. levels' = ls
    BY <1>4 DEF SaveNode
  <2>2. pending' = {Insertion(levels', k + 1, e)}
    BY <1>4 DEF SaveNode
  <2> QED BY <1>1, <1>2, <1>4, <2>1, <2>2, KeyType DEF Insertion
<1> QED BY <1>3, <1>4
-----------------------------------------------------------------------------
LEMMA InitIInv == Init => IInv
<1> SUFFICES ASSUME Init PROVE IInv
  OBVIOUS
<1>1. levels \in Seq(Level) /\ Len(levels) = 1
  BY NewLevelType, RTreeLevelAssumption DEF Init
<1> QED BY <1>1 DEF Init, IInv, TypeOK, LeftBehind

LEMMA OldType == TypeOK => Old \in Level
  BY DEF TypeOK, Old

LEMMA LoadKeeps == IInv /\ Load => IInv'
<1> SUFFICES ASSUME IInv, Load PROVE IInv'
  OBVIOUS
<1> USE DEF IInv, Load
<1>1. PICK b \in Box :
        pending' = {Insertion(levels, 1, [ref |-> loaded + 1, lo |-> b.lo, hi |-> b.hi])}
  OBVIOUS
<1>2. [ref |-> loaded + 1, lo |-> b.lo, hi |-> b.hi] \in Entry
  BY RTreeLevelAssumption DEF Entry, TypeOK
<1>3. pending' \subseteq [level : 1 .. Len(levels), key : Key, entry : Entry]
  <2> DEFINE e == [ref |-> loaded + 1, lo |-> b.lo, hi |-> b.hi]
  <2>1. e \in Entry
    BY <1>2
  <2>2. 1 \in 1 .. Len(levels)
    BY DEF TypeOK
  <2>3. pending' = {Insertion(levels, 1, e)}
    BY <1>1
  <2> HIDE DEF e
  <2> DEFINE key == KeyOf(e.lo, e.hi, levels[1].unit)
  <2>4. key \in Key /\ pending' = {[level |-> 1, key |-> key, entry |-> e]}
    BY <2>3, KeyType DEF Insertion
  <2> HIDE DEF key
  <2> QED BY <2>1, <2>2, <2>4
<1>4. TypeOK'
  BY <1>3 DEF TypeOK
<1>5. LeftBehind'
  BY DEF LeftBehind
<1> QED BY <1>4, <1>5

LEMMA InsertKeeps == IInv /\ Insert => IInv'
<1> SUFFICES ASSUME IInv, Insert PROVE IInv'
  OBVIOUS
<1> USE DEF IInv
<1>1. PICK i \in pending :
        LET k == i.level
            l == WithEntry(levels[k], i.key, i.entry)
            ls == [levels EXCEPT ![k] = Kept(l, i.key, k)]
        IN  IF IsFull(l, i.key, k) THEN SaveNode(ls, k, l.unit, l.grid[i.key])
            ELSE levels' = ls /\ pending' = {} /\ UNCHANGED file
  BY DEF Insert
<1> DEFINE k == i.level
           l == WithEntry(levels[k], i.key, i.entry)
           ls == [levels EXCEPT ![k] = Kept(l, i.key, k)]
<1>2. /\ k \in 1 .. Len(levels) /\ i.key \in Key /\ i.entry \in Entry
      /\ levels \in Seq(Level) /\ levels[k] \in Level
      /\ file \in Seq([leaf : BOOLEAN, entries : Seq(Entry)])
  BY DEF TypeOK
<1>3. l \in Level /\ l.unit = levels[k].unit
  BY <1>2, WithEntryType
<1>4. Kept(l, i.key, k) \in Level
  BY <1>2, <1>3, KeptType
<1>5. /\ ls \in Seq(Level) /\ Len(ls) = Len(levels)
      /\ \A j \in 1 .. Len(levels) : j # k => ls[j] = levels[j]
  BY <1>2, <1>4
<1>6. l.unit \in Nat \ {0} /\ l.grid[i.key] \in Seq(Entry)
  BY <1>2, <1>3 DEF Level
<1>7. /\ levels' \in Seq(Level) /\ Len(levels') >= Len(levels)
      /\ \A j \in 1 .. Len(levels) : j # k => levels'[j] = levels[j]
      /\ file' \in Seq([leaf : BOOLEAN, entries : Seq(Entry)])
      /\ pending' \subseteq [level : {k + 1}, key : Key, entry : Entry]
      /\ pending' # {} => k + 1 \in 1 .. Len(levels')
  <2> HIDE DEF l, ls, k
  <2>1. CASE IsFull(l, i.key, k)
    <3>1. SaveNode(ls, k, l.unit, l.grid[i.key])
      BY <1>1, <2>1 DEF l, ls, k
    <3> QED BY <1>2, <1>5, <1>6, <3>1, SaveNodeType
  <2>2. CASE ~ IsFull(l, i.key, k)
    <3>1. levels' = ls /\ pending' = {} /\ UNCHANGED file
      BY <1>1, <2>2 DEF l, ls, k
    <3> QED BY <1>2, <1>5, <3>1
  <2> QED BY <2>1, <2>2
<1>8. TypeOK'
  <2> HIDE DEF l, ls, k
  <2>1. pending' \subseteq [level : 1 .. Len(levels'), key : Key, entry : Entry]
    BY <1>7
  <2>2. cur' \in 1 .. Len(levels') /\ dealt' \subseteq (1 .. Len(levels')) \X Entry
    <3>1. 1 .. Len(levels) \subseteq 1 .. Len(levels')
      BY <1>2, <1>7
    <3> QED BY <3>1 DEF TypeOK, Insert
  <2> QED BY <1>7, <2>1, <2>2 DEF TypeOK, Insert
<1>9. LeftBehind'
  <2>1. CASE pc \in {"root", "widen"}
    <3>1. cur \in Nat /\ cur <= k /\ \A j \in 1 .. cur - 1 : HasLeft(j)
      BY <1>2, <2>1 DEF LeftBehind, TypeOK
    <3>2. \A j \in 1 .. cur - 1 : j \in 1 .. Len(levels) /\ j # k
      BY <1>2, <3>1
    <3>3. \A j \in 1 .. cur - 1 : levels'[j] = levels[j]
      <4> HIDE DEF l, ls, k
      <4> QED BY <1>7, <3>2
    <3>4. \A j \in 1 .. cur - 1 : HasLeft(j)'
      BY <3>1, <3>3 DEF HasLeft
    <3>5. \A p \in pending' : cur <= p.level
      <4> HIDE DEF l, ls, k
      <4>1. \A p \in pending' : p.level = k + 1
        BY <1>7
      <4> QED BY <1>2, <3>1, <4>1
    <3> QED BY <2>1, <3>4, <3>5 DEF LeftBehind, Insert
  <2>2. CASE pc \in {"left", "done"}
    BY <2>2 DEF LeftBehind
  <2>3. CASE pc = "load"
    BY <2>3 DEF LeftBehind, Insert
  <2> QED BY <2>1, <2>2, <2>3 DEF TypeOK
<1> QED BY <1>8, <1>9

LEMMA SetRTreeRootKeeps == IInv /\ SetRTreeRoot => IInv'
<1> SUFFICES ASSUME IInv, SetRTreeRoot PROVE IInv'
  OBVIOUS
<1>1. TypeOK'
  BY DEF IInv, TypeOK, SetRTreeRoot
<1>2. LeftBehind'
  BY DEF IInv, TypeOK, LeftBehind, SetRTreeRoot
<1> QED BY <1>1, <1>2 DEF IInv

LEMMA WidenKeeps == IInv /\ Widen => IInv'
<1> SUFFICES ASSUME IInv, Widen PROVE IInv'
  OBVIOUS
<1>1. Old \in Level
  BY OldType DEF IInv
<1>2. Old.unit * 2 \in Nat \ {0}
  BY <1>1 DEF Level
<1>3. wide' \in Level
  BY <1>2, NewLevelType DEF Widen
<1>4. TypeOK'
  BY <1>3 DEF IInv, TypeOK, Widen, AtRoot
<1>5. LeftBehind'
  BY DEF IInv, TypeOK, LeftBehind, HasLeft, Widen, AtRoot
<1> QED BY <1>4, <1>5 DEF IInv

LEMMA MoveEntryKeeps == IInv /\ MoveEntry => IInv'
<1> SUFFICES ASSUME IInv, MoveEntry PROVE IInv'
  OBVIOUS
<1> USE DEF IInv
<1> DEFINE es == Old.grid[at[1]]
           key == KeyOf(Lowest(es), Highest(es), wide.unit)
           l == WithEntry(wide, key, es[at[2]])
<1>1. /\ wide' = Kept(l, key, cur)
      /\ IF IsFull(l, key, cur) THEN SaveNode(levels, cur, l.unit, l.grid[key])
         ELSE UNCHANGED <<levels, pending, file>>
  BY DEF MoveEntry
<1>2. /\ pc = "widen" /\ pending = {} /\ wide \in Level /\ Old \in Level
      /\ at[1] \in Key /\ at[2] <= Len(Old.grid[at[1]])
      /\ levels \in Seq(Level) /\ cur \in 1 .. Len(levels)
      /\ file \in Seq([leaf : BOOLEAN, entries : Seq(Entry)])
  BY OldType DEF MoveEntry, Widening, TypeOK
<1>3. es \in Seq(Entry) /\ at[2] \in 1 .. Len(es)
  <2>1. es \in Seq(Entry)
    BY <1>2 DEF Level
  <2>2. at[2] \in Nat \ {0}
    BY DEF TypeOK
  <2> QED BY <1>2, <2>1, <2>2
<1>4. es[at[2]] \in Entry /\ key \in Key
  BY <1>3, KeyType
<1>5. l \in Level
  BY <1>2, <1>4, WithEntryType
<1>6. wide' \in Level
  <2> HIDE DEF l, key
  <2> QED BY <1>1, <1>2, <1>4, <1>5, KeptType
<1>7. l.unit \in Nat \ {0} /\ l.grid[key] \in Seq(Entry)
  BY <1>4, <1>5 DEF Level
<1>8. /\ levels' \in Seq(Level) /\ Len(levels') >= Len(levels)
      /\ \A j \in 1 .. Len(levels) : levels'[j] = levels[j]
      /\ file' \in Seq([leaf : BOOLEAN, entries : Seq(Entry)])
      /\ pending' \subseteq [level : {cur + 1}, key : Key, entry : Entry]
      /\ pending' # {} => cur + 1 \in 1 .. Len(levels')
  <2> HIDE DEF l, key
  <2>1. CASE IsFull(l, key, cur)
    BY <1>1, <1>2, <1>7, <2>1, SaveNodeType
  <2>2. CASE ~ IsFull(l, key, cur)
    BY <1>1, <1>2, <2>2
  <2> QED BY <2>1, <2>2
<1> HIDE DEF es, key, l
<1>9. 1 .. Len(levels) \subseteq 1 .. Len(levels')
  BY <1>2, <1>8
<1>10. TypeOK'
  <2>1. pending' \subseteq [level : 1 .. Len(levels'), key : Key, entry : Entry]
    BY <1>8
  <2>2. cur' \in 1 .. Len(levels') /\ dealt' \subseteq (1 .. Len(levels')) \X Entry
    BY <1>9 DEF TypeOK, MoveEntry
  <2>3. at' \in Nat \X (Nat \ {0})
    BY DEF TypeOK, MoveEntry
  <2> QED BY <1>6, <1>8, <2>1, <2>2, <2>3 DEF TypeOK, MoveEntry
<1>11. LeftBehind'
  <2>1. \A j \in 1 .. cur - 1 : HasLeft(j)'
    <3>1. \A j \in 1 .. cur - 1 : HasLeft(j) /\ j \in 1 .. Len(levels)
      BY <1>2 DEF LeftBehind
    <3> QED BY <1>8, <3>1 DEF HasLeft
  <2>2. \A i \in pending' : cur <= i.level
    <3>1. \A i \in pending' : i.level = cur + 1
      BY <1>8
    <3> QED BY <1>2, <3>1
  <2> QED BY <1>2, <2>1, <2>2 DEF LeftBehind, MoveEntry
<1> QED BY <1>10, <1>11

LEMMA MoveNextNodeKeeps == IInv /\ MoveNextNode => IInv'
<1> SUFFICES ASSUME IInv, MoveNextNode PROVE IInv'
  OBVIOUS
<1>1. at' \in Nat \X (Nat \ {0})
  BY DEF IInv, TypeOK, MoveNextNode
<1>2. TypeOK'
  BY <1>1 DEF IInv, TypeOK, MoveNextNode
<1>3. LeftBehind'
  BY DEF IInv, LeftBehind, HasLeft, MoveNextNode
<1> QED BY <1>2, <1>3 DEF IInv

(* The last round's grid takes the place of the level: of the levels only  *)
(* the one at cur changes.                                                 *)
LEMMA WidenedKeeps == IInv /\ Widened => IInv'
<1> SUFFICES ASSUME IInv, Widened PROVE IInv'
  OBVIOUS
<1> USE DEF IInv
<1>1. /\ pc = "widen" /\ pending = {} /\ wide \in Level /\ levels \in Seq(Level)
      /\ cur \in 1 .. Len(levels)
  BY DEF Widened, Widening, TypeOK
<1> DEFINE l == levels[cur]
           nodecount == l.nodecount + wide.nodecount
           noentries == l.noentries - wide.noentries
           counted == [l EXCEPT !.nodecount = nodecount, !.noentries = noentries]
           m == IF cur = Len(levels) THEN l ELSE counted
           emptied == [m EXCEPT !.grid = [key \in Key |-> << >>], !.noentries = 0]
           new == IF old = None THEN emptied ELSE m
<1>2. l \in Level
  BY <1>1
<1>3. nodecount \in Nat /\ noentries \in Int
  <2>1. \A x \in Level : x.nodecount \in Nat /\ x.noentries \in Int
    BY DEF Level
  <2>2. /\ l.nodecount \in Nat /\ l.noentries \in Int
        /\ wide.nodecount \in Nat /\ wide.noentries \in Int
    BY <1>1, <1>2, <2>1
  <2> QED BY <2>2
<1>4. counted \in Level
  <2> HIDE DEF l, nodecount, noentries
  <2> QED BY <1>2, <1>3 DEF Level
<1>5. m \in Level
  BY <1>2, <1>4
<1>6. emptied \in Level
  <2> DEFINE g == [key \in Key |-> << >>]
  <2>1. g \in [Key -> Seq(Entry)]
    OBVIOUS
  <2>2. emptied = [m EXCEPT !.grid = g, !.noentries = 0]
    OBVIOUS
  <2> HIDE DEF m, g
  <2> QED BY <1>5, <2>1, <2>2, EmptiedType
<1>7. new \in Level
  <2> HIDE DEF m, emptied
  <2> QED BY <1>5, <1>6
<1>8. levels' = [levels EXCEPT ![cur] = new]
  BY DEF Widened
<1> HIDE DEF new
<1>9. /\ levels' \in Seq(Level) /\ Len(levels') = Len(levels)
      /\ \A j \in 1 .. Len(levels) : j # cur => levels'[j] = levels[j]
  BY <1>1, <1>7, <1>8
<1>10. TypeOK'
  BY <1>1, <1>9 DEF TypeOK, Widened
<1>11. LeftBehind'
  <2>1. \A j \in 1 .. cur - 1 : HasLeft(j)'
    <3>1. \A j \in 1 .. cur - 1 : HasLeft(j) /\ j \in 1 .. Len(levels) /\ j # cur
      BY <1>1 DEF LeftBehind
    <3> QED BY <1>9, <3>1 DEF HasLeft
  <2> QED BY <1>1, <2>1 DEF LeftBehind, Widened
<1> QED BY <1>10, <1>11

LEMMA KeepLeftKeeps == IInv /\ KeepLeft => IInv'
<1> SUFFICES ASSUME IInv, KeepLeft PROVE IInv'
  OBVIOUS
<1> USE DEF IInv
<1>1. /\ pc = "root" /\ pending = {} /\ levels \in Seq(Level)
      /\ cur \in 1 .. Len(levels) /\ cur < Len(levels)
  BY DEF KeepLeft, AtRoot, TypeOK
<1> DEFINE left == GridEntries(Old)
           new == [levels[cur] EXCEPT !.left = left]
<1>2. left \in Seq(Entry) /\ left # None
  BY OldType, GridEntriesType, RTreeLevelAssumption
<1>3. new \in Level /\ new.left = left
  <2>1. levels[cur] \in Level
    BY <1>1
  <2> HIDE DEF left
  <2> QED BY <1>2, <2>1 DEF Level
<1>4. levels' = [levels EXCEPT ![cur] = new]
  BY DEF KeepLeft
<1> HIDE DEF left, new
<1>5. /\ levels' \in Seq(Level) /\ Len(levels') = Len(levels) /\ levels'[cur] = new
      /\ \A j \in 1 .. Len(levels) : j # cur => levels'[j] = levels[j]
  BY <1>1, <1>3, <1>4
<1>6. cur' = cur + 1 /\ cur' \in 1 .. Len(levels')
  BY <1>1, <1>5 DEF KeepLeft
<1>7. TypeOK'
  BY <1>1, <1>5, <1>6 DEF TypeOK, KeepLeft
<1>8. LeftBehind'
  <2>1. \A j \in 1 .. cur - 1 : HasLeft(j)'
    <3>1. \A j \in 1 .. cur - 1 : HasLeft(j) /\ j \in 1 .. Len(levels) /\ j # cur
      BY <1>1 DEF LeftBehind
    <3> QED BY <1>5, <3>1 DEF HasLeft
  <2>3. \A j \in 1 .. cur' - 1 : j \in 1 .. cur - 1 \/ j = cur
    BY <1>1, <1>6
  <2>4. \A j \in 1 .. cur' - 1 : HasLeft(j)'
    <3>1. \A j : HasLeft(j)' <=> (levels'[j].noentries # 0 => levels'[j].left # None)
      BY DEF HasLeft
    <3>2. levels'[cur].left # None
      BY <1>2, <1>3, <1>5
    <3> QED BY <2>1, <2>3, <3>1, <3>2
  <2> QED BY <1>1, <2>4 DEF LeftBehind, KeepLeft
<1> QED BY <1>7, <1>8

LEMMA SaveLeftKeeps == IInv /\ SaveLeft => IInv'
<1> SUFFICES ASSUME IInv, SaveLeft PROVE IInv'
  OBVIOUS
<1> USE DEF IInv
<1>1. /\ pc = "root" /\ pending = {} /\ levels \in Seq(Level)
      /\ cur \in 1 .. Len(levels) /\ cur < Len(levels)
      /\ file \in Seq([leaf : BOOLEAN, entries : Seq(Entry)])
  BY DEF SaveLeft, AtRoot, TypeOK
<1> DEFINE new == [levels[cur] EXCEPT !.noentries = 0]
           ls == [levels EXCEPT ![cur] = new]
<1>2. new \in Level /\ new.noentries = 0 /\ levels[cur].unit \in Nat \ {0}
  <2>1. levels[cur] \in Level
    BY <1>1
  <2> QED BY <2>1 DEF Level
<1>3. GridEntries(Old) \in Seq(Entry)
  BY OldType, GridEntriesType
<1>4. SaveNode(ls, cur, levels[cur].unit, GridEntries(Old))
  BY DEF SaveLeft
<1> HIDE DEF new
<1>5. /\ ls \in Seq(Level) /\ Len(ls) = Len(levels) /\ ls[cur] = new
      /\ \A j \in 1 .. Len(levels) : j # cur => ls[j] = levels[j]
  BY <1>1, <1>2
<1> HIDE DEF ls
<1>6. /\ levels' \in Seq(Level) /\ Len(levels') >= Len(levels)
      /\ \A j \in 1 .. Len(levels) : levels'[j] = ls[j]
      /\ file' \in Seq([leaf : BOOLEAN, entries : Seq(Entry)])
      /\ pending' \subseteq [level : {cur + 1}, key : Key, entry : Entry]
      /\ cur + 1 \in 1 .. Len(levels')
  BY <1>1, <1>2, <1>3, <1>4, <1>5, SaveNodeType
<1>7. cur' = cur + 1 /\ 1 .. Len(levels) \subseteq 1 .. Len(levels')
  BY <1>1, <1>6 DEF SaveLeft
<1>8. TypeOK'
  <2>1. pending' \subseteq [level : 1 .. Len(levels'), key : Key, entry : Entry]
    BY <1>6
  <2>2. dealt' \subseteq (1 .. Len(levels')) \X Entry
    BY <1>7 DEF TypeOK, SaveLeft
  <2> QED BY <1>1, <1>6, <1>7, <2>1, <2>2 DEF TypeOK, SaveLeft
<1>9. LeftBehind'
  <2>1. \A j \in 1 .. cur - 1 : HasLeft(j)'
    <3>1. \A j \in 1 .. cur - 1 : HasLeft(j) /\ j \in 1 .. Len(levels) /\ j # cur
      BY <1>1 DEF LeftBehind
    <3>2. \A j \in 1 .. cur - 1 : levels'[j] = levels[j]
      BY <1>5, <1>6, <3>1
    <3> QED BY <3>1, <3>2 DEF HasLeft
  <2>2. \A j \in 1 .. cur' - 1 : j \in 1 .. cur - 1 \/ j = cur
    BY <1>1, <1>7
  <2>3. \A j \in 1 .. cur' - 1 : HasLeft(j)'
    <3>1. \A j : HasLeft(j)' <=> (levels'[j].noentries # 0 => levels'[j].left # None)
      BY DEF HasLeft
    <3>2. levels'[cur].noentries = 0
      BY <1>1, <1>2, <1>5, <1>6
    <3> QED BY <2>1, <2>2, <3>1, <3>2
  <2>4. \A i \in pending' : cur' <= i.level
    <3>1. \A i \in pending' : i.level = cur + 1
      BY <1>6
    <3> QED BY <1>1, <1>7, <3>1
  <2> QED BY <1>1, <2>3, <2>4 DEF LeftBehind, SaveLeft
<1> QED BY <1>8, <1>9

LEMMA MakeRootKeeps == IInv /\ MakeRoot => IInv'
<1> SUFFICES ASSUME IInv, MakeRoot PROVE IInv'
  OBVIOUS
<1> USE DEF IInv
<1>1. /\ pc = "root" /\ pending = {} /\ levels \in Seq(Level)
      /\ cur \in 1 .. Len(levels) /\ cur = Len(levels)
      /\ file \in Seq([leaf : BOOLEAN, entries : Seq(Entry)])
  BY DEF MakeRoot, AtRoot, TypeOK
<1> DEFINE new == [levels[cur] EXCEPT !.noentries = 0]
<1>2. new \in Level /\ new.noentries = 0
  <2>1. levels[cur] \in Level
    BY <1>1
  <2> QED BY <2>1, ZeroedType
<1>3. levels' = [levels EXCEPT ![cur] = new]
  BY DEF MakeRoot
<1> HIDE DEF new
<1>4. /\ levels' \in Seq(Level) /\ Len(levels') = Len(levels) /\ levels'[cur] = new
      /\ \A j \in 1 .. Len(levels) : j # cur => levels'[j] = levels[j]
  BY <1>1, <1>2, <1>3
<1>5. file' \in Seq([leaf : BOOLEAN, entries : Seq(Entry)])
  <2>1. GridEntries(Old) \in Seq(Entry)
    BY OldType, GridEntriesType
  <2> QED BY <1>1, <2>1 DEF MakeRoot
<1>6. header'.root \in Nat /\ header'.height \in Nat /\ header'.entryCount \in Nat
  <2>1. header' = HeaderOf(Len(file) + 1, cur - 1)
    BY DEF MakeRoot
  <2>2. 1 \in 1 .. Len(levels) /\ Len(file) + 1 \in Nat /\ cur - 1 \in Nat
    BY <1>1
  <2>3. levels[1].entrycount \in Nat
    <3>1. levels[1] \in Level
      BY <1>1, <2>2
    <3> QED BY <3>1 DEF Level
  <2> QED BY <2>1, <2>2, <2>3 DEF HeaderOf
<1>7. TypeOK'
  BY <1>1, <1>4, <1>5, <1>6 DEF TypeOK, MakeRoot
<1>8. LeftBehind'
  <2>1. \A j \in 1 .. Len(levels) : j # cur => HasLeft(j)
    BY <1>1 DEF LeftBehind
  <2>2. \A j \in 1 .. Len(levels) : HasLeft(j)'
    <3>1. \A j : HasLeft(j)' <=> (levels'[j].noentries # 0 => levels'[j].left # None)
      BY DEF HasLeft
    <3>2. levels'[cur].noentries = 0
      BY <1>2, <1>4
    <3> QED BY <1>4, <2>1, <3>1, <3>2 DEF HasLeft
  <2> QED BY <1>1, <1>4, <2>2 DEF LeftBehind, MakeRoot
<1> QED BY <1>7, <1>8

LEMMA DealWithLeftEntriesKeeps == IInv /\ DealWithLeftEntries => IInv'
<1> SUFFICES ASSUME IInv, DealWithLeftEntries PROVE IInv'
  OBVIOUS
<1> USE DEF IInv
<1>1. pc = "left" /\ cur \in 1 .. Len(levels) /\ levels \in Seq(Level) /\ HasLeft(cur)
  BY DEF DealWithLeftEntries, TypeOK, LeftBehind
<1>2. Dealt(cur) \subseteq (1 .. Len(levels)) \X Entry
  <2>1. CASE levels[cur].noentries = 0
    BY <2>1 DEF Dealt
  <2>2. CASE levels[cur].noentries # 0
    <3>1. levels[cur].left \in Seq(Entry)
      <4>1. levels[cur] \in Level
        BY <1>1
      <4>2. levels[cur].left \in Seq(Entry) \cup {None}
        BY <4>1 DEF Level
      <4> QED BY <1>1, <2>2, <4>2 DEF HasLeft
    <3>2. \A e \in ToSet(levels[cur].left) : e \in Entry
      BY <3>1 DEF ToSet
    <3> QED BY <1>1, <3>2 DEF Dealt
  <2> QED BY <2>1, <2>2
<1>3. dealt' \subseteq (1 .. Len(levels)) \X Entry
  BY <1>2 DEF DealWithLeftEntries, TypeOK
<1>4. cur' \in 1 .. Len(levels) /\ pc' \in {"left", "done"}
  BY <1>1 DEF DealWithLeftEntries
<1>5. TypeOK'
  BY <1>3, <1>4 DEF DealWithLeftEntries, TypeOK
<1>6. LeftBehind'
  BY <1>1, <1>4 DEF DealWithLeftEntries, LeftBehind, HasLeft
<1> QED BY <1>5, <1>6

LEMMA StutterKeeps == IInv /\ UNCHANGED vars => IInv'
<1> SUFFICES ASSUME IInv, UNCHANGED vars PROVE IInv'
  OBVIOUS
<1>1. TypeOK'
  BY DEF IInv, TypeOK, vars
<1>2. LeftBehind'
  BY DEF IInv, LeftBehind, HasLeft, vars
<1> QED BY <1>1, <1>2 DEF IInv

LEMMA NextIInv == IInv /\ [Next]_vars => IInv'
  BY LoadKeeps, InsertKeeps, SetRTreeRootKeeps, WidenKeeps, MoveEntryKeeps,
     MoveNextNodeKeeps, WidenedKeeps, KeepLeftKeeps, SaveLeftKeeps, MakeRootKeeps,
     DealWithLeftEntriesKeeps, StutterKeeps
  DEF Next
-----------------------------------------------------------------------------
(* The state of the load has its types, whatever the boxes, the numbers of *)
(* entries a node takes and the range of the keys.                         *)
THEOREM TypeCorrect == Spec => []TypeOK
<1>1. IInv => TypeOK
  BY DEF IInv
<1> QED BY <1>1, InitIInv, NextIInv, PTL DEF Spec

(* A level whose count is not zero when DealWithLeftEntries comes to it    *)
(* has the left entries it goes through: GetRoot zeroes the count on every *)
(* way out that does not set them.                                         *)
THEOREM LeftEntriesThere == Spec => []LeftEntriesExist
<1>1. IInv => LeftEntriesExist
  BY DEF IInv, TypeOK, LeftBehind, HasLeft, LeftEntriesExist
<1> QED BY <1>1, InitIInv, NextIInv, PTL DEF Spec
-----------------------------------------------------------------------------
(***************************************************************************)
(* What is in a grid                                                       *)
(***************************************************************************)

Cells(l) == [i \in 1 .. MaxKey + 2 |-> l.grid[i - 1]]

LEMMA CellsType ==
  ASSUME NEW l \in Level
  PROVE  /\ Cells(l) \in Seq(Seq(Entry)) /\ Len(Cells(l)) = MaxKey + 2
         /\ \A key \in Key : key + 1 \in 1 .. MaxKey + 2 /\ Cells(l)[key + 1] = l.grid[key]
         /\ \A i \in 1 .. MaxKey + 2 : i - 1 \in Key /\ Cells(l)[i] = l.grid[i - 1]
<1>1. MaxKey \in Nat
  BY RTreeLevelAssumption
<1>2. \A i \in 1 .. MaxKey + 2 : i - 1 \in Key
  BY <1>1 DEF Key
<1>3. \A i \in 1 .. MaxKey + 2 : Cells(l)[i] = l.grid[i - 1] /\ l.grid[i - 1] \in Seq(Entry)
  BY <1>2 DEF Cells, Level
<1>4. Cells(l) \in [1 .. MaxKey + 2 -> Seq(Entry)]
  BY <1>3 DEF Cells
<1>5. \A key \in Key : key + 1 \in 1 .. MaxKey + 2 /\ key + 1 - 1 = key
  BY <1>1 DEF Key
<1>6. Cells(l) \in Seq(Seq(Entry)) /\ Len(Cells(l)) = MaxKey + 2
  BY <1>1, <1>4
<1>7. \A key \in Key : Cells(l)[key + 1] = l.grid[key]
  <2> SUFFICES ASSUME NEW key \in Key PROVE Cells(l)[key + 1] = l.grid[key]
    OBVIOUS
  <2>1. Cells(l)[key + 1] = l.grid[(key + 1) - 1] /\ key \in Int
    BY <1>1, <1>3, <1>5 DEF Key
  <2>2. (key + 1) - 1 = key
    BY <2>1
  <2> QED BY <2>1, <2>2
<1> QED BY <1>2, <1>3, <1>5, <1>6, <1>7

LEMMA GridMembers ==
  ASSUME NEW l \in Level
  PROVE  \A e : e \in ToSet(GridEntries(l)) <=> \E key \in Key : e \in ToSet(l.grid[key])
<1>1. ToSet(GridEntries(l)) = UNION {ToSet(Cells(l)[i]) : i \in 1 .. MaxKey + 2}
  BY CellsType, FlattenMembers DEF GridEntries, Cells
<1> SUFFICES ASSUME NEW e
             PROVE  e \in ToSet(GridEntries(l)) <=> \E key \in Key : e \in ToSet(l.grid[key])
  OBVIOUS
<1>2. ASSUME e \in ToSet(GridEntries(l)) PROVE \E key \in Key : e \in ToSet(l.grid[key])
  <2>1. PICK i \in 1 .. MaxKey + 2 : e \in ToSet(Cells(l)[i])
    BY <1>1, <1>2
  <2> QED BY <2>1, CellsType
<1>3. ASSUME NEW key \in Key, e \in ToSet(l.grid[key]) PROVE e \in ToSet(GridEntries(l))
  BY <1>1, <1>3, CellsType
<1> QED BY <1>2, <1>3

(* Of two grids that differ in one cell the numbers of entries differ by   *)
(* what is in that cell.                                                   *)
LEMMA GridLenUpdate ==
  ASSUME NEW l \in Level, NEW m \in Level, NEW key \in Key,
         \A j \in Key : j # key => m.grid[j] = l.grid[j]
  PROVE  Len(GridEntries(m)) = Len(GridEntries(l)) + Len(m.grid[key]) - Len(l.grid[key])
<1>1. /\ Cells(l) \in Seq(Seq(Entry)) /\ Cells(m) \in Seq(Seq(Entry))
      /\ Len(Cells(l)) = MaxKey + 2 /\ Len(Cells(m)) = MaxKey + 2
      /\ key + 1 \in 1 .. Len(Cells(l))
      /\ Cells(l)[key + 1] = l.grid[key] /\ Cells(m)[key + 1] = m.grid[key]
  BY CellsType
<1>2. ASSUME NEW i \in 1 .. Len(Cells(l)), i # key + 1 PROVE Cells(m)[i] = Cells(l)[i]
  <2>1. i - 1 \in Key /\ Cells(l)[i] = l.grid[i - 1] /\ Cells(m)[i] = m.grid[i - 1]
    BY <1>1, CellsType
  <2>2. i - 1 # key
    BY <1>1, <1>2
  <2> QED BY <2>1, <2>2
<1>3. Len(FlattenSeq(Cells(m))) =
        Len(FlattenSeq(Cells(l))) + Len(Cells(m)[key + 1]) - Len(Cells(l)[key + 1])
  <2> DEFINE A == Cells(l)
             B == Cells(m)
             k == key + 1
  <2>1. /\ A \in Seq(Seq(Entry)) /\ B \in Seq(Seq(Entry)) /\ Len(B) = Len(A)
        /\ k \in 1 .. Len(A) /\ \A i \in 1 .. Len(A) : i # k => Len(B[i]) = Len(A[i])
    BY <1>1, <1>2
  <2> HIDE DEF A, B, k
  <2>2. Len(FlattenSeq(B)) = Len(FlattenSeq(A)) + Len(B[k]) - Len(A[k])
    BY <2>1, FlattenLenUpdate
  <2> QED BY <2>2 DEF A, B, k
<1> QED BY <1>1, <1>3 DEF GridEntries, Cells

LEMMA EmptyGrid ==
  ASSUME NEW l \in Level, \A key \in Key : l.grid[key] = << >>
  PROVE  GridEntries(l) = << >>
<1>1. \A i \in 1 .. Len(Cells(l)) : Cells(l)[i] = << >>
  BY CellsType
<1>2. FlattenSeq(Cells(l)) = << >>
  BY <1>1, CellsType, FlattenEmpty
<1> QED BY <1>2 DEF GridEntries, Cells

LEMMA OneCellLen ==
  ASSUME NEW l \in Level, NEW key \in Key, \A j \in Key \ {key} : l.grid[j] = << >>
  PROVE  Len(GridEntries(l)) = Len(l.grid[key])
<1> DEFINE g == [j \in Key |-> << >>]
           m == [l EXCEPT !.grid = g]
<1>0. g \in [Key -> Seq(Entry)] /\ \A j \in Key : g[j] = << >>
  OBVIOUS
<1> HIDE DEF g
<1>1. m \in Level /\ \A j \in Key : m.grid[j] = << >>
  BY <1>0 DEF Level
<1>2. GridEntries(m) = << >>
  BY <1>1, EmptyGrid
<1> HIDE DEF m
<1>3. Len(GridEntries(l)) = Len(GridEntries(m)) + Len(l.grid[key]) - Len(m.grid[key])
  BY <1>1, GridLenUpdate
<1>4. Len(l.grid[key]) \in Nat /\ Len(m.grid[key]) = 0 /\ Len(GridEntries(m)) = 0
  <2>1. l.grid[key] \in Seq(Entry)
    BY DEF Level
  <2> QED BY <1>1, <1>2, <2>1
<1> QED BY <1>3, <1>4
-----------------------------------------------------------------------------
(***************************************************************************)
(* The extent of the boxes                                                 *)
(***************************************************************************)

Low == Min({b.lo : b \in Box})

High == Max({b.hi : b \in Box})

Within(e) == Low <= e.lo /\ e.lo <= e.hi /\ e.hi <= High

LEMMA BoxLimits ==
  /\ Low \in Nat /\ High \in Nat /\ Extent = High - Low
  /\ \A b \in Box : Within(b)
<1> DEFINE lows == {b.lo : b \in Box}
           highs == {b.hi : b \in Box}
<1>1. \A b \in Box : b.lo \in Nat /\ b.hi \in Nat /\ b.lo <= b.hi
  BY RTreeLevelAssumption
<1>2. PICK low \in lows : \A x \in lows : low <= x
  <2>1. lows \in SUBSET Nat /\ lows # {}
    BY <1>1, RTreeLevelAssumption
  <2> QED BY <2>1, MinExists
<1>3. Low \in lows /\ \A x \in lows : Low <= x
  BY <1>2 DEF Low, Min
<1>4. PICK high \in highs : \A x \in highs : high >= x
  <2> DEFINE n == Cardinality(Box)
  <2>1. n \in Nat /\ n # 0 /\ ExistsBijection(1 .. n, Box)
    BY RTreeLevelAssumption, FS_CardinalityType, FS_EmptySet
  <2>2. PICK f \in [1 .. n -> Box] : \A b \in Box : \E i \in 1 .. n : f[i] = b
    BY <2>1 DEF ExistsBijection, Bijection, Surjection
  <2> HIDE DEF n
  <2> DEFINE g == [i \in 1 .. n |-> f[i].hi]
  <2>3. g \in [1 .. n -> Nat]
    BY <1>1, <2>2
  <2>4. PICK i \in 1 .. n : \A j \in 1 .. n : g[j] <= g[i]
    BY <2>1, <2>3, MaxExists
  <2>5. f[i] \in Box /\ g[i] = f[i].hi /\ g[i] \in Nat
    BY <2>2, <2>3
  <2>6. ASSUME NEW b \in Box PROVE f[i].hi >= b.hi
    <3>1. PICK j \in 1 .. n : f[j] = b
      BY <2>2
    <3>2. g[j] = b.hi /\ g[j] \in Nat /\ g[j] <= g[i]
      BY <2>3, <2>4, <3>1
    <3> QED BY <2>5, <3>2
  <2> QED BY <2>5, <2>6
<1>5. High \in highs /\ \A x \in highs : High >= x
  BY <1>4 DEF High, Max
<1>6. Low \in Nat /\ High \in Nat
  BY <1>1, <1>3, <1>5
<1>7. Extent = High - Low
  BY DEF Extent, High, Low
<1>8. ASSUME NEW b \in Box PROVE Within(b)
  <2>1. Low <= b.lo /\ High >= b.hi
    BY <1>3, <1>5
  <2> QED BY <1>1, <1>6, <2>1 DEF Within
<1> QED BY <1>6, <1>7, <1>8

(* The box of a node that is not empty.                                    *)
LEMMA BoxWithin ==
  ASSUME NEW es \in Seq(Entry), es # << >>, \A e \in ToSet(es) : Within(e),
         NEW b, b.lo = Lowest(es), b.hi = Highest(es)
  PROVE  Within(b)
<1> DEFINE lows == {e.lo : e \in ToSet(es)}
           highs == {e.hi : e \in ToSet(es)}
           high == [i \in 1 .. Len(es) |-> es[i].hi]
<1>0. Len(es) \in Nat /\ Len(es) # 0 /\ \A i \in 1 .. Len(es) : es[i] \in Entry
  OBVIOUS
<1>1. ToSet(es) = {es[i] : i \in 1 .. Len(es)}
  BY DEF ToSet
<1>2. \A e \in ToSet(es) : e.lo \in Nat /\ e.hi \in Nat
  BY <1>0, <1>1 DEF Entry
<1>3. es[1] \in ToSet(es)
  BY <1>0, <1>1
<1>4. lows \in SUBSET Nat /\ lows # {}
  BY <1>2, <1>3
<1>5. PICK x \in lows : \A y \in lows : x <= y
  BY <1>4, MinExists
<1>6. Min(lows) \in lows /\ \A y \in lows : Min(lows) <= y
  BY <1>5 DEF Min
<1>7. high \in [1 .. Len(es) -> Nat]
  BY <1>0 DEF Entry
<1>8. PICK i \in 1 .. Len(es) : \A j \in 1 .. Len(es) : high[j] <= high[i]
  BY <1>0, <1>7, MaxExists
<1>9. highs = {high[j] : j \in 1 .. Len(es)}
  BY <1>1
<1>10. high[i] \in highs /\ \A y \in highs : high[i] >= y
  BY <1>7, <1>8, <1>9
<1>11. Max(highs) \in highs /\ \A y \in highs : Max(highs) >= y
  BY <1>10 DEF Max
<1>12. b.lo = Min(lows) /\ b.hi = Max(highs)
  BY DEF Lowest, Highest
<1>13. Low \in Nat /\ High \in Nat
  BY BoxLimits
<1>14. PICK e \in ToSet(es) : Min(lows) = e.lo
  BY <1>6
<1>15. PICK f \in ToSet(es) : Max(highs) = f.hi
  BY <1>11
<1>16. Low <= e.lo /\ f.hi <= High /\ e.lo <= e.hi
  BY DEF Within
<1>17. e.hi <= f.hi
  BY <1>2, <1>11, <1>15
<1> QED BY <1>2, <1>12, <1>13, <1>14, <1>15, <1>16, <1>17 DEF Within

(* Cells wider than the extent: what is within it has the first key.       *)
LEMMA OneKey ==
  ASSUME NEW lo \in Nat, NEW hi \in Nat, NEW unit \in Nat \ {0},
         Low <= lo, lo <= hi, hi <= High, 2 * unit > Extent
  PROVE  KeyOf(lo, hi, unit) = 1
<1> DEFINE x == hi - lo
           d == 2 * unit
<1>1. x \in Nat /\ d \in Nat /\ x < d
  BY BoxLimits
<1>2. x \div d = 0
  <2> HIDE DEF x, d
  <2> QED BY <1>1
<1>3. (hi - lo) \div (2 * unit) = 0
  BY <1>2
<1>4. 0 \in 0 .. MaxKey
  BY RTreeLevelAssumption
<1> QED BY <1>3, <1>4 DEF KeyOf
-----------------------------------------------------------------------------
(***************************************************************************)
(* An entry goes into a grid                                               *)
(***************************************************************************)

CountsOf(l) == l.noentries = Len(GridEntries(l))

(* A node is saved before it holds more than it can.                       *)
Roomy(l, k) == \A key \in Key : Len(l.grid[key]) < MaxEntries(k)

InOneCell(l) == 2 * l.unit > Extent => \A key \in Key \ {1} : l.grid[key] = << >>

(* A grid on level k is as the insertions leave it.                        *)
Sound(l, k) ==
  /\ CountsOf(l) /\ Roomy(l, k) /\ InOneCell(l)
  /\ \A e \in ToSet(GridEntries(l)) : Within(e)

LEMMA NewLevelSound ==
  ASSUME NEW unit \in Nat \ {0}, NEW k \in Nat
  PROVE  Sound(NewLevel(unit), k) /\ GridEntries(NewLevel(unit)) = << >>
<1>1. NewLevel(unit) \in Level
  BY NewLevelType
<1>2. \A key \in Key : NewLevel(unit).grid[key] = << >>
  BY DEF NewLevel
<1>3. GridEntries(NewLevel(unit)) = << >>
  BY <1>1, <1>2, EmptyGrid
<1>4. CountsOf(NewLevel(unit))
  <2>1. NewLevel(unit).noentries = 0
    BY DEF NewLevel
  <2> QED BY <1>3, <2>1 DEF CountsOf
<1>5. Roomy(NewLevel(unit), k)
  <2>1. \A key \in Key : Len(NewLevel(unit).grid[key]) = 0
    BY <1>2
  <2>2. MaxEntries(k) \in Nat \ {0}
    BY MaxEntriesType
  <2> QED BY <2>1, <2>2 DEF Roomy
<1>6. InOneCell(NewLevel(unit))
  BY <1>2 DEF InOneCell
<1> QED BY <1>3, <1>4, <1>5, <1>6, OneMember DEF Sound

LEMMA WithEntryGrid ==
  ASSUME NEW l \in Level, NEW key \in Key, NEW e \in Entry
  PROVE  /\ WithEntry(l, key, e).grid[key] = Append(l.grid[key], e)
         /\ \A j \in Key : j # key => WithEntry(l, key, e).grid[j] = l.grid[j]
         /\ WithEntry(l, key, e).noentries = l.noentries + 1
         /\ WithEntry(l, key, e).left = l.left
<1> DEFINE g == [l.grid EXCEPT ![key] = Append(l.grid[key], e)]
           noentries == l.noentries + 1
           entrycount == l.entrycount + 1
<1>1. WithEntry(l, key, e) =
        [l EXCEPT !.grid = g, !.noentries = noentries, !.entrycount = entrycount]
  BY DEF WithEntry, Level
<1>2. g[key] = Append(l.grid[key], e) /\ \A j \in Key : j # key => g[j] = l.grid[j]
  BY DEF Level
<1> HIDE DEF g, noentries, entrycount
<1> DEFINE new == [l EXCEPT !.grid = g, !.noentries = noentries, !.entrycount = entrycount]
<1>3. new.grid = g /\ new.noentries = noentries /\ new.left = l.left
  BY DEF Level
<1> HIDE DEF new
<1>4. WithEntry(l, key, e) = new
  BY <1>1 DEF new
<1> QED BY <1>2, <1>3, <1>4 DEF noentries

LEMMA KeptGrid ==
  ASSUME NEW l \in Level, NEW key \in Key, NEW k \in Nat
  PROVE  /\ \A j \in Key : j # key => Kept(l, key, k).grid[j] = l.grid[j]
         /\ Kept(l, key, k).unit = l.unit /\ Kept(l, key, k).left = l.left
         /\ IsFull(l, key, k) => /\ Kept(l, key, k).grid[key] = << >>
                                 /\ Kept(l, key, k).noentries = l.noentries - MaxEntries(k)
         /\ ~ IsFull(l, key, k) => Kept(l, key, k) = l
<1>1. CASE IsFull(l, key, k)
  <2> DEFINE g == [l.grid EXCEPT ![key] = << >>]
             n == l.noentries - MaxEntries(k)
             nodecount == l.nodecount + 1
  <2>1. Kept(l, key, k) = [l EXCEPT !.grid = g, !.noentries = n, !.nodecount = nodecount]
    BY <1>1 DEF Kept, WithoutNode, Level
  <2>2. g[key] = << >> /\ \A j \in Key : j # key => g[j] = l.grid[j]
    BY DEF Level
  <2> HIDE DEF g, n, nodecount
  <2> DEFINE new == [l EXCEPT !.grid = g, !.noentries = n, !.nodecount = nodecount]
  <2>3. new.grid = g /\ new.noentries = n /\ new.left = l.left /\ new.unit = l.unit
    BY DEF Level
  <2> HIDE DEF new
  <2>4. Kept(l, key, k) = new
    BY <2>1 DEF new
  <2> QED BY <1>1, <2>2, <2>3, <2>4 DEF n
<1>2. CASE ~ IsFull(l, key, k)
  BY <1>2 DEF Kept
<1> QED BY <1>1, <1>2

(* After the insertion, with w the grid before the node is saved and m the *)
(* one after: m, and the node if one was saved, hold what l held and the   *)
(* new entry, and m is sound again.                                        *)
Received(l, key, e, k, w, m) ==
  /\ w \in Level /\ m \in Level
  /\ m.unit = l.unit /\ w.unit = l.unit /\ m.left = l.left
  /\ Sound(m, k)
  /\ w.grid[key] \in Seq(Entry)
  /\ IsFull(w, key, k) => /\ Len(w.grid[key]) = MaxEntries(k)
                          /\ \A x \in ToSet(w.grid[key]) : Within(x)
  /\ \A x : x \in ToSet(GridEntries(l)) \/ x = e <=>
            \/ x \in ToSet(GridEntries(m))
            \/ IsFull(w, key, k) /\ x \in ToSet(w.grid[key])
  /\ Len(GridEntries(m)) + (IF IsFull(w, key, k) THEN MaxEntries(k) ELSE 0)
       = Len(GridEntries(l)) + 1

LEMMA Entered ==
  ASSUME NEW l \in Level, NEW key \in Key, NEW e \in Entry, NEW k \in Nat,
         Sound(l, k), Within(e), 2 * l.unit > Extent => key = 1,
         NEW w, w = WithEntry(l, key, e), NEW m, m = Kept(w, key, k)
  PROVE  Received(l, key, e, k, w, m)
<1> DEFINE max == MaxEntries(k)
<1>0. max \in Nat \ {0}
  BY MaxEntriesType
<1>1. w \in Level /\ w.unit = l.unit
  BY WithEntryType
<1>2. m \in Level
  BY <1>1, KeptType
<1>3. /\ w.grid[key] = Append(l.grid[key], e)
      /\ \A j \in Key : j # key => w.grid[j] = l.grid[j]
      /\ w.noentries = l.noentries + 1 /\ w.left = l.left
  BY WithEntryGrid
<1>4. /\ \A j \in Key : j # key => m.grid[j] = w.grid[j]
      /\ m.unit = w.unit /\ m.left = w.left
      /\ IsFull(w, key, k) => m.grid[key] = << >> /\ m.noentries = w.noentries - max
      /\ ~ IsFull(w, key, k) => m = w
  BY <1>1, KeptGrid
<1>5. /\ l.grid[key] \in Seq(Entry) /\ w.grid[key] \in Seq(Entry)
      /\ Len(l.grid[key]) \in Nat /\ Len(w.grid[key]) = Len(l.grid[key]) + 1
      /\ l.noentries \in Int
  BY <1>3 DEF Level
<1>6. Len(l.grid[key]) < max
  BY DEF Sound, Roomy
<1>7. IsFull(w, key, k) <=> Len(w.grid[key]) = max
  BY <1>0, <1>5, <1>6 DEF IsFull
<1>8. Len(GridEntries(w)) = Len(GridEntries(l)) + 1 /\ Len(GridEntries(l)) \in Nat
  <2>1. Len(GridEntries(w)) = Len(GridEntries(l)) + Len(w.grid[key]) - Len(l.grid[key])
    BY <1>1, <1>3, GridLenUpdate
  <2>2. GridEntries(l) \in Seq(Entry)
    BY GridEntriesType
  <2> QED BY <1>5, <2>1, <2>2
<1>9. Len(GridEntries(m)) + (IF IsFull(w, key, k) THEN max ELSE 0) = Len(GridEntries(w))
  <2>1. CASE IsFull(w, key, k)
    <3>1. Len(GridEntries(m)) = Len(GridEntries(w)) + Len(m.grid[key]) - Len(w.grid[key])
      BY <1>1, <1>2, <1>4, GridLenUpdate
    <3>2. Len(m.grid[key]) = 0
      BY <1>4, <2>1
    <3> HIDE DEF max
    <3>3. Len(w.grid[key]) = max /\ Len(GridEntries(w)) \in Nat
      BY <1>7, <1>8, <2>1
    <3>4. Len(GridEntries(m)) = Len(GridEntries(w)) - max
      BY <1>0, <3>1, <3>2, <3>3
    <3> QED BY <1>0, <2>1, <3>3, <3>4
  <2>2. CASE ~ IsFull(w, key, k)
    BY <1>4, <1>8, <2>2
  <2> QED BY <2>1, <2>2
<1>10. CountsOf(m)
  <2>1. l.noentries = Len(GridEntries(l))
    BY DEF Sound, CountsOf
  <2>2. CASE IsFull(w, key, k)
    <3>1. m.noentries = (l.noentries + 1) - max
      BY <1>3, <1>4, <2>2, Zenon
    <3>2. GridEntries(m) \in Seq(Entry)
      BY <1>2, GridEntriesType
    <3>3. Len(GridEntries(m)) \in Nat
      BY <3>2
    <3> HIDE DEF max
    <3> QED BY <1>0, <1>5, <1>8, <1>9, <2>1, <2>2, <3>1, <3>3 DEF CountsOf
  <2>3. CASE ~ IsFull(w, key, k)
    BY <1>3, <1>4, <1>8, <2>1, <2>3 DEF CountsOf
  <2> QED BY <2>2, <2>3
<1>11. Roomy(m, k)
  <2> SUFFICES ASSUME NEW j \in Key PROVE Len(m.grid[j]) < MaxEntries(k)
    BY DEF Roomy
  <2>1. CASE j # key
    <3>1. m.grid[j] = l.grid[j]
      BY <1>3, <1>4, <2>1
    <3> QED BY <3>1 DEF Sound, Roomy
  <2>2. CASE j = key
    <3>1. CASE IsFull(w, key, k)
      BY <1>0, <1>4, <2>2, <3>1
    <3>2. CASE ~ IsFull(w, key, k)
      BY <1>0, <1>4, <1>5, <1>6, <1>7, <2>2, <3>2
    <3> QED BY <3>1, <3>2
  <2> QED BY <2>1, <2>2
<1>12. InOneCell(m)
  <2> SUFFICES ASSUME 2 * m.unit > Extent, NEW j \in Key \ {1} PROVE m.grid[j] = << >>
    BY DEF InOneCell
  <2>1. m.unit = l.unit
    BY <1>1, <1>4
  <2>2. j # key
    BY <2>1
  <2>3. m.grid[j] = l.grid[j]
    BY <1>3, <1>4, <2>2
  <2> QED BY <2>1, <2>3 DEF Sound, InOneCell
<1>13. ToSet(w.grid[key]) = ToSet(l.grid[key]) \cup {e}
  BY <1>3, <1>5, AppendMembers
<1>14. \A x : (x \in ToSet(GridEntries(l)) \/ x = e) <=> x \in ToSet(GridEntries(w))
  <2> SUFFICES ASSUME NEW x
      PROVE (x \in ToSet(GridEntries(l)) \/ x = e) <=> x \in ToSet(GridEntries(w))
    OBVIOUS
  <2>1. x \in ToSet(GridEntries(l)) <=> \E j \in Key : x \in ToSet(l.grid[j])
    BY GridMembers
  <2>2. x \in ToSet(GridEntries(w)) <=> \E j \in Key : x \in ToSet(w.grid[j])
    BY <1>1, GridMembers
  <2>3. ASSUME NEW j \in Key
        PROVE  x \in ToSet(w.grid[j]) <=> x \in ToSet(l.grid[j]) \/ (j = key /\ x = e)
    <3>1. CASE j = key
      BY <1>13, <3>1
    <3>2. CASE j # key
      BY <1>3, <3>2
    <3> QED BY <3>1, <3>2
  <2> QED BY <2>1, <2>2, <2>3
<1>15. ASSUME NEW x
       PROVE  x \in ToSet(GridEntries(w)) <=>
                \/ x \in ToSet(GridEntries(m))
                \/ IsFull(w, key, k) /\ x \in ToSet(w.grid[key])
  <2>1. CASE ~ IsFull(w, key, k)
    BY <1>4, <2>1
  <2>2. CASE IsFull(w, key, k)
    <3>1. x \in ToSet(GridEntries(m)) <=> \E j \in Key : x \in ToSet(m.grid[j])
      BY <1>2, GridMembers
    <3>2. x \in ToSet(GridEntries(w)) <=> \E j \in Key : x \in ToSet(w.grid[j])
      BY <1>1, GridMembers
    <3>3. ASSUME NEW j \in Key
          PROVE  x \in ToSet(w.grid[j]) <=>
                   x \in ToSet(m.grid[j]) \/ (j = key /\ x \in ToSet(w.grid[key]))
      <4>1. CASE j = key
        BY <1>4, <2>2, <4>1, OneMember
      <4>2. CASE j # key
        BY <1>4, <4>2
      <4> QED BY <4>1, <4>2
    <3> QED BY <2>2, <3>1, <3>2, <3>3
  <2> QED BY <2>1, <2>2
<1>16. \A x : x \in ToSet(GridEntries(l)) \/ x = e => Within(x)
  BY DEF Sound
<1>17. Sound(m, k)
  BY <1>10, <1>11, <1>12, <1>14, <1>15, <1>16 DEF Sound
<1>18. \A x : x \in ToSet(GridEntries(l)) \/ x = e <=>
              \/ x \in ToSet(GridEntries(m))
              \/ IsFull(w, key, k) /\ x \in ToSet(w.grid[key])
  BY <1>14, <1>15
<1>19. Len(GridEntries(m)) + (IF IsFull(w, key, k) THEN MaxEntries(k) ELSE 0)
         = Len(GridEntries(l)) + 1
  BY <1>8, <1>9
<1>20. IsFull(w, key, k) => /\ Len(w.grid[key]) = MaxEntries(k)
                            /\ \A x \in ToSet(w.grid[key]) : Within(x)
  BY <1>7, <1>16, <1>18
<1> HIDE DEF max
<1> QED BY <1>1, <1>2, <1>3, <1>4, <1>5, <1>17, <1>18, <1>19, <1>20 DEF Received
-----------------------------------------------------------------------------
(***************************************************************************)
(* The counts, the room in the cells and the end of the widening           *)
(***************************************************************************)

(* GetRoot has not widened level k yet: its own grid is the one that       *)
(* insertions go to.                                                       *)
Untouched(k) ==
  pc = "load" \/ (pc \in {"root", "widen"} /\ (k > cur \/ (k = cur /\ old = None)))

(* What is there in which part of the load.                                *)
Phases ==
  /\ \A i, j \in pending : i = j
  /\ \A i \in pending : Untouched(i.level) /\ (pc = "widen" => i.level # cur)
  /\ pc # "widen" => wide = None
  /\ pc \in {"load", "left", "done"} => old = None
  /\ pc \in {"load", "root", "widen"} =>
       header.root = 0 /\ \A k \in cur .. Len(levels) : levels[k].left = None
  /\ pc \in {"left", "done"} => header.root = Len(file) /\ header.root # 0

Grids ==
  /\ \A k \in 1 .. Len(levels) : Untouched(k) => Sound(levels[k], k)
  /\ \A l \in {old, wide} \ {None} : Sound(l, cur) /\ l.unit <= Extent
  /\ \A i \in pending : Within(i.entry) /\ (2 * levels[i.level].unit > Extent => i.key = 1)

LoadInv == IInv /\ Phases /\ Grids /\ NodesFilled

LEMMA LevelsExist ==
  ASSUME LoadInv
  PROVE  Len(levels) \in Nat /\ Len(levels) > 0 /\ levels \in Seq(Level)
<1>1. levels \in Seq(Level) /\ cur \in 1 .. Len(levels)
  BY DEF LoadInv, IInv, TypeOK
<1> QED BY <1>1

LEMMA OldSound == LoadInv /\ pc \in {"root", "widen"} => Sound(Old, cur)
<1> SUFFICES ASSUME LoadInv, pc \in {"root", "widen"} PROVE Sound(Old, cur)
  OBVIOUS
<1>1. cur \in 1 .. Len(levels)
  BY DEF LoadInv, IInv, TypeOK
<1>2. CASE old = None
  BY <1>1, <1>2 DEF LoadInv, Grids, Untouched, Old
<1>3. CASE old # None
  BY <1>3 DEF LoadInv, Grids, Old
<1> QED BY <1>2, <1>3

(* SaveNode2RTree for node es of level k of ls: the record, the insertion, *)
(* and a level more if the node is of the last.                            *)
Saved(ls, k, es) ==
  /\ levels' \in Seq(Level) /\ Len(levels') >= Len(ls)
  /\ \A j \in 1 .. Len(ls) : levels'[j] = ls[j]
  /\ \A j \in 1 .. Len(levels') : j \notin 1 .. Len(ls) =>
       /\ j = k + 1 /\ k = Len(ls)
       /\ Sound(levels'[j], j) /\ levels'[j].left = None
       /\ GridEntries(levels'[j]) = << >>
  /\ \E i : /\ pending' = {i} /\ i.level = k + 1 /\ i.level \in 1 .. Len(levels')
            /\ i.key \in Key /\ i.entry \in Entry /\ i.entry.ref = Len(file) + 1
            /\ Within(i.entry)
            /\ 2 * levels'[i.level].unit > Extent => i.key = 1
  /\ file' = Append(file, [leaf |-> k = 1, entries |-> es])

LEMMA SaveNodeSound ==
  ASSUME NEW ls \in Seq(Level), NEW k \in 1 .. Len(ls), NEW unit \in Nat \ {0},
         NEW es \in Seq(Entry), es # << >>, \A e \in ToSet(es) : Within(e),
         file \in Seq([leaf : BOOLEAN, entries : Seq(Entry)]),
         SaveNode(ls, k, unit, es)
  PROVE  Saved(ls, k, es)
<1> DEFINE e == [ref |-> Len(file) + 1, lo |-> Lowest(es), hi |-> Highest(es)]
           i == Insertion(levels', k + 1, e)
<1>1. e \in Entry /\ e.ref = Len(file) + 1 /\ e.lo = Lowest(es) /\ e.hi = Highest(es)
  BY BoxType DEF Entry
<1>2. Within(e)
  BY <1>1, BoxWithin
<1>3. levels' = (IF k = Len(ls) THEN Append(ls, NewLevel(unit)) ELSE ls) /\ pending' = {i}
  BY DEF SaveNode
<1>4. NewLevel(unit) \in Level /\ NewLevel(unit).left = None
  BY NewLevelType DEF NewLevel
<1>5. /\ levels' \in Seq(Level) /\ Len(levels') >= Len(ls) /\ k + 1 \in 1 .. Len(levels')
      /\ \A j \in 1 .. Len(ls) : levels'[j] = ls[j]
      /\ \A j \in 1 .. Len(levels') : j \notin 1 .. Len(ls) =>
           j = k + 1 /\ k = Len(ls) /\ levels'[j] = NewLevel(unit)
  <2>1. CASE k = Len(ls)
    BY <1>3, <1>4, <2>1
  <2>2. CASE k # Len(ls)
    BY <1>3, <2>2
  <2> QED BY <2>1, <2>2
<1>6. /\ i.level = k + 1 /\ i.entry = e
      /\ i.key = KeyOf(e.lo, e.hi, levels'[k + 1].unit) /\ i.key \in Key
  BY KeyType DEF Insertion
<1>7. ASSUME 2 * levels'[k + 1].unit > Extent PROVE i.key = 1
  <2>1. levels'[k + 1] \in Level
    BY <1>5
  <2>2. levels'[k + 1].unit \in Nat \ {0}
    BY <2>1 DEF Level
  <2>3. e.lo \in Nat /\ e.hi \in Nat
    BY <1>1 DEF Entry
  <2> HIDE DEF e, i
  <2> QED BY <1>2, <1>6, <1>7, <2>2, <2>3, OneKey DEF Within
<1> HIDE DEF e, i
<1>8. ASSUME NEW j \in 1 .. Len(levels'), j \notin 1 .. Len(ls)
      PROVE  /\ j = k + 1 /\ k = Len(ls)
             /\ Sound(levels'[j], j) /\ levels'[j].left = None
             /\ GridEntries(levels'[j]) = << >>
  BY <1>4, <1>5, <1>8, NewLevelSound
<1>9. file' = Append(file, [leaf |-> k = 1, entries |-> es])
  BY DEF SaveNode
<1>10. \E x : /\ pending' = {x} /\ x.level = k + 1 /\ x.level \in 1 .. Len(levels')
              /\ x.key \in Key /\ x.entry \in Entry /\ x.entry.ref = Len(file) + 1
              /\ Within(x.entry)
              /\ 2 * levels'[x.level].unit > Extent => x.key = 1
  BY <1>1, <1>2, <1>3, <1>5, <1>6, <1>7
<1> QED BY <1>5, <1>8, <1>9, <1>10 DEF Saved

(* A node written before the root is made, filled as its level asks.       *)
LEMMA FilledAppend ==
  ASSUME file \in Seq([leaf : BOOLEAN, entries : Seq(Entry)]),
         NodesFilled, header.root = 0, header' = header,
         NEW k \in Nat \ {0}, NEW es \in Seq(Entry),
         MinEntries(k) <= Len(es), Len(es) <= MaxEntries(k),
         file' = Append(file, [leaf |-> k = 1, entries |-> es])
  PROVE  NodesFilled'
<1> DEFINE Fill(node) == LET size == Len(node.entries)
                             min == IF node.leaf THEN MinLeaf ELSE MinInternal
                             max == IF node.leaf THEN MaxLeaf ELSE MaxInternal
                         IN  min <= size /\ size <= max
           node == [leaf |-> k = 1, entries |-> es]
<1>1. Fill(node)
  BY DEF MinEntries, MaxEntries
<1>2. \A n \in 1 .. Len(file) : Fill(file[n])
  BY DEF NodesFilled
<1>3. /\ Len(file') = Len(file) + 1 /\ file'[Len(file) + 1] = node
      /\ \A n \in 1 .. Len(file) : file'[n] = file[n]
  OBVIOUS
<1>4. \A n \in 1 .. Len(file') : n \in 1 .. Len(file) \/ n = Len(file) + 1
  BY <1>3
<1> HIDE DEF Fill, node
<1>5. \A n \in 1 .. Len(file') : Fill(file'[n]) /\ n # header'.root
  BY <1>1, <1>2, <1>3, <1>4
<1> QED BY <1>5 DEF NodesFilled, Fill

LEMMA InitLoadInv == Init => LoadInv
<1> SUFFICES ASSUME Init PROVE LoadInv
  OBVIOUS
<1>1. IInv
  BY InitIInv
<1>2. /\ levels = <<NewLevel(Unit)>> /\ Len(levels) = 1 /\ levels[1] = NewLevel(Unit)
      /\ old = None /\ wide = None /\ pending = {} /\ pc = "load" /\ cur = 1
      /\ header.root = 0 /\ file = << >>
  BY DEF Init
<1>3. Sound(NewLevel(Unit), 1) /\ NewLevel(Unit).left = None
  BY NewLevelSound, RTreeLevelAssumption DEF NewLevel
<1>4. \A k \in 1 .. Len(levels) : k = 1
  BY <1>2
<1>5. Phases
  BY <1>2, <1>3 DEF Phases
<1>6. Grids
  BY <1>2, <1>3, <1>4 DEF Grids
<1>7. NodesFilled
  BY <1>2 DEF NodesFilled
<1> QED BY <1>1, <1>5, <1>6, <1>7 DEF LoadInv

LEMMA LoadLoadInv == LoadInv /\ Load => LoadInv'
<1> SUFFICES ASSUME LoadInv, Load PROVE LoadInv'
  OBVIOUS
<1>1. IInv'
  BY LoadKeeps DEF LoadInv
<1>2. PICK b \in Box :
        pending' = {Insertion(levels, 1, [ref |-> loaded + 1, lo |-> b.lo, hi |-> b.hi])}
  BY DEF Load
<1> DEFINE e == [ref |-> loaded + 1, lo |-> b.lo, hi |-> b.hi]
           i == Insertion(levels, 1, e)
<1>3. /\ pc = "load" /\ pending' = {i} /\ i.level = 1 /\ i.entry = e
      /\ i.key = KeyOf(b.lo, b.hi, levels[1].unit)
      /\ UNCHANGED <<levels, old, wide, at, file, header, pc, cur, dealt>>
  BY <1>2 DEF Load, Insertion
<1>4. Within(e) /\ b.lo \in Nat /\ b.hi \in Nat
  BY BoxLimits, RTreeLevelAssumption DEF Within
<1>5. levels[1].unit \in Nat \ {0}
  <2>1. levels[1] \in Level
    BY DEF LoadInv, IInv, TypeOK
  <2> QED BY <2>1 DEF Level
<1>6. 2 * levels[1].unit > Extent => i.key = 1
  BY <1>3, <1>4, <1>5, OneKey DEF Within
<1> HIDE DEF e, i
<1>7. Phases'
  BY <1>3 DEF LoadInv, Phases, Untouched
<1>8. Grids'
  <2>1. \A k : Untouched(k)' <=> Untouched(k)
    BY <1>3 DEF Untouched
  <2> QED BY <1>3, <1>4, <1>6, <2>1 DEF LoadInv, Grids
<1>9. NodesFilled'
  BY <1>3 DEF LoadInv, NodesFilled
<1> QED BY <1>1, <1>7, <1>8, <1>9 DEF LoadInv

(* The insertion i: w and m as in Received, ls the levels with m, to which *)
(* SaveNode2RTree may add.                                                 *)
InsertMakes(i, w, m, ls) ==
  /\ i \in pending /\ i.level \in 1 .. Len(levels) /\ i.key \in Key /\ i.entry \in Entry
  /\ Untouched(i.level) /\ (pc = "widen" => i.level # cur)
  /\ Received(levels[i.level], i.key, i.entry, i.level, w, m)
  /\ ls \in Seq(Level) /\ Len(ls) = Len(levels) /\ ls[i.level] = m
  /\ \A j \in 1 .. Len(levels) : j # i.level => ls[j] = levels[j]
  /\ IsFull(w, i.key, i.level) => Saved(ls, i.level, w.grid[i.key])
  /\ ~ IsFull(w, i.key, i.level) => levels' = ls /\ pending' = {} /\ file' = file

LEMMA InsertEffect ==
  ASSUME LoadInv, Insert
  PROVE  \E i, w, m, ls : InsertMakes(i, w, m, ls)
<1>1. PICK i \in pending :
        LET k == i.level
            l == WithEntry(levels[k], i.key, i.entry)
            ls == [levels EXCEPT ![k] = Kept(l, i.key, k)]
        IN  IF IsFull(l, i.key, k) THEN SaveNode(ls, k, l.unit, l.grid[i.key])
            ELSE levels' = ls /\ pending' = {} /\ UNCHANGED file
  BY DEF Insert
<1> DEFINE k == i.level
           key == i.key
           e == i.entry
           l == levels[k]
           w == WithEntry(levels[k], i.key, i.entry)
           m == Kept(w, i.key, k)
           ls == [levels EXCEPT ![k] = m]
<1>2. /\ k \in 1 .. Len(levels) /\ key \in Key /\ e \in Entry
      /\ levels \in Seq(Level) /\ l \in Level
      /\ file \in Seq([leaf : BOOLEAN, entries : Seq(Entry)])
  BY DEF LoadInv, IInv, TypeOK
<1>3. IF IsFull(w, key, k) THEN SaveNode(ls, k, w.unit, w.grid[key])
      ELSE levels' = ls /\ pending' = {} /\ UNCHANGED file
  BY <1>1
<1>4. /\ Untouched(k) /\ (pc = "widen" => k # cur)
      /\ Within(e) /\ (2 * l.unit > Extent => key = 1)
  BY DEF LoadInv, Phases, Grids
<1>5. Sound(l, k)
  BY <1>2, <1>4 DEF LoadInv, Grids
<1>6. k \in Nat \ {0} /\ w = WithEntry(l, key, e) /\ m = Kept(w, key, k)
  BY <1>2
<1>7. i.level = k /\ i.key = key /\ i.entry = e /\ levels[k] = l
  OBVIOUS
<1> HIDE DEF w, m, l, key, e
<1>8. Received(l, key, e, k, w, m)
  BY <1>2, <1>4, <1>5, <1>6, Entered
<1>9. m \in Level
  BY <1>8 DEF Received
<1>10. /\ ls \in Seq(Level) /\ Len(ls) = Len(levels) /\ ls[k] = m
       /\ \A j \in 1 .. Len(levels) : j # k => ls[j] = levels[j]
  BY <1>2, <1>9
<1> HIDE DEF ls, k
<1>11. ASSUME IsFull(w, key, k) PROVE Saved(ls, k, w.grid[key])
  <2> DEFINE es == w.grid[key]
             unit == w.unit
  <2>1. MaxEntries(k) \in Nat \ {0}
    BY <1>6, MaxEntriesType
  <2>2. es \in Seq(Entry) /\ Len(es) # 0 /\ \A x \in ToSet(es) : Within(x)
    BY <1>8, <1>11, <2>1 DEF Received
  <2>3. unit \in Nat \ {0} /\ SaveNode(ls, k, unit, es) /\ k \in 1 .. Len(ls)
    BY <1>2, <1>3, <1>8, <1>10, <1>11 DEF Received, Level
  <2> HIDE DEF es, unit
  <2>4. es # << >>
    BY <2>2
  <2>5. Saved(ls, k, es)
    BY <1>2, <1>10, <2>2, <2>3, <2>4, SaveNodeSound
  <2> QED BY <2>5 DEF es
<1>12. InsertMakes(i, w, m, ls)
  BY <1>2, <1>3, <1>4, <1>7, <1>8, <1>10, <1>11 DEF InsertMakes
<1> QED BY <1>12

LEMMA InsertLoadInv == LoadInv /\ Insert => LoadInv'
<1> SUFFICES ASSUME LoadInv, Insert PROVE LoadInv'
  OBVIOUS
<1>1. IInv'
  BY InsertKeeps DEF LoadInv
<1>2. PICK i, w, m, ls : InsertMakes(i, w, m, ls)
  BY InsertEffect
<1> DEFINE k == i.level
<1>3. /\ k \in 1 .. Len(levels) /\ Untouched(k) /\ (pc = "widen" => k # cur)
      /\ ls \in Seq(Level) /\ Len(ls) = Len(levels) /\ ls[k] = m
      /\ \A j \in 1 .. Len(levels) : j # k => ls[j] = levels[j]
      /\ Sound(m, k) /\ m.left = levels[k].left
  BY <1>2 DEF InsertMakes, Received
<1>4. UNCHANGED <<old, wide, at, header, pc, cur, loaded, dealt>>
  BY DEF Insert
<1>5. pc \in {"load", "root", "widen"} /\ header.root = 0
  BY <1>3 DEF LoadInv, Untouched, Phases
<1>6. /\ levels' \in Seq(Level) /\ Len(levels') >= Len(levels)
      /\ \A j \in 1 .. Len(levels) : levels'[j] = ls[j]
      /\ \A j \in 1 .. Len(levels') : j \notin 1 .. Len(levels) =>
           j = k + 1 /\ k = Len(levels) /\ Sound(levels'[j], j) /\ levels'[j].left = None
      /\ \A p, q \in pending' : p = q
      /\ \A p \in pending' : /\ p.level = k + 1 /\ Within(p.entry)
                             /\ 2 * levels'[p.level].unit > Extent => p.key = 1
      /\ NodesFilled'
  <2>1. CASE IsFull(w, i.key, k)
    <3> DEFINE es == w.grid[i.key]
    <3>1. Saved(ls, k, es) /\ es \in Seq(Entry) /\ Len(es) = MaxEntries(k)
      BY <1>2, <2>1 DEF InsertMakes, Received
    <3> HIDE DEF es, k
    <3>2. MinEntries(k) <= Len(es) /\ Len(es) <= MaxEntries(k) /\ k \in Nat \ {0}
      BY <1>3, <3>1, RTreeLevelAssumption, SMTT(60) DEF MaxEntries, MinEntries
    <3>3. file' = Append(file, [leaf |-> k = 1, entries |-> es])
      BY <3>1 DEF Saved
    <3>4. NodesFilled /\ header' = header /\ file \in Seq([leaf : BOOLEAN, entries : Seq(Entry)])
      BY <1>4 DEF LoadInv, IInv, TypeOK
    <3>5. NodesFilled'
      BY <1>5, <3>1, <3>2, <3>3, <3>4, FilledAppend
    <3> QED BY <1>3, <3>1, <3>5 DEF Saved
  <2>2. CASE ~ IsFull(w, i.key, k)
    <3>1. levels' = ls /\ pending' = {} /\ file' = file
      BY <1>2, <2>2 DEF InsertMakes
    <3>2. NodesFilled'
      BY <1>3, <1>4, <3>1 DEF LoadInv, NodesFilled
    <3> QED BY <1>3, <3>1, <3>2
  <2> QED BY <2>1, <2>2
<1> HIDE DEF k
<1>10. \A j : Untouched(j)' <=> Untouched(j)
  BY <1>4 DEF Untouched
<1>11. cur \in 1 .. Len(levels) /\ k \in Nat
  BY <1>3 DEF LoadInv, IInv, TypeOK
<1>12. \A j \in 1 .. Len(levels') : j \in 1 .. Len(levels) \/ j = k + 1
  BY <1>3, <1>6
<1>13. Untouched(k + 1) /\ (pc = "widen" => k + 1 # cur)
  BY <1>3, <1>11 DEF Untouched
<1>14. Phases'
  <2>1. \A p \in pending' : Untouched(p.level)' /\ (pc' = "widen" => p.level # cur')
    BY <1>4, <1>6, <1>10, <1>13
  <2>2. ASSUME NEW j \in cur .. Len(levels') PROVE levels'[j].left = None
    <3>1. CASE j \in 1 .. Len(levels)
      <4>1. levels[j].left = None
        BY <1>5, <1>11, <3>1 DEF LoadInv, Phases
      <4> QED BY <1>3, <1>6, <3>1, <4>1
    <3>2. CASE j \notin 1 .. Len(levels)
      <4>1. j \in 1 .. Len(levels')
        BY <1>6, <1>11
      <4> QED BY <1>6, <3>2, <4>1
    <3> QED BY <3>1, <3>2
  <2> QED BY <1>4, <1>5, <1>6, <2>1, <2>2 DEF LoadInv, Phases
<1>15. Grids'
  <2>1. ASSUME NEW j \in 1 .. Len(levels'), Untouched(j)' PROVE Sound(levels'[j], j)
    <3>1. CASE j \in 1 .. Len(levels)
      <4>1. CASE j = k
        BY <1>3, <1>6, <3>1, <4>1
      <4>2. CASE j # k
        <5>1. levels'[j] = levels[j]
          BY <1>3, <1>6, <3>1, <4>2
        <5>2. Sound(levels[j], j)
          BY <1>10, <2>1, <3>1 DEF LoadInv, Grids
        <5> QED BY <5>1, <5>2
      <4> QED BY <4>1, <4>2
    <3>2. CASE j \notin 1 .. Len(levels)
      BY <1>6, <3>2
    <3> QED BY <3>1, <3>2
  <2>2. \A l \in {old', wide'} \ {None} : Sound(l, cur') /\ l.unit <= Extent
    BY <1>4 DEF LoadInv, Grids
  <2>3. \A p \in pending' : /\ Within(p.entry)
                            /\ 2 * levels'[p.level].unit > Extent => p.key = 1
    BY <1>6
  <2> QED BY <2>1, <2>2, <2>3 DEF Grids
<1> QED BY <1>1, <1>6, <1>14, <1>15 DEF LoadInv

LEMMA SetRTreeRootLoadInv == LoadInv /\ SetRTreeRoot => LoadInv'
<1> SUFFICES ASSUME LoadInv, SetRTreeRoot PROVE LoadInv'
  OBVIOUS
<1>1. IInv'
  BY SetRTreeRootKeeps DEF LoadInv
<1>2. /\ pc = "load" /\ pc' = "root" /\ pending = {} /\ old = None /\ wide = None
      /\ UNCHANGED <<levels, old, wide, at, pending, file, header, cur, loaded, dealt>>
  BY DEF SetRTreeRoot, LoadInv, Phases
<1>3. Phases'
  BY <1>2 DEF LoadInv, Phases
<1>4. Grids'
  BY <1>2 DEF LoadInv, Grids, Untouched
<1>5. NodesFilled'
  BY <1>2 DEF LoadInv, NodesFilled
<1> QED BY <1>1, <1>3, <1>4, <1>5 DEF LoadInv

LEMMA WidenLoadInv == LoadInv /\ Widen => LoadInv'
<1> SUFFICES ASSUME LoadInv, Widen PROVE LoadInv'
  OBVIOUS
<1>1. IInv'
  BY WidenKeeps DEF LoadInv
<1>2. /\ pc = "root" /\ pc' = "widen" /\ pending = {} /\ wide = None
      /\ wide' = NewLevel(Old.unit * 2) /\ Old.noentries > MaxEntries(cur)
      /\ UNCHANGED <<levels, old, pending, file, header, cur, loaded, dealt>>
  BY DEF Widen, AtRoot, LoadInv, Phases
<1>3. Old \in Level /\ cur \in 1 .. Len(levels)
  BY OldType DEF LoadInv, IInv, TypeOK
<1>4. Old.unit \in Nat \ {0} /\ Old.unit * 2 \in Nat \ {0}
  <2>1. Old.unit \in Nat \ {0}
    BY <1>3 DEF Level
  <2> QED BY <2>1
<1>5. Sound(Old, cur)
  BY <1>2, OldSound
<1>6. Old.unit * 2 <= Extent
  <2>1. SUFFICES ASSUME 2 * Old.unit > Extent PROVE FALSE
    BY <1>4, BoxLimits
  <2>2. \A key \in Key \ {1} : Old.grid[key] = << >>
    BY <1>5, <2>1 DEF Sound, InOneCell
  <2>3. 1 \in Key
    BY RTreeLevelAssumption DEF Key
  <2>4. Len(GridEntries(Old)) = Len(Old.grid[1])
    BY <1>3, <2>2, <2>3, OneCellLen
  <2>5. Len(Old.grid[1]) < MaxEntries(cur) /\ Old.noentries = Len(GridEntries(Old))
    BY <1>5, <2>3 DEF Sound, Roomy, CountsOf
  <2>6. Len(Old.grid[1]) \in Nat /\ MaxEntries(cur) \in Nat
    <3>1. Old.grid[1] \in Seq(Entry)
      BY <1>3, <2>3 DEF Level
    <3> QED BY <1>3, <3>1, MaxEntriesType
  <2> QED BY <1>2, <2>4, <2>5, <2>6
<1>7. wide'.unit = Old.unit * 2
  BY <1>2 DEF NewLevel
<1>8. Sound(wide', cur)
  BY <1>2, <1>3, <1>4, NewLevelSound
<1>9. Phases'
  BY <1>2 DEF LoadInv, Phases
<1>10. Grids'
  <2>1. \A k : Untouched(k)' <=> Untouched(k)
    BY <1>2 DEF Untouched
  <2> QED BY <1>2, <1>6, <1>7, <1>8, <2>1 DEF LoadInv, Grids
<1>11. NodesFilled'
  BY <1>2 DEF LoadInv, NodesFilled
<1> QED BY <1>1, <1>9, <1>10, <1>11 DEF LoadInv

(* The move of the entry e to the cell key of the wider grid.              *)
MoveMakes(key, e, w, m) ==
  /\ pc = "widen" /\ pending = {} /\ wide \in Level /\ Old \in Level
  /\ at[1] \in Key /\ at[2] \in 1 .. Len(Old.grid[at[1]]) /\ e = Old.grid[at[1]][at[2]]
  /\ key \in Key /\ e \in Entry
  /\ Received(wide, key, e, cur, w, m)
  /\ wide' = m
  /\ IsFull(w, key, cur) => Saved(levels, cur, w.grid[key])
  /\ ~ IsFull(w, key, cur) => UNCHANGED <<levels, pending, file>>

LEMMA MoveEffect ==
  ASSUME LoadInv, MoveEntry
  PROVE  \E key, e, w, m : MoveMakes(key, e, w, m)
<1> DEFINE es == Old.grid[at[1]]
           lo == Lowest(es)
           hi == Highest(es)
           key == KeyOf(lo, hi, wide.unit)
           e == es[at[2]]
           w == WithEntry(wide, key, e)
           m == Kept(w, key, cur)
           b == [lo |-> lo, hi |-> hi]
<1>1. /\ wide' = m
      /\ IF IsFull(w, key, cur) THEN SaveNode(levels, cur, w.unit, w.grid[key])
         ELSE UNCHANGED <<levels, pending, file>>
  BY DEF MoveEntry
<1>2. /\ pc = "widen" /\ pending = {} /\ wide \in Level /\ Old \in Level
      /\ at[1] \in Key /\ at[2] \in Nat \ {0} /\ at[2] <= Len(es)
      /\ levels \in Seq(Level) /\ cur \in 1 .. Len(levels)
      /\ file \in Seq([leaf : BOOLEAN, entries : Seq(Entry)])
  BY OldType DEF MoveEntry, Widening, LoadInv, IInv, TypeOK
<1>3. Sound(Old, cur) /\ Sound(wide, cur)
  <2>1. wide # None
    BY <1>2, RTreeLevelAssumption
  <2> QED BY <1>2, <2>1, OldSound DEF LoadInv, Grids
<1>4. es \in Seq(Entry) /\ at[2] \in 1 .. Len(es) /\ \A x \in ToSet(es) : Within(x)
  <2>1. es \in Seq(Entry)
    BY <1>2 DEF Level
  <2>2. \A x \in ToSet(es) : x \in ToSet(GridEntries(Old))
    BY <1>2, GridMembers
  <2> QED BY <1>2, <1>3, <2>1, <2>2 DEF Sound
<1>5. es # << >> /\ e \in Entry /\ e \in ToSet(es) /\ Within(e)
  BY <1>4 DEF ToSet
<1>6. key \in Key
  BY KeyType
<1>7. 2 * wide.unit > Extent => key = 1
  <2>1. b.lo = lo /\ b.hi = hi
    OBVIOUS
  <2>2. lo \in Nat /\ hi \in Nat /\ wide.unit \in Nat \ {0}
    BY <1>2, <1>4, BoxType DEF Level
  <2>3. Within(b)
    <3> HIDE DEF es, b
    <3> QED BY <1>4, <1>5, <2>1, BoxWithin
  <2>4. Low <= lo /\ lo <= hi /\ hi <= High
    BY <2>3 DEF Within
  <2> HIDE DEF lo, hi
  <2> QED BY <2>2, <2>4, OneKey
<1> HIDE DEF key
<1>8. cur \in Nat \ {0} /\ w = WithEntry(wide, key, e) /\ m = Kept(w, key, cur)
  BY <1>2
<1> HIDE DEF w, m, e
<1>9. Received(wide, key, e, cur, w, m)
  BY <1>2, <1>3, <1>5, <1>6, <1>7, <1>8, Entered
<1>10. ASSUME IsFull(w, key, cur) PROVE Saved(levels, cur, w.grid[key])
  <2> DEFINE new == w.grid[key]
             unit == w.unit
  <2>1. MaxEntries(cur) \in Nat \ {0}
    BY <1>8, MaxEntriesType
  <2>2. new \in Seq(Entry) /\ Len(new) # 0 /\ \A x \in ToSet(new) : Within(x)
    BY <1>9, <1>10, <2>1 DEF Received
  <2>3. unit \in Nat \ {0} /\ SaveNode(levels, cur, unit, new)
    BY <1>1, <1>9, <1>10 DEF Received, Level
  <2> HIDE DEF new, unit
  <2>4. new # << >>
    BY <2>2
  <2>5. Saved(levels, cur, new)
    BY <1>2, <2>2, <2>3, <2>4, SaveNodeSound
  <2> QED BY <2>5 DEF new
<1>11. e = Old.grid[at[1]][at[2]]
  BY DEF e
<1>12. MoveMakes(key, e, w, m)
  BY <1>1, <1>2, <1>4, <1>5, <1>6, <1>9, <1>10, <1>11 DEF MoveMakes
<1> QED BY <1>12

LEMMA MoveEntryLoadInv == LoadInv /\ MoveEntry => LoadInv'
<1> SUFFICES ASSUME LoadInv, MoveEntry PROVE LoadInv'
  OBVIOUS
<1>1. IInv'
  BY MoveEntryKeeps DEF LoadInv
<1>2. PICK key, e, w, m : MoveMakes(key, e, w, m)
  BY MoveEffect
<1>3. /\ pc = "widen" /\ pending = {} /\ wide \in Level /\ wide' = m
      /\ Sound(m, cur) /\ m.unit = wide.unit
  BY <1>2 DEF MoveMakes, Received
<1>4. UNCHANGED <<old, header, pc, cur, loaded, dealt>>
  BY DEF MoveEntry
<1>5. /\ cur \in 1 .. Len(levels) /\ levels \in Seq(Level) /\ header.root = 0
      /\ file \in Seq([leaf : BOOLEAN, entries : Seq(Entry)])
  BY <1>3 DEF LoadInv, IInv, TypeOK, Phases
<1>6. /\ levels' \in Seq(Level) /\ Len(levels') >= Len(levels)
      /\ \A j \in 1 .. Len(levels) : levels'[j] = levels[j]
      /\ \A j \in 1 .. Len(levels') : j \notin 1 .. Len(levels) =>
           Sound(levels'[j], j) /\ levels'[j].left = None
      /\ \A p, q \in pending' : p = q
      /\ \A p \in pending' : /\ p.level = cur + 1 /\ Within(p.entry)
                             /\ 2 * levels'[p.level].unit > Extent => p.key = 1
      /\ NodesFilled'
  <2>1. CASE IsFull(w, key, cur)
    <3> DEFINE es == w.grid[key]
    <3>1. Saved(levels, cur, es) /\ es \in Seq(Entry) /\ Len(es) = MaxEntries(cur)
      BY <1>2, <2>1 DEF MoveMakes, Received
    <3> HIDE DEF es
    <3>2. MinEntries(cur) <= Len(es) /\ Len(es) <= MaxEntries(cur) /\ cur \in Nat \ {0}
      BY <1>5, <3>1, RTreeLevelAssumption DEF MaxEntries, MinEntries
    <3>3. file' = Append(file, [leaf |-> cur = 1, entries |-> es])
      BY <3>1 DEF Saved
    <3>4. NodesFilled /\ header' = header
      BY <1>4 DEF LoadInv
    <3>5. NodesFilled'
      BY <1>5, <3>1, <3>2, <3>3, <3>4, FilledAppend
    <3> QED BY <3>1, <3>5 DEF Saved
  <2>2. CASE ~ IsFull(w, key, cur)
    <3>1. levels' = levels /\ pending' = pending /\ file' = file
      BY <1>2, <2>2 DEF MoveMakes
    <3>2. NodesFilled'
      BY <1>4, <3>1 DEF LoadInv, NodesFilled
    <3> QED BY <1>3, <1>5, <3>1, <3>2
  <2> QED BY <2>1, <2>2
<1>7. \A k : Untouched(k)' <=> Untouched(k)
  BY <1>4 DEF Untouched
<1>8. Phases'
  <2>1. \A p \in pending' : Untouched(p.level)' /\ p.level # cur'
    BY <1>3, <1>4, <1>5, <1>6 DEF Untouched
  <2>2. ASSUME NEW j \in cur .. Len(levels') PROVE levels'[j].left = None
    <3>1. CASE j \in 1 .. Len(levels)
      <4>1. levels[j].left = None
        BY <1>3, <1>5, <3>1 DEF LoadInv, Phases
      <4> QED BY <1>6, <3>1, <4>1
    <3>2. CASE j \notin 1 .. Len(levels)
      <4>1. j \in 1 .. Len(levels')
        BY <1>5, <1>6
      <4> QED BY <1>6, <3>2, <4>1
    <3> QED BY <3>1, <3>2
  <2> QED BY <1>3, <1>4, <1>5, <1>6, <2>1, <2>2 DEF Phases
<1>9. Grids'
  <2>1. ASSUME NEW j \in 1 .. Len(levels'), Untouched(j)' PROVE Sound(levels'[j], j)
    <3>1. CASE j \in 1 .. Len(levels)
      BY <1>6, <1>7, <2>1, <3>1 DEF LoadInv, Grids
    <3>2. CASE j \notin 1 .. Len(levels)
      BY <1>6, <3>2
    <3> QED BY <3>1, <3>2
  <2>2. \A l \in {old', wide'} \ {None} : Sound(l, cur') /\ l.unit <= Extent
    <3>1. wide.unit <= Extent
      BY <1>3, RTreeLevelAssumption DEF LoadInv, Grids
    <3> QED BY <1>3, <1>4, <3>1 DEF LoadInv, Grids
  <2> QED BY <1>6, <2>1, <2>2 DEF Grids
<1> QED BY <1>1, <1>6, <1>8, <1>9 DEF LoadInv

LEMMA MoveNextNodeLoadInv == LoadInv /\ MoveNextNode => LoadInv'
<1> SUFFICES ASSUME LoadInv, MoveNextNode PROVE LoadInv'
  OBVIOUS
<1>1. IInv'
  BY MoveNextNodeKeeps DEF LoadInv
<1>2. UNCHANGED <<levels, old, wide, pending, file, header, pc, cur, loaded, dealt>>
  BY DEF MoveNextNode
<1>3. Phases' /\ Grids' /\ NodesFilled'
  BY <1>2 DEF LoadInv, Phases, Grids, NodesFilled, Untouched
<1> QED BY <1>1, <1>3 DEF LoadInv

LEMMA WidenedLoadInv == LoadInv /\ Widened => LoadInv'
<1> SUFFICES ASSUME LoadInv, Widened PROVE LoadInv'
  OBVIOUS
<1>1. IInv'
  BY WidenedKeeps DEF LoadInv
<1>2. /\ pc = "widen" /\ pc' = "root" /\ pending = {} /\ wide \in Level
      /\ old' = wide /\ wide' = None /\ old' # None
      /\ UNCHANGED <<at, pending, file, header, cur, loaded, dealt>>
  BY RTreeLevelAssumption DEF Widened, Widening, LoadInv, IInv, TypeOK
<1>3. /\ levels \in Seq(Level) /\ Len(levels') = Len(levels) /\ cur \in 1 .. Len(levels)
      /\ \A j \in 1 .. Len(levels) : j # cur => levels'[j] = levels[j]
  BY DEF Widened, LoadInv, IInv, TypeOK
<1>4. levels'[cur].left = levels[cur].left
  <2> DEFINE l == levels[cur]
             m == IF cur = Len(levels) THEN l
                  ELSE [l EXCEPT !.nodecount = l.nodecount + wide.nodecount,
                                 !.noentries = l.noentries - wide.noentries]
             new == IF old = None
                    THEN [m EXCEPT !.grid = [key \in Key |-> << >>], !.noentries = 0]
                    ELSE m
  <2>1. levels' = [levels EXCEPT ![cur] = new]
    BY DEF Widened
  <2>2. l \in Level
    BY <1>3
  <2>3. m.left = l.left /\ new.left = m.left
    BY <2>2 DEF Level
  <2> HIDE DEF new, m
  <2> QED BY <1>3, <2>1, <2>3
<1>5. Phases'
  <2>1. \A k \in cur .. Len(levels) : k \in 1 .. Len(levels) /\ levels[k].left = None
    BY <1>2, <1>3 DEF LoadInv, Phases
  <2>2. \A k \in cur' .. Len(levels') : levels'[k].left = None
    BY <1>2, <1>3, <1>4, <2>1
  <2> QED BY <1>2, <2>2 DEF LoadInv, Phases
<1>6. Grids'
  <2>1. \A k \in 1 .. Len(levels') : Untouched(k)' => Untouched(k) /\ k # cur
    BY <1>2, <1>3 DEF Untouched
  <2>2. \A k \in 1 .. Len(levels') : Untouched(k)' => Sound(levels'[k], k)
    BY <1>3, <2>1 DEF LoadInv, Grids
  <2>3. \A l \in {old', wide'} \ {None} : Sound(l, cur') /\ l.unit <= Extent
    BY <1>2 DEF LoadInv, Grids
  <2> QED BY <1>2, <2>2, <2>3 DEF Grids
<1>7. NodesFilled'
  BY <1>2, <1>3 DEF LoadInv, NodesFilled
<1> QED BY <1>1, <1>5, <1>6, <1>7 DEF LoadInv

LEMMA KeepLeftLoadInv == LoadInv /\ KeepLeft => LoadInv'
<1> SUFFICES ASSUME LoadInv, KeepLeft PROVE LoadInv'
  OBVIOUS
<1>1. IInv'
  BY KeepLeftKeeps DEF LoadInv
<1>2. /\ pc = "root" /\ pending = {} /\ old' = None /\ cur' = cur + 1 /\ wide = None
      /\ UNCHANGED <<wide, at, pending, file, header, pc, loaded, dealt>>
  BY DEF KeepLeft, AtRoot, LoadInv, Phases
<1>3. /\ levels \in Seq(Level) /\ Len(levels') = Len(levels)
      /\ cur \in 1 .. Len(levels) /\ cur < Len(levels)
      /\ \A j \in 1 .. Len(levels) : j # cur => levels'[j] = levels[j]
  BY DEF KeepLeft, LoadInv, IInv, TypeOK
<1>4. \A k \in cur' .. Len(levels') : k \in cur .. Len(levels) /\ k # cur /\ k \in 1 .. Len(levels)
  BY <1>2, <1>3
<1>5. Phases'
  <2>1. \A k \in cur' .. Len(levels') : levels'[k].left = None
    BY <1>2, <1>3, <1>4 DEF LoadInv, Phases
  <2> QED BY <1>2, <2>1 DEF LoadInv, Phases
<1>6. Grids'
  <2>1. \A k \in 1 .. Len(levels') : Untouched(k)' => Untouched(k) /\ k # cur
    BY <1>2, <1>3 DEF Untouched
  <2> QED BY <1>2, <1>3, <2>1 DEF LoadInv, Grids
<1>7. NodesFilled'
  BY <1>2, <1>3 DEF LoadInv, NodesFilled
<1> QED BY <1>1, <1>5, <1>6, <1>7 DEF LoadInv

(* A level whose rest makes a node.                                        *)
SaveLeftMakes(new, ls) ==
  /\ pc = "root" /\ pending = {} /\ wide = None /\ cur \in 1 .. Len(levels)
  /\ cur < Len(levels) /\ levels \in Seq(Level)
  /\ MinEntries(cur) <= Len(GridEntries(Old)) /\ Len(GridEntries(Old)) <= MaxEntries(cur)
  /\ GridEntries(Old) \in Seq(Entry)
  /\ new \in Level /\ new.left = levels[cur].left
  /\ ls \in Seq(Level) /\ Len(ls) = Len(levels) /\ ls[cur] = new
  /\ \A j \in 1 .. Len(levels) : j # cur => ls[j] = levels[j]
  /\ Saved(ls, cur, GridEntries(Old))

LEMMA SaveLeftEffect ==
  ASSUME LoadInv, SaveLeft
  PROVE  \E new, ls : SaveLeftMakes(new, ls)
<1>1. /\ pc = "root" /\ pending = {} /\ levels \in Seq(Level) /\ wide = None
      /\ cur \in 1 .. Len(levels) /\ cur < Len(levels)
      /\ file \in Seq([leaf : BOOLEAN, entries : Seq(Entry)])
  BY DEF SaveLeft, AtRoot, LoadInv, IInv, TypeOK, Phases
<1> DEFINE new == [levels[cur] EXCEPT !.noentries = 0]
           ls == [levels EXCEPT ![cur] = new]
           es == GridEntries(Old)
           unit == levels[cur].unit
<1>2. new \in Level /\ new.left = levels[cur].left /\ unit \in Nat \ {0}
  <2>1. levels[cur] \in Level
    BY <1>1
  <2> QED BY <2>1 DEF Level
<1>3. Sound(Old, cur) /\ Old \in Level
  BY <1>1, OldSound, OldType DEF LoadInv, IInv
<1>4. es \in Seq(Entry) /\ \A x \in ToSet(es) : Within(x)
  BY <1>3, GridEntriesType DEF Sound
<1>5. MinEntries(cur) <= Len(es) /\ Len(es) <= MaxEntries(cur)
  BY <1>3 DEF Sound, CountsOf, SaveLeft
<1>6. es # << >>
  <2>1. MinEntries(cur) \in Nat \ {0}
    BY RTreeLevelAssumption DEF MinEntries
  <2>2. Len(es) # 0
    BY <1>4, <1>5, <2>1
  <2> HIDE DEF es
  <2> QED BY <2>2
<1>7. SaveNode(ls, cur, unit, es)
  BY DEF SaveLeft
<1> HIDE DEF new, es, unit
<1>8. /\ ls \in Seq(Level) /\ Len(ls) = Len(levels) /\ ls[cur] = new
      /\ \A j \in 1 .. Len(levels) : j # cur => ls[j] = levels[j]
  BY <1>1, <1>2
<1> HIDE DEF ls
<1>9. Saved(ls, cur, es)
  BY <1>1, <1>2, <1>4, <1>6, <1>7, <1>8, SaveNodeSound
<1>10. SaveLeftMakes(new, ls)
  BY <1>1, <1>2, <1>4, <1>5, <1>8, <1>9 DEF SaveLeftMakes, es
<1> QED BY <1>10

LEMMA SaveLeftLoadInv == LoadInv /\ SaveLeft => LoadInv'
<1> SUFFICES ASSUME LoadInv, SaveLeft PROVE LoadInv'
  OBVIOUS
<1>1. IInv'
  BY SaveLeftKeeps DEF LoadInv
<1>2. PICK new, ls : SaveLeftMakes(new, ls)
  BY SaveLeftEffect
<1>3. /\ old' = None /\ cur' = cur + 1
      /\ UNCHANGED <<wide, at, header, pc, loaded, dealt>>
  BY DEF SaveLeft
<1> DEFINE es == GridEntries(Old)
<1>4. /\ pc = "root" /\ pending = {} /\ wide = None /\ cur \in 1 .. Len(levels)
      /\ cur < Len(levels) /\ header.root = 0
      /\ Saved(ls, cur, es) /\ es \in Seq(Entry)
      /\ MinEntries(cur) <= Len(es) /\ Len(es) <= MaxEntries(cur)
      /\ Len(ls) = Len(levels)
      /\ \A j \in 1 .. Len(levels) : j # cur => ls[j] = levels[j]
  BY <1>2 DEF SaveLeftMakes, LoadInv, Phases
<1> HIDE DEF es
<1>5. /\ Len(levels') >= Len(levels)
      /\ \A j \in 1 .. Len(levels) : j # cur => levels'[j] = levels[j]
      /\ \A j \in 1 .. Len(levels') : j \in 1 .. Len(levels)
      /\ \A p, q \in pending' : p = q
      /\ \A p \in pending' : /\ p.level = cur + 1 /\ Within(p.entry)
                             /\ 2 * levels'[p.level].unit > Extent => p.key = 1
      /\ file' = Append(file, [leaf |-> cur = 1, entries |-> es])
  BY <1>4 DEF Saved
<1>6. Len(levels') = Len(levels)
  <2>1. Len(levels') \in Nat
    BY <1>4 DEF Saved
  <2> QED BY <1>4, <1>5, <2>1
<1>7. \A k \in cur' .. Len(levels') : k \in cur .. Len(levels) /\ k # cur /\ k \in 1 .. Len(levels)
  BY <1>3, <1>4, <1>6
<1>8. Phases'
  <2>1. \A k \in cur' .. Len(levels') : levels'[k].left = None
    BY <1>4, <1>5, <1>7 DEF LoadInv, Phases
  <2>2. \A p \in pending' : Untouched(p.level)' /\ pc' # "widen"
    BY <1>3, <1>4, <1>5 DEF Untouched
  <2> QED BY <1>3, <1>4, <1>5, <2>1, <2>2 DEF Phases
<1>9. Grids'
  <2>1. \A k \in 1 .. Len(levels') : Untouched(k)' => Untouched(k) /\ k # cur
    BY <1>3, <1>4, <1>6 DEF Untouched
  <2>2. \A k \in 1 .. Len(levels') : Untouched(k)' => Sound(levels'[k], k)
    BY <1>5, <2>1 DEF LoadInv, Grids
  <2>3. {old', wide'} \ {None} = {}
    BY <1>3, <1>4
  <2> QED BY <1>5, <2>2, <2>3 DEF Grids
<1>10. NodesFilled'
  <2>1. /\ NodesFilled /\ header' = header /\ cur \in Nat \ {0}
        /\ file \in Seq([leaf : BOOLEAN, entries : Seq(Entry)])
    BY <1>3, <1>4 DEF LoadInv, IInv, TypeOK
  <2> QED BY <1>4, <1>5, <2>1, FilledAppend
<1> QED BY <1>1, <1>8, <1>9, <1>10 DEF LoadInv

LEMMA MakeRootLoadInv == LoadInv /\ MakeRoot => LoadInv'
<1> SUFFICES ASSUME LoadInv, MakeRoot PROVE LoadInv'
  OBVIOUS
<1>1. IInv'
  BY MakeRootKeeps DEF LoadInv
<1> DEFINE es == GridEntries(Old)
           node == [leaf |-> FALSE, entries |-> es]
<1>2. /\ pc = "root" /\ pc' = "left" /\ pending = {} /\ wide = None /\ old' = None
      /\ cur = Len(levels) /\ cur \in 1 .. Len(levels) /\ header.root = 0
      /\ file' = Append(file, node) /\ header'.root = Len(file) + 1
      /\ UNCHANGED <<wide, at, pending, loaded, dealt>>
      /\ file \in Seq([leaf : BOOLEAN, entries : Seq(Entry)])
  BY DEF MakeRoot, AtRoot, HeaderOf, LoadInv, IInv, TypeOK, Phases
<1>3. Len(levels') = Len(levels)
  BY DEF MakeRoot, LoadInv, IInv, TypeOK
<1>4. Old \in Level /\ es \in Seq(Entry)
  BY OldType, GridEntriesType DEF LoadInv, IInv
<1>5. Len(es) <= MaxEntries(cur)
  <2>1. Sound(Old, cur)
    BY <1>2, OldSound
  <2>2. Old.noentries <= MaxEntries(cur)
    BY DEF MakeRoot
  <2> QED BY <2>1, <2>2 DEF Sound, CountsOf
<1>6. /\ node.entries = es
      /\ Len(file') = Len(file) + 1 /\ file'[Len(file) + 1] = node
      /\ \A n \in 1 .. Len(file) : file'[n] = file[n]
      /\ \A n \in 1 .. Len(file') : n \in 1 .. Len(file) \/ n = Len(file) + 1
      /\ Len(file) \in Nat
  BY <1>2, <1>4
<1> HIDE DEF node, es
<1>7. Phases'
  BY <1>2, <1>6 DEF LoadInv, Phases
<1>8. Grids'
  <2>1. \A k : ~ Untouched(k)'
    BY <1>2 DEF Untouched
  <2> QED BY <1>2, <2>1 DEF LoadInv, Grids
<1>9. NodesFilled'
  <2> DEFINE Fill(nd) == LET size == Len(nd.entries)
                             min == IF nd.leaf THEN MinLeaf ELSE MinInternal
                             max == IF nd.leaf THEN MaxLeaf ELSE MaxInternal
                         IN  min <= size /\ size <= max
  <2>1. \A n \in 1 .. Len(file) : Fill(file[n])
    BY <1>2 DEF LoadInv, NodesFilled
  <2>2. Len(node.entries) <= MaxEntries(Len(levels))
    BY <1>2, <1>5, <1>6
  <2> HIDE DEF Fill
  <2>3. \A n \in 1 .. Len(file') :
          IF n = header'.root THEN Len(file'[n].entries) <= MaxEntries(Len(levels'))
          ELSE Fill(file'[n])
    BY <1>2, <1>3, <1>6, <2>1, <2>2
  <2> QED BY <2>3 DEF NodesFilled, Fill
<1> QED BY <1>1, <1>7, <1>8, <1>9 DEF LoadInv

LEMMA DealWithLeftEntriesLoadInv == LoadInv /\ DealWithLeftEntries => LoadInv'
<1> SUFFICES ASSUME LoadInv, DealWithLeftEntries PROVE LoadInv'
  OBVIOUS
<1>1. IInv'
  BY DealWithLeftEntriesKeeps DEF LoadInv
<1>2. /\ pc = "left" /\ pc' \in {"left", "done"} /\ pending = {} /\ old = None /\ wide = None
      /\ UNCHANGED <<levels, old, wide, at, pending, file, header, loaded>>
  BY DEF DealWithLeftEntries, LoadInv, IInv, LeftBehind, Phases
<1>3. Phases'
  BY <1>2 DEF LoadInv, Phases
<1>4. Grids'
  BY <1>2 DEF LoadInv, Grids, Untouched
<1>5. NodesFilled'
  BY <1>2 DEF LoadInv, NodesFilled
<1> QED BY <1>1, <1>3, <1>4, <1>5 DEF LoadInv

LEMMA StutterLoadInv == LoadInv /\ UNCHANGED vars => LoadInv'
<1> SUFFICES ASSUME LoadInv, UNCHANGED vars PROVE LoadInv'
  OBVIOUS
<1>1. IInv'
  BY StutterKeeps DEF LoadInv
<1>2. Phases' /\ Grids' /\ NodesFilled'
  BY DEF LoadInv, Phases, Grids, NodesFilled, Untouched, vars
<1> QED BY <1>1, <1>2 DEF LoadInv

LEMMA NextLoadInv == LoadInv /\ [Next]_vars => LoadInv'
  BY LoadLoadInv, InsertLoadInv, SetRTreeRootLoadInv, WidenLoadInv, MoveEntryLoadInv,
     MoveNextNodeLoadInv, WidenedLoadInv, KeepLeftLoadInv, SaveLeftLoadInv,
     MakeRootLoadInv, DealWithLeftEntriesLoadInv, StutterLoadInv
  DEF Next

LEMMA LoadInvAlways == Spec => []LoadInv
  BY InitLoadInv, NextLoadInv, PTL DEF Spec

(* The counts GetRoot decides by are those of the entries in the grids, of *)
(* every level while the load runs and of each grid of wider cells.        *)
THEOREM CountsAlwaysMatch == Spec => []CountsMatch
<1>1. LoadInv => CountsMatch
  BY DEF LoadInv, Grids, Sound, CountsOf, Untouched, CountsMatch
<1> QED BY <1>1, LoadInvAlways, PTL

(* The loop of GetRoot that widens the cells ends: it never makes cells    *)
(* wider than all the boxes together, because in cells that wide all has   *)
(* one key and one cell never holds as much as a node can.                 *)
THEOREM WideningAlwaysEnds == Spec => []WideningEnds
<1>1. LoadInv => WideningEnds
  BY DEF LoadInv, Grids, WideningEnds
<1> QED BY <1>1, LoadInvAlways, PTL

(* No node of the file is overfull, and none but the root has fewer        *)
(* entries than its level asks for.                                        *)
THEOREM NodesAlwaysFilled == Spec => []NodesFilled
<1>1. LoadInv => NodesFilled
  BY DEF LoadInv
<1> QED BY <1>1, LoadInvAlways, PTL
-----------------------------------------------------------------------------
(***************************************************************************)
(* What a level holds                                                      *)
(***************************************************************************)

(* The cells of a grid without what has moved when at is the next to move. *)
CellsLeft(l, a) ==
  [i \in 1 .. MaxKey + 2 |->
    LET es == l.grid[i - 1]
    IN  IF i - 1 < a[1] THEN << >>
        ELSE IF i - 1 = a[1] THEN SubSeq(es, a[2], Len(es)) ELSE es]

LEMMA UnmovedCells == Unmoved = FlattenSeq(CellsLeft(Old, at))
  BY DEF Unmoved, CellsLeft

CellLeft(l, a, i) ==
  IF i - 1 < a[1] THEN << >>
  ELSE IF i - 1 = a[1] THEN SubSeq(l.grid[i - 1], a[2], Len(l.grid[i - 1])) ELSE l.grid[i - 1]

LEMMA CellsLeftType ==
  ASSUME NEW l \in Level, NEW a \in Nat \X (Nat \ {0})
  PROVE  /\ CellsLeft(l, a) \in Seq(Seq(Entry)) /\ Len(CellsLeft(l, a)) = MaxKey + 2
         /\ \A i \in 1 .. MaxKey + 2 : CellsLeft(l, a)[i] = CellLeft(l, a, i)
<1>1. MaxKey \in Nat
  BY RTreeLevelAssumption
<1>2. \A i \in 1 .. MaxKey + 2 : CellsLeft(l, a)[i] = CellLeft(l, a, i)
  BY DEF CellsLeft, CellLeft
<1>3. ASSUME NEW i \in 1 .. MaxKey + 2 PROVE CellLeft(l, a, i) \in Seq(Entry)
  <2> DEFINE es == l.grid[i - 1]
  <2>1. es \in Seq(Entry)
    BY CellsType DEF Level
  <2>2. a[2] \in Nat \ {0}
    OBVIOUS
  <2> HIDE DEF es
  <2>3. SubSeq(es, a[2], Len(es)) \in Seq(Entry)
    BY <2>1, <2>2
  <2> QED BY <2>1, <2>3 DEF CellLeft, es
<1>4. CellsLeft(l, a) \in [1 .. MaxKey + 2 -> Seq(Entry)]
  BY <1>2, <1>3 DEF CellsLeft
<1> QED BY <1>1, <1>2, <1>4

(* Nothing has moved.                                                      *)
LEMMA AllLeft ==
  ASSUME NEW l \in Level
  PROVE  FlattenSeq(CellsLeft(l, <<0, 1>>)) = GridEntries(l)
<1> DEFINE a == <<0, 1>>
<1>1. a \in Nat \X (Nat \ {0}) /\ a[1] = 0 /\ a[2] = 1
  OBVIOUS
<1> HIDE DEF a
<1>2. ASSUME NEW i \in 1 .. MaxKey + 2 PROVE CellLeft(l, a, i) = l.grid[i - 1]
  <2>1. l.grid[i - 1] \in Seq(Entry)
    BY CellsType DEF Level
  <2>2. SubSeq(l.grid[i - 1], 1, Len(l.grid[i - 1])) = l.grid[i - 1]
    BY <2>1, SubSeqWhole
  <2>3. ~ (i - 1 < 0)
    OBVIOUS
  <2> QED BY <1>1, <2>2, <2>3 DEF CellLeft
<1>3. CellsLeft(l, a) = Cells(l)
  <2> DEFINE s == CellsLeft(l, a)
             t == Cells(l)
  <2>1. /\ s \in Seq(Seq(Entry)) /\ t \in Seq(Seq(Entry)) /\ Len(s) = Len(t)
        /\ Len(s) = MaxKey + 2
    BY <1>1, CellsLeftType, CellsType
  <2>2. ASSUME NEW i \in 1 .. MaxKey + 2 PROVE s[i] = t[i]
    <3>1. s[i] = CellLeft(l, a, i)
      BY <1>1, CellsLeftType
    <3>2. t[i] = l.grid[i - 1]
      BY CellsType
    <3> QED BY <1>2, <3>1, <3>2
  <2> HIDE DEF s, t
  <2>3. s = t
    BY <2>1, <2>2, SameSequence
  <2> QED BY <2>3 DEF s, t
<1> QED BY <1>3 DEF GridEntries, Cells, a

(* One entry moves.                                                        *)
LEMMA OneLess ==
  ASSUME NEW l \in Level, NEW a \in Key \X (Nat \ {0}), a[2] \in 1 .. Len(l.grid[a[1]]),
         NEW b, b = <<a[1], a[2] + 1>>
  PROVE  /\ Len(FlattenSeq(CellsLeft(l, a))) = Len(FlattenSeq(CellsLeft(l, b))) + 1
         /\ \A x : x \in ToSet(FlattenSeq(CellsLeft(l, a))) <=>
                     x \in ToSet(FlattenSeq(CellsLeft(l, b))) \/ x = l.grid[a[1]][a[2]]
<1> DEFINE s == CellsLeft(l, a)
           t == CellsLeft(l, b)
           k == a[1] + 1
           es == l.grid[a[1]]
           e == es[a[2]]
<1>1. MaxKey \in Nat /\ a[1] \in Key /\ a[2] \in Nat \ {0} /\ a[1] \in Nat
  BY RTreeLevelAssumption DEF Key
<1>2. a \in Nat \X (Nat \ {0}) /\ b \in Nat \X (Nat \ {0}) /\ b[1] = a[1] /\ b[2] = a[2] + 1
  BY <1>1
<1>3. /\ s \in Seq(Seq(Entry)) /\ Len(s) = MaxKey + 2
      /\ t \in Seq(Seq(Entry)) /\ Len(t) = MaxKey + 2
      /\ \A i \in 1 .. MaxKey + 2 : s[i] = CellLeft(l, a, i) /\ t[i] = CellLeft(l, b, i)
  BY <1>2, CellsLeftType
<1>4. k \in 1 .. Len(s) /\ k - 1 = a[1] /\ es \in Seq(Entry)
  <2>1. k \in 1 .. MaxKey + 2 /\ k - 1 = a[1]
    BY <1>1 DEF Key
  <2>2. es \in Seq(Entry)
    BY <1>1 DEF Level
  <2>3. Len(s) = MaxKey + 2
    BY <1>3
  <2> HIDE DEF s, k, es
  <2> QED BY <2>1, <2>2, <2>3
<1>5. s[k] = SubSeq(es, a[2], Len(es)) /\ t[k] = SubSeq(es, a[2] + 1, Len(es))
  <2>1. ~ (a[1] < a[1])
    BY <1>1
  <2> QED BY <1>2, <1>3, <1>4, <2>1 DEF CellLeft
<1>6. ASSUME NEW i \in 1 .. Len(s), i # k PROVE t[i] = s[i]
  <2>1. i - 1 # a[1]
    BY <1>1, <1>3, <1>6
  <2> QED BY <1>2, <1>3, <2>1 DEF CellLeft
<1>7. Len(s[k]) = Len(t[k]) + 1 /\ ToSet(s[k]) = ToSet(t[k]) \cup {e}
  <2> DEFINE m == a[2]
  <2>1. m \in 1 .. Len(es) /\ e = es[m]
    OBVIOUS
  <2>2. s[k] = SubSeq(es, m, Len(es)) /\ t[k] = SubSeq(es, m + 1, Len(es))
    BY <1>5
  <2> HIDE DEF m, es, e, s, t, k
  <2> QED BY <1>4, <2>1, <2>2, SubSeqFirst
<1>8. s[k] \in Seq(Entry) /\ t[k] \in Seq(Entry)
  BY <1>3, <1>4
<1> HIDE DEF s, t, k, e
<1>9. Len(FlattenSeq(s)) = Len(FlattenSeq(t)) + 1
  <2>1. Len(FlattenSeq(t)) = Len(FlattenSeq(s)) + Len(t[k]) - Len(s[k])
    <3>1. /\ Len(t) = Len(s)
          /\ \A i \in 1 .. Len(s) : i # k => Len(t[i]) = Len(s[i])
      BY <1>3, <1>6
    <3>2. s \in Seq(Seq(Entry)) /\ t \in Seq(Seq(Entry)) /\ k \in 1 .. Len(s)
      BY <1>3, <1>4
    <3> QED BY <3>1, <3>2, FlattenLenUpdate, Zenon
  <2>2. FlattenSeq(s) \in Seq(Entry) /\ FlattenSeq(t) \in Seq(Entry)
    BY <1>3, FlattenSeqType
  <2>3. Len(FlattenSeq(s)) \in Nat /\ Len(FlattenSeq(t)) \in Nat /\ Len(t[k]) \in Nat
    BY <1>8, <2>2
  <2> QED BY <1>7, <2>1, <2>3
<1>10. ASSUME NEW x
       PROVE  x \in ToSet(FlattenSeq(s)) <=> x \in ToSet(FlattenSeq(t)) \/ x = e
  <2>1. x \in ToSet(FlattenSeq(s)) <=> \E i \in 1 .. Len(s) : x \in ToSet(s[i])
    <3>1. ToSet(FlattenSeq(s)) = UNION {ToSet(s[i]) : i \in 1 .. Len(s)}
      BY <1>3, FlattenMembers
    <3> QED BY <3>1
  <2>2. x \in ToSet(FlattenSeq(t)) <=> \E i \in 1 .. Len(s) : x \in ToSet(t[i])
    <3>1. ToSet(FlattenSeq(t)) = UNION {ToSet(t[i]) : i \in 1 .. Len(t)}
      BY <1>3, FlattenMembers
    <3> QED BY <1>3, <3>1
  <2> QED BY <1>4, <1>6, <1>7, <2>1, <2>2
<1> QED BY <1>9, <1>10 DEF s, t, e

(* The next cell.                                                          *)
LEMMA NextCell ==
  ASSUME NEW l \in Level, NEW a \in Key \X (Nat \ {0}), a[2] > Len(l.grid[a[1]]),
         NEW b, b = <<a[1] + 1, 1>>
  PROVE  FlattenSeq(CellsLeft(l, b)) = FlattenSeq(CellsLeft(l, a))
<1>1. MaxKey \in Nat /\ a[1] \in Key /\ a[2] \in Nat \ {0} /\ a[1] \in Nat
  BY RTreeLevelAssumption DEF Key
<1>2. a \in Nat \X (Nat \ {0}) /\ b \in Nat \X (Nat \ {0}) /\ b[1] = a[1] + 1 /\ b[2] = 1
  BY <1>1
<1>3. ASSUME NEW i \in 1 .. MaxKey + 2 PROVE CellLeft(l, b, i) = CellLeft(l, a, i)
  <2> DEFINE es == l.grid[i - 1]
  <2>1. es \in Seq(Entry)
    BY CellsType DEF Level
  <2>2. SubSeq(es, 1, Len(es)) = es /\ (i - 1 = a[1] => SubSeq(es, a[2], Len(es)) = << >>)
    BY <1>1, <2>1, SubSeqWhole
  <2> HIDE DEF es
  <2>3. CASE i - 1 < a[1]
    BY <1>1, <1>2, <2>3 DEF CellLeft
  <2>4. CASE i - 1 = a[1]
    <3>1. ~ (i - 1 < a[1]) /\ i - 1 < a[1] + 1
      BY <1>1, <2>4
    <3> QED BY <1>2, <2>2, <2>4, <3>1 DEF CellLeft, es
  <2>5. CASE i - 1 = a[1] + 1
    <3>1. ~ (i - 1 < a[1]) /\ i - 1 # a[1] /\ ~ (i - 1 < a[1] + 1)
      BY <1>1, <2>5
    <3> QED BY <1>2, <2>2, <2>5, <3>1 DEF CellLeft, es
  <2>6. CASE i - 1 > a[1] + 1
    <3>1. /\ ~ (i - 1 < a[1]) /\ i - 1 # a[1]
          /\ ~ (i - 1 < a[1] + 1) /\ i - 1 # a[1] + 1
      BY <1>1, <2>6
    <3> QED BY <1>2, <3>1 DEF CellLeft
  <2> QED BY <1>1, <2>3, <2>4, <2>5, <2>6
<1>4. CellsLeft(l, b) = CellsLeft(l, a)
  <2> DEFINE s == CellsLeft(l, a)
             t == CellsLeft(l, b)
  <2>1. /\ s \in Seq(Seq(Entry)) /\ t \in Seq(Seq(Entry)) /\ Len(s) = Len(t)
        /\ Len(s) = MaxKey + 2
    BY <1>2, CellsLeftType
  <2>2. ASSUME NEW i \in 1 .. MaxKey + 2 PROVE s[i] = t[i]
    <3>1. s[i] = CellLeft(l, a, i)
      BY <1>2, CellsLeftType
    <3>2. t[i] = CellLeft(l, b, i)
      BY <1>2, CellsLeftType
    <3> QED BY <1>3, <3>1, <3>2
  <2> HIDE DEF s, t
  <2>3. \A i \in 1 .. Len(s) : s[i] = t[i]
    BY <2>1, <2>2
  <2>4. s = t
    BY <2>1, <2>3, SameSequence, Zenon
  <2> QED BY <2>4 DEF s, t
<1> QED BY <1>4

(* All has moved.                                                          *)
LEMMA NoneLeft ==
  ASSUME NEW l \in Level, NEW a \in Nat \X (Nat \ {0}), a[1] \notin Key
  PROVE  FlattenSeq(CellsLeft(l, a)) = << >>
<1>1. MaxKey \in Nat /\ a[1] \in Nat /\ a[1] > MaxKey + 1
  BY RTreeLevelAssumption DEF Key
<1>2. \A i \in 1 .. MaxKey + 2 : CellsLeft(l, a)[i] = << >>
  BY <1>1, CellsLeftType DEF CellLeft
<1> QED BY <1>2, CellsLeftType, FlattenEmpty
-----------------------------------------------------------------------------
(***************************************************************************)
(* What sequences of entries refer to                                      *)
(***************************************************************************)

Refs(s) == {e.ref : e \in ToSet(s)}

(* t has n entries more than s, and they refer to what is in R.            *)
Grows(s, t, n, R) == Len(t) = Len(s) + n /\ Refs(t) = Refs(s) \cup R

Alike(s, t) == Grows(s, t, 0, {})

LEMMA AlikeSelf == \A s \in Seq(Entry) : Alike(s, s)
  BY DEF Alike, Grows

LEMMA AlikeParts ==
  ASSUME NEW s \in Seq(Entry), NEW t
  PROVE  Alike(s, t) <=> Len(t) = Len(s) /\ Refs(t) = Refs(s)
  BY DEF Alike, Grows

LEMMA ConcatRefs ==
  ASSUME NEW s \in Seq(Entry), NEW t \in Seq(Entry)
  PROVE  Refs(s \o t) = Refs(s) \cup Refs(t)
<1>1. ToSet(s \o t) = ToSet(s) \cup ToSet(t)
  BY ConcatMembers
<1> QED BY <1>1 DEF Refs

LEMMA FewRefs == Refs(<< >>) = {} /\ \A e : Refs(<<e>>) = {e.ref}
  BY OneMember DEF Refs

LEMMA FlattenRefs ==
  ASSUME NEW seqs \in Seq(Seq(Entry))
  PROVE  \A r : r \in Refs(FlattenSeq(seqs)) <=> \E i \in 1 .. Len(seqs) : r \in Refs(seqs[i])
<1>1. ToSet(FlattenSeq(seqs)) = UNION {ToSet(seqs[i]) : i \in 1 .. Len(seqs)}
  BY FlattenMembers
<1> SUFFICES ASSUME NEW r
             PROVE  r \in Refs(FlattenSeq(seqs)) <=> \E i \in 1 .. Len(seqs) : r \in Refs(seqs[i])
  OBVIOUS
<1>2. ASSUME r \in Refs(FlattenSeq(seqs)) PROVE \E i \in 1 .. Len(seqs) : r \in Refs(seqs[i])
  <2>1. PICK e \in ToSet(FlattenSeq(seqs)) : r = e.ref
    BY <1>2 DEF Refs
  <2>2. PICK i \in 1 .. Len(seqs) : e \in ToSet(seqs[i])
    BY <1>1
  <2> QED BY <2>1, <2>2 DEF Refs
<1>3. ASSUME NEW i \in 1 .. Len(seqs), r \in Refs(seqs[i]) PROVE r \in Refs(FlattenSeq(seqs))
  <2>1. PICK e \in ToSet(seqs[i]) : r = e.ref
    BY <1>3 DEF Refs
  <2>2. e \in ToSet(FlattenSeq(seqs))
    BY <1>1
  <2> QED BY <2>1, <2>2 DEF Refs
<1> QED BY <1>2, <1>3

(* What one of the sequences gains, they gain together.                    *)
LEMMA FlattenGrows ==
  ASSUME NEW s \in Seq(Seq(Entry)), NEW t \in Seq(Seq(Entry)), Len(t) = Len(s),
         NEW k \in 1 .. Len(s), NEW n \in Nat, NEW R, Grows(s[k], t[k], n, R),
         \A i \in 1 .. Len(s) : i # k => Alike(s[i], t[i])
  PROVE  Grows(FlattenSeq(s), FlattenSeq(t), n, R)
<1>1. \A i \in 1 .. Len(s) : s[i] \in Seq(Entry) /\ t[i] \in Seq(Entry)
  OBVIOUS
<1>2. \A i \in 1 .. Len(s) : i # k => Len(t[i]) = Len(s[i]) /\ Refs(t[i]) = Refs(s[i])
  BY <1>1, AlikeParts
<1>3. Len(t[k]) = Len(s[k]) + n /\ Refs(t[k]) = Refs(s[k]) \cup R
  BY DEF Grows
<1>4. Len(FlattenSeq(t)) = Len(FlattenSeq(s)) + n
  <2>1. Len(FlattenSeq(t)) = Len(FlattenSeq(s)) + Len(t[k]) - Len(s[k])
    BY <1>2, FlattenLenUpdate
  <2>2. FlattenSeq(s) \in Seq(Entry) /\ Len(s[k]) \in Nat
    BY <1>1, FlattenSeqType
  <2>3. Len(FlattenSeq(s)) \in Nat
    BY <2>2
  <2> QED BY <1>3, <2>1, <2>2, <2>3
<1>5. ASSUME NEW r
      PROVE  r \in Refs(FlattenSeq(t)) <=> r \in Refs(FlattenSeq(s)) \/ r \in R
  <2>1. r \in Refs(FlattenSeq(t)) <=> \E i \in 1 .. Len(s) : r \in Refs(t[i])
    BY FlattenRefs
  <2>2. r \in Refs(FlattenSeq(s)) <=> \E i \in 1 .. Len(s) : r \in Refs(s[i])
    BY FlattenRefs
  <2> QED BY <1>2, <1>3, <2>1, <2>2
<1> QED BY <1>4, <1>5 DEF Grows

LEMMA FlattenAlike ==
  ASSUME NEW s \in Seq(Seq(Entry)), NEW t \in Seq(Seq(Entry)), Len(t) = Len(s),
         \A i \in 1 .. Len(s) : Alike(s[i], t[i])
  PROVE  Alike(FlattenSeq(s), FlattenSeq(t))
<1>1. CASE Len(s) = 0
  <2>1. s = << >> /\ t = << >>
    BY <1>1
  <2> QED BY <2>1, FlattenSeqType, AlikeSelf
<1>2. CASE Len(s) # 0
  <2>1. 1 \in 1 .. Len(s)
    BY <1>2
  <2>2. Grows(s[1], t[1], 0, {})
    BY <2>1 DEF Alike
  <2>3. Grows(FlattenSeq(s), FlattenSeq(t), 0, {})
    BY <2>1, <2>2, FlattenGrows
  <2> QED BY <2>3 DEF Alike
<1> QED BY <1>1, <1>2

LEMMA FlattenAppend ==
  ASSUME NEW s \in Seq(Seq(Entry)), NEW x \in Seq(Entry)
  PROVE  Grows(FlattenSeq(s), FlattenSeq(Append(s, x)), Len(x), Refs(x))
<1> DEFINE t == Append(s, x)
<1>1. Len(FlattenSeq(t)) = Len(FlattenSeq(s)) + Len(x)
  BY FlattenLenAppend
<1>2. /\ t \in Seq(Seq(Entry)) /\ Len(t) = Len(s) + 1 /\ t[Len(s) + 1] = x
      /\ \A i \in 1 .. Len(s) : t[i] = s[i]
      /\ \A i \in 1 .. Len(s) + 1 : i \in 1 .. Len(s) \/ i = Len(s) + 1
      /\ 1 .. Len(s) \subseteq 1 .. Len(s) + 1 /\ Len(s) + 1 \in 1 .. Len(s) + 1
  OBVIOUS
<1> HIDE DEF t
<1>3. ASSUME NEW r
      PROVE  r \in Refs(FlattenSeq(t)) <=> r \in Refs(FlattenSeq(s)) \/ r \in Refs(x)
  <2>1. r \in Refs(FlattenSeq(t)) <=> \E i \in 1 .. Len(s) + 1 : r \in Refs(t[i])
    BY <1>2, FlattenRefs
  <2>2. r \in Refs(FlattenSeq(s)) <=> \E i \in 1 .. Len(s) : r \in Refs(s[i])
    BY FlattenRefs
  <2> QED BY <1>2, <2>1, <2>2
<1> QED BY <1>1, <1>3 DEF Grows, t
-----------------------------------------------------------------------------
(* What is held above the lowest level, h being what each level holds.     *)
UpperCells(h) == [i \in 1 .. Len(h) - 1 |-> h[i + 1]]

Upper(h) == FlattenSeq(UpperCells(h))

LEMMA UpperType ==
  ASSUME NEW h \in Seq(Seq(Entry)), Len(h) # 0
  PROVE  /\ UpperCells(h) \in Seq(Seq(Entry)) /\ Len(UpperCells(h)) = Len(h) - 1
         /\ \A i \in 1 .. Len(h) - 1 : UpperCells(h)[i] = h[i + 1] /\ i + 1 \in 2 .. Len(h)
         /\ \A k \in 2 .. Len(h) : UpperCells(h)[k - 1] = h[k] /\ k - 1 \in 1 .. Len(h) - 1
         /\ Upper(h) \in Seq(Entry)
<1>1. Len(h) - 1 \in Nat
  OBVIOUS
<1>2. \A i \in 1 .. Len(h) - 1 : h[i + 1] \in Seq(Entry) /\ i + 1 \in 2 .. Len(h)
  OBVIOUS
<1>3. UpperCells(h) \in [1 .. Len(h) - 1 -> Seq(Entry)]
  BY <1>2 DEF UpperCells
<1>4. UpperCells(h) \in Seq(Seq(Entry)) /\ Len(UpperCells(h)) = Len(h) - 1
  BY <1>1, <1>3, SMTT(60)
<1>5. \A i \in 1 .. Len(h) - 1 : UpperCells(h)[i] = h[i + 1]
  BY DEF UpperCells
<1>6. ASSUME NEW k \in 2 .. Len(h)
      PROVE  UpperCells(h)[k - 1] = h[k] /\ k - 1 \in 1 .. Len(h) - 1
  <2>1. k - 1 \in 1 .. Len(h) - 1 /\ (k - 1) + 1 = k
    OBVIOUS
  <2>2. UpperCells(h)[k - 1] = h[(k - 1) + 1]
    BY <1>5, <2>1
  <2> QED BY <2>1, <2>2
<1>7. Upper(h) \in Seq(Entry)
  BY <1>4, FlattenSeqType DEF Upper
<1> QED BY <1>2, <1>4, <1>5, <1>6, <1>7

LEMMA UpperGrows ==
  ASSUME NEW h \in Seq(Seq(Entry)), NEW g \in Seq(Seq(Entry)), Len(g) = Len(h),
         NEW k \in 2 .. Len(h), NEW n \in Nat, NEW R, Grows(h[k], g[k], n, R),
         \A j \in 2 .. Len(h) : j # k => Alike(h[j], g[j])
  PROVE  Grows(Upper(h), Upper(g), n, R)
<1> DEFINE s == UpperCells(h)
           t == UpperCells(g)
           m == k - 1
<1>1. Len(h) # 0 /\ Len(g) # 0
  OBVIOUS
<1>2. /\ s \in Seq(Seq(Entry)) /\ t \in Seq(Seq(Entry))
      /\ Len(s) = Len(h) - 1 /\ Len(t) = Len(s)
      /\ \A i \in 1 .. Len(s) : s[i] = h[i + 1] /\ t[i] = g[i + 1] /\ i + 1 \in 2 .. Len(h)
      /\ m \in 1 .. Len(s) /\ s[m] = h[k] /\ t[m] = g[k]
  <2>1. /\ s \in Seq(Seq(Entry)) /\ Len(s) = Len(h) - 1
        /\ \A i \in 1 .. Len(h) - 1 : s[i] = h[i + 1] /\ i + 1 \in 2 .. Len(h)
        /\ s[m] = h[k] /\ m \in 1 .. Len(h) - 1
    BY <1>1, UpperType
  <2>2. /\ t \in Seq(Seq(Entry)) /\ Len(t) = Len(g) - 1
        /\ \A i \in 1 .. Len(g) - 1 : t[i] = g[i + 1]
        /\ t[m] = g[k]
    <3>1. k \in 2 .. Len(g)
      OBVIOUS
    <3> QED BY <1>1, <3>1, UpperType
  <2> HIDE DEF s, t, m
  <2> QED BY <2>1, <2>2
<1>3. \A i \in 1 .. Len(s) : i # m => i + 1 # k
  BY <1>2
<1> HIDE DEF s, t, m
<1>4. Grows(s[m], t[m], n, R) /\ \A i \in 1 .. Len(s) : i # m => Alike(s[i], t[i])
  BY <1>2, <1>3
<1>5. Grows(FlattenSeq(s), FlattenSeq(t), n, R)
  BY <1>2, <1>4, FlattenGrows
<1> QED BY <1>5 DEF Upper, s, t

LEMMA UpperAlike ==
  ASSUME NEW h \in Seq(Seq(Entry)), NEW g \in Seq(Seq(Entry)), Len(g) = Len(h), Len(h) # 0,
         \A j \in 2 .. Len(h) : Alike(h[j], g[j])
  PROVE  Alike(Upper(h), Upper(g))
<1> DEFINE s == UpperCells(h)
           t == UpperCells(g)
<1>1. /\ s \in Seq(Seq(Entry)) /\ t \in Seq(Seq(Entry))
      /\ Len(s) = Len(h) - 1 /\ Len(t) = Len(s)
      /\ \A i \in 1 .. Len(s) : s[i] = h[i + 1] /\ t[i] = g[i + 1] /\ i + 1 \in 2 .. Len(h)
  <2>1. /\ s \in Seq(Seq(Entry)) /\ Len(s) = Len(h) - 1
        /\ \A i \in 1 .. Len(h) - 1 : s[i] = h[i + 1] /\ i + 1 \in 2 .. Len(h)
    BY UpperType
  <2>2. /\ t \in Seq(Seq(Entry)) /\ Len(t) = Len(h) - 1
        /\ \A i \in 1 .. Len(h) - 1 : t[i] = g[i + 1]
    BY UpperType
  <2> HIDE DEF s, t
  <2> QED BY <2>1, <2>2
<1> HIDE DEF s, t
<1>2. \A i \in 1 .. Len(s) : Alike(s[i], t[i])
  BY <1>1
<1>3. Alike(FlattenSeq(s), FlattenSeq(t))
  BY <1>1, <1>2, FlattenAlike
<1> QED BY <1>3 DEF Upper, s, t

(* A level more, that holds x.                                             *)
LEMMA UpperAppend ==
  ASSUME NEW h \in Seq(Seq(Entry)), Len(h) # 0, NEW x \in Seq(Entry)
  PROVE  Grows(Upper(h), Upper(Append(h, x)), Len(x), Refs(x))
<1> DEFINE g == Append(h, x)
           s == UpperCells(h)
           t == UpperCells(g)
<1>1. /\ g \in Seq(Seq(Entry)) /\ Len(g) = Len(h) + 1 /\ g[Len(h) + 1] = x
      /\ \A i \in 1 .. Len(h) : g[i] = h[i]
      /\ Len(h) \in Nat /\ Len(g) # 0
  OBVIOUS
<1> HIDE DEF g
<1>2. /\ s \in Seq(Seq(Entry)) /\ Len(s) = Len(h) - 1
      /\ \A i \in 1 .. Len(h) - 1 : s[i] = h[i + 1] /\ i + 1 \in 2 .. Len(h)
  BY UpperType
<1>3. t \in Seq(Seq(Entry)) /\ Len(t) = Len(h) /\ \A i \in 1 .. Len(h) : t[i] = g[i + 1]
  <2>1. /\ t \in Seq(Seq(Entry)) /\ Len(t) = Len(g) - 1
        /\ \A i \in 1 .. Len(g) - 1 : t[i] = g[i + 1]
    BY <1>1, UpperType
  <2>2. Len(g) - 1 = Len(h)
    BY <1>1
  <2> QED BY <2>1, <2>2
<1> HIDE DEF s, t
<1>4. Append(s, x) \in Seq(Seq(Entry)) /\ Len(Append(s, x)) = Len(h)
  BY <1>1, <1>2
<1>5. ASSUME NEW i \in 1 .. Len(h) PROVE t[i] = Append(s, x)[i]
  <2>1. CASE i = Len(h)
    <3>1. Append(s, x)[i] = x
      BY <1>1, <1>2, <2>1
    <3> QED BY <1>1, <1>3, <2>1, <3>1
  <2>2. CASE i # Len(h)
    <3>1. i \in 1 .. Len(h) - 1 /\ i + 1 \in 1 .. Len(h)
      BY <1>1, <2>2
    <3>2. Append(s, x)[i] = s[i]
      BY <1>2, <3>1
    <3> QED BY <1>1, <1>2, <1>3, <3>1, <3>2
  <2> QED BY <2>1, <2>2
<1>6. t = Append(s, x)
  <2> DEFINE u == Append(s, x)
  <2> HIDE DEF u
  <2>1. u \in Seq(Seq(Entry)) /\ Len(u) = Len(t) /\ \A i \in 1 .. Len(t) : t[i] = u[i]
    BY <1>3, <1>4, <1>5 DEF u
  <2>2. t = u
    BY <1>3, <2>1, SameSequence
  <2> QED BY <2>2 DEF u
<1>7. Grows(FlattenSeq(s), FlattenSeq(t), Len(x), Refs(x))
  BY <1>2, <1>6, FlattenAppend
<1> QED BY <1>7 DEF Upper, s, t, g

(* A node leaves level k, its n entries referring to R, and level k + 1    *)
(* gains the entry that leads to it: m is what is held in between.         *)
LEMMA UpperSaves ==
  ASSUME NEW h \in Seq(Seq(Entry)), NEW g \in Seq(Seq(Entry)), NEW k \in 1 .. Len(h),
         Len(g) = (IF k = Len(h) THEN Len(h) + 1 ELSE Len(h)),
         NEW n \in Nat, NEW R, NEW r,
         Grows(g[k], h[k], n, R),
         Grows(IF k = Len(h) THEN << >> ELSE h[k + 1], g[k + 1], 1, {r}),
         \A j \in 1 .. Len(h) : j # k /\ j # k + 1 => Alike(h[j], g[j])
  PROVE  \E m \in Seq(Entry) :
           /\ IF k = 1 THEN Alike(m, Upper(h)) ELSE Grows(m, Upper(h), n, R)
           /\ Grows(m, Upper(g), 1, {r})
<1>0. /\ Len(h) \in Nat /\ Len(h) # 0 /\ k \in Nat /\ k # 0
      /\ \A j \in 1 .. Len(h) : h[j] \in Seq(Entry) /\ g[j] \in Seq(Entry)
      /\ << >> \in Seq(Entry)
  BY SMTT(60)
<1> DEFINE f == [h EXCEPT ![k] = g[k]]
           p == IF k = Len(h) THEN Append(f, << >>) ELSE f
<1>1. /\ f \in Seq(Seq(Entry)) /\ Len(f) = Len(h) /\ f[k] = g[k]
      /\ \A j \in 1 .. Len(h) : j # k => f[j] = h[j]
  BY <1>0
<1> HIDE DEF f
<1>2. IF k = 1 THEN Alike(Upper(f), Upper(h)) ELSE Grows(Upper(f), Upper(h), n, R)
  <2>1. \A j \in 1 .. Len(h) : j # k => Alike(f[j], h[j])
    BY <1>0, <1>1, AlikeSelf
  <2>2. CASE k = 1
    <3>1. \A j \in 2 .. Len(f) : Alike(f[j], h[j])
      BY <1>0, <1>1, <2>1, <2>2, SMTT(60)
    <3>2. Alike(Upper(f), Upper(h))
      BY <1>0, <1>1, <3>1, UpperAlike
    <3> QED BY <2>2, <3>2
  <2>3. CASE k # 1
    <3>1. k \in 2 .. Len(f) /\ Grows(f[k], h[k], n, R)
      BY <1>0, <1>1, <2>3
    <3>2. \A j \in 2 .. Len(f) : j # k => Alike(f[j], h[j])
      BY <1>0, <1>1, <2>1
    <3>3. Grows(Upper(f), Upper(h), n, R)
      BY <1>0, <1>1, <3>1, <3>2, UpperGrows
    <3> QED BY <2>3, <3>3
  <2> QED BY <2>2, <2>3
<1>3. Alike(Upper(f), Upper(p)) /\ p \in Seq(Seq(Entry)) /\ Len(p) = Len(g)
  <2>1. CASE k = Len(h)
    <3>1. Grows(Upper(f), Upper(p), Len(<< >>), Refs(<< >>))
      BY <1>0, <1>1, <2>1, UpperAppend
    <3>2. Len(<< >>) = 0
      OBVIOUS
    <3>3. p \in Seq(Seq(Entry)) /\ Len(p) = Len(g)
      BY <1>0, <1>1, <2>1
    <3> QED BY <3>1, <3>2, <3>3, FewRefs DEF Alike
  <2>2. CASE k # Len(h)
    <3>1. Upper(f) \in Seq(Entry)
      BY <1>0, <1>1, UpperType
    <3> QED BY <1>1, <2>2, <3>1, AlikeSelf
  <2> QED BY <2>1, <2>2
<1>4. k + 1 \in 2 .. Len(p)
  BY <1>0, <1>3
<1>5. p[k + 1] = IF k = Len(h) THEN << >> ELSE h[k + 1]
  <2>1. CASE k = Len(h)
    BY <1>0, <1>1, <2>1
  <2>2. CASE k # Len(h)
    BY <1>0, <1>1, <2>2
  <2> QED BY <2>1, <2>2
<1>6. ASSUME NEW j \in 2 .. Len(p), j # k + 1 PROVE Alike(p[j], g[j])
  <2>1. j \in 1 .. Len(h)
    BY <1>0, <1>3, <1>6
  <2>2. p[j] = f[j]
    BY <1>0, <1>1, <2>1
  <2>3. CASE j = k
    BY <1>0, <1>1, <2>1, <2>2, <2>3, AlikeSelf
  <2>4. CASE j # k
    BY <1>1, <1>6, <2>1, <2>2, <2>4
  <2> QED BY <2>3, <2>4
<1>7. Grows(p[k + 1], g[k + 1], 1, {r})
  BY <1>5
<1> HIDE DEF p
<1>8. Grows(Upper(p), Upper(g), 1, {r})
  <2> DEFINE o == 1
             S == {r}
             l == k + 1
  <2>1. o \in Nat /\ l \in 2 .. Len(p) /\ Grows(p[l], g[l], o, S)
    BY <1>4, <1>7
  <2>2. \A j \in 2 .. Len(p) : j # l => Alike(p[j], g[j])
    BY <1>6
  <2> HIDE DEF o, S, l
  <2>3. Grows(Upper(p), Upper(g), o, S)
    BY <1>3, <2>1, <2>2, UpperGrows
  <2> QED BY <2>3 DEF o, S
<1>9. Upper(f) \in Seq(Entry)
  BY <1>0, <1>1, UpperType
<1>10. Grows(Upper(f), Upper(g), 1, {r})
  BY <1>3, <1>8, <1>9 DEF Alike, Grows
<1> QED BY <1>2, <1>9, <1>10
-----------------------------------------------------------------------------
(* The entries of the leaves of the file f, or of the other nodes, without *)
(* the root r.                                                             *)
Node == [leaf : BOOLEAN, entries : Seq(Entry)]

NodeCells(f, r, leaf) ==
  [n \in 1 .. Len(f) |-> IF n # r /\ f[n].leaf = leaf THEN f[n].entries ELSE << >>]

NodeEntries(f, r, leaf) == FlattenSeq(NodeCells(f, r, leaf))

LEMMA FileEntriesAs == \A leaf : FileEntries(leaf) = NodeEntries(file, header.root, leaf)
  BY DEF FileEntries, NodeEntries, NodeCells

LEMMA NodeParts ==
  ASSUME NEW f \in Seq(Node), NEW n \in 1 .. Len(f)
  PROVE  f[n] \in Node /\ f[n].entries \in Seq(Entry)
<1>1. f[n] \in Node
  OBVIOUS
<1> QED BY <1>1, Zenon DEF Node

LEMMA NodeEntriesType ==
  ASSUME NEW f \in Seq(Node), NEW r, NEW leaf
  PROVE  /\ NodeCells(f, r, leaf) \in Seq(Seq(Entry)) /\ Len(NodeCells(f, r, leaf)) = Len(f)
         /\ NodeEntries(f, r, leaf) \in Seq(Entry)
<1>1. \A n \in 1 .. Len(f) : f[n].entries \in Seq(Entry)
  BY NodeParts
<1>2. \A n \in 1 .. Len(f) :
        (IF n # r /\ f[n].leaf = leaf THEN f[n].entries ELSE << >>) \in Seq(Entry)
  BY <1>1
<1>3. NodeCells(f, r, leaf) \in [1 .. Len(f) -> Seq(Entry)]
  BY <1>2 DEF NodeCells
<1>4. Len(f) \in Nat
  OBVIOUS
<1>5. NodeCells(f, r, leaf) \in Seq(Seq(Entry)) /\ Len(NodeCells(f, r, leaf)) = Len(f)
  BY <1>3, <1>4
<1>6. NodeEntries(f, r, leaf) \in Seq(Entry)
  BY <1>5, FlattenSeqType DEF NodeEntries
<1> QED BY <1>5, <1>6

(* A node more, x being what it adds.                                      *)
LEMMA NodeEntriesAppend ==
  ASSUME NEW f \in Seq(Node), NEW node \in Node, NEW r \in {0, Len(f) + 1}, NEW leaf,
         NEW x \in Seq(Entry),
         x = IF Len(f) + 1 # r /\ node.leaf = leaf THEN node.entries ELSE << >>
  PROVE  Grows(NodeEntries(f, 0, leaf), NodeEntries(Append(f, node), r, leaf), Len(x), Refs(x))
<1> DEFINE g == Append(f, node)
           s == NodeCells(f, 0, leaf)
           t == NodeCells(g, r, leaf)
           u == Append(s, x)
<1>1. /\ g \in Seq(Node) /\ Len(g) = Len(f) + 1 /\ g[Len(f) + 1] = node
      /\ \A n \in 1 .. Len(f) : g[n] = f[n]
      /\ Len(f) \in Nat
  OBVIOUS
<1> HIDE DEF g
<1>2. s \in Seq(Seq(Entry)) /\ Len(s) = Len(f)
  BY NodeEntriesType
<1>3. t \in Seq(Seq(Entry)) /\ Len(t) = Len(f) + 1
  BY <1>1, NodeEntriesType
<1>4. u \in Seq(Seq(Entry)) /\ Len(u) = Len(f) + 1
  <2> HIDE DEF s
  <2> QED BY <1>2
<1>5. ASSUME NEW n \in 1 .. Len(f) + 1 PROVE t[n] = u[n]
  <2>1. t[n] = IF n # r /\ g[n].leaf = leaf THEN g[n].entries ELSE << >>
    BY <1>1 DEF NodeCells
  <2>2. CASE n = Len(f) + 1
    <3>1. u[n] = x
      <4> HIDE DEF s
      <4> QED BY <1>2, <2>2
    <3> HIDE DEF t, u
    <3> QED BY <1>1, <2>1, <2>2, <3>1
  <2>3. CASE n # Len(f) + 1
    <3>1. n \in 1 .. Len(f) /\ n # 0 /\ n # r
      BY <1>1, <2>3
    <3>2. s[n] = IF n # 0 /\ f[n].leaf = leaf THEN f[n].entries ELSE << >>
      BY <3>1 DEF NodeCells
    <3>3. u[n] = s[n]
      <4> HIDE DEF s
      <4> QED BY <1>2, <3>1
    <3> HIDE DEF t, u, s
    <3> QED BY <1>1, <2>1, <3>1, <3>2, <3>3
  <2> QED BY <2>2, <2>3
<1> HIDE DEF t, u
<1>6. t = u
  BY <1>3, <1>4, <1>5, SameSequence
<1>7. Grows(FlattenSeq(s), FlattenSeq(u), Len(x), Refs(x))
  <2> HIDE DEF s
  <2> QED BY <1>2, FlattenAppend DEF u
<1>8. Grows(FlattenSeq(s), FlattenSeq(t), Len(x), Refs(x))
  BY <1>6, <1>7
<1> QED BY <1>8 DEF NodeEntries, s, t, g
-----------------------------------------------------------------------------
(***************************************************************************)
(* What a level holds, part by part                                        *)
(***************************************************************************)

Holding(k) == LiveGrid(k) \o LeftEntries(k) \o PendingEntries(k) \o RootEntries(k)

LEMMA PendingAs ==
  ASSUME LoadInv, NEW k
  PROVE  /\ \A i \in pending : PendingEntries(k) = (IF i.level = k THEN <<i.entry>> ELSE << >>)
         /\ pending = {} => PendingEntries(k) = << >>
<1> DEFINE here == {i \in pending : i.level = k}
           es == {i.entry : i \in here}
<1>1. ASSUME NEW i \in pending
      PROVE  PendingEntries(k) = IF i.level = k THEN <<i.entry>> ELSE << >>
  <2>1. pending = {i}
    BY DEF LoadInv, Phases
  <2>2. CASE i.level = k
    <3>1. es = {i.entry}
      BY <2>1, <2>2
    <3> QED BY <2>2, <3>1, SetToSeqOne DEF PendingEntries
  <2>3. CASE i.level # k
    <3>1. es = {}
      BY <2>1, <2>3
    <3> QED BY <2>3, <3>1, SetToSeqEmpty DEF PendingEntries
  <2> QED BY <2>2, <2>3
<1>2. ASSUME pending = {} PROVE PendingEntries(k) = << >>
  <2>1. es = {}
    BY <1>2
  <2> QED BY <2>1, SetToSeqEmpty DEF PendingEntries
<1> QED BY <1>1, <1>2

LEMMA UnmovedType == TypeOK => Unmoved \in Seq(Entry)
<1> SUFFICES ASSUME TypeOK PROVE Unmoved \in Seq(Entry)
  OBVIOUS
<1>1. Old \in Level /\ at \in Nat \X (Nat \ {0})
  BY OldType DEF TypeOK
<1>2. CellsLeft(Old, at) \in Seq(Seq(Entry))
  BY <1>1, CellsLeftType
<1> QED BY <1>2, FlattenSeqType, UnmovedCells

LEMMA PartsType ==
  ASSUME LoadInv, NEW k \in 1 .. Len(levels)
  PROVE  /\ LiveGrid(k) \in Seq(Entry) /\ LeftEntries(k) \in Seq(Entry)
         /\ PendingEntries(k) \in Seq(Entry) /\ RootEntries(k) \in Seq(Entry)
<1>1. /\ TypeOK /\ levels[k] \in Level /\ Old \in Level /\ Unmoved \in Seq(Entry)
      /\ pc = "widen" => wide \in Level
  BY OldType, UnmovedType DEF LoadInv, IInv, TypeOK
<1>2. LiveGrid(k) \in Seq(Entry)
  <2>1. << >> \in Seq(Entry)
    OBVIOUS
  <2>2. GridEntries(levels[k]) \in Seq(Entry) /\ GridEntries(Old) \in Seq(Entry)
    BY <1>1, GridEntriesType
  <2>3. pc = "widen" => Unmoved \o GridEntries(wide) \in Seq(Entry)
    BY <1>1, GridEntriesType, ConcatLen
  <2> QED BY <2>1, <2>2, <2>3 DEF LiveGrid
<1>3. LeftEntries(k) \in Seq(Entry)
  BY <1>1 DEF LeftEntries, Level
<1>4. PendingEntries(k) \in Seq(Entry)
  <2>1. CASE pending = {}
    <3>1. PendingEntries(k) = << >> /\ << >> \in Seq(Entry)
      BY <2>1, PendingAs
    <3> QED BY <3>1
  <2>2. CASE pending # {}
    <3>1. PICK i \in pending : TRUE
      BY <2>2
    <3>2. i.entry \in Entry
      BY <1>1 DEF TypeOK
    <3>3. PendingEntries(k) = IF i.level = k THEN <<i.entry>> ELSE << >>
      BY PendingAs
    <3> QED BY <3>2, <3>3
  <2> QED BY <2>1, <2>2
<1>5. RootEntries(k) \in Seq(Entry)
  <2>1. header.root # 0 => header.root \in 1 .. Len(file)
    BY <1>1 DEF LoadInv, Phases, TypeOK
  <2>2. file \in Seq(Node)
    BY <1>1 DEF TypeOK, Node
  <2>3. header.root # 0 => file[header.root].entries \in Seq(Entry)
    BY <2>1, <2>2, NodeParts
  <2>4. << >> \in Seq(Entry)
    OBVIOUS
  <2> QED BY <2>3, <2>4 DEF RootEntries
<1> QED BY <1>2, <1>3, <1>4, <1>5

LEMMA FourParts ==
  ASSUME NEW a \in Seq(Entry), NEW b \in Seq(Entry), NEW c \in Seq(Entry), NEW d \in Seq(Entry)
  PROVE  /\ a \o b \o c \o d \in Seq(Entry)
         /\ Len(a \o b \o c \o d) = Len(a) + Len(b) + Len(c) + Len(d)
         /\ Refs(a \o b \o c \o d) = Refs(a) \cup Refs(b) \cup Refs(c) \cup Refs(d)
<1>1. a \o b \in Seq(Entry) /\ Len(a \o b) = Len(a) + Len(b) /\ Refs(a \o b) = Refs(a) \cup Refs(b)
  BY ConcatLen, ConcatRefs
<1> DEFINE ab == a \o b
           abc == ab \o c
<1> HIDE DEF ab
<1>2. abc \in Seq(Entry) /\ Len(abc) = Len(ab) + Len(c) /\ Refs(abc) = Refs(ab) \cup Refs(c)
  BY <1>1, ConcatLen, ConcatRefs DEF ab
<1> HIDE DEF abc
<1>3. abc \o d \in Seq(Entry) /\ Len(abc \o d) = Len(abc) + Len(d) /\ Refs(abc \o d) = Refs(abc) \cup Refs(d)
  BY <1>2, ConcatLen, ConcatRefs
<1> QED BY <1>1, <1>2, <1>3 DEF ab, abc

HoldingParts ==
  \A k \in 1 .. Len(levels) :
    /\ LiveGrid(k) \in Seq(Entry) /\ LeftEntries(k) \in Seq(Entry)
    /\ PendingEntries(k) \in Seq(Entry) /\ RootEntries(k) \in Seq(Entry)
    /\ Holding(k) \in Seq(Entry)
    /\ Len(Holding(k)) = Len(LiveGrid(k)) + Len(LeftEntries(k))
                         + Len(PendingEntries(k)) + Len(RootEntries(k))
    /\ Refs(Holding(k)) = Refs(LiveGrid(k)) \cup Refs(LeftEntries(k))
                          \cup Refs(PendingEntries(k)) \cup Refs(RootEntries(k))

LEMMA PartsHeld == LoadInv => HoldingParts
<1> SUFFICES ASSUME LoadInv, NEW k \in 1 .. Len(levels)
    PROVE  /\ LiveGrid(k) \in Seq(Entry) /\ LeftEntries(k) \in Seq(Entry)
           /\ PendingEntries(k) \in Seq(Entry) /\ RootEntries(k) \in Seq(Entry)
           /\ Holding(k) \in Seq(Entry)
           /\ Len(Holding(k)) = Len(LiveGrid(k)) + Len(LeftEntries(k))
                                + Len(PendingEntries(k)) + Len(RootEntries(k))
           /\ Refs(Holding(k)) = Refs(LiveGrid(k)) \cup Refs(LeftEntries(k))
                                 \cup Refs(PendingEntries(k)) \cup Refs(RootEntries(k))
  BY DEF HoldingParts
<1>1. /\ LiveGrid(k) \in Seq(Entry) /\ LeftEntries(k) \in Seq(Entry)
      /\ PendingEntries(k) \in Seq(Entry) /\ RootEntries(k) \in Seq(Entry)
  BY PartsType
<1> DEFINE h == LiveGrid(k) \o LeftEntries(k) \o PendingEntries(k) \o RootEntries(k)
<1>2. h = Holding(k)
  BY DEF Holding
<1>3. /\ h \in Seq(Entry)
      /\ Len(h) = Len(LiveGrid(k)) + Len(LeftEntries(k))
                  + Len(PendingEntries(k)) + Len(RootEntries(k))
      /\ Refs(h) = Refs(LiveGrid(k)) \cup Refs(LeftEntries(k))
                   \cup Refs(PendingEntries(k)) \cup Refs(RootEntries(k))
  BY <1>1, FourParts
<1> HIDE DEF h
<1> QED BY <1>1, <1>2, <1>3

LEMMA PartsHeldNext == (LoadInv => HoldingParts)'
  BY PartsHeld, PTL

LeafNodes == FileEntries(TRUE)

InnerNodes == FileEntries(FALSE)

Holdings == [k \in 1 .. Len(levels) |-> Holding(k)]

HoldingsAre ==
  /\ Holdings \in Seq(Seq(Entry)) /\ Len(Holdings) = Len(levels) /\ Len(levels) # 0
  /\ \A k \in 1 .. Len(levels) : Holdings[k] = Holding(k) /\ Holding(k) \in Seq(Entry)
  /\ Upper(Holdings) \in Seq(Entry)
  /\ file \in Seq(Node)
  /\ LeafNodes \in Seq(Entry) /\ InnerNodes \in Seq(Entry)

LEMMA HoldingsHeld == LoadInv => HoldingsAre
<1> SUFFICES ASSUME LoadInv PROVE HoldingsAre
  OBVIOUS
<1>1. \A k \in 1 .. Len(levels) : Holding(k) \in Seq(Entry)
  BY PartsHeld DEF HoldingParts
<1>2. Len(levels) \in Nat /\ Len(levels) # 0
  <2>1. levels \in Seq(Level) /\ cur \in 1 .. Len(levels)
    BY DEF LoadInv, IInv, TypeOK
  <2> QED BY <2>1
<1>3. Holdings \in [1 .. Len(levels) -> Seq(Entry)]
  BY <1>1 DEF Holdings
<1>4. Holdings \in Seq(Seq(Entry)) /\ Len(Holdings) = Len(levels)
  BY <1>2, <1>3
<1>5. \A k \in 1 .. Len(levels) : Holdings[k] = Holding(k)
  BY DEF Holdings
<1>6. Upper(Holdings) \in Seq(Entry)
  BY <1>2, <1>4, UpperType
<1>7. file \in Seq(Node)
  BY DEF LoadInv, IInv, TypeOK, Node
<1>8. LeafNodes \in Seq(Entry) /\ InnerNodes \in Seq(Entry)
  BY <1>7, FileEntriesAs, NodeEntriesType DEF LeafNodes, InnerNodes
<1> QED BY <1>1, <1>2, <1>4, <1>5, <1>6, <1>7, <1>8 DEF HoldingsAre

LEMMA HoldingsHeldNext == (LoadInv => HoldingsAre)'
  BY HoldingsHeld, PTL

(* EntriesKept by numbers of entries.                                      *)
KeptCounts ==
  /\ Len(LeafNodes) + Len(Holding(1)) = loaded
  /\ Refs(LeafNodes) \cup Refs(Holding(1)) = 1 .. loaded
  /\ Len(InnerNodes) + Len(Upper(Holdings))
       = (IF header.root = 0 THEN Len(file) ELSE Len(file) - 1)
  /\ Refs(InnerNodes) \cup Refs(Upper(Holdings)) = (1 .. Len(file)) \ {header.root}

LEMMA RefersByCount ==
  ASSUME NEW s \in Seq(Entry), NEW t \in Seq(Entry), NEW S,
         Len(s) + Len(t) = Cardinality(S), Refs(s) \cup Refs(t) = S
  PROVE  RefersOnceTo(s \o t, S)
<1>1. Len(s \o t) = Cardinality(S)
  BY ConcatLen
<1>2. Refs(s \o t) = S
  BY ConcatRefs
<1> QED BY <1>1, <1>2 DEF RefersOnceTo, Refs

LEMMA KeptByCounts == LoadInv /\ KeptCounts => EntriesKept
<1> SUFFICES ASSUME LoadInv, KeptCounts PROVE EntriesKept
  OBVIOUS
<1>1. HoldingsAre
  BY HoldingsHeld
<1>2. loaded \in Nat /\ Len(file) \in Nat
  BY <1>1 DEF HoldingsAre, LoadInv, IInv, TypeOK
<1>3. HeldOnLevels(1, 1) \in Seq(Entry) /\ Alike(Holding(1), HeldOnLevels(1, 1))
  <2> DEFINE s == [i \in 1 .. 1 - 1 + 1 |-> Holding(i + 1 - 1)]
             x == Holding(1)
             t == Append(<< >>, x)
  <2>1. x \in Seq(Entry) /\ << >> \in Seq(Seq(Entry))
    BY <1>1 DEF HoldingsAre
  <2>2. t \in Seq(Seq(Entry)) /\ Len(t) = 1 /\ t[1] = x
    <3> HIDE DEF x
    <3> QED BY <2>1
  <2>3. 1 .. 1 - 1 + 1 = 1 .. 1 /\ 1 + 1 - 1 = 1 /\ 1 \in 1 .. 1
    OBVIOUS
  <2>4. s[1] = x /\ s \in [1 .. 1 -> Seq(Entry)]
    <3>1. \A i \in 1 .. 1 : i + 1 - 1 = 1
      OBVIOUS
    <3> QED BY <2>1, <2>3, <3>1
  <2>5. s \in Seq(Seq(Entry)) /\ Len(s) = 1
    <3> HIDE DEF s
    <3> QED BY <2>4, FunctionSequence
  <2>6. HeldOnLevels(1, 1) = FlattenSeq(s)
    BY DEF HeldOnLevels, Holding
  <2> HIDE DEF s, t, x
  <2>7. s = t
    <3>1. \A i \in 1 .. Len(s) : s[i] = t[i]
      BY <2>2, <2>4, <2>5
    <3> QED BY <2>2, <2>5, <3>1, SameSequence
  <2>8. FlattenSeq(<< >>) = << >>
    BY FlattenNothing
  <2>9. Grows(<< >>, FlattenSeq(t), Len(x), Refs(x))
    BY <2>1, <2>8, FlattenAppend DEF t
  <2>10. Len(x) \in Nat /\ Len(<< >>) = 0
    BY <2>1
  <2>11. Len(FlattenSeq(t)) = Len(x) /\ Refs(FlattenSeq(t)) = Refs(x)
    BY <2>9, <2>10, FewRefs DEF Grows
  <2>12. FlattenSeq(s) \in Seq(Entry)
    BY <2>5, FlattenSeqType
  <2> QED BY <2>1, <2>6, <2>7, <2>11, <2>12, AlikeParts DEF x
<1>4. HeldOnLevels(2, Len(levels)) = Upper(Holdings)
  <2> DEFINE n == Len(levels)
             s == [i \in 1 .. n - 2 + 1 |-> Holding(i + 2 - 1)]
             t == UpperCells(Holdings)
  <2>1. /\ t \in Seq(Seq(Entry)) /\ Len(t) = n - 1
        /\ \A i \in 1 .. n - 1 : t[i] = Holdings[i + 1] /\ i + 1 \in 2 .. n
    BY <1>1, UpperType DEF HoldingsAre
  <2>2. HeldOnLevels(2, Len(levels)) = FlattenSeq(s)
    BY DEF HeldOnLevels, Holding
  <2>3. n \in Nat /\ n # 0
    BY DEF LoadInv, IInv, TypeOK
  <2> HIDE DEF t, n
  <2>4. n - 2 + 1 = n - 1 /\ n - 1 \in Nat /\ \A i \in 1 .. n - 1 : i + 2 - 1 = i + 1
    BY <2>3
  <2>5. \A i \in 1 .. n - 1 : s[i] = Holding(i + 1)
    BY <2>4
  <2>6. \A k \in 2 .. n : k \in 1 .. n
    BY <2>3
  <2>7. \A i \in 1 .. n - 1 : s[i] = t[i] /\ t[i] \in Seq(Entry)
    BY <1>1, <2>1, <2>5, <2>6 DEF HoldingsAre, n
  <2>8. s \in Seq(Seq(Entry)) /\ Len(s) = n - 1
    <3>1. s \in [1 .. n - 1 -> Seq(Entry)]
      BY <2>4, <2>7
    <3> HIDE DEF s
    <3> QED BY <2>4, <3>1
  <2> HIDE DEF s
  <2>9. s = t
    BY <2>1, <2>7, <2>8, SameSequence
  <2> QED BY <2>2, <2>9 DEF Upper, t
<1>5. RefersOnceTo(LeafNodes \o HeldOnLevels(1, 1), 1 .. loaded)
  <2>1. Cardinality(1 .. loaded) = loaded
    BY <1>2, FS_Interval
  <2>2. /\ LeafNodes \in Seq(Entry) /\ Holding(1) \in Seq(Entry)
    <3>1. 1 \in 1 .. Len(levels)
      BY LevelsExist
    <3> QED BY <1>1, <3>1 DEF HoldingsAre
  <2>3. /\ Len(HeldOnLevels(1, 1)) = Len(Holding(1))
        /\ Refs(HeldOnLevels(1, 1)) = Refs(Holding(1))
    BY <1>3, <2>2, AlikeParts
  <2> QED BY <1>3, <2>1, <2>2, <2>3, RefersByCount DEF KeptCounts
<1>6. RefersOnceTo(InnerNodes \o HeldOnLevels(2, Len(levels)),
                   (1 .. Len(file)) \ {header.root})
  <2> DEFINE S == (1 .. Len(file)) \ {header.root}
  <2>1. Cardinality(1 .. Len(file)) = Len(file) /\ IsFiniteSet(1 .. Len(file))
    BY <1>2, FS_Interval, SMTT(60)
  <2>2. Cardinality(S) = IF header.root = 0 THEN Len(file) ELSE Len(file) - 1
    <3>1. header.root # 0 => header.root \in 1 .. Len(file)
      BY DEF LoadInv, IInv, TypeOK, Phases
    <3>2. header.root = 0 => S = 1 .. Len(file)
      OBVIOUS
    <3>3. header.root # 0 => Cardinality(S) = Len(file) - 1
      BY <2>1, <3>1, FS_RemoveElement
    <3> QED BY <2>1, <3>2, <3>3
  <2>3. InnerNodes \in Seq(Entry) /\ Upper(Holdings) \in Seq(Entry)
    BY <1>1 DEF HoldingsAre
  <2> HIDE DEF S
  <2>4. RefersOnceTo(InnerNodes \o Upper(Holdings), S)
    <3>1. Refs(InnerNodes) \cup Refs(Upper(Holdings)) = S
      BY DEF KeptCounts, S
    <3> QED BY <2>2, <2>3, <3>1, RefersByCount DEF KeptCounts
  <2> QED BY <1>4, <2>4 DEF S
<1> QED BY <1>5, <1>6 DEF EntriesKept, LeafNodes, InnerNodes
-----------------------------------------------------------------------------
(***************************************************************************)
(* The counts kept by a step, from what it does to the levels              *)
(***************************************************************************)

HeldAlike ==
  Len(levels') = Len(levels) /\ \A k \in 1 .. Len(levels) : Alike(Holding(k), Holding(k)')

NothingGone == HeldAlike /\ UNCHANGED <<file, header, loaded>>

TupleComes ==
  /\ Len(levels') = Len(levels)
  /\ Grows(Holding(1), Holding(1)', 1, {loaded + 1})
  /\ \A k \in 2 .. Len(levels) : Alike(Holding(k), Holding(k)')
  /\ UNCHANGED <<file, header>> /\ loaded' = loaded + 1

(* The root is made of what the last level holds, and still holds it.      *)
RootMade(es) ==
  /\ HeldAlike /\ es \in Seq(Entry) /\ Refs(es) = Refs(Holding(Len(levels)))
  /\ file' = Append(file, [leaf |-> FALSE, entries |-> es])
  /\ header.root = 0 /\ header'.root = Len(file) + 1 /\ header'.height = Len(levels) - 1
  /\ loaded' = loaded

(* A node of level k, its entries being es, is written, and level k + 1    *)
(* receives the entry that leads to it.                                    *)
NodeGone(k, es) ==
  /\ k \in 1 .. Len(levels) /\ es \in Seq(Entry)
  /\ Len(levels') = (IF k = Len(levels) THEN Len(levels) + 1 ELSE Len(levels))
  /\ Grows(Holding(k)', Holding(k), Len(es), Refs(es))
  /\ Grows(IF k = Len(levels) THEN << >> ELSE Holding(k + 1), Holding(k + 1)',
           1, {Len(file) + 1})
  /\ \A j \in 1 .. Len(levels) : j # k /\ j # k + 1 => Alike(Holding(j), Holding(j)')
  /\ file' = Append(file, [leaf |-> k = 1, entries |-> es])
  /\ header.root = 0 /\ header' = header /\ loaded' = loaded

(* Every step does one of these.                                           *)
PassedOn ==
  NothingGone \/ TupleComes \/ (\E es : RootMade(es)) \/ (\E k, es : NodeGone(k, es))

LEMMA HeldAlikeUpper ==
  ASSUME HoldingsAre, HoldingsAre', Len(levels') = Len(levels),
         \A k \in 2 .. Len(levels) : Alike(Holding(k), Holding(k)')
  PROVE  /\ Len(Upper(Holdings)') = Len(Upper(Holdings))
         /\ Refs(Upper(Holdings)') = Refs(Upper(Holdings))
<1> DEFINE h == Holdings
           g == Holdings'
<1>1. /\ h \in Seq(Seq(Entry)) /\ Len(h) = Len(levels) /\ Len(h) # 0
      /\ \A k \in 1 .. Len(levels) : h[k] = Holding(k)
      /\ Upper(h) \in Seq(Entry) /\ Upper(h) = Upper(Holdings)
  BY DEF HoldingsAre
<1>2. /\ g \in Seq(Seq(Entry)) /\ Len(g) = Len(levels')
      /\ \A k \in 1 .. Len(levels') : g[k] = Holding(k)'
      /\ Upper(g) \in Seq(Entry) /\ Upper(g) = Upper(Holdings)'
  BY DEF HoldingsAre, Upper, UpperCells
<1>3. \A k \in 2 .. Len(h) : k \in 1 .. Len(levels) /\ k \in 1 .. Len(levels')
  BY <1>1
<1> HIDE DEF h, g
<1>4. \A k \in 2 .. Len(h) : Alike(h[k], g[k])
  BY <1>1, <1>2, <1>3
<1>5. Alike(Upper(h), Upper(g))
  BY <1>1, <1>2, <1>4, UpperAlike
<1> QED BY <1>1, <1>2, <1>5, AlikeParts

LEMMA KeptAlike ==
  ASSUME LoadInv, LoadInv', KeptCounts, NothingGone
  PROVE  KeptCounts'
<1>0. HeldAlike /\ UNCHANGED <<file, header, loaded>>
  BY DEF NothingGone
<1>1. HoldingsAre /\ HoldingsAre'
  BY <1>0, HoldingsHeld, HoldingsHeldNext
<1>2. 1 \in 1 .. Len(levels) /\ \A k \in 2 .. Len(levels) : k \in 1 .. Len(levels)
  BY LevelsExist
<1>3. Len(Holding(1)') = Len(Holding(1)) /\ Refs(Holding(1)') = Refs(Holding(1))
  BY <1>0, <1>1, <1>2, AlikeParts DEF HoldingsAre, HeldAlike
<1>4. /\ Len(Upper(Holdings)') = Len(Upper(Holdings))
      /\ Refs(Upper(Holdings)') = Refs(Upper(Holdings))
  BY <1>0, <1>1, <1>2, HeldAlikeUpper DEF HeldAlike
<1>5. /\ LeafNodes' = LeafNodes
      /\ InnerNodes' = InnerNodes
  BY <1>0 DEF FileEntries, LeafNodes, InnerNodes
<1>6. /\ Len(LeafNodes') = Len(LeafNodes)
      /\ Refs(LeafNodes') = Refs(LeafNodes)
      /\ Len(InnerNodes') = Len(InnerNodes)
      /\ Refs(InnerNodes') = Refs(InnerNodes)
  BY <1>0, <1>5
<1>7. /\ Len(Holding(1))' = Len(Holding(1)') /\ Refs(Holding(1))' = Refs(Holding(1)')
      /\ Len(Upper(Holdings))' = Len(Upper(Holdings)')
      /\ Refs(Upper(Holdings))' = Refs(Upper(Holdings)')
      /\ Len(LeafNodes)' = Len(LeafNodes')
      /\ Refs(LeafNodes)' = Refs(LeafNodes')
      /\ Len(InnerNodes)' = Len(InnerNodes')
      /\ Refs(InnerNodes)' = Refs(InnerNodes')
  BY <1>0 DEF Refs
<1> QED BY <1>0, <1>3, <1>4, <1>6, <1>7 DEF KeptCounts

LEMMA KeptLoaded ==
  ASSUME LoadInv, LoadInv', KeptCounts, TupleComes
  PROVE  KeptCounts'
<1>0. /\ Len(levels') = Len(levels)
      /\ Grows(Holding(1), Holding(1)', 1, {loaded + 1})
      /\ \A k \in 2 .. Len(levels) : Alike(Holding(k), Holding(k)')
      /\ UNCHANGED <<file, header>> /\ loaded' = loaded + 1
  BY DEF TupleComes
<1>1. HoldingsAre /\ HoldingsAre'
  BY <1>0, HoldingsHeld, HoldingsHeldNext
<1>2. 1 \in 1 .. Len(levels) /\ loaded \in Nat
  BY <1>0, LevelsExist DEF LoadInv, IInv, TypeOK
<1>3. /\ Len(Holding(1)') = Len(Holding(1)) + 1
      /\ Refs(Holding(1)') = Refs(Holding(1)) \cup {loaded + 1}
  BY <1>0 DEF Grows
<1>4. /\ Len(Upper(Holdings)') = Len(Upper(Holdings))
      /\ Refs(Upper(Holdings)') = Refs(Upper(Holdings))
  BY <1>0, <1>1, HeldAlikeUpper
<1>5. /\ LeafNodes' = LeafNodes
      /\ InnerNodes' = InnerNodes
  BY <1>0 DEF FileEntries, LeafNodes, InnerNodes
<1>6. /\ Len(LeafNodes') = Len(LeafNodes)
      /\ Refs(LeafNodes') = Refs(LeafNodes)
      /\ Len(InnerNodes') = Len(InnerNodes)
      /\ Refs(InnerNodes') = Refs(InnerNodes)
      /\ Len(LeafNodes) \in Nat /\ Len(Holding(1)) \in Nat
  <2>1. LeafNodes \in Seq(Entry) /\ Holding(1) \in Seq(Entry)
    BY <1>0, <1>1, <1>2 DEF HoldingsAre
  <2> QED BY <1>0, <1>5, <2>1
<1>7. Len(LeafNodes') + Len(Holding(1)') = loaded'
  <2> DEFINE a == Len(LeafNodes)
             b == Len(Holding(1))
             c == Len(LeafNodes')
             d == Len(Holding(1)')
  <2>1. a \in Nat /\ b \in Nat /\ c = a /\ d = b + 1 /\ a + b = loaded /\ loaded' = loaded + 1
    BY <1>0, <1>3, <1>6 DEF KeptCounts
  <2> HIDE DEF a, b, c, d
  <2>2. c + d = loaded'
    BY <1>0, <2>1
  <2> QED BY <1>0, <2>2 DEF c, d
<1>8. Refs(LeafNodes') \cup Refs(Holding(1)') = 1 .. loaded'
  <2>1. 1 .. loaded' = (1 .. loaded) \cup {loaded + 1}
    BY <1>0, <1>2
  <2>2. Refs(LeafNodes) \cup Refs(Holding(1)) = 1 .. loaded
    BY <1>0 DEF KeptCounts
  <2> QED BY <1>0, <1>3, <1>6, <2>1, <2>2
<1>9. /\ Len(InnerNodes') + Len(Upper(Holdings)')
           = (IF header'.root = 0 THEN Len(file') ELSE Len(file') - 1)
      /\ Refs(InnerNodes') \cup Refs(Upper(Holdings)') = (1 .. Len(file')) \ {header'.root}
  BY <1>0, <1>4, <1>6 DEF KeptCounts
<1> QED BY <1>0, <1>7, <1>8, <1>9 DEF KeptCounts

LEMMA KeptRoot ==
  ASSUME LoadInv, LoadInv', KeptCounts, NEW es, RootMade(es)
  PROVE  KeptCounts'
<1>0. /\ HeldAlike /\ es \in Seq(Entry)
      /\ file' = Append(file, [leaf |-> FALSE, entries |-> es])
      /\ header.root = 0 /\ header'.root = Len(file) + 1 /\ loaded' = loaded
  BY DEF RootMade
<1>1. HoldingsAre /\ HoldingsAre'
  BY <1>0, HoldingsHeld, HoldingsHeldNext
<1>2. 1 \in 1 .. Len(levels) /\ \A k \in 2 .. Len(levels) : k \in 1 .. Len(levels)
  BY LevelsExist
<1>3. Len(Holding(1)') = Len(Holding(1)) /\ Refs(Holding(1)') = Refs(Holding(1))
  BY <1>0, <1>1, <1>2, AlikeParts DEF HoldingsAre, HeldAlike
<1>4. /\ Len(Upper(Holdings)') = Len(Upper(Holdings))
      /\ Refs(Upper(Holdings)') = Refs(Upper(Holdings))
  BY <1>0, <1>1, <1>2, HeldAlikeUpper DEF HeldAlike
<1> DEFINE node == [leaf |-> FALSE, entries |-> es]
           r == Len(file) + 1
<1>5. node \in Node /\ file \in Seq(Node) /\ r \in {0, Len(file) + 1} /\ r = Len(file) + 1
  BY <1>0, <1>1 DEF HoldingsAre, Node
<1>6. ASSUME NEW leaf
      PROVE  /\ Len(NodeEntries(file', r, leaf)) = Len(NodeEntries(file, 0, leaf))
             /\ Refs(NodeEntries(file', r, leaf)) = Refs(NodeEntries(file, 0, leaf))
  <2> DEFINE x == << >>
  <2>1. x \in Seq(Entry) /\ Len(x) = 0 /\ Refs(x) = {}
    BY <1>0, FewRefs
  <2>2. file' = Append(file, node)
    BY <1>0
  <2> HIDE DEF node, x, r
  <2>3. x = IF Len(file) + 1 # r /\ node.leaf = leaf THEN node.entries ELSE << >>
    BY <1>0, <1>5 DEF x
  <2>4. Grows(NodeEntries(file, 0, leaf), NodeEntries(Append(file, node), r, leaf),
              Len(x), Refs(x))
    BY <1>0, <1>5, <2>1, <2>3, NodeEntriesAppend
  <2>5. NodeEntries(file, 0, leaf) \in Seq(Entry)
    BY <1>0, <1>5, NodeEntriesType
  <2> QED BY <1>0, <2>1, <2>2, <2>4, <2>5 DEF Grows
<1>7. /\ LeafNodes' = NodeEntries(file', r, TRUE) /\ InnerNodes' = NodeEntries(file', r, FALSE)
      /\ LeafNodes = NodeEntries(file, 0, TRUE) /\ InnerNodes = NodeEntries(file, 0, FALSE)
  BY <1>0 DEF LeafNodes, InnerNodes, FileEntries, NodeEntries, NodeCells
<1>8. /\ Len(LeafNodes') = Len(LeafNodes)
      /\ Refs(LeafNodes') = Refs(LeafNodes)
      /\ Len(InnerNodes') = Len(InnerNodes)
      /\ Refs(InnerNodes') = Refs(InnerNodes)
  BY <1>0, <1>6, <1>7
<1>9. Len(file') = Len(file) + 1 /\ Len(file) \in Nat /\ header'.root # 0
  BY <1>0, <1>5
<1>10. (1 .. Len(file')) \ {header'.root} = (1 .. Len(file)) \ {header.root}
  BY <1>0, <1>9
<1>11. Len(LeafNodes') + Len(Holding(1)') = loaded'
  BY <1>0, <1>3, <1>8 DEF KeptCounts
<1>12. Refs(LeafNodes') \cup Refs(Holding(1)') = 1 .. loaded'
  BY <1>0, <1>3, <1>8 DEF KeptCounts
<1>13. Len(InnerNodes') + Len(Upper(Holdings)') = Len(file') - 1
  <2>1. Len(InnerNodes) + Len(Upper(Holdings)) = Len(file)
    BY <1>0 DEF KeptCounts
  <2>2. Len(file') - 1 = Len(file)
    BY <1>0, <1>9
  <2> QED BY <1>0, <1>4, <1>8, <2>1, <2>2
<1>14. Refs(InnerNodes') \cup Refs(Upper(Holdings)') = (1 .. Len(file')) \ {header'.root}
  BY <1>0, <1>4, <1>8, <1>10 DEF KeptCounts
<1> QED BY <1>0, <1>9, <1>11, <1>12, <1>13, <1>14 DEF KeptCounts

LEMMA KeptNodeGone ==
  ASSUME LoadInv, LoadInv', KeptCounts, NEW k, NEW es, NodeGone(k, es)
  PROVE  KeptCounts'
<1>1. HoldingsAre /\ HoldingsAre'
  BY HoldingsHeld, HoldingsHeldNext
<1>2. /\ k \in 1 .. Len(levels) /\ es \in Seq(Entry) /\ header.root = 0 /\ header'.root = 0
      /\ loaded' = loaded
  BY DEF NodeGone
<1> DEFINE h == Holdings
           g == Holdings'
           n == Len(es)
           R == Refs(es)
           r == Len(file) + 1
<1>3. /\ h \in Seq(Seq(Entry)) /\ Len(h) = Len(levels) /\ Len(h) # 0
      /\ \A j \in 1 .. Len(levels) : h[j] = Holding(j) /\ Holding(j) \in Seq(Entry)
      /\ Upper(h) \in Seq(Entry) /\ Upper(h) = Upper(Holdings)
  BY <1>1 DEF HoldingsAre
<1>4. /\ g \in Seq(Seq(Entry)) /\ Len(g) = Len(levels')
      /\ \A j \in 1 .. Len(levels') : g[j] = Holding(j)' /\ Holding(j)' \in Seq(Entry)
      /\ Upper(g) \in Seq(Entry) /\ Upper(g) = Upper(Holdings)'
  BY <1>1 DEF HoldingsAre, Upper, UpperCells
<1>5. n \in Nat
  BY <1>2
<1>6. /\ Grows(Holding(k)', Holding(k), n, R)
      /\ Grows(IF k = Len(levels) THEN << >> ELSE Holding(k + 1), Holding(k + 1)', 1, {r})
      /\ \A j \in 1 .. Len(levels) : j # k /\ j # k + 1 => Alike(Holding(j), Holding(j)')
      /\ Len(levels') = (IF k = Len(levels) THEN Len(levels) + 1 ELSE Len(levels))
  BY DEF NodeGone
<1>7. /\ 1 .. Len(levels) \subseteq 1 .. Len(levels') /\ 1 \in 1 .. Len(levels)
      /\ k + 1 \in 1 .. Len(levels') /\ (k # Len(levels) => k + 1 \in 1 .. Len(levels))
      /\ (k # 1 => 1 # k + 1) /\ k \in Int
  BY <1>2, <1>3, <1>6
<1> HIDE DEF h, g, n, R, r
<1>8. PICK m \in Seq(Entry) :
        /\ IF k = 1 THEN Alike(m, Upper(h)) ELSE Grows(m, Upper(h), n, R)
        /\ Grows(m, Upper(g), 1, {r})
  <2>1. Len(g) = (IF k = Len(h) THEN Len(h) + 1 ELSE Len(h))
    BY <1>3, <1>4, <1>6
  <2>2. Grows(g[k], h[k], n, R)
    BY <1>2, <1>3, <1>4, <1>6, <1>7
  <2>3. Grows(IF k = Len(h) THEN << >> ELSE h[k + 1], g[k + 1], 1, {r})
    BY <1>3, <1>4, <1>6, <1>7
  <2>4. ASSUME NEW j \in 1 .. Len(h), j # k, j # k + 1 PROVE Alike(h[j], g[j])
    <3>1. j \in 1 .. Len(levels) /\ j \in 1 .. Len(levels')
      BY <1>3, <1>7
    <3>2. Alike(Holding(j), Holding(j)')
      BY <1>6, <2>4, <3>1
    <3>3. h[j] = Holding(j) /\ g[j] = Holding(j)'
      BY <1>3, <1>4, <3>1
    <3> QED BY <3>2, <3>3
  <2>5. k \in 1 .. Len(h)
    BY <1>2, <1>3
  <2>6. h \in Seq(Seq(Entry)) /\ g \in Seq(Seq(Entry))
    BY <1>3, <1>4
  <2> QED BY <1>5, <2>1, <2>2, <2>3, <2>4, <2>5, <2>6, UpperSaves
<1>9. /\ Len(Upper(Holdings)') = Len(m) + 1 /\ Refs(Upper(Holdings)') = Refs(m) \cup {r}
      /\ Len(m) \in Nat /\ Len(Upper(Holdings)) = Len(m) + (IF k = 1 THEN 0 ELSE n)
      /\ Refs(Upper(Holdings)) = Refs(m) \cup (IF k = 1 THEN {} ELSE R)
  BY <1>3, <1>4, <1>8 DEF Alike, Grows
<1>10. /\ Len(Holding(1)) = Len(Holding(1)') + (IF k = 1 THEN n ELSE 0)
       /\ Refs(Holding(1)) = Refs(Holding(1)') \cup (IF k = 1 THEN R ELSE {})
       /\ Len(Holding(1)') \in Nat
  <2>1. Holding(1)' \in Seq(Entry) /\ Holding(1) \in Seq(Entry)
    BY <1>3, <1>4, <1>7
  <2>2. CASE k = 1
    BY <1>6, <2>1, <2>2 DEF Grows
  <2>3. CASE k # 1
    <3>1. Alike(Holding(1), Holding(1)')
      BY <1>6, <1>7, <2>3
    <3>2. Len(Holding(1)') = Len(Holding(1)) /\ Refs(Holding(1)') = Refs(Holding(1))
      BY <2>1, <3>1, AlikeParts
    <3> QED BY <2>1, <2>3, <3>2
  <2> QED BY <2>2, <2>3
<1>11. /\ Len(LeafNodes') = Len(LeafNodes) + (IF k = 1 THEN n ELSE 0)
       /\ Refs(LeafNodes') = Refs(LeafNodes) \cup (IF k = 1 THEN R ELSE {})
       /\ Len(InnerNodes') = Len(InnerNodes) + (IF k = 1 THEN 0 ELSE n)
       /\ Refs(InnerNodes') = Refs(InnerNodes) \cup (IF k = 1 THEN {} ELSE R)
       /\ Len(LeafNodes) \in Nat /\ Len(InnerNodes) \in Nat
  <2> DEFINE node == [leaf |-> k = 1, entries |-> es]
  <2>1. node \in Node /\ file \in Seq(Node) /\ file' = Append(file, node)
    BY <1>1, <1>2 DEF HoldingsAre, Node, NodeGone
  <2>2. 0 \in {0, Len(file) + 1} /\ Len(file) + 1 # 0
    BY <2>1
  <2>3. node.entries = es /\ (node.leaf <=> k = 1) /\ node.leaf \in BOOLEAN
    OBVIOUS
  <2>4. /\ LeafNodes' = NodeEntries(file', 0, TRUE)
        /\ InnerNodes' = NodeEntries(file', 0, FALSE)
        /\ LeafNodes = NodeEntries(file, 0, TRUE)
        /\ InnerNodes = NodeEntries(file, 0, FALSE)
    BY <1>2 DEF LeafNodes, InnerNodes, FileEntries, NodeEntries, NodeCells
  <2>a. /\ LeafNodes \in Seq(Entry) /\ InnerNodes \in Seq(Entry)
        /\ Len(LeafNodes) \in Nat /\ Len(InnerNodes) \in Nat
    BY <1>1 DEF HoldingsAre
  <2> HIDE DEF node
  <2>5. /\ (k = 1) => node.leaf = TRUE /\ node.leaf # FALSE
        /\ (k # 1) => node.leaf = FALSE /\ node.leaf # TRUE
    BY <2>3
  <2> DEFINE y == << >>
  <2>6. y \in Seq(Entry) /\ Len(y) = 0 /\ Refs(y) = {}
    BY FewRefs
  <2>7. CASE k = 1
    <3>1. es = IF Len(file) + 1 # 0 /\ node.leaf = TRUE THEN node.entries ELSE << >>
      BY <2>2, <2>3, <2>5, <2>7
    <3>2. y = IF Len(file) + 1 # 0 /\ node.leaf = FALSE THEN node.entries ELSE << >>
      BY <2>5, <2>7
    <3> HIDE DEF y
    <3>3. Grows(LeafNodes, LeafNodes', n, R)
      <4>1. Grows(NodeEntries(file, 0, TRUE), NodeEntries(Append(file, node), 0, TRUE), n, R)
        BY <1>2, <2>1, <2>2, <3>1, NodeEntriesAppend DEF n, R
      <4> QED BY <2>1, <2>4, <4>1
    <3>4. Grows(InnerNodes, InnerNodes', Len(y), Refs(y))
      <4>1. Grows(NodeEntries(file, 0, FALSE), NodeEntries(Append(file, node), 0, FALSE),
                  Len(y), Refs(y))
        BY <2>1, <2>2, <2>6, <3>2, NodeEntriesAppend
      <4> QED BY <2>1, <2>4, <4>1
    <3> QED BY <2>a, <2>6, <2>7, <3>3, <3>4 DEF Grows
  <2>8. CASE k # 1
    <3>1. es = IF Len(file) + 1 # 0 /\ node.leaf = FALSE THEN node.entries ELSE << >>
      BY <2>2, <2>3, <2>5, <2>8
    <3>2. y = IF Len(file) + 1 # 0 /\ node.leaf = TRUE THEN node.entries ELSE << >>
      BY <2>5, <2>8
    <3> HIDE DEF y
    <3>3. Grows(InnerNodes, InnerNodes', n, R)
      <4>1. Grows(NodeEntries(file, 0, FALSE), NodeEntries(Append(file, node), 0, FALSE), n, R)
        BY <1>2, <2>1, <2>2, <3>1, NodeEntriesAppend DEF n, R
      <4> QED BY <2>1, <2>4, <4>1
    <3>4. Grows(LeafNodes, LeafNodes', Len(y), Refs(y))
      <4>1. Grows(NodeEntries(file, 0, TRUE), NodeEntries(Append(file, node), 0, TRUE),
                  Len(y), Refs(y))
        BY <2>1, <2>2, <2>6, <3>2, NodeEntriesAppend
      <4> QED BY <2>1, <2>4, <4>1
    <3> QED BY <2>a, <2>6, <2>8, <3>3, <3>4 DEF Grows
  <2> QED BY <2>7, <2>8
<1>12. Len(file') = Len(file) + 1 /\ Len(file) \in Nat
  BY <1>1 DEF HoldingsAre, NodeGone
<1>13. Len(LeafNodes') + Len(Holding(1)') = loaded'
  <2> DEFINE a == Len(LeafNodes)
             b == Len(Holding(1))
             c == Len(LeafNodes')
             d == Len(Holding(1)')
  <2>1. /\ a \in Nat /\ d \in Nat /\ c = a + (IF k = 1 THEN n ELSE 0)
        /\ b = d + (IF k = 1 THEN n ELSE 0) /\ a + b = loaded
    BY <1>10, <1>11 DEF KeptCounts
  <2> HIDE DEF a, b, c, d
  <2>2. c + d = loaded
    BY <1>5, <2>1
  <2> QED BY <1>2, <2>2 DEF c, d
<1>14. Refs(LeafNodes') \cup Refs(Holding(1)') = 1 .. loaded'
  <2>1. Refs(LeafNodes) \cup Refs(Holding(1)) = 1 .. loaded
    BY DEF KeptCounts
  <2> QED BY <1>2, <1>10, <1>11, <2>1
<1>15. Len(InnerNodes') + Len(Upper(Holdings)') = Len(file')
  <2>1. Len(InnerNodes) + Len(Upper(Holdings)) = Len(file)
    BY <1>2 DEF KeptCounts
  <2> DEFINE a == Len(InnerNodes)
             b == Len(Upper(Holdings))
             c == Len(InnerNodes')
             d == Len(Upper(Holdings)')
             o == Len(m)
  <2>2. /\ a \in Nat /\ o \in Nat /\ c = a + (IF k = 1 THEN 0 ELSE n)
        /\ b = o + (IF k = 1 THEN 0 ELSE n) /\ d = o + 1 /\ a + b = Len(file)
    BY <1>9, <1>11, <2>1
  <2> HIDE DEF a, b, c, d, o
  <2>3. c + d = Len(file) + 1
    BY <1>5, <2>2
  <2> QED BY <1>12, <2>3 DEF c, d
<1>16. Refs(InnerNodes') \cup Refs(Upper(Holdings)') = (1 .. Len(file')) \ {header'.root}
  <2>1. Refs(InnerNodes) \cup Refs(Upper(Holdings)) = 1 .. Len(file)
    BY <1>2 DEF KeptCounts
  <2>2. (1 .. Len(file')) \ {header'.root} = (1 .. Len(file)) \cup {r}
    BY <1>2, <1>12 DEF r
  <2> QED BY <1>9, <1>11, <2>1, <2>2
<1> QED BY <1>2, <1>13, <1>14, <1>15, <1>16 DEF KeptCounts
-----------------------------------------------------------------------------
(***************************************************************************)
(* What a step does to what one level holds                                *)
(***************************************************************************)

PendingIs ==
  \A k : /\ \A i \in pending :
              PendingEntries(k) = (IF i.level = k THEN <<i.entry>> ELSE << >>)
         /\ pending = {} => PendingEntries(k) = << >>

LEMMA PendingHeld == LoadInv => PendingIs
  BY PendingAs DEF PendingIs

LEMMA PendingHeldNext == (LoadInv => PendingIs)'
  BY PendingHeld, PTL

LEMMA HeldSame ==
  ASSUME NEW k, LiveGrid(k)' = LiveGrid(k), LeftEntries(k)' = LeftEntries(k),
         PendingEntries(k)' = PendingEntries(k), RootEntries(k)' = RootEntries(k)
  PROVE  Holding(k)' = Holding(k)
  BY DEF Holding

(* The grid and the insertion of the level together lose n entries that    *)
(* refer to R.                                                             *)
LEMMA HeldShrinks ==
  ASSUME LoadInv, LoadInv', NEW k \in 1 .. Len(levels), k \in 1 .. Len(levels'),
         LeftEntries(k)' = LeftEntries(k), RootEntries(k)' = RootEntries(k),
         NEW n \in Nat, NEW R,
         Len(LiveGrid(k)) + Len(PendingEntries(k))
           = Len(LiveGrid(k)') + Len(PendingEntries(k)') + n,
         Refs(LiveGrid(k)) \cup Refs(PendingEntries(k))
           = Refs(LiveGrid(k)') \cup Refs(PendingEntries(k)') \cup R
  PROVE  Grows(Holding(k)', Holding(k), n, R)
<1>1. HoldingParts /\ HoldingParts'
  BY PartsHeld, PartsHeldNext
<1> DEFINE a == LiveGrid(k)
           b == LeftEntries(k)
           c == PendingEntries(k)
           d == RootEntries(k)
           h == Holding(k)
           aa == LiveGrid(k)'
           cc == PendingEntries(k)'
           hh == Holding(k)'
<1>2. /\ a \in Seq(Entry) /\ b \in Seq(Entry) /\ c \in Seq(Entry) /\ d \in Seq(Entry)
      /\ Len(h) = Len(a) + Len(b) + Len(c) + Len(d)
      /\ Refs(h) = Refs(a) \cup Refs(b) \cup Refs(c) \cup Refs(d)
  BY <1>1 DEF HoldingParts
<1>3. /\ aa \in Seq(Entry) /\ cc \in Seq(Entry)
      /\ Len(hh) = Len(aa) + Len(b) + Len(cc) + Len(d)
      /\ Refs(hh) = Refs(aa) \cup Refs(b) \cup Refs(cc) \cup Refs(d)
  <2>1. /\ aa \in Seq(Entry) /\ cc \in Seq(Entry)
        /\ Len(hh) = Len(aa) + Len(LeftEntries(k)') + Len(cc) + Len(RootEntries(k)')
        /\ Refs(hh) = Refs(aa) \cup Refs(LeftEntries(k)') \cup Refs(cc) \cup Refs(RootEntries(k)')
    BY <1>1 DEF HoldingParts, Refs
  <2> QED BY <2>1
<1>4. /\ Len(a) + Len(c) = Len(aa) + Len(cc) + n
      /\ Refs(a) \cup Refs(c) = Refs(aa) \cup Refs(cc) \cup R
  OBVIOUS
<1> HIDE DEF a, b, c, d, h, aa, cc, hh
<1>5. Refs(h) = Refs(hh) \cup R
  BY <1>2, <1>3, <1>4
<1>6. Len(h) = Len(hh) + n
  <2> DEFINE la == Len(a)
             lb == Len(b)
             lc == Len(c)
             ld == Len(d)
             laa == Len(aa)
             lcc == Len(cc)
  <2>1. /\ la \in Nat /\ lb \in Nat /\ lc \in Nat /\ ld \in Nat /\ laa \in Nat /\ lcc \in Nat
        /\ Len(h) = la + lb + lc + ld /\ Len(hh) = laa + lb + lcc + ld
        /\ la + lc = laa + lcc + n
    BY <1>2, <1>3, <1>4
  <2> HIDE DEF la, lb, lc, ld, laa, lcc
  <2> QED BY <2>1
<1> QED BY <1>5, <1>6 DEF Grows, h, hh

(* The insertion of the level begins.                                      *)
LEMMA HeldReceives ==
  ASSUME LoadInv, LoadInv', NEW k \in 1 .. Len(levels), k \in 1 .. Len(levels'),
         LiveGrid(k)' = LiveGrid(k),
         LeftEntries(k)' = LeftEntries(k), RootEntries(k)' = RootEntries(k),
         NEW e, PendingEntries(k) = << >>, PendingEntries(k)' = <<e>>
  PROVE  Grows(Holding(k), Holding(k)', 1, {e.ref})
<1>1. HoldingParts /\ HoldingParts'
  BY PartsHeld, PartsHeldNext
<1> DEFINE a == LiveGrid(k)
           b == LeftEntries(k)
           d == RootEntries(k)
           h == Holding(k)
           hh == Holding(k)'
<1>2. /\ a \in Seq(Entry) /\ b \in Seq(Entry) /\ d \in Seq(Entry)
      /\ Len(h) = Len(a) + Len(b) + Len(<< >>) + Len(d)
      /\ Refs(h) = Refs(a) \cup Refs(b) \cup Refs(<< >>) \cup Refs(d)
  BY <1>1 DEF HoldingParts
<1>3. /\ Len(hh) = Len(a) + Len(b) + Len(<<e>>) + Len(d)
      /\ Refs(hh) = Refs(a) \cup Refs(b) \cup Refs(<<e>>) \cup Refs(d)
  <2>1. /\ Len(hh) = Len(LiveGrid(k)') + Len(LeftEntries(k)')
                     + Len(PendingEntries(k)') + Len(RootEntries(k)')
        /\ Refs(hh) = Refs(LiveGrid(k)') \cup Refs(LeftEntries(k)')
                      \cup Refs(PendingEntries(k)') \cup Refs(RootEntries(k)')
    BY <1>1 DEF HoldingParts, Refs
  <2> QED BY <2>1
<1> HIDE DEF a, b, d, h, hh
<1>4. Len(<< >>) = 0 /\ Len(<<e>>) = 1 /\ Len(a) \in Nat /\ Len(b) \in Nat /\ Len(d) \in Nat
  BY <1>2
<1>5. Refs(hh) = Refs(h) \cup {e.ref}
  BY <1>2, <1>3, FewRefs
<1>6. Len(hh) = Len(h) + 1
  BY <1>2, <1>3, <1>4
<1> QED BY <1>5, <1>6 DEF Grows, h, hh

LEMMA LiveSame ==
  ASSUME NEW k, UNCHANGED <<pc, cur, at, old, wide>>, levels'[k] = levels[k]
  PROVE  LiveGrid(k)' = LiveGrid(k) /\ LeftEntries(k)' = LeftEntries(k)
<1>1. k = cur => Old' = Old
  BY DEF Old
<1>2. k = cur => Unmoved' = Unmoved
  BY <1>1 DEF Unmoved
<1>3. LiveGrid(k)' = LiveGrid(k)
  BY <1>1, <1>2 DEF LiveGrid, GridEntries
<1> QED BY <1>3 DEF LeftEntries

LEMMA NoRoot == \A k : header.root = 0 => RootEntries(k) = << >>
  BY DEF RootEntries

LEMMA InitKept == Init => KeptCounts
<1> SUFFICES ASSUME Init PROVE KeptCounts
  OBVIOUS
<1>1. LoadInv /\ HoldingsAre /\ HoldingParts
  BY InitLoadInv, HoldingsHeld, PartsHeld
<1>2. /\ levels = <<NewLevel(Unit)>> /\ Len(levels) = 1 /\ levels[1] = NewLevel(Unit)
      /\ pending = {} /\ pc = "load" /\ header.root = 0 /\ file = << >> /\ loaded = 0
      /\ 1 \in 1 .. Len(levels)
  BY DEF Init
<1>3. LiveGrid(1) = << >>
  BY <1>2, NewLevelSound, RTreeLevelAssumption DEF LiveGrid
<1>4. LeftEntries(1) = << >> /\ RootEntries(1) = << >> /\ PendingEntries(1) = << >>
  BY <1>1, <1>2, PendingAs DEF LeftEntries, RootEntries, NewLevel
<1>5. Len(Holding(1)) = 0 /\ Refs(Holding(1)) = {}
  BY <1>1, <1>2, <1>3, <1>4, FewRefs DEF HoldingParts
<1>6. LeafNodes = << >> /\ InnerNodes = << >>
  <2>1. Len(file) = 0 /\ file \in Seq(Node)
    BY <1>2
  <2>2. \A leaf : NodeCells(file, 0, leaf) = << >>
    BY <2>1 DEF NodeCells
  <2> QED BY <1>2, <2>2, FileEntriesAs, FlattenNothing DEF LeafNodes, InnerNodes, NodeEntries
<1>7. Upper(Holdings) = << >>
  <2>1. Len(Holdings) = 1
    BY <1>1, <1>2 DEF HoldingsAre
  <2>2. UpperCells(Holdings) = << >>
    BY <2>1 DEF UpperCells
  <2> QED BY <2>2, FlattenNothing DEF Upper
<1>8. Len(LeafNodes) = 0 /\ Len(InnerNodes) = 0 /\ Len(Upper(Holdings)) = 0 /\ Len(file) = 0
  BY <1>2, <1>6, <1>7
<1> QED BY <1>2, <1>5, <1>6, <1>7, <1>8, FewRefs DEF KeptCounts
-----------------------------------------------------------------------------
(***************************************************************************)
(* The counts kept by every action                                         *)
(***************************************************************************)

LEMMA LoadPasses ==
  ASSUME LoadInv, LoadInv', Load
  PROVE  PassedOn
<1>1. PICK b \in Box :
        pending' = {Insertion(levels, 1, [ref |-> loaded + 1, lo |-> b.lo, hi |-> b.hi])}
  BY DEF Load
<1> DEFINE e == [ref |-> loaded + 1, lo |-> b.lo, hi |-> b.hi]
           i == Insertion(levels, 1, e)
<1>2. /\ pc = "load" /\ pending = {} /\ pending' = {i} /\ i.level = 1 /\ i.entry = e
      /\ e.ref = loaded + 1
      /\ UNCHANGED <<levels, old, wide, at, file, header, pc, cur, dealt>>
      /\ loaded' = loaded + 1
  BY <1>1 DEF Load, Insertion
<1> HIDE DEF e, i
<1>3. HoldingsAre /\ PendingIs /\ PendingIs'
  BY HoldingsHeld, PendingHeld, PendingHeldNext
<1>4. ASSUME NEW k \in 1 .. Len(levels)
      PROVE  /\ LiveGrid(k)' = LiveGrid(k) /\ LeftEntries(k)' = LeftEntries(k)
             /\ RootEntries(k)' = RootEntries(k) /\ PendingEntries(k) = << >>
             /\ PendingEntries(k)' = IF k = 1 THEN <<e>> ELSE << >>
             /\ k \in 1 .. Len(levels')
  <2>1. LiveGrid(k)' = LiveGrid(k) /\ LeftEntries(k)' = LeftEntries(k)
    BY <1>2, LiveSame
  <2>2. RootEntries(k)' = RootEntries(k)
    BY <1>2 DEF RootEntries
  <2>3. PendingEntries(k) = << >>
    BY <1>2, <1>3 DEF PendingIs
  <2>4. PendingEntries(k)' = IF i.level = k THEN <<i.entry>> ELSE << >>
    BY <1>2, <1>3 DEF PendingIs
  <2> QED BY <1>2, <2>1, <2>2, <2>3, <2>4
<1>5. 1 \in 1 .. Len(levels) /\ \A k \in 2 .. Len(levels) : k \in 1 .. Len(levels) /\ k # 1
  BY LevelsExist
<1>6. Grows(Holding(1), Holding(1)', 1, {loaded + 1})
  <2>1. Grows(Holding(1), Holding(1)', 1, {e.ref})
    BY <1>4, <1>5, HeldReceives
  <2> QED BY <1>2, <2>1
<1>7. ASSUME NEW k \in 2 .. Len(levels) PROVE Alike(Holding(k), Holding(k)')
  <2>1. PendingEntries(k)' = PendingEntries(k)
    BY <1>4, <1>5
  <2>2. Holding(k)' = Holding(k)
    BY <1>4, <1>5, <2>1, HeldSame
  <2> QED BY <1>3, <1>5, <2>2, AlikeSelf DEF HoldingsAre
<1> QED BY <1>2, <1>6, <1>7 DEF TupleComes, PassedOn

(* What SaveNode2RTree does to the levels but the one it saves a node of.  *)
LEMMA HeldAbove ==
  ASSUME LoadInv, LoadInv', NEW k \in 1 .. Len(levels), NEW ls, NEW es,
         Saved(ls, k, es), Len(ls) = Len(levels),
         \A j \in 1 .. Len(levels) : j # k => ls[j] = levels[j],
         header.root = 0, header' = header,
         \A i \in pending : i.level = k,
         \A j \in 1 .. Len(levels) :
           j # k => LiveGrid(j)' = LiveGrid(j) /\ LeftEntries(j)' = LeftEntries(j),
         k = Len(levels) => LiveGrid(k + 1)' = << >>
  PROVE  /\ Len(levels') = (IF k = Len(levels) THEN Len(levels) + 1 ELSE Len(levels))
         /\ Grows(IF k = Len(levels) THEN << >> ELSE Holding(k + 1), Holding(k + 1)',
                  1, {Len(file) + 1})
         /\ \A j \in 1 .. Len(levels) : j # k /\ j # k + 1 => Alike(Holding(j), Holding(j)')
         /\ PendingEntries(k)' = << >>
<1>1. PICK i : /\ pending' = {i} /\ i.level = k + 1 /\ i.level \in 1 .. Len(levels')
               /\ i.entry \in Entry /\ i.entry.ref = Len(file) + 1
  BY DEF Saved
<1>2. /\ levels' \in Seq(Level) /\ Len(levels') >= Len(levels)
      /\ \A j \in 1 .. Len(levels') : j \notin 1 .. Len(levels) =>
           /\ j = k + 1 /\ k = Len(levels) /\ levels'[j].left = None
  BY DEF Saved
<1>3. Len(levels) \in Nat /\ Len(levels') \in Nat /\ k \in Nat
  <2>1. levels \in Seq(Level)
    BY DEF LoadInv, IInv, TypeOK
  <2> QED BY <1>2, <2>1
<1>4. /\ Len(levels') = (IF k = Len(levels) THEN Len(levels) + 1 ELSE Len(levels))
      /\ 1 .. Len(levels) \subseteq 1 .. Len(levels')
      /\ k # Len(levels) => k + 1 \in 1 .. Len(levels)
      /\ k # k + 1
  <2>1. k + 1 <= Len(levels')
    BY <1>1, <1>3
  <2>2. CASE Len(levels') = Len(levels)
    BY <1>3, <2>1, <2>2
  <2>3. CASE Len(levels') > Len(levels)
    <3>1. Len(levels') \in 1 .. Len(levels') /\ Len(levels') \notin 1 .. Len(levels)
      BY <1>3, <2>3
    <3>2. Len(levels') = k + 1 /\ k = Len(levels)
      BY <1>2, <3>1
    <3> QED BY <1>3, <3>2
  <2> QED BY <1>2, <1>3, <2>2, <2>3
<1>5. HoldingsAre /\ PendingIs /\ PendingIs' /\ HoldingParts'
  BY HoldingsHeld, PendingHeld, PendingHeldNext, PartsHeldNext
<1>6. \A j : RootEntries(j) = << >> /\ RootEntries(j)' = << >>
  <2>1. header.root = 0 /\ header'.root = 0
    OBVIOUS
  <2> QED BY <2>1 DEF RootEntries
<1>7. \A j : PendingEntries(j)' = IF k + 1 = j THEN <<i.entry>> ELSE << >>
  BY <1>1, <1>5 DEF PendingIs
<1>8. ASSUME NEW j \in 1 .. Len(levels), j # k PROVE PendingEntries(j) = << >>
  <2>1. CASE pending = {}
    BY <1>5, <2>1 DEF PendingIs
  <2>2. CASE pending # {}
    <3>1. PICK p \in pending : TRUE
      BY <2>2
    <3>2. p.level = k
      BY <3>1
    <3> QED BY <1>5, <1>8, <3>1, <3>2 DEF PendingIs
  <2> QED BY <2>1, <2>2
<1>9. ASSUME NEW j \in 1 .. Len(levels), j # k, j # k + 1 PROVE Alike(Holding(j), Holding(j)')
  <2>1. PendingEntries(j)' = PendingEntries(j)
    BY <1>7, <1>8, <1>9
  <2>2. Holding(j)' = Holding(j)
    BY <1>6, <1>9, <2>1, HeldSame
  <2> QED BY <1>5, <2>2, AlikeSelf DEF HoldingsAre
<1>10. Grows(IF k = Len(levels) THEN << >> ELSE Holding(k + 1), Holding(k + 1)',
             1, {Len(file) + 1})
  <2>1. CASE k # Len(levels)
    <3> DEFINE j == k + 1
    <3>1. j \in 1 .. Len(levels) /\ j \in 1 .. Len(levels') /\ j # k
      BY <1>3, <1>4, <2>1
    <3>2. PendingEntries(j) = << >> /\ PendingEntries(j)' = <<i.entry>>
      BY <1>7, <1>8, <3>1
    <3>3. /\ LiveGrid(j)' = LiveGrid(j) /\ LeftEntries(j)' = LeftEntries(j)
          /\ RootEntries(j)' = RootEntries(j)
      BY <1>6, <3>1
    <3> HIDE DEF j
    <3>4. Grows(Holding(j), Holding(j)', 1, {i.entry.ref})
      BY <3>1, <3>2, <3>3, HeldReceives
    <3> QED BY <1>1, <2>1, <3>4 DEF j
  <2>2. CASE k = Len(levels)
    <3>1. k + 1 \in 1 .. Len(levels') /\ k + 1 \notin 1 .. Len(levels)
      BY <1>3, <1>4, <2>2
    <3>2. LeftEntries(k + 1)' = << >>
      BY <1>2, <3>1 DEF LeftEntries
    <3>3. /\ LiveGrid(k + 1)' = << >> /\ RootEntries(k + 1)' = << >>
          /\ PendingEntries(k + 1)' = <<i.entry>>
      BY <1>6, <1>7, <2>2
    <3>4. Holding(k + 1)' = << >> \o << >> \o <<i.entry>> \o << >>
      BY <3>2, <3>3 DEF Holding
    <3>5. Holding(k + 1)' = <<i.entry>>
      BY <1>1, <3>4
    <3>6. Len(<<i.entry>>) = Len(<< >>) + 1 /\ Refs(<<i.entry>>) = Refs(<< >>) \cup {Len(file) + 1}
      BY <1>1, FewRefs
    <3> QED BY <2>2, <3>5, <3>6 DEF Grows
  <2> QED BY <2>1, <2>2
<1>11. PendingEntries(k)' = << >>
  BY <1>4, <1>7
<1> QED BY <1>4, <1>9, <1>10, <1>11

(* Received, in references.                                                *)
LEMMA ReceivedRefs ==
  ASSUME NEW l, NEW key, NEW e, NEW k, NEW w, NEW m, Received(l, key, e, k, w, m)
  PROVE  Refs(GridEntries(l)) \cup {e.ref}
           = Refs(GridEntries(m)) \cup (IF IsFull(w, key, k) THEN Refs(w.grid[key]) ELSE {})
<1> DEFINE a == ToSet(GridEntries(l))
           b == ToSet(GridEntries(m))
           c == ToSet(w.grid[key])
           P == IsFull(w, key, k)
           ra == Refs(GridEntries(l))
           rb == Refs(GridEntries(m))
           rc == Refs(w.grid[key])
<1>1. \A x : x \in a \/ x = e <=> x \in b \/ (P /\ x \in c)
  BY DEF Received
<1>2. /\ \A r : r \in ra <=> \E x \in a : r = x.ref
      /\ \A r : r \in rb <=> \E x \in b : r = x.ref
      /\ \A r : r \in rc <=> \E x \in c : r = x.ref
  BY DEF Refs
<1> HIDE DEF a, b, c, P, ra, rb, rc
<1>3. \A r : r \in ra \/ r = e.ref <=> r \in rb \/ (P /\ r \in rc)
  BY <1>1, <1>2
<1>4. ra \cup {e.ref} = rb \cup (IF P THEN rc ELSE {})
  BY <1>3
<1> QED BY <1>4 DEF P, ra, rb, rc

LiveOwn ==
  \A k : Untouched(k) /\ (pc = "widen" => k # cur) => LiveGrid(k) = GridEntries(levels[k])

LEMMA LiveUntouched == LoadInv => LiveOwn
<1> SUFFICES ASSUME LoadInv, NEW k, Untouched(k), pc = "widen" => k # cur
             PROVE  LiveGrid(k) = GridEntries(levels[k])
  BY DEF LiveOwn
<1>1. cur \in Nat
  BY DEF LoadInv, IInv, TypeOK
<1>2. CASE pc = "load"
  BY <1>2 DEF LiveGrid
<1>3. CASE pc = "root"
  BY <1>1, <1>3 DEF Untouched, LiveGrid, Old
<1>4. CASE pc = "widen"
  BY <1>1, <1>4 DEF Untouched, LiveGrid
<1> QED BY <1>2, <1>3, <1>4 DEF Untouched

LEMMA LiveUntouchedNext == (LoadInv => LiveOwn)'
  BY LiveUntouched, PTL

LEMMA InsertPasses ==
  ASSUME LoadInv, LoadInv', Insert
  PROVE  PassedOn
<1>1. PICK i, w, m, ls : InsertMakes(i, w, m, ls)
  BY InsertEffect
<1> DEFINE k == i.level
           key == i.key
           e == i.entry
           l == levels[k]
           es == w.grid[key]
           full == IsFull(w, key, k)
<1>2. /\ i \in pending /\ k \in 1 .. Len(levels) /\ e \in Entry
      /\ Untouched(k) /\ (pc = "widen" => k # cur)
      /\ Received(l, key, e, k, w, m)
      /\ ls \in Seq(Level) /\ Len(ls) = Len(levels) /\ ls[k] = m
      /\ \A j \in 1 .. Len(levels) : j # k => ls[j] = levels[j]
      /\ full => Saved(ls, k, es)
      /\ ~ full => levels' = ls /\ pending' = {} /\ file' = file
  BY <1>1 DEF InsertMakes
<1>3. UNCHANGED <<old, wide, at, header, pc, cur, loaded, dealt>>
  BY DEF Insert
<1>4. header.root = 0 /\ header'.root = 0 /\ cur \in Nat
  BY <1>2, <1>3 DEF LoadInv, Untouched, Phases, IInv, TypeOK
<1>5. HoldingsAre /\ PendingIs /\ PendingIs' /\ LiveOwn /\ LiveOwn'
  BY HoldingsHeld, PendingHeld, PendingHeldNext, LiveUntouched, LiveUntouchedNext
<1>6. pending = {i} /\ PendingEntries(k) = <<e>>
  <2>1. pending = {i}
    BY <1>2 DEF LoadInv, Phases
  <2> QED BY <1>5, <2>1 DEF PendingIs
<1>7. \A j : RootEntries(j) = << >> /\ RootEntries(j)' = << >>
  BY <1>4 DEF RootEntries
<1>8. Received(l, key, e, k, w, m) => /\ m \in Level /\ m.left = l.left /\ es \in Seq(Entry)
                                      /\ full => Len(es) = MaxEntries(k)
                                      /\ Len(GridEntries(m)) + (IF full THEN MaxEntries(k) ELSE 0)
                                           = Len(GridEntries(l)) + 1
  BY DEF Received
<1>9. Refs(GridEntries(l)) \cup {e.ref}
        = Refs(GridEntries(m)) \cup (IF full THEN Refs(es) ELSE {})
  BY <1>2, ReceivedRefs
<1> HIDE DEF k, key, e, l, es, full
<1>10. /\ levels'[k] = m /\ \A j \in 1 .. Len(levels) : j # k => levels'[j] = levels[j]
       /\ k \in 1 .. Len(levels')
  <2>1. CASE full
    <3>1. /\ \A j \in 1 .. Len(ls) : levels'[j] = ls[j]
          /\ Len(levels') >= Len(ls) /\ levels' \in Seq(Level)
      BY <1>2, <2>1 DEF Saved
    <3> QED BY <1>2, <3>1
  <2>2. CASE ~ full
    BY <1>2, <2>2
  <2> QED BY <2>1, <2>2
<1>11. /\ LiveGrid(k) = GridEntries(l) /\ LiveGrid(k)' = GridEntries(m)
       /\ LeftEntries(k)' = LeftEntries(k)
  <2>1. LiveGrid(k) = GridEntries(l)
    BY <1>2, <1>5 DEF LiveOwn, l
  <2>2. Untouched(k)' /\ (pc' = "widen" => k # cur')
    BY <1>2, <1>3 DEF Untouched
  <2>3. LiveGrid(k)' = GridEntries(levels[k])'
    BY <1>5, <2>2 DEF LiveOwn
  <2>4. GridEntries(levels[k])' = GridEntries(m)
    BY <1>10 DEF GridEntries
  <2>5. LeftEntries(k)' = LeftEntries(k)
    BY <1>2, <1>8, <1>10 DEF LeftEntries, l
  <2> QED BY <2>1, <2>3, <2>4, <2>5
<1>12. ASSUME NEW j \in 1 .. Len(levels), j # k
       PROVE  LiveGrid(j)' = LiveGrid(j) /\ LeftEntries(j)' = LeftEntries(j)
  BY <1>3, <1>10, <1>12, LiveSame
<1>13. Len(<<e>>) = 1 /\ Refs(<<e>>) = {e.ref} /\ Len(<< >>) = 0 /\ Refs(<< >>) = {}
  BY FewRefs
<1>14. GridEntries(m) \in Seq(Entry) /\ Len(GridEntries(m)) \in Nat
  BY <1>2, <1>8, GridEntriesType
<1>a. l \in Level
  BY <1>2 DEF LoadInv, IInv, TypeOK, l
<1>15. GridEntries(l) \in Seq(Entry) /\ Len(GridEntries(l)) \in Nat
  BY <1>a, GridEntriesType
<1>16. ASSUME PendingEntries(k)' = << >>, NEW n \in Nat, NEW R,
              n = (IF full THEN MaxEntries(k) ELSE 0), R = (IF full THEN Refs(es) ELSE {})
       PROVE  Grows(Holding(k)', Holding(k), n, R)
  <2> DEFINE x == Len(GridEntries(l))
             y == Len(GridEntries(m))
  <2>1. y + n = x + 1 /\ x \in Nat /\ y \in Nat
    BY <1>2, <1>8, <1>14, <1>15, <1>16
  <2>2. /\ Len(LiveGrid(k)) = x /\ Len(LiveGrid(k)') = y
        /\ Len(PendingEntries(k)) = 1 /\ Len(PendingEntries(k)') = 0
    BY <1>6, <1>11, <1>13, <1>16
  <2> HIDE DEF x, y
  <2>3. Len(LiveGrid(k)) + Len(PendingEntries(k))
          = Len(LiveGrid(k)') + Len(PendingEntries(k)') + n
    BY <2>1, <2>2
  <2>4. Refs(LiveGrid(k)) \cup Refs(PendingEntries(k))
          = Refs(LiveGrid(k)') \cup Refs(PendingEntries(k)') \cup R
    BY <1>6, <1>9, <1>11, <1>13, <1>16
  <2> QED BY <1>2, <1>7, <1>10, <1>11, <2>3, <2>4, HeldShrinks
<1>17. CASE full
  <2>1. k = Len(levels) => LiveGrid(k + 1)' = << >>
    <3>1. SUFFICES ASSUME k = Len(levels) PROVE LiveGrid(k + 1)' = << >>
      OBVIOUS
    <3>2. k + 1 \in 1 .. Len(levels') /\ k + 1 \notin 1 .. Len(ls)
      BY <1>2, <1>17, <3>1 DEF Saved
    <3>3. GridEntries(levels'[k + 1]) = << >>
      BY <1>2, <1>17, <3>2 DEF Saved
    <3>4. Untouched(k + 1)' /\ (pc' = "widen" => k + 1 # cur')
      BY <1>2, <1>3, <1>4 DEF Untouched
    <3>5. LiveGrid(k + 1)' = GridEntries(levels[k + 1])'
      BY <1>5, <3>4 DEF LiveOwn
    <3>6. GridEntries(levels[k + 1])' = GridEntries(levels'[k + 1])
      BY DEF GridEntries
    <3> QED BY <3>3, <3>5, <3>6
  <2>2. \A p \in pending : p.level = k
    BY <1>6 DEF k
  <2>3. /\ Len(levels') = (IF k = Len(levels) THEN Len(levels) + 1 ELSE Len(levels))
        /\ Grows(IF k = Len(levels) THEN << >> ELSE Holding(k + 1), Holding(k + 1)',
                 1, {Len(file) + 1})
        /\ \A j \in 1 .. Len(levels) : j # k /\ j # k + 1 => Alike(Holding(j), Holding(j)')
        /\ PendingEntries(k)' = << >>
    <3>1. /\ Saved(ls, k, es) /\ Len(ls) = Len(levels) /\ header' = header
          /\ \A j \in 1 .. Len(levels) : j # k => ls[j] = levels[j]
      BY <1>2, <1>3, <1>17
    <3> QED BY <1>2, <1>4, <1>12, <2>1, <2>2, <3>1, HeldAbove
  <2>4. Len(es) \in Nat /\ Len(es) = MaxEntries(k) /\ es \in Seq(Entry)
    BY <1>2, <1>8, <1>17
  <2>5. Grows(Holding(k)', Holding(k), Len(es), Refs(es))
    BY <1>16, <1>17, <2>3, <2>4
  <2>6. file' = Append(file, [leaf |-> k = 1, entries |-> es])
    BY <1>2, <1>17 DEF Saved
  <2>7. NodeGone(k, es)
    BY <1>2, <1>3, <1>4, <2>3, <2>4, <2>5, <2>6 DEF NodeGone
  <2> QED BY <2>7 DEF PassedOn
<1>18. CASE ~ full
  <2>1. levels' = ls /\ pending' = {} /\ file' = file
    BY <1>2, <1>18
  <2>2. \A j : PendingEntries(j)' = << >>
    BY <1>5, <2>1 DEF PendingIs
  <2>3. Alike(Holding(k), Holding(k)')
    <3>1. Grows(Holding(k)', Holding(k), 0, {})
      BY <1>16, <1>18, <2>2
    <3>2. Holding(k) \in Seq(Entry) /\ Holding(k)' \in Seq(Entry)
      BY <1>2, <1>5, <1>10, HoldingsHeldNext DEF HoldingsAre
    <3> QED BY <3>1, <3>2 DEF Grows, Alike
  <2>4. ASSUME NEW j \in 1 .. Len(levels), j # k PROVE Alike(Holding(j), Holding(j)')
    <3>1. PendingEntries(j) = << >>
      BY <1>2, <1>5, <2>4 DEF PendingIs, k
    <3>2. Holding(j)' = Holding(j)
      BY <1>7, <1>12, <2>2, <2>4, <3>1, HeldSame
    <3> QED BY <1>5, <3>2, AlikeSelf DEF HoldingsAre
  <2>5. HeldAlike
    BY <1>2, <2>1, <2>3, <2>4 DEF HeldAlike
  <2> QED BY <1>3, <2>1, <2>5 DEF NothingGone, PassedOn
<1> QED BY <1>17, <1>18

LEMMA MoveEntryPasses ==
  ASSUME LoadInv, LoadInv', MoveEntry
  PROVE  PassedOn
<1>1. PICK key, e, w, m : MoveMakes(key, e, w, m)
  BY MoveEffect
<1> DEFINE k == cur
           es == w.grid[key]
           full == IsFull(w, key, k)
           b == <<at[1], at[2] + 1>>
           fa == FlattenSeq(CellsLeft(Old, at))
           fb == FlattenSeq(CellsLeft(Old, b))
           ga == GridEntries(wide)
           gb == GridEntries(m)
<1>2. /\ pc = "widen" /\ pending = {} /\ wide \in Level /\ Old \in Level
      /\ at[1] \in Key /\ at[2] \in 1 .. Len(Old.grid[at[1]]) /\ e = Old.grid[at[1]][at[2]]
      /\ Received(wide, key, e, k, w, m) /\ wide' = m
      /\ full => Saved(levels, k, es)
      /\ ~ full => UNCHANGED <<levels, pending, file>>
  BY <1>1 DEF MoveMakes
<1>3. at' = b /\ UNCHANGED <<old, header, pc, cur, loaded, dealt>>
  BY DEF MoveEntry
<1>4. /\ header.root = 0 /\ header'.root = 0 /\ k \in 1 .. Len(levels) /\ k \in Nat
      /\ at \in Key \X (Nat \ {0}) /\ k' = k /\ levels \in Seq(Level)
  BY <1>2, <1>3 DEF LoadInv, Phases, IInv, TypeOK
<1>5. HoldingsAre /\ PendingIs /\ PendingIs' /\ LiveOwn /\ LiveOwn'
  BY HoldingsHeld, PendingHeld, PendingHeldNext, LiveUntouched, LiveUntouchedNext
<1>6. \A j : PendingEntries(j) = << >> /\ RootEntries(j) = << >> /\ RootEntries(j)' = << >>
  BY <1>2, <1>4, <1>5 DEF RootEntries, PendingIs
<1>7. /\ m \in Level /\ es \in Seq(Entry)
      /\ full => Len(es) = MaxEntries(k)
      /\ Len(gb) + (IF full THEN MaxEntries(k) ELSE 0) = Len(ga) + 1
  BY <1>2 DEF Received
<1>8. Refs(ga) \cup {e.ref} = Refs(gb) \cup (IF full THEN Refs(es) ELSE {})
  BY <1>2, ReceivedRefs
<1>9. /\ Len(fa) = Len(fb) + 1
      /\ \A x : x \in ToSet(fa) <=> x \in ToSet(fb) \/ x = e
  BY <1>2, <1>4, OneLess, SMTT(60)
<1>10. /\ \A j \in 1 .. Len(levels) : levels'[j] = levels[j] /\ j \in 1 .. Len(levels')
  <2>1. CASE full
    <3>1. /\ \A j \in 1 .. Len(levels) : levels'[j] = levels[j]
          /\ Len(levels') >= Len(levels) /\ levels' \in Seq(Level)
      BY <1>2, <2>1 DEF Saved
    <3> QED BY <1>4, <3>1
  <2>2. CASE ~ full
    BY <1>2, <2>2
  <2> QED BY <2>1, <2>2
<1>11. LiveGrid(k) = fa \o ga /\ LiveGrid(k)' = fb \o gb /\ LeftEntries(k)' = LeftEntries(k)
  <2>1. LiveGrid(k) = fa \o ga
    BY <1>2, <1>4, UnmovedCells DEF LiveGrid
  <2>2. Old' = Old
    BY <1>3, <1>4, <1>10 DEF Old
  <2>3. Unmoved' = fb
    BY <1>3, <2>2 DEF Unmoved, CellsLeft
  <2>4. LiveGrid(k)' = fb \o gb
    BY <1>2, <1>3, <1>4, <2>3 DEF LiveGrid, GridEntries
  <2>5. LeftEntries(k)' = LeftEntries(k)
    BY <1>4, <1>10 DEF LeftEntries
  <2> QED BY <2>1, <2>4, <2>5
<1>12. fa \in Seq(Entry) /\ fb \in Seq(Entry) /\ ga \in Seq(Entry) /\ gb \in Seq(Entry)
  <2>1. at \in Nat \X (Nat \ {0}) /\ b \in Nat \X (Nat \ {0})
    BY <1>4, RTreeLevelAssumption DEF Key
  <2>2. CellsLeft(Old, at) \in Seq(Seq(Entry)) /\ CellsLeft(Old, b) \in Seq(Seq(Entry))
    BY <1>2, <2>1, CellsLeftType
  <2> QED BY <1>2, <1>7, <2>2, FlattenSeqType, GridEntriesType
<1>13. Refs(fa) = Refs(fb) \cup {e.ref}
  <2>1. \A r : r \in Refs(fa) <=> r \in Refs(fb) \/ r = e.ref
    BY <1>9 DEF Refs
  <2> QED BY <2>1
<1> HIDE DEF k, es, full, fa, fb, ga, gb
<1>14. ASSUME NEW j \in 1 .. Len(levels), j # k
       PROVE  LiveGrid(j)' = LiveGrid(j) /\ LeftEntries(j)' = LeftEntries(j)
  <2>1. LeftEntries(j)' = LeftEntries(j)
    BY <1>10 DEF LeftEntries
  <2>2. LiveGrid(j)' = LiveGrid(j)
    BY <1>2, <1>3, <1>4, <1>10, <1>14 DEF LiveGrid, GridEntries, k
  <2> QED BY <2>1, <2>2
<1>15. ASSUME PendingEntries(k)' = << >>, NEW n \in Nat, NEW R,
              n = (IF full THEN MaxEntries(k) ELSE 0), R = (IF full THEN Refs(es) ELSE {})
       PROVE  Grows(Holding(k)', Holding(k), n, R)
  <2> DEFINE x == Len(fa)
             y == Len(fb)
             u == Len(ga)
             v == Len(gb)
  <2>1. v + n = u + 1 /\ x = y + 1 /\ x \in Nat /\ y \in Nat /\ u \in Nat /\ v \in Nat
    BY <1>7, <1>9, <1>12, <1>15
  <2>2. /\ Len(LiveGrid(k)) = x + u /\ Refs(LiveGrid(k)) = Refs(fa) \cup Refs(ga)
        /\ Len(LiveGrid(k)') = y + v /\ Refs(LiveGrid(k)') = Refs(fb) \cup Refs(gb)
    BY <1>11, <1>12, ConcatLen, ConcatRefs
  <2>3. /\ Len(PendingEntries(k)) = 0 /\ Len(PendingEntries(k)') = 0
        /\ Refs(PendingEntries(k)) = {} /\ Refs(PendingEntries(k)') = {}
    BY <1>6, <1>15, FewRefs
  <2> HIDE DEF x, y, u, v
  <2>4. Len(LiveGrid(k)) + Len(PendingEntries(k))
          = Len(LiveGrid(k)') + Len(PendingEntries(k)') + n
    BY <2>1, <2>2, <2>3
  <2>5. Refs(LiveGrid(k)) \cup Refs(PendingEntries(k))
          = Refs(LiveGrid(k)') \cup Refs(PendingEntries(k)') \cup R
    BY <1>8, <1>13, <1>15, <2>2, <2>3
  <2>6. RootEntries(k)' = RootEntries(k) /\ k \in 1 .. Len(levels')
    BY <1>4, <1>6, <1>10
  <2> QED BY <1>4, <1>11, <2>4, <2>5, <2>6, HeldShrinks
<1>16. CASE full
  <2>1. k = Len(levels) => LiveGrid(k + 1)' = << >>
    <3>1. SUFFICES ASSUME k = Len(levels) PROVE LiveGrid(k + 1)' = << >>
      OBVIOUS
    <3>2. k + 1 \in 1 .. Len(levels') /\ k + 1 \notin 1 .. Len(levels)
      BY <1>2, <1>4, <1>16, <3>1 DEF Saved
    <3>3. GridEntries(levels'[k + 1]) = << >>
      BY <1>2, <1>16, <3>2 DEF Saved
    <3>4. Untouched(k + 1)' /\ (pc' = "widen" => k + 1 # cur')
      BY <1>2, <1>3, <1>4 DEF Untouched, k
    <3>5. LiveGrid(k + 1)' = GridEntries(levels[k + 1])'
      BY <1>4, <1>5, <3>4 DEF LiveOwn
    <3>6. GridEntries(levels[k + 1])' = GridEntries(levels'[k + 1])
      BY <1>4 DEF GridEntries
    <3> QED BY <1>4, <3>3, <3>5, <3>6
  <2>2. \A p \in pending : p.level = k
    BY <1>2
  <2>3. /\ Len(levels') = (IF k = Len(levels) THEN Len(levels) + 1 ELSE Len(levels))
        /\ Grows(IF k = Len(levels) THEN << >> ELSE Holding(k + 1), Holding(k + 1)',
                 1, {Len(file) + 1})
        /\ \A j \in 1 .. Len(levels) : j # k /\ j # k + 1 => Alike(Holding(j), Holding(j)')
        /\ PendingEntries(k)' = << >>
    <3>1. /\ Saved(levels, k, es) /\ header' = header
      BY <1>2, <1>3, <1>16
    <3> QED BY <1>4, <1>14, <2>1, <2>2, <3>1, HeldAbove
  <2>4. Len(es) \in Nat /\ Len(es) = MaxEntries(k) /\ es \in Seq(Entry)
    BY <1>7, <1>16
  <2>5. Grows(Holding(k)', Holding(k), Len(es), Refs(es))
    BY <1>15, <1>16, <2>3, <2>4
  <2>6. file' = Append(file, [leaf |-> k = 1, entries |-> es])
    BY <1>2, <1>16 DEF Saved
  <2>7. NodeGone(k, es)
    BY <1>3, <1>4, <2>3, <2>4, <2>5, <2>6 DEF NodeGone
  <2> QED BY <2>7 DEF PassedOn
<1>17. CASE ~ full
  <2>1. levels' = levels /\ pending' = {} /\ file' = file
    BY <1>2, <1>17
  <2>2. \A j : PendingEntries(j)' = << >>
    BY <1>5, <2>1 DEF PendingIs
  <2>3. Alike(Holding(k), Holding(k)')
    <3>1. Grows(Holding(k)', Holding(k), 0, {})
      BY <1>15, <1>17, <2>2
    <3>2. Holding(k) \in Seq(Entry) /\ Holding(k)' \in Seq(Entry)
      BY <1>4, <1>5, <1>10, HoldingsHeldNext DEF HoldingsAre
    <3> QED BY <3>1, <3>2 DEF Grows, Alike
  <2>4. ASSUME NEW j \in 1 .. Len(levels), j # k PROVE Alike(Holding(j), Holding(j)')
    <3>1. Holding(j)' = Holding(j)
      BY <1>6, <1>14, <2>2, <2>4, HeldSame
    <3> QED BY <1>5, <3>1, AlikeSelf DEF HoldingsAre
  <2>5. HeldAlike
    BY <1>4, <2>1, <2>3, <2>4 DEF HeldAlike
  <2> QED BY <1>3, <2>1, <2>5 DEF NothingGone, PassedOn
<1> QED BY <1>16, <1>17

(* Steps that write no node and move no entry to another level: what has   *)
(* to be shown is what the grids answer for.                               *)
LEMMA QuietPasses ==
  ASSUME LoadInv, LoadInv', UNCHANGED <<pending, file, header, loaded>>,
         Len(levels') = Len(levels),
         \A k \in 1 .. Len(levels) : /\ Alike(LiveGrid(k), LiveGrid(k)')
                                     /\ levels'[k].left = levels[k].left
  PROVE  PassedOn
<1>1. HoldingsAre /\ PendingIs /\ PendingIs' /\ HoldingParts /\ HoldingParts'
  BY HoldingsHeld, PendingHeld, PendingHeldNext, PartsHeld, PartsHeldNext
<1>2. ASSUME NEW k \in 1 .. Len(levels) PROVE Alike(Holding(k), Holding(k)')
  <2>1. LeftEntries(k)' = LeftEntries(k)
    BY DEF LeftEntries
  <2>2. RootEntries(k)' = RootEntries(k) /\ PendingEntries(k)' = PendingEntries(k)
    BY DEF RootEntries, PendingEntries
  <2>3. /\ LiveGrid(k) \in Seq(Entry) /\ LiveGrid(k)' \in Seq(Entry)
        /\ Holding(k) \in Seq(Entry) /\ k \in 1 .. Len(levels')
    BY <1>1 DEF HoldingParts
  <2>4. Len(LiveGrid(k)') = Len(LiveGrid(k)) /\ Refs(LiveGrid(k)') = Refs(LiveGrid(k))
    BY <2>3, AlikeParts
  <2>5. /\ Len(Holding(k)) = Len(LiveGrid(k)) + Len(LeftEntries(k))
                             + Len(PendingEntries(k)) + Len(RootEntries(k))
        /\ Refs(Holding(k)) = Refs(LiveGrid(k)) \cup Refs(LeftEntries(k))
                              \cup Refs(PendingEntries(k)) \cup Refs(RootEntries(k))
    BY <1>1 DEF HoldingParts
  <2>6. /\ Len(Holding(k)') = Len(LiveGrid(k)') + Len(LeftEntries(k)')
                              + Len(PendingEntries(k)') + Len(RootEntries(k)')
        /\ Refs(Holding(k)') = Refs(LiveGrid(k)') \cup Refs(LeftEntries(k)')
                               \cup Refs(PendingEntries(k)') \cup Refs(RootEntries(k)')
    BY <1>1, <2>3 DEF HoldingParts, Refs
  <2>7. Len(Holding(k)') = Len(Holding(k)) /\ Refs(Holding(k)') = Refs(Holding(k))
    BY <2>1, <2>2, <2>4, <2>5, <2>6
  <2> QED BY <2>3, <2>7, AlikeParts
<1>3. HeldAlike
  BY <1>2 DEF HeldAlike
<1> QED BY <1>3 DEF NothingGone, PassedOn

LEMMA SetRTreeRootPasses ==
  ASSUME LoadInv, LoadInv', SetRTreeRoot
  PROVE  PassedOn
<1>1. /\ pc = "load" /\ pc' = "root" /\ cur = 1 /\ old = None /\ cur' = cur
      /\ UNCHANGED <<levels, old, wide, at, pending, file, header, cur, loaded, dealt>>
  BY DEF SetRTreeRoot, LoadInv, Phases, IInv, LeftBehind
<1>2. ASSUME NEW k \in 1 .. Len(levels) PROVE Alike(LiveGrid(k), LiveGrid(k)')
  <2>1. LiveGrid(k)' = LiveGrid(k)
    <3>1. LiveGrid(k) = GridEntries(levels[k])
      BY <1>1 DEF LiveGrid
    <3>2. CASE k = 1
      BY <1>1, <3>1, <3>2 DEF LiveGrid, Old, GridEntries
    <3>3. CASE k # 1
      <4>1. k > 1
        BY <3>3
      <4> QED BY <1>1, <3>1, <4>1 DEF LiveGrid, GridEntries
    <3> QED BY <3>2, <3>3
  <2>2. LiveGrid(k) \in Seq(Entry)
    BY PartsType
  <2> QED BY <2>1, <2>2, AlikeSelf
<1> QED BY <1>1, <1>2, QuietPasses

LEMMA WidenPasses ==
  ASSUME LoadInv, LoadInv', Widen
  PROVE  PassedOn
<1>1. /\ pc = "root" /\ pc' = "widen" /\ wide' = NewLevel(Old.unit * 2) /\ at' = <<0, 1>>
      /\ UNCHANGED <<levels, old, pending, file, header, cur, loaded, dealt>>
      /\ Old \in Level /\ Old.unit * 2 \in Nat \ {0} /\ cur \in Nat
  <2>1. Old \in Level
    BY OldType DEF LoadInv, IInv
  <2>2. Old.unit * 2 \in Nat \ {0}
    BY <2>1 DEF Level
  <2> QED BY <2>1, <2>2 DEF Widen, AtRoot, LoadInv, IInv, TypeOK
<1>2. ASSUME NEW k \in 1 .. Len(levels) PROVE Alike(LiveGrid(k), LiveGrid(k)')
  <2>1. LiveGrid(k) \in Seq(Entry)
    BY PartsType
  <2>2. CASE k = cur
    <3>1. LiveGrid(k) = GridEntries(Old)
      BY <1>1, <2>2 DEF LiveGrid
    <3>2. Unmoved' = FlattenSeq(CellsLeft(Old, <<0, 1>>))
      <4>1. Old' = Old
        BY <1>1 DEF Old
      <4> QED BY <1>1, <4>1 DEF Unmoved, CellsLeft
    <3>3. Unmoved' = GridEntries(Old)
      BY <1>1, <3>2, AllLeft
    <3>4. GridEntries(wide)' = << >>
      <4>1. GridEntries(NewLevel(Old.unit * 2)) = << >>
        <5> DEFINE unit == Old.unit * 2
        <5> HIDE DEF unit
        <5> QED BY <1>1, NewLevelSound DEF unit
      <4>2. GridEntries(wide)' = GridEntries(wide')
        BY DEF GridEntries
      <4> QED BY <1>1, <4>1, <4>2
    <3>5. LiveGrid(k)' = GridEntries(Old) \o << >>
      <4>1. LiveGrid(k)' = Unmoved' \o GridEntries(wide)'
        BY <1>1, <2>2 DEF LiveGrid
      <4> QED BY <3>3, <3>4, <4>1
    <3>6. LiveGrid(k)' = LiveGrid(k)
      BY <2>1, <3>1, <3>5
    <3> QED BY <2>1, <3>6, AlikeSelf
  <2>3. CASE k # cur
    <3>1. LiveGrid(k)' = LiveGrid(k)
      BY <1>1, <2>3 DEF LiveGrid, GridEntries
    <3> QED BY <2>1, <3>1, AlikeSelf
  <2> QED BY <2>2, <2>3
<1> QED BY <1>1, <1>2, QuietPasses

LEMMA MoveNextNodePasses ==
  ASSUME LoadInv, LoadInv', MoveNextNode
  PROVE  PassedOn
<1> DEFINE b == <<at[1] + 1, 1>>
<1>1. /\ pc = "widen" /\ at' = b
      /\ at[1] \in Key /\ at[2] > Len(Old.grid[at[1]]) /\ at \in Nat \X (Nat \ {0})
      /\ UNCHANGED <<levels, old, wide, pending, file, header, pc, cur, loaded, dealt>>
      /\ Old \in Level /\ cur \in Nat
  BY OldType DEF MoveNextNode, Widening, LoadInv, IInv, TypeOK
<1>2. at \in Key \X (Nat \ {0})
  BY <1>1
<1>3. Unmoved' = Unmoved
  <2>1. FlattenSeq(CellsLeft(Old, b)) = FlattenSeq(CellsLeft(Old, at))
    BY <1>1, <1>2, NextCell
  <2>2. Old' = Old
    BY <1>1 DEF Old
  <2>3. Unmoved' = FlattenSeq(CellsLeft(Old, b))
    BY <1>1, <2>2 DEF Unmoved, CellsLeft
  <2> QED BY <2>1, <2>3, UnmovedCells
<1>4. ASSUME NEW k \in 1 .. Len(levels) PROVE Alike(LiveGrid(k), LiveGrid(k)')
  <2>1. LiveGrid(k) \in Seq(Entry)
    BY PartsType
  <2>2. LiveGrid(k)' = LiveGrid(k)
    <3>1. Old' = Old
      BY <1>1 DEF Old
    <3> HIDE DEF b
    <3> QED BY <1>1, <1>3, <3>1 DEF LiveGrid, GridEntries
  <2> QED BY <2>1, <2>2, AlikeSelf
<1> QED BY <1>1, <1>4, QuietPasses

LEMMA DealWithLeftEntriesPasses ==
  ASSUME LoadInv, LoadInv', DealWithLeftEntries
  PROVE  PassedOn
<1>1. /\ pc = "left" /\ pc' \in {"left", "done"}
      /\ UNCHANGED <<levels, old, wide, at, pending, file, header, loaded>>
  BY DEF DealWithLeftEntries
<1>2. ASSUME NEW k \in 1 .. Len(levels) PROVE Alike(LiveGrid(k), LiveGrid(k)')
  <2>1. LiveGrid(k) \in Seq(Entry)
    BY PartsType
  <2>2. LiveGrid(k) = << >> /\ LiveGrid(k)' = << >>
    BY <1>1 DEF LiveGrid
  <2> QED BY <2>1, <2>2, AlikeSelf
<1> QED BY <1>1, <1>2, QuietPasses

LEMMA StutterPasses ==
  ASSUME LoadInv, LoadInv', UNCHANGED vars
  PROVE  PassedOn
<1>1. ASSUME NEW k \in 1 .. Len(levels) PROVE Alike(LiveGrid(k), LiveGrid(k)')
  <2>1. LiveGrid(k) \in Seq(Entry)
    BY PartsType
  <2>2. LiveGrid(k)' = LiveGrid(k)
    BY LiveSame DEF vars
  <2> QED BY <2>1, <2>2, AlikeSelf
<1> QED BY <1>1, QuietPasses DEF vars

LEMMA WidenedPasses ==
  ASSUME LoadInv, LoadInv', Widened
  PROVE  PassedOn
<1>1. /\ pc = "widen" /\ pc' = "root" /\ pending = {} /\ wide \in Level
      /\ old' = wide /\ old' # None /\ at[1] \notin Key /\ at \in Nat \X (Nat \ {0})
      /\ UNCHANGED <<at, pending, file, header, cur, loaded, dealt>>
      /\ Old \in Level /\ cur \in 1 .. Len(levels)
  BY OldType, RTreeLevelAssumption DEF Widened, Widening, LoadInv, IInv, TypeOK
<1>2. /\ levels \in Seq(Level) /\ Len(levels') = Len(levels)
      /\ \A j \in 1 .. Len(levels) : j # cur => levels'[j] = levels[j]
  BY DEF Widened, LoadInv, IInv, TypeOK
<1>3. levels'[cur].left = levels[cur].left
  <2>1. /\ levels[cur].left = None
    BY <1>1 DEF LoadInv, Phases
  <2>2. levels'[cur'].left = None
    BY <1>1, <1>2 DEF LoadInv, Phases
  <2> QED BY <1>1, <2>1, <2>2
<1>4. ASSUME NEW k \in 1 .. Len(levels) PROVE Alike(LiveGrid(k), LiveGrid(k)')
  <2>1. LiveGrid(k) \in Seq(Entry)
    BY PartsType
  <2>2. CASE k = cur
    <3>1. LiveGrid(k) = Unmoved \o GridEntries(wide)
      BY <1>1, <2>2 DEF LiveGrid
    <3>2. Unmoved = << >>
      BY <1>1, NoneLeft, UnmovedCells
    <3>3. GridEntries(wide) \in Seq(Entry)
      BY <1>1, GridEntriesType
    <3>4. LiveGrid(k) = GridEntries(wide)
      BY <3>1, <3>2, <3>3
    <3>5. LiveGrid(k)' = GridEntries(wide)
      BY <1>1, <2>2 DEF LiveGrid, Old, GridEntries
    <3> QED BY <2>1, <3>4, <3>5, AlikeSelf
  <2>3. CASE k # cur
    <3>1. LiveGrid(k)' = LiveGrid(k)
      BY <1>1, <1>2, <2>3 DEF LiveGrid, GridEntries
    <3> QED BY <2>1, <3>1, AlikeSelf
  <2> QED BY <2>2, <2>3
<1>5. \A k \in 1 .. Len(levels) : levels'[k].left = levels[k].left
  BY <1>2, <1>3
<1> QED BY <1>1, <1>2, <1>4, <1>5, QuietPasses

LEMMA KeepLeftPasses ==
  ASSUME LoadInv, LoadInv', KeepLeft
  PROVE  PassedOn
<1> PICK k : k = cur
  OBVIOUS
<1> DEFINE es == GridEntries(Old)
           new == [levels[k] EXCEPT !.left = es]
<1>1. /\ pc = "root" /\ pending = {} /\ old' = None /\ cur' = k + 1 /\ header.root = 0
      /\ UNCHANGED <<wide, at, pending, file, header, pc, loaded, dealt>>
      /\ levels \in Seq(Level) /\ k \in 1 .. Len(levels) /\ k < Len(levels)
      /\ levels[k].left = None /\ es \in Seq(Entry)
  <2>1. Old \in Level
    BY OldType DEF LoadInv, IInv
  <2> QED BY <2>1, GridEntriesType DEF KeepLeft, AtRoot, LoadInv, Phases, IInv, TypeOK
<1> HIDE DEF es
<1>2. levels' = [levels EXCEPT ![k] = new]
  BY DEF KeepLeft, es
<1>3. new.left = es
  <2>1. levels[k] \in Level
    BY <1>1
  <2> QED BY <2>1 DEF Level
<1> HIDE DEF new
<1>4. /\ Len(levels') = Len(levels) /\ levels'[k] = new
      /\ \A j \in 1 .. Len(levels) : j # k => levels'[j] = levels[j]
  BY <1>1, <1>2
<1>5. HoldingsAre /\ HoldingParts /\ HoldingParts'
  BY HoldingsHeld, PartsHeld, PartsHeldNext
<1>6. \A j : /\ RootEntries(j) = << >> /\ RootEntries(j)' = << >>
             /\ PendingEntries(j)' = PendingEntries(j)
  BY <1>1 DEF RootEntries, PendingEntries
<1>7. ASSUME NEW j \in 1 .. Len(levels), j # k PROVE Alike(Holding(j), Holding(j)')
  <2>1. LeftEntries(j)' = LeftEntries(j)
    BY <1>4, <1>7 DEF LeftEntries
  <2>2. LiveGrid(j)' = LiveGrid(j)
    <3>1. CASE j = k + 1
      <4>1. j > cur /\ j # cur /\ ~ (j > cur') /\ j = cur' /\ levels'[j] = levels[j]
        BY <1>1, <1>4, <1>7, <3>1
      <4>2. LiveGrid(j) = GridEntries(levels[j])
        BY <1>1, <4>1 DEF LiveGrid
      <4>3. Old' = levels'[j]
        BY <1>1, <4>1 DEF Old
      <4>4. LiveGrid(j)' = GridEntries(Old)'
        BY <1>1, <4>1 DEF LiveGrid
      <4> QED BY <4>1, <4>2, <4>3, <4>4 DEF GridEntries
    <3>2. CASE j > k + 1
      <4>1. j > cur /\ j > cur' /\ levels'[j] = levels[j]
        BY <1>1, <1>4, <1>7, <3>2
      <4> QED BY <1>1, <4>1 DEF LiveGrid, GridEntries
    <3>3. CASE j < k
      <4>1. ~ (j > cur) /\ ~ (j > cur') /\ j # cur /\ j # cur'
        BY <1>1, <3>3
      <4> QED BY <1>1, <4>1 DEF LiveGrid
    <3> QED BY <1>1, <1>7, <3>1, <3>2, <3>3
  <2>3. Holding(j)' = Holding(j)
    BY <1>6, <2>1, <2>2, HeldSame
  <2> QED BY <1>5, <2>3, AlikeSelf DEF HoldingsAre
<1>8. Alike(Holding(k), Holding(k)')
  <2>1. LiveGrid(k) = es /\ LeftEntries(k) = << >>
    BY <1>1 DEF LiveGrid, LeftEntries, es
  <2>2. LiveGrid(k)' = << >>
    <3>1. ~ (k > cur') /\ k # cur'
      BY <1>1
    <3> QED BY <1>1, <3>1 DEF LiveGrid
  <2>3. LeftEntries(k)' = es
    <3>1. es # None
      BY <1>1, RTreeLevelAssumption
    <3> QED BY <1>3, <1>4, <3>1 DEF LeftEntries
  <2> DEFINE p == PendingEntries(k)
  <2>4. /\ p \in Seq(Entry) /\ Holding(k) \in Seq(Entry)
        /\ Len(Holding(k)) = Len(es) + Len(<< >>) + Len(p) + Len(<< >>)
        /\ Refs(Holding(k)) = Refs(es) \cup Refs(<< >>) \cup Refs(p) \cup Refs(<< >>)
    BY <1>1, <1>5, <1>6, <2>1 DEF HoldingParts
  <2>5. k \in 1 .. Len(levels')
    BY <1>1, <1>4
  <2>6. /\ Len(Holding(k)') = Len(<< >>) + Len(es) + Len(p) + Len(<< >>)
        /\ Refs(Holding(k)') = Refs(<< >>) \cup Refs(es) \cup Refs(p) \cup Refs(<< >>)
    <3>1. /\ Len(Holding(k)') = Len(LiveGrid(k)') + Len(LeftEntries(k)')
                                + Len(PendingEntries(k)') + Len(RootEntries(k)')
          /\ Refs(Holding(k)') = Refs(LiveGrid(k)') \cup Refs(LeftEntries(k)')
                                 \cup Refs(PendingEntries(k)') \cup Refs(RootEntries(k)')
      BY <1>5, <2>5 DEF HoldingParts, Refs
    <3> QED BY <1>6, <2>2, <2>3, <3>1
  <2> HIDE DEF p
  <2>7. Len(Holding(k)') = Len(Holding(k)) /\ Refs(Holding(k)') = Refs(Holding(k))
    <3>1. Len(p) \in Nat /\ Len(es) \in Nat /\ Len(<< >>) = 0
      BY <1>1, <2>4
    <3>2. Len(Holding(k)') = Len(Holding(k))
      BY <2>4, <2>6, <3>1
    <3> QED BY <2>4, <2>6, <3>2
  <2> QED BY <2>4, <2>7, AlikeParts
<1>9. HeldAlike
  BY <1>4, <1>7, <1>8 DEF HeldAlike
<1> QED BY <1>1, <1>9 DEF NothingGone, PassedOn

LEMMA SaveLeftPasses ==
  ASSUME LoadInv, LoadInv', SaveLeft
  PROVE  PassedOn
<1> PICK k : k = cur
  OBVIOUS
<1>1. PICK new, ls : SaveLeftMakes(new, ls)
  BY SaveLeftEffect
<1> DEFINE es == GridEntries(Old)
<1>2. /\ pc = "root" /\ pending = {} /\ k \in 1 .. Len(levels) /\ k < Len(levels)
      /\ es \in Seq(Entry) /\ new.left = levels[k].left
      /\ ls \in Seq(Level) /\ Len(ls) = Len(levels) /\ ls[k] = new
      /\ \A j \in 1 .. Len(levels) : j # k => ls[j] = levels[j]
      /\ Saved(ls, k, es)
  BY <1>1 DEF SaveLeftMakes
<1> HIDE DEF es
<1>3. /\ old' = None /\ cur' = k + 1 /\ header.root = 0
      /\ UNCHANGED <<wide, at, header, pc, loaded, dealt>>
  BY <1>2 DEF SaveLeft, LoadInv, Phases
<1>4. HoldingsAre /\ PendingIs /\ PendingIs'
  BY HoldingsHeld, PendingHeld, PendingHeldNext
<1>5. /\ \A j \in 1 .. Len(levels) : levels'[j] = ls[j] /\ j \in 1 .. Len(levels')
  <2>1. /\ \A j \in 1 .. Len(ls) : levels'[j] = ls[j]
        /\ Len(levels') >= Len(ls) /\ levels' \in Seq(Level)
    BY <1>2 DEF Saved
  <2> QED BY <1>2, <2>1
<1>6. \A j : PendingEntries(j) = << >> /\ RootEntries(j) = << >> /\ RootEntries(j)' = << >>
  BY <1>2, <1>3, <1>4 DEF RootEntries, PendingIs
<1>7. ASSUME NEW j \in 1 .. Len(levels), j # k
      PROVE  LiveGrid(j)' = LiveGrid(j) /\ LeftEntries(j)' = LeftEntries(j)
  <2>1. LeftEntries(j)' = LeftEntries(j)
    BY <1>2, <1>5, <1>7 DEF LeftEntries
  <2>2. LiveGrid(j)' = LiveGrid(j)
    <3>1. CASE j = k + 1
      <4>1. j > cur /\ j # cur /\ ~ (j > cur') /\ j = cur' /\ levels'[j] = levels[j]
        BY <1>2, <1>3, <1>5, <1>7, <3>1
      <4>2. LiveGrid(j) = GridEntries(levels[j])
        BY <1>2, <1>3, <4>1 DEF LiveGrid
      <4>3. Old' = levels'[j]
        BY <1>2, <1>3, <4>1 DEF Old
      <4>4. LiveGrid(j)' = GridEntries(Old)'
        BY <1>2, <1>3, <4>1 DEF LiveGrid
      <4> QED BY <4>1, <4>2, <4>3, <4>4 DEF GridEntries
    <3>2. CASE j > k + 1
      <4>1. j > cur /\ j > cur' /\ levels'[j] = levels[j]
        BY <1>2, <1>3, <1>5, <1>7, <3>2
      <4> QED BY <1>2, <1>3, <4>1 DEF LiveGrid, GridEntries
    <3>3. CASE j < k
      <4>1. ~ (j > cur) /\ ~ (j > cur') /\ j # cur /\ j # cur'
        BY <1>2, <1>3, <3>3
      <4> QED BY <1>2, <1>3, <4>1 DEF LiveGrid
    <3> QED BY <1>2, <1>7, <3>1, <3>2, <3>3
  <2> QED BY <2>1, <2>2
<1>8. /\ LiveGrid(k) = es /\ LiveGrid(k)' = << >> /\ LeftEntries(k)' = LeftEntries(k)
  <2>1. LiveGrid(k) = es
    BY <1>2 DEF LiveGrid, es
  <2>2. LiveGrid(k)' = << >>
    <3>1. ~ (k > cur') /\ k # cur'
      BY <1>2, <1>3
    <3> QED BY <1>2, <1>3, <3>1 DEF LiveGrid
  <2> QED BY <1>2, <1>5, <2>1, <2>2 DEF LeftEntries
<1>9. /\ Len(levels') = (IF k = Len(levels) THEN Len(levels) + 1 ELSE Len(levels))
      /\ Grows(IF k = Len(levels) THEN << >> ELSE Holding(k + 1), Holding(k + 1)',
               1, {Len(file) + 1})
      /\ \A j \in 1 .. Len(levels) : j # k /\ j # k + 1 => Alike(Holding(j), Holding(j)')
      /\ PendingEntries(k)' = << >>
  <2>1. \A i \in pending : i.level = k
    BY <1>2
  <2>2. k # Len(levels)
    BY <1>2
  <2>3. header' = header
    BY <1>3
  <2> QED BY <1>2, <1>3, <1>7, <2>1, <2>2, <2>3, HeldAbove
<1>10. Grows(Holding(k)', Holding(k), Len(es), Refs(es))
  <2>1. Len(es) \in Nat /\ Len(<< >>) = 0
    BY <1>2
  <2>2. Len(LiveGrid(k)) + Len(PendingEntries(k))
          = Len(LiveGrid(k)') + Len(PendingEntries(k)') + Len(es)
    BY <1>6, <1>8, <1>9, <2>1
  <2>3. Refs(LiveGrid(k)) \cup Refs(PendingEntries(k))
          = Refs(LiveGrid(k)') \cup Refs(PendingEntries(k)') \cup Refs(es)
    BY <1>6, <1>8, <1>9, FewRefs
  <2>4. RootEntries(k)' = RootEntries(k) /\ k \in 1 .. Len(levels')
    BY <1>2, <1>5, <1>6
  <2> QED BY <1>2, <1>8, <2>1, <2>2, <2>3, <2>4, HeldShrinks
<1>11. NodeGone(k, es)
  <2>1. file' = Append(file, [leaf |-> k = 1, entries |-> es])
    BY <1>2 DEF Saved
  <2> QED BY <1>2, <1>3, <1>9, <1>10, <2>1 DEF NodeGone
<1> QED BY <1>11 DEF PassedOn

LEMMA MakeRootPasses ==
  ASSUME LoadInv, LoadInv', MakeRoot
  PROVE  PassedOn
<1> PICK k : k = cur
  OBVIOUS
<1> DEFINE es == GridEntries(Old)
           new == [levels[k] EXCEPT !.noentries = 0]
           node == [leaf |-> FALSE, entries |-> es]
<1>1. /\ pc = "root" /\ pc' = "left" /\ pending = {} /\ k = Len(levels)
      /\ k \in 1 .. Len(levels) /\ header.root = 0 /\ file' = Append(file, node) /\ header'.root = Len(file) + 1
      /\ header'.height = k - 1
      /\ UNCHANGED <<wide, at, pending, loaded, dealt>>
      /\ levels \in Seq(Level) /\ file \in Seq(Node) /\ es \in Seq(Entry)
      /\ levels[k].left = None /\ levels' = [levels EXCEPT ![k] = new]
  <2>1. Old \in Level
    BY OldType DEF LoadInv, IInv
  <2>2. file \in Seq(Node)
    BY HoldingsHeld DEF HoldingsAre
  <2>3. es \in Seq(Entry)
    BY <2>1, GridEntriesType
  <2>4. /\ pc = "root" /\ pc' = "left" /\ pending = {} /\ k = Len(levels)
        /\ file' = Append(file, node) /\ levels' = [levels EXCEPT ![k] = new]
        /\ UNCHANGED <<wide, at, pending, loaded, dealt>>
    BY DEF MakeRoot, AtRoot
  <2>5. header'.root = Len(file) + 1 /\ header'.height = k - 1
    BY DEF MakeRoot, HeaderOf
  <2>6. levels \in Seq(Level) /\ k \in 1 .. Len(levels)
    BY DEF LoadInv, IInv, TypeOK
  <2>7. header.root = 0
    BY <2>4 DEF LoadInv, Phases
  <2>8. levels[k].left = None
    BY <2>4, <2>6 DEF LoadInv, Phases
  <2> HIDE DEF es, node, new
  <2> QED BY <2>2, <2>3, <2>4, <2>5, <2>6, <2>7, <2>8
<1>2. new.left = levels[k].left
  <2>1. levels[k] \in Level
    BY <1>1
  <2> QED BY <2>1 DEF Level
<1> HIDE DEF new
<1>3. Len(levels') = Len(levels) /\ \A j \in 1 .. Len(levels) : levels'[j].left = levels[j].left
  BY <1>1, <1>2
<1>4. file'[Len(file) + 1].entries = es
  BY <1>1
<1> HIDE DEF es, node
<1>5. HoldingsAre /\ HoldingParts /\ HoldingParts'
  BY HoldingsHeld, PartsHeld, PartsHeldNext
<1>6. Len(file) + 1 # 0
  <2>1. Len(file) \in Nat
    BY <1>1
  <2> QED BY <2>1
<1>7. \A j \in 1 .. Len(levels) :
        /\ RootEntries(j) = << >> /\ PendingEntries(j)' = PendingEntries(j)
        /\ LeftEntries(j)' = LeftEntries(j) /\ LiveGrid(j)' = << >>
        /\ RootEntries(j)' = IF j = k THEN es ELSE << >>
  BY <1>1, <1>3, <1>4, <1>6 DEF RootEntries, PendingEntries, LeftEntries, LiveGrid
<1>8. ASSUME NEW j \in 1 .. Len(levels), j # k PROVE Alike(Holding(j), Holding(j)')
  <2>1. LiveGrid(j) = << >>
    <3>1. ~ (j > cur) /\ j # cur
      BY <1>1, <1>8
    <3> QED BY <1>1, <3>1 DEF LiveGrid
  <2>2. Holding(j)' = Holding(j)
    BY <1>7, <1>8, <2>1, HeldSame
  <2> QED BY <1>5, <2>2, AlikeSelf DEF HoldingsAre
<1>9. Alike(Holding(k), Holding(k)')
  <2>1. LiveGrid(k) = es
    BY <1>1 DEF LiveGrid, es
  <2> DEFINE p == PendingEntries(k)
             l == LeftEntries(k)
  <2>2. /\ p \in Seq(Entry) /\ l \in Seq(Entry) /\ Holding(k) \in Seq(Entry)
        /\ Len(Holding(k)) = Len(es) + Len(l) + Len(p) + Len(<< >>)
        /\ Refs(Holding(k)) = Refs(es) \cup Refs(l) \cup Refs(p) \cup Refs(<< >>)
    BY <1>1, <1>5, <1>7, <2>1 DEF HoldingParts
  <2>3. k \in 1 .. Len(levels')
    BY <1>1, <1>3
  <2>4. /\ Len(Holding(k)') = Len(<< >>) + Len(l) + Len(p) + Len(es)
        /\ Refs(Holding(k)') = Refs(<< >>) \cup Refs(l) \cup Refs(p) \cup Refs(es)
    <3>1. /\ Len(Holding(k)') = Len(LiveGrid(k)') + Len(LeftEntries(k)')
                                + Len(PendingEntries(k)') + Len(RootEntries(k)')
          /\ Refs(Holding(k)') = Refs(LiveGrid(k)') \cup Refs(LeftEntries(k)')
                                 \cup Refs(PendingEntries(k)') \cup Refs(RootEntries(k)')
      BY <1>5, <2>3 DEF HoldingParts, Refs
    <3> QED BY <1>1, <1>7, <3>1
  <2> HIDE DEF p, l
  <2>5. Len(Holding(k)') = Len(Holding(k)) /\ Refs(Holding(k)') = Refs(Holding(k))
    <3>1. Len(p) \in Nat /\ Len(l) \in Nat /\ Len(es) \in Nat /\ Len(<< >>) = 0
      BY <1>1, <2>2
    <3>2. Len(Holding(k)') = Len(Holding(k))
      BY <2>2, <2>4, <3>1
    <3> QED BY <2>2, <2>4, <3>2
  <2> QED BY <2>2, <2>5, AlikeParts
<1>10. HeldAlike
  BY <1>3, <1>8, <1>9 DEF HeldAlike
<1>11. file' = Append(file, [leaf |-> FALSE, entries |-> es])
  BY <1>1 DEF node
<1>12. Refs(es) = Refs(Holding(k))
  <2>1. LiveGrid(k) = es /\ LeftEntries(k) = << >> /\ RootEntries(k) = << >>
    BY <1>1, <1>7 DEF LiveGrid, LeftEntries, es
  <2>2. PendingEntries(k) = << >>
    BY <1>1, PendingHeld DEF PendingIs
  <2>3. Refs(Holding(k)) = Refs(LiveGrid(k)) \cup Refs(LeftEntries(k))
                            \cup Refs(PendingEntries(k)) \cup Refs(RootEntries(k))
    BY <1>1, <1>5 DEF HoldingParts
  <2> QED BY <2>1, <2>2, <2>3, FewRefs
<1>13. RootMade(es)
  BY <1>1, <1>10, <1>11, <1>12 DEF RootMade
<1> QED BY <1>13 DEF PassedOn

LEMMA NextPasses ==
  ASSUME LoadInv, LoadInv', [Next]_vars
  PROVE  PassedOn
BY LoadPasses, InsertPasses, SetRTreeRootPasses, WidenPasses, MoveEntryPasses,
   MoveNextNodePasses, WidenedPasses, KeepLeftPasses, SaveLeftPasses, MakeRootPasses,
   DealWithLeftEntriesPasses, StutterPasses
DEF Next

KeptInv == LoadInv /\ KeptCounts

LEMMA NextKept == KeptInv /\ [Next]_vars => KeptInv'
<1> SUFFICES ASSUME LoadInv, KeptCounts, [Next]_vars PROVE LoadInv' /\ KeptCounts'
  BY DEF KeptInv
<1>1. LoadInv'
  BY NextLoadInv
<1>2. PassedOn
  BY <1>1, NextPasses
<1>3. KeptCounts'
  BY <1>1, <1>2, KeptAlike, KeptLoaded, KeptRoot, KeptNodeGone DEF PassedOn
<1> QED BY <1>1, <1>3

(* Through all of the load each tuple is held exactly once, and each node  *)
(* written has exactly one entry that leads to it: entries wander from     *)
(* grid to wider grid, into nodes, into what is left over and into the     *)
(* root, and none is lost or doubled.                                      *)
THEOREM EntriesAlwaysKept == Spec => []EntriesKept
<1>1. Init => KeptInv
  BY InitLoadInv, InitKept DEF KeptInv
<1>2. KeptInv => EntriesKept
  BY KeptByCounts DEF KeptInv
<1> QED BY <1>1, <1>2, NextKept, PTL DEF Spec
-----------------------------------------------------------------------------
(***************************************************************************)
(* The height of every node                                                *)
(***************************************************************************)

(* Node n has the height lv[n], and its entries lead to nodes that were    *)
(* written before it and are one lower.                                    *)
NodeLeveled(lv, n) ==
  IF HoldsTuples(n) THEN lv[n] = 0
  ELSE /\ file[n].entries # << >>
       /\ \A r \in Refs(file[n].entries) : r \in 1 .. n - 1 /\ lv[r] + 1 = lv[n]

(* What level k holds leads to nodes of the height k - 2.                  *)
Leveled(lv) ==
  /\ lv \in [1 .. Len(file) -> Nat]
  /\ \A n \in 1 .. Len(file) : NodeLeveled(lv, n)
  /\ \A k \in 2 .. Len(levels) : \A r \in Refs(Holding(k)) : r \in 1 .. Len(file) /\ lv[r] = k - 2
  /\ header.root # 0 => header.root \in 1 .. Len(file) /\ lv[header.root] = header.height
  /\ \A d \in dealt : d[1] > 1 => d[2].ref \in 1 .. Len(file) /\ lv[d[2].ref] = d[1] - 2

TopHeld == \A k \in 2 .. Len(levels) : k = Len(levels) => Refs(Holding(k)) # {}

BalanceInv == (\E lv : Leveled(lv)) /\ TopHeld

LEMMA RefsPrime == \A k : Refs(Holding(k))' = Refs(Holding(k)')
  BY DEF Refs

LEMMA InitBalance == Init => BalanceInv
<1> SUFFICES ASSUME Init PROVE BalanceInv
  OBVIOUS
<1> DEFINE lv == [n \in {} |-> 0]
<1>1. Len(file) = 0 /\ Len(levels) = 1 /\ header.root = 0 /\ dealt = {}
  BY DEF Init
<1>2. 1 .. Len(file) = {} /\ 2 .. Len(levels) = {}
  BY <1>1
<1>3. lv \in [1 .. Len(file) -> Nat]
  BY <1>2
<1> HIDE DEF lv
<1>4. Leveled(lv)
  BY <1>1, <1>2, <1>3 DEF Leveled
<1> QED BY <1>1, <1>4 DEF BalanceInv, TopHeld

(* Nothing changes in the file, and no level holds more than before.       *)
LEMMA BalanceQuiet ==
  ASSUME LoadInv, LoadInv', NEW lv, Leveled(lv), TopHeld, UNCHANGED <<file, header>>,
         Len(levels') = Len(levels),
         \A k \in 2 .. Len(levels) : Refs(Holding(k)') = Refs(Holding(k)),
         \A d \in dealt' \ dealt : d[1] > 1 => d[2].ref \in 1 .. Len(file) /\ lv[d[2].ref] = d[1] - 2
  PROVE  Leveled(lv)' /\ TopHeld'
<1>1. \A k \in 2 .. Len(levels) : Refs(Holding(k))' = Refs(Holding(k))
  BY RefsPrime
<1>2. \A n : HoldsTuples(n)' <=> HoldsTuples(n)
  BY DEF HoldsTuples
<1>3. ASSUME NEW n \in 1 .. Len(file) PROVE NodeLeveled(lv, n)'
  <2>1. NodeLeveled(lv, n)
    BY <1>3 DEF Leveled
  <2> QED BY <1>2, <2>1 DEF NodeLeveled, Refs
<1>4. Leveled(lv)'
  <2>1. lv \in [1 .. Len(file') -> Nat]
    BY DEF Leveled
  <2>2. \A k \in 2 .. Len(levels') : \A r \in Refs(Holding(k))' : r \in 1 .. Len(file') /\ lv[r] = k - 2
    BY <1>1 DEF Leveled
  <2>3. header'.root # 0 => header'.root \in 1 .. Len(file') /\ lv[header'.root] = header'.height
    BY DEF Leveled
  <2>4. \A d \in dealt' : d[1] > 1 => d[2].ref \in 1 .. Len(file') /\ lv[d[2].ref] = d[1] - 2
    BY DEF Leveled
  <2> QED BY <1>3, <2>1, <2>2, <2>3, <2>4 DEF Leveled
<1>5. TopHeld'
  BY <1>1 DEF TopHeld
<1> QED BY <1>4, <1>5

(* A node is written: the step of a node of level k, or of the root.       *)
LEMMA BalanceNode ==
  ASSUME LoadInv, LoadInv', NEW lv, Leveled(lv), TopHeld, NEW k, NEW es, NodeGone(k, es),
         dealt' = dealt
  PROVE  (\E m : Leveled(m)') /\ TopHeld'
<1> PICK r : r = Len(file) + 1
  OBVIOUS
<1>1. /\ k \in 1 .. Len(levels) /\ k \in Nat \ {0} /\ es \in Seq(Entry) /\ header.root = 0
      /\ header' = header /\ file \in Seq(Node) /\ Len(file) \in Nat /\ Len(levels) \in Nat
  <2>1. k \in 1 .. Len(levels) /\ es \in Seq(Entry) /\ header.root = 0 /\ header' = header
    BY DEF NodeGone
  <2>2. file \in Seq(Node) /\ levels \in Seq(Level)
    BY HoldingsHeld DEF HoldingsAre, LoadInv, IInv, TypeOK
  <2> QED BY <2>1, <2>2
<1>2. /\ Len(file') = r /\ \A n \in 1 .. Len(file) : file'[n] = file[n]
      /\ file'[r] = [leaf |-> k = 1, entries |-> es] /\ r # 0 /\ r \notin 1 .. Len(file)
  BY <1>1 DEF NodeGone
<1>3. /\ \A j \in 1 .. Len(levels) : j # k /\ j # k + 1 => Refs(Holding(j))' = Refs(Holding(j))
      /\ Refs(Holding(k)) = Refs(Holding(k))' \cup Refs(es)
      /\ k = Len(levels) => Refs(Holding(k + 1))' = {r}
      /\ k # Len(levels) => Refs(Holding(k + 1))' = Refs(Holding(k + 1)) \cup {r}
  <2>1. Refs(<< >>) = {}
    BY FewRefs
  <2> QED BY <1>1, <2>1, RefsPrime DEF NodeGone, Grows, Alike
<1>4. /\ Len(levels') = (IF k = Len(levels) THEN Len(levels) + 1 ELSE Len(levels))
  BY DEF NodeGone
<1>5. PICK m : /\ m \in [1 .. Len(file) + 1 -> Nat] /\ m[r] = k - 1
               /\ \A n \in 1 .. Len(file) : m[n] = lv[n]
  <2> DEFINE m == [n \in 1 .. Len(file) + 1 |-> IF n = r THEN k - 1 ELSE lv[n]]
  <2>1. lv \in [1 .. Len(file) -> Nat]
    BY DEF Leveled
  <2>2. /\ m \in [1 .. Len(file) + 1 -> Nat] /\ m[r] = k - 1
        /\ \A n \in 1 .. Len(file) : m[n] = lv[n]
    BY <1>1, <1>2, <2>1
  <2> QED BY <2>2
<1>6. \A x \in Refs(es) : k \in 2 .. Len(levels) => x \in 1 .. Len(file) /\ lv[x] = k - 2
  BY <1>1, <1>3 DEF Leveled
<1>7. es # << >>
  <2>1. LET size == Len(file'[r].entries)
        IN  (IF file'[r].leaf THEN MinLeaf ELSE MinInternal) <= size
    BY <1>1, <1>2 DEF LoadInv, NodesFilled
  <2>2. Len(es) # 0
    BY <1>1, <1>2, <2>1, RTreeLevelAssumption
  <2> QED BY <2>2
<1>8. ASSUME NEW n \in 1 .. Len(file) PROVE NodeLeveled(m, n)'
  <2>1. NodeLeveled(lv, n)
    BY <1>8 DEF Leveled
  <2>2. HoldsTuples(n)' <=> HoldsTuples(n)
    BY <1>1, <1>2, <1>8 DEF HoldsTuples
  <2>3. file'[n] = file[n] /\ m[n] = lv[n]
    BY <1>2, <1>5, <1>8
  <2>4. CASE HoldsTuples(n)
    BY <2>1, <2>2, <2>3, <2>4 DEF NodeLeveled
  <2>5. CASE ~ HoldsTuples(n)
    <3>1. \A x \in Refs(file[n].entries) : x \in 1 .. n - 1 /\ m[x] + 1 = m[n]
      <4>1. \A x \in 1 .. n - 1 : x \in 1 .. Len(file)
        BY <1>1, <1>8
      <4> QED BY <1>5, <2>1, <2>3, <2>5, <4>1 DEF NodeLeveled
    <3> QED BY <2>1, <2>2, <2>3, <2>5, <3>1 DEF NodeLeveled, Refs
  <2> QED BY <2>4, <2>5
<1>9. NodeLeveled(m, r)'
  <2>1. HoldsTuples(r)' <=> k = 1
    <3>1. file'[r].leaf = (k = 1)
      <4> DEFINE b == k = 1
      <4>1. file'[r] = [leaf |-> b, entries |-> es]
        BY <1>2
      <4> HIDE DEF b
      <4>2. file'[r].leaf = b
        BY <4>1
      <4> QED BY <4>2 DEF b
    <3>2. r # header'.root
      BY <1>1, <1>2
    <3> QED BY <3>1, <3>2, Zenon DEF HoldsTuples
  <2>2. CASE k = 1
    BY <1>5, <2>1, <2>2 DEF NodeLeveled
  <2>3. CASE k # 1
    <3>1. \A x \in Refs(es) : x \in 1 .. r - 1 /\ m[x] + 1 = m[r]
      <4>1. k \in 2 .. Len(levels) /\ r - 1 = Len(file)
        BY <1>1, <2>3
      <4> QED BY <1>1, <1>5, <1>6, <4>1
    <3> QED BY <1>2, <1>7, <2>1, <2>3, <3>1 DEF NodeLeveled, Refs
  <2> QED BY <2>2, <2>3
<1>10. ASSUME NEW j \in 2 .. Len(levels'), NEW x \in Refs(Holding(j))'
       PROVE  x \in 1 .. Len(file') /\ m[x] = j - 2
  <2>1. CASE x = r /\ j = k + 1
    BY <1>1, <1>2, <1>5, <2>1
  <2>2. CASE ~ (x = r /\ j = k + 1)
    <3>1. j \in 2 .. Len(levels) /\ x \in Refs(Holding(j))
      <4>1. CASE j = k
        BY <1>1, <1>3, <1>10, <4>1
      <4>2. CASE j = k + 1
        <5>1. x # r /\ k # Len(levels)
          BY <1>3, <1>10, <2>2, <4>2
        <5> QED BY <1>1, <1>3, <1>4, <1>10, <4>2, <5>1
      <4>3. CASE j # k /\ j # k + 1
        <5>1. j \in 2 .. Len(levels) /\ j \in 1 .. Len(levels)
          BY <1>1, <1>4, <1>10, <4>3
        <5> QED BY <1>3, <1>10, <4>3, <5>1
      <4> QED BY <4>1, <4>2, <4>3
    <3>2. x \in 1 .. Len(file) /\ lv[x] = j - 2
      BY <3>1 DEF Leveled
    <3> QED BY <1>1, <1>2, <1>5, <3>2
  <2> QED BY <2>1, <2>2
<1>11. \A d \in dealt' : d[1] > 1 => d[2].ref \in 1 .. Len(file') /\ m[d[2].ref] = d[1] - 2
  <2>1. \A d \in dealt : d[1] > 1 => d[2].ref \in 1 .. Len(file) /\ lv[d[2].ref] = d[1] - 2
    BY DEF Leveled
  <2> QED BY <1>1, <1>2, <1>5, <2>1
<1>12. Leveled(m)'
  <2>1. m \in [1 .. Len(file') -> Nat] /\ header'.root = 0
    BY <1>1, <1>2, <1>5
  <2>2. \A n \in 1 .. Len(file') : NodeLeveled(m, n)'
    BY <1>1, <1>2, <1>8, <1>9
  <2> QED BY <1>10, <1>11, <2>1, <2>2 DEF Leveled
<1>13. TopHeld'
  <2>1. SUFFICES ASSUME NEW j \in 2 .. Len(levels'), j = Len(levels') PROVE Refs(Holding(j))' # {}
    BY DEF TopHeld
  <2>2. CASE j = k + 1
    BY <1>3, <2>2
  <2>3. CASE j # k + 1
    BY <1>1, <1>3, <1>4, <2>1, <2>3 DEF TopHeld
  <2> QED BY <2>2, <2>3
<1> QED BY <1>12, <1>13

(* The root is written.                                                    *)
LEMMA BalanceRoot ==
  ASSUME LoadInv, LoadInv', NEW lv, Leveled(lv), TopHeld, NEW es, RootMade(es), dealt' = dealt
  PROVE  (\E m : Leveled(m)') /\ TopHeld'
<1> PICK r : r = Len(file) + 1
  OBVIOUS
<1> PICK k : k = Len(levels)
  OBVIOUS
<1>1. /\ k \in 1 .. Len(levels) /\ k \in Nat \ {0} /\ es \in Seq(Entry) /\ header.root = 0
      /\ header'.root = r /\ header'.height = k - 1 /\ Len(levels') = k /\ HeldAlike
      /\ Refs(es) = Refs(Holding(k)) /\ file' = Append(file, [leaf |-> FALSE, entries |-> es])
      /\ file \in Seq(Node) /\ Len(file) \in Nat
  <2>1. /\ es \in Seq(Entry) /\ header.root = 0 /\ header'.root = r /\ header'.height = k - 1
        /\ Len(levels') = k /\ HeldAlike /\ Refs(es) = Refs(Holding(k))
        /\ file' = Append(file, [leaf |-> FALSE, entries |-> es])
    BY DEF RootMade, HeldAlike
  <2>2. file \in Seq(Node)
    BY HoldingsHeld DEF HoldingsAre
  <2>3. levels \in Seq(Level) /\ cur \in 1 .. Len(levels)
    BY DEF LoadInv, IInv, TypeOK
  <2>4. k \in 1 .. Len(levels) /\ k \in Nat \ {0}
    BY <2>3
  <2> QED BY <2>1, <2>2, <2>4
<1>2. /\ Len(file') = r /\ \A n \in 1 .. Len(file) : file'[n] = file[n]
      /\ file'[r] = [leaf |-> FALSE, entries |-> es] /\ r # 0 /\ r \notin 1 .. Len(file)
  BY <1>1
<1>3. \A j \in 1 .. Len(levels) : Refs(Holding(j))' = Refs(Holding(j))
  <2>1. \A j \in 1 .. Len(levels) : Refs(Holding(j)') = Refs(Holding(j))
    BY <1>1 DEF HeldAlike, Alike, Grows
  <2> QED BY <2>1, RefsPrime
<1>4. PICK m : /\ m \in [1 .. Len(file) + 1 -> Nat] /\ m[r] = k - 1
               /\ \A n \in 1 .. Len(file) : m[n] = lv[n]
  <2> DEFINE m == [n \in 1 .. Len(file) + 1 |-> IF n = r THEN k - 1 ELSE lv[n]]
  <2>1. lv \in [1 .. Len(file) -> Nat]
    BY DEF Leveled
  <2>2. /\ m \in [1 .. Len(file) + 1 -> Nat] /\ m[r] = k - 1
        /\ \A n \in 1 .. Len(file) : m[n] = lv[n]
    BY <1>1, <1>2, <2>1
  <2> QED BY <2>2
<1>5. ASSUME NEW n \in 1 .. Len(file) PROVE NodeLeveled(m, n)'
  <2>1. NodeLeveled(lv, n)
    BY <1>5 DEF Leveled
  <2>2. HoldsTuples(n)' <=> HoldsTuples(n)
    BY <1>1, <1>2, <1>5 DEF HoldsTuples
  <2>3. file'[n] = file[n] /\ m[n] = lv[n]
    BY <1>2, <1>4, <1>5
  <2>4. CASE HoldsTuples(n)
    BY <2>1, <2>2, <2>3, <2>4 DEF NodeLeveled
  <2>5. CASE ~ HoldsTuples(n)
    <3>1. \A x \in Refs(file[n].entries) : x \in 1 .. n - 1 /\ m[x] + 1 = m[n]
      <4>1. \A x \in 1 .. n - 1 : x \in 1 .. Len(file)
        BY <1>1, <1>5
      <4> QED BY <1>4, <2>1, <2>3, <2>5, <4>1 DEF NodeLeveled
    <3> QED BY <2>1, <2>2, <2>3, <2>5, <3>1 DEF NodeLeveled, Refs
  <2> QED BY <2>4, <2>5
<1>6. NodeLeveled(m, r)'
  <2>1. HoldsTuples(r)' <=> k = 1
    BY <1>1, <1>2 DEF HoldsTuples
  <2>2. CASE k = 1
    BY <1>4, <2>1, <2>2 DEF NodeLeveled
  <2>3. CASE k # 1
    <3>1. k \in 2 .. Len(levels) /\ r - 1 = Len(file)
      BY <1>1, <2>3
    <3>2. \A x \in Refs(es) : x \in 1 .. r - 1 /\ m[x] + 1 = m[r]
      <4>1. \A x \in Refs(es) : x \in 1 .. Len(file) /\ lv[x] = k - 2
        BY <1>1, <3>1 DEF Leveled
      <4>2. \A x \in Refs(es) : m[x] = lv[x]
        BY <1>4, <4>1
      <4> QED BY <1>1, <1>4, <3>1, <4>1, <4>2
    <3>3. es # << >>
      BY <1>1, <3>1, FewRefs DEF TopHeld
    <3> QED BY <1>2, <2>1, <2>3, <3>2, <3>3 DEF NodeLeveled, Refs
  <2> QED BY <2>2, <2>3
<1>7. ASSUME NEW j \in 2 .. Len(levels'), NEW x \in Refs(Holding(j))'
      PROVE  x \in 1 .. Len(file') /\ m[x] = j - 2
  <2>1. j \in 2 .. Len(levels) /\ x \in Refs(Holding(j))
    BY <1>1, <1>3, <1>7
  <2>2. x \in 1 .. Len(file) /\ lv[x] = j - 2
    BY <2>1 DEF Leveled
  <2> QED BY <1>1, <1>2, <1>4, <2>2
<1>8. \A d \in dealt' : d[1] > 1 => d[2].ref \in 1 .. Len(file') /\ m[d[2].ref] = d[1] - 2
  <2>1. \A d \in dealt : d[1] > 1 => d[2].ref \in 1 .. Len(file) /\ lv[d[2].ref] = d[1] - 2
    BY DEF Leveled
  <2>2. \A n \in 1 .. Len(file) : n \in 1 .. Len(file')
    BY <1>1, <1>2
  <2> QED BY <1>4, <2>1, <2>2
<1>9. Leveled(m)'
  <2>1. m \in [1 .. Len(file') -> Nat]
    BY <1>1, <1>2, <1>4
  <2>2. \A n \in 1 .. Len(file') : NodeLeveled(m, n)'
    BY <1>1, <1>2, <1>5, <1>6
  <2>3. header'.root \in 1 .. Len(file') /\ m[header'.root] = header'.height
    BY <1>1, <1>2, <1>4
  <2> QED BY <1>7, <1>8, <2>1, <2>2, <2>3 DEF Leveled
<1>10. TopHeld'
  BY <1>1, <1>3 DEF TopHeld
<1> QED BY <1>9, <1>10

(* What is dealt is what a level holds.                                    *)
LEMMA DealtHeld ==
  ASSUME LoadInv, NEW lv, Leveled(lv), DealWithLeftEntries
  PROVE  \A d \in dealt' \ dealt : d[1] > 1 => /\ d[2].ref \in 1 .. Len(file)
                                               /\ lv[d[2].ref] = d[1] - 2
<1>1. pc = "left" /\ dealt' = dealt \cup Dealt(cur) /\ cur \in 1 .. Len(levels)
  BY DEF DealWithLeftEntries, LoadInv, IInv, TypeOK
<1> SUFFICES ASSUME NEW d \in Dealt(cur), d[1] > 1
             PROVE  d[2].ref \in 1 .. Len(file) /\ lv[d[2].ref] = d[1] - 2
  BY <1>1
<1>2. levels[cur].noentries # 0
  BY DEF Dealt
<1>3. levels[cur].left # None
  BY <1>1, <1>2 DEF LoadInv, IInv, LeftBehind, HasLeft
<1>4. PICK e \in ToSet(levels[cur].left) : d = <<cur, e>>
  BY <1>2 DEF Dealt
<1>5. LeftEntries(cur) = levels[cur].left
  BY <1>3 DEF LeftEntries
<1>6. e.ref \in Refs(LeftEntries(cur))
  BY <1>4, <1>5 DEF Refs
<1>7. e.ref \in Refs(Holding(cur))
  BY <1>1, <1>6, PartsHeld DEF HoldingParts
<1>8. cur \in 2 .. Len(levels) /\ d[1] = cur /\ d[2] = e
  BY <1>1, <1>4
<1> QED BY <1>7, <1>8 DEF Leveled

LEMMA NextBalance == LoadInv /\ LoadInv' /\ BalanceInv /\ [Next]_vars => BalanceInv'
<1> SUFFICES ASSUME LoadInv, LoadInv', NEW lv, Leveled(lv), TopHeld, [Next]_vars
             PROVE  (\E m : Leveled(m)') /\ TopHeld'
  BY DEF BalanceInv
<1>1. \A k \in 2 .. Len(levels) : k \in 1 .. Len(levels)
  BY LevelsExist
<1>2. ~ DealWithLeftEntries => dealt' = dealt
  BY DEF Next, vars, Load, Insert, SetRTreeRoot, Widen, MoveEntry, MoveNextNode, Widened,
         KeepLeft, SaveLeft, MakeRoot
<1>3. CASE NothingGone \/ TupleComes
  <2>1. UNCHANGED <<file, header>> /\ Len(levels') = Len(levels)
    BY <1>3 DEF NothingGone, TupleComes, HeldAlike
  <2>2. \A k \in 2 .. Len(levels) : Refs(Holding(k)') = Refs(Holding(k))
    BY <1>1, <1>3 DEF NothingGone, TupleComes, HeldAlike, Alike, Grows
  <2>3. \A d \in dealt' \ dealt : d[1] > 1 => d[2].ref \in 1 .. Len(file) /\ lv[d[2].ref] = d[1] - 2
    BY <1>2, DealtHeld
  <2> QED BY <2>1, <2>2, <2>3, BalanceQuiet
<1>4. CASE ~ (NothingGone \/ TupleComes)
  <2>1. (\E es : RootMade(es)) \/ (\E k, es : NodeGone(k, es))
    BY <1>4, NextPasses DEF PassedOn
  <2>2. dealt' = dealt
    <3>1. file' # file
      <4>1. \E node : file' = Append(file, node)
        BY <2>1 DEF RootMade, NodeGone
      <4>2. file \in Seq(Node)
        BY HoldingsHeld DEF HoldingsAre
      <4>3. Len(file') # Len(file)
        BY <4>1, <4>2
      <4> QED BY <4>3
    <3> QED BY <1>2, <3>1 DEF DealWithLeftEntries
  <2> QED BY <2>1, <2>2, BalanceRoot, BalanceNode
<1> QED BY <1>3, <1>4

(* Heights are what they were built to be.                                 *)
LEMMA HeightIs ==
  ASSUME NEW lv, Leveled(lv), file \in Seq(Node)
  PROVE  \A n \in 1 .. Len(file) : Height[n] = lv[n]
<1> DEFINE rec(h) == [n \in 1 .. Len(file) |->
                       IF HoldsTuples(n) THEN 0 ELSE h[file[n].entries[1].ref] + 1]
<1>1. \A n \in 1 .. Len(file) : ~ HoldsTuples(n) =>
        /\ file[n].entries[1].ref \in 1 .. n - 1
        /\ lv[file[n].entries[1].ref] + 1 = lv[n]
  <2>1. SUFFICES ASSUME NEW n \in 1 .. Len(file), ~ HoldsTuples(n)
                 PROVE  /\ file[n].entries[1].ref \in 1 .. n - 1
                        /\ lv[file[n].entries[1].ref] + 1 = lv[n]
    OBVIOUS
  <2>2. NodeLeveled(lv, n)
    BY DEF Leveled
  <2>3. file[n].entries \in Seq(Entry) /\ file[n].entries # << >>
    BY <2>1, <2>2, NodeParts DEF NodeLeveled
  <2> DEFINE es == file[n].entries
  <2>4. es[1] \in ToSet(es)
    <3> HIDE DEF es
    <3>1. 1 \in DOMAIN es
      BY <2>3 DEF es
    <3> QED BY <3>1 DEF ToSet
  <2>5. es[1].ref \in Refs(es)
    BY <2>4 DEF Refs
  <2> QED BY <2>1, <2>2, <2>5 DEF NodeLeveled
<1>2. lv = rec(lv)
  <2>1. lv \in [1 .. Len(file) -> Nat] /\ rec(lv) = [n \in 1 .. Len(file) |-> rec(lv)[n]]
    BY DEF Leveled
  <2>2. \A n \in 1 .. Len(file) : lv[n] = rec(lv)[n]
    BY <1>1 DEF Leveled, NodeLeveled
  <2> HIDE DEF rec
  <2> QED BY <2>1, <2>2
<1>3. Height = CHOOSE h : h = rec(h)
  BY DEF Height
<1>4. Height = rec(Height)
  <2> HIDE DEF rec
  <2> QED BY <1>2, <1>3
<1> HIDE DEF rec
<1> DEFINE h == Height
           G == {n \in Nat : \A i \in 1 .. n : i \in 1 .. Len(file) => h[i] = lv[i]}
<1>5. \A n \in 1 .. Len(file) : h[n] = IF HoldsTuples(n) THEN 0 ELSE h[file[n].entries[1].ref] + 1
  BY <1>4 DEF rec
<1> HIDE DEF h
<1>6. 0 \in G
  OBVIOUS
<1>7. ASSUME NEW n \in Nat, n \in G PROVE n + 1 \in G
  <2>1. SUFFICES ASSUME n + 1 \in 1 .. Len(file) PROVE h[n + 1] = lv[n + 1]
    BY <1>7
  <2> DEFINE r == file[n + 1].entries[1].ref
  <2>2. CASE HoldsTuples(n + 1)
    <3>1. NodeLeveled(lv, n + 1)
      BY <2>1 DEF Leveled
    <3> QED BY <1>5, <2>1, <2>2, <3>1 DEF NodeLeveled
  <2>3. CASE ~ HoldsTuples(n + 1)
    <3>1. h[n + 1] = h[r] + 1 /\ r \in 1 .. (n + 1) - 1 /\ lv[r] + 1 = lv[n + 1]
      BY <1>1, <1>5, <2>1, <2>3
    <3> HIDE DEF r
    <3>2. r \in 1 .. n /\ r \in 1 .. Len(file)
      BY <2>1, <3>1
    <3>3. h[r] = lv[r]
      BY <1>7, <3>2
    <3> QED BY <3>1, <3>3
  <2> QED BY <2>2, <2>3
<1>8. Len(file) \in Nat
  OBVIOUS
<1> HIDE DEF G
<1>9. 1 \in G
  <2>1. 0 \in Nat /\ 0 + 1 = 1
    OBVIOUS
  <2> QED BY <1>6, <1>7, <2>1
<1>10. \A i \in 1 .. Len(file) : i \in G
  <2>1. \A i \in 1 .. Len(file) - 1 : i \in G => i + 1 \in G
    BY <1>7
  <2> QED BY <1>8, <1>9, <2>1, UpTo
<1> QED BY <1>10 DEF G, h

LEMMA BalancedByLevels == LoadInv /\ BalanceInv => Balanced
<1> SUFFICES ASSUME LoadInv, NEW lv, Leveled(lv) PROVE Balanced
  BY DEF BalanceInv
<1>1. file \in Seq(Node) /\ \A n \in 1 .. Len(file) : Height[n] = lv[n]
  BY HoldingsHeld, HeightIs DEF HoldingsAre
<1> DEFINE h == Height
<1>2. \A n \in 1 .. Len(file) : h[n] = lv[n]
  BY <1>1
<1> HIDE DEF h
<1>3. ASSUME NEW n \in 1 .. Len(file), ~ HoldsTuples(n), NEW e \in ToSet(file[n].entries)
      PROVE  h[e.ref] = h[n] - 1
  <2>1. e.ref \in Refs(file[n].entries)
    BY DEF Refs
  <2>2. e.ref \in 1 .. n - 1 /\ lv[e.ref] + 1 = lv[n]
    BY <1>3, <2>1 DEF Leveled, NodeLeveled
  <2>3. e.ref \in 1 .. Len(file) /\ lv \in [1 .. Len(file) -> Nat]
    BY <1>1, <2>2 DEF Leveled
  <2> QED BY <1>2, <2>2, <2>3
<1>4. header.root # 0 => h[header.root] = header.height
  BY <1>2 DEF Leveled
<1>5. \A d \in dealt : d[1] > 1 => h[d[2].ref] = d[1] - 2
  BY <1>2 DEF Leveled
<1>6. /\ \A n \in 1 .. Len(file) :
           ~ HoldsTuples(n) => \A e \in ToSet(file[n].entries) : h[e.ref] = h[n] - 1
      /\ header.root # 0 => h[header.root] = header.height
      /\ \A d \in dealt : d[1] > 1 => h[d[2].ref] = d[1] - 2
  BY <1>3, <1>4, <1>5
<1> QED BY <1>6 DEF Balanced, h

(* All paths of the tree have one length: the grids of a level are only    *)
(* ever given nodes of one height, across the rounds of wider cells and    *)
(* the levels GetRoot adds while it climbs, the header has the height of   *)
(* the root, and what is left over goes to the R-tree's own insertion with *)
(* the height of its nodes.                                                *)
THEOREM AlwaysBalanced == Spec => []Balanced
<1> DEFINE Inv == LoadInv /\ BalanceInv
<1>1. Init => Inv
  BY InitLoadInv, InitBalance
<1>2. Inv /\ [Next]_vars => Inv'
  BY NextLoadInv, NextBalance
<1>3. Inv => Balanced
  BY BalancedByLevels
<1> QED BY <1>1, <1>2, <1>3, PTL DEF Spec
=============================================================================
