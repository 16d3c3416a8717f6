-------------------------- MODULE SequenceLemmas --------------------------
(***************************************************************************)
(* Facts about the community operators the models use: that a set of       *)
(* natural numbers has a least element, a function on 1 .. n a greatest    *)
(* value, and what FlattenSeq returns: its type, members and length, and   *)
(* how they change with one of the sequences it joins.                     *)
(***************************************************************************)
EXTENDS Integers, Sequences, SequencesExt, FiniteSetTheorems, WellFoundedInduction, TLAPS

Less == {ss \in Nat \X Nat : ss[1] < ss[2]}

(* The order of the natural numbers is well-founded.                       *)
LEMMA LessWellFounded == IsWellFoundedOn(Less, Nat)
  BY NatLessThanWellFounded DEF Less, OpToRel

(* A set of natural numbers has a least element.                           *)
LEMMA MinExists ==
  ASSUME NEW S \in SUBSET Nat, S # {}
  PROVE  \E x \in S : \A y \in S : x <= y
<1>1. PICK x \in S : \A y \in S : ~ (<<y, x>> \in Less)
  BY LessWellFounded, WFMin, Zenon
<1>2. ASSUME NEW y \in S PROVE x <= y
  <2>1. x \in Nat /\ y \in Nat OBVIOUS
  <2>2. y < x => <<y, x>> \in Less
    BY <2>1 DEF Less
  <2> QED BY <2>1, <2>2, <1>1
<1> QED BY <1>2

(* Induction up to n, on membership in a set.                              *)
LEMMA UpTo ==
  ASSUME NEW n \in Nat, NEW G, 1 \in G, \A i \in 1 .. n - 1 : i \in G => i + 1 \in G
  PROVE  \A i \in 1 .. n : i \in G
<1> DEFINE Bad == {i \in 1 .. n : i \notin G}
<1>1. SUFFICES ASSUME Bad # {} PROVE FALSE
  OBVIOUS
<1>2. Bad \in SUBSET Nat
  OBVIOUS
<1>3. PICK m \in Bad : \A k \in Bad : m <= k
  BY <1>1, <1>2, MinExists
<1>4. m \in 1 .. n /\ m \notin G /\ m # 1
  OBVIOUS
<1>5. m - 1 \in 1 .. n - 1 /\ m - 1 \in 1 .. n /\ ~ (m <= m - 1) /\ m - 1 + 1 = m
  BY <1>4
<1>6. m - 1 \in G
  BY <1>3, <1>5
<1> QED BY <1>4, <1>5, <1>6

(* One of the values of a function on 1 .. n is the greatest.              *)
LEMMA MaxExists ==
  ASSUME NEW n \in Nat, n # 0, NEW f \in [1 .. n -> Nat]
  PROVE  \E i \in 1 .. n : \A j \in 1 .. n : f[j] <= f[i]
<1> DEFINE Bad == {m \in 1 .. n : ~ \E i \in 1 .. m : \A j \in 1 .. m : f[j] <= f[i]}
<1>0. n \in 1 .. n
  OBVIOUS
<1>1. SUFFICES ASSUME Bad # {} PROVE FALSE
  BY <1>0
<1>2. Bad \in SUBSET Nat
  OBVIOUS
<1>3. PICK m \in Bad : \A k \in Bad : m <= k
  BY <1>1, <1>2, MinExists
<1>4. m \in 1 .. n /\ ~ \E i \in 1 .. m : \A j \in 1 .. m : f[j] <= f[i]
  OBVIOUS
<1>5. CASE m = 1
  BY <1>4, <1>5
<1>6. CASE m > 1
  <2>1. m - 1 \in 1 .. n /\ ~ (m <= m - 1)
    BY <1>4, <1>6
  <2>2. m - 1 \notin Bad
    BY <1>3, <2>1
  <2>3. PICK i \in 1 .. m - 1 : \A j \in 1 .. m - 1 : f[j] <= f[i]
    BY <2>1, <2>2
  <2>4. \A j \in 1 .. m : j = m \/ j \in 1 .. m - 1
    BY <1>4
  <2>5. i \in 1 .. m /\ m \in 1 .. m /\ f[i] \in Nat /\ f[m] \in Nat
    BY <1>4, <2>1
  <2>6. CASE f[m] <= f[i]
    BY <1>4, <2>3, <2>4, <2>5, <2>6
  <2>7. CASE f[i] <= f[m]
    BY <1>4, <2>3, <2>4, <2>5, <2>7, SMTT(60)
  <2> QED BY <2>5, <2>6, <2>7
<1> QED BY <1>4, <1>5, <1>6

(* f joins the first n of the sequences of seqs, as FlattenSeq does.       *)
Joins(f, seqs, n) ==
  \A i \in 1 .. n : f[i] = IF i = 1 THEN seqs[i] ELSE f[i-1] \o seqs[i]

(* The sequences can be joined one after the other.                        *)
LEMMA JoinExists ==
  ASSUME NEW S, NEW seqs \in Seq(Seq(S)), NEW n \in 1 .. Len(seqs)
  PROVE  \E f \in [1 .. n -> Seq(S)] : Joins(f, seqs, n)
<1> DEFINE Bad == {m \in 1 .. Len(seqs) : ~ \E f \in [1 .. m -> Seq(S)] : Joins(f, seqs, m)}
<1>0. Len(seqs) \in Nat /\ \A i \in 1 .. Len(seqs) : seqs[i] \in Seq(S)
  OBVIOUS
<1>1. SUFFICES ASSUME Bad # {} PROVE FALSE
  OBVIOUS
<1>2. Bad \in SUBSET Nat
  OBVIOUS
<1>3. PICK m \in Bad : \A k \in Bad : m <= k
  BY <1>1, <1>2, MinExists
<1>4. m \in 1 .. Len(seqs) /\ ~ \E f \in [1 .. m -> Seq(S)] : Joins(f, seqs, m)
  OBVIOUS
<1>5. CASE m = 1
  <2> DEFINE f == [i \in 1 .. 1 |-> seqs[1]]
  <2>1. f \in [1 .. m -> Seq(S)]
    BY <1>0, <1>4, <1>5
  <2>2. Joins(f, seqs, m)
    BY <1>5 DEF Joins
  <2> QED BY <1>4, <2>1, <2>2
<1>6. CASE m > 1
  <2>1. m - 1 \in 1 .. Len(seqs) /\ ~ (m <= m - 1)
    BY <1>0, <1>4, <1>6
  <2>2. m - 1 \notin Bad
    BY <1>3, <2>1
  <2>3. PICK f \in [1 .. m - 1 -> Seq(S)] : Joins(f, seqs, m - 1)
    BY <2>1, <2>2
  <2> DEFINE g == [i \in 1 .. m |-> IF i = m THEN f[m-1] \o seqs[m] ELSE f[i]]
  <2>4. f[m-1] \o seqs[m] \in Seq(S)
    BY <1>0, <1>4, <1>6, <2>1, <2>3
  <2>5. g \in [1 .. m -> Seq(S)]
    BY <1>0, <1>4, <1>6, <2>4
  <2>6. ASSUME NEW i \in 1 .. m
        PROVE  g[i] = IF i = 1 THEN seqs[i] ELSE g[i-1] \o seqs[i]
    <3>1. CASE i = m
      <4>1. m \in 1 .. m /\ m - 1 \in 1 .. m /\ m - 1 # m
        BY <1>0, <1>4, <1>6
      <4>2. g[m-1] = f[m-1] /\ g[m] = f[m-1] \o seqs[m]
        BY <4>1, Zenon
      <4>3. m # 1
        BY <1>6
      <4> HIDE DEF g
      <4> QED BY <3>1, <4>2, <4>3, Zenon
    <3>2. CASE i < m
      <4>1. i \in 1 .. m - 1 /\ g[i] = f[i]
        BY <1>4, <1>6, <3>2
      <4>2. i # 1 => g[i-1] = f[i-1]
        BY <1>4, <1>6, <3>2
      <4> QED BY <4>1, <4>2, <2>3 DEF Joins
    <3> QED BY <3>1, <3>2, <1>4
  <2>7. Joins(g, seqs, m)
    BY <2>6 DEF Joins
  <2> QED BY <1>4, <2>5, <2>7
<1> QED BY <1>0, <1>4, <1>5, <1>6

(* Whatever joins the sequences is of sequences over their elements.       *)
LEMMA JoinType ==
  ASSUME NEW S, NEW seqs \in Seq(Seq(S)), NEW f, Joins(f, seqs, Len(seqs)),
         NEW n \in 1 .. Len(seqs)
  PROVE  f[n] \in Seq(S)
<1> DEFINE Bad == {m \in 1 .. Len(seqs) : f[m] \notin Seq(S)}
<1>0. Len(seqs) \in Nat /\ \A i \in 1 .. Len(seqs) : seqs[i] \in Seq(S)
  OBVIOUS
<1>1. SUFFICES ASSUME Bad # {} PROVE FALSE
  OBVIOUS
<1>2. Bad \in SUBSET Nat
  OBVIOUS
<1>3. PICK m \in Bad : \A k \in Bad : m <= k
  BY <1>1, <1>2, MinExists
<1>4. m \in 1 .. Len(seqs) /\ f[m] \notin Seq(S)
  OBVIOUS
<1>5. CASE m = 1
  BY <1>0, <1>4, <1>5 DEF Joins
<1>6. CASE m > 1
  <2>1. m - 1 \in 1 .. Len(seqs) /\ ~ (m <= m - 1)
    BY <1>0, <1>4, <1>6
  <2>2. f[m-1] \in Seq(S)
    BY <1>3, <2>1
  <2>3. f[m] = f[m-1] \o seqs[m]
    BY <1>0, <1>4, <1>6 DEF Joins
  <2> QED BY <1>0, <1>4, <2>2, <2>3
<1> QED BY <1>0, <1>4, <1>5, <1>6

(* The first of the joined sequences, and the next.                       *)
JoinedBy(f, seqs, n) ==
  /\ f[1] = seqs[1]
  /\ \A i \in 1 .. n - 1 : f[i+1] = f[i] \o seqs[i+1]

(* FlattenSeq is the last of the sequences that join its argument.         *)
LEMMA FlattenJoin ==
  ASSUME NEW S, NEW seqs \in Seq(Seq(S)), Len(seqs) # 0
  PROVE  \E f \in [1 .. Len(seqs) -> Seq(S)] :
           JoinedBy(f, seqs, Len(seqs)) /\ FlattenSeq(seqs) = f[Len(seqs)]
<1> DEFINE N == Len(seqs)
           Step(f) == [i \in 1 .. N |-> IF i = 1 THEN seqs[i] ELSE f[i-1] \o seqs[i]]
           F == CHOOSE f : f = Step(f)
<1>0. N \in Nat
  OBVIOUS
<1>1. N \in 1 .. Len(seqs)
  BY <1>0
<1>2. PICK f \in [1 .. N -> Seq(S)] : Joins(f, seqs, N)
  BY <1>1, JoinExists
<1>3. f = Step(f)
  BY <1>2 DEF Joins
<1>4. F = Step(F)
  BY <1>3, Zenon
<1>5. Joins(F, seqs, Len(seqs))
  <2> HIDE DEF F
  <2> QED BY <1>4 DEF Joins
<1>6. \A n \in 1 .. N : F[n] \in Seq(S)
  <2> HIDE DEF F
  <2> QED BY <1>1, <1>5, JoinType
<1>7. F \in [1 .. N -> Seq(S)]
  <2> HIDE DEF F
  <2> QED BY <1>4, <1>6
<1>8. FlattenSeq(seqs) = F[N]
  BY Zenon DEF FlattenSeq
<1>9. JoinedBy(F, seqs, N)
  <2> HIDE DEF F
  <2> DEFINE G(i) == IF i = 1 THEN seqs[i] ELSE F[i-1] \o seqs[i]
  <2>1. \A i \in 1 .. N : F[i] = G(i)
    BY <1>4
  <2>2. F[1] = seqs[1]
    <3>1. 1 \in 1 .. N
      BY <1>1
    <3> QED BY <2>1, <3>1
  <2>3. ASSUME NEW i \in 1 .. N - 1 PROVE F[i+1] = F[i] \o seqs[i+1]
    <3>1. i + 1 \in 1 .. N /\ i + 1 # 1 /\ (i + 1) - 1 = i
      BY <1>0
    <3>2. F[i+1] = G(i + 1)
      <4> HIDE DEF G
      <4> QED BY <2>1, <3>1
    <3>3. \A j : j # 1 => G(j) = F[j-1] \o seqs[j]
      OBVIOUS
    <3> HIDE DEF G
    <3>4. G(i + 1) = F[(i+1)-1] \o seqs[i+1]
      BY <3>1, <3>3, Zenon
    <3> QED BY <3>1, <3>2, <3>4, Zenon
  <2> HIDE DEF N
  <2> QED BY <2>2, <2>3, Zenon DEF JoinedBy
<1> QED BY <1>7, <1>8, <1>9, Zenon

(* FlattenSeq of sequences over S is a sequence over S.                    *)
LEMMA FlattenSeqType ==
  ASSUME NEW S, NEW seqs \in Seq(Seq(S))
  PROVE  FlattenSeq(seqs) \in Seq(S)
<1>1. CASE Len(seqs) = 0
  BY <1>1 DEF FlattenSeq
<1>2. CASE Len(seqs) # 0
  <2>1. PICK f \in [1 .. Len(seqs) -> Seq(S)] : FlattenSeq(seqs) = f[Len(seqs)]
    BY <1>2, FlattenJoin
  <2>2. Len(seqs) \in 1 .. Len(seqs)
    BY <1>2
  <2> QED BY <2>1, <2>2
<1> QED BY <1>1, <1>2

(* The members of two sequences put together.                              *)
LEMMA ConcatMembers ==
  ASSUME NEW S, NEW s \in Seq(S), NEW t \in Seq(S)
  PROVE  ToSet(s \o t) = ToSet(s) \cup ToSet(t)
<1> DEFINE u == s \o t
<1>1. u \in Seq(S) /\ Len(u) = Len(s) + Len(t) /\ Len(s) \in Nat /\ Len(t) \in Nat
  OBVIOUS
<1>2. \A i \in 1 .. Len(u) : u[i] = IF i <= Len(s) THEN s[i] ELSE t[i - Len(s)]
  OBVIOUS
<1>3. /\ DOMAIN u = 1 .. Len(u) /\ DOMAIN s = 1 .. Len(s) /\ DOMAIN t = 1 .. Len(t)
  OBVIOUS
<1> HIDE DEF u
<1>4. ASSUME NEW i \in 1 .. Len(s) PROVE s[i] \in ToSet(u)
  BY <1>1, <1>2, <1>3 DEF ToSet
<1>5. ASSUME NEW i \in 1 .. Len(t) PROVE t[i] \in ToSet(u)
  <2>1. i + Len(s) \in 1 .. Len(u) /\ ~ (i + Len(s) <= Len(s)) /\ i + Len(s) - Len(s) = i
    BY <1>1
  <2>2. u[i + Len(s)] = t[i]
    BY <1>2, <2>1
  <2> QED BY <1>3, <2>1, <2>2 DEF ToSet
<1>6. ASSUME NEW i \in 1 .. Len(u) PROVE u[i] \in ToSet(s) \cup ToSet(t)
  <2>1. CASE i <= Len(s)
    BY <1>1, <1>2, <1>3, <2>1 DEF ToSet
  <2>2. CASE ~ (i <= Len(s))
    <3>1. i - Len(s) \in 1 .. Len(t)
      BY <1>1, <2>2
    <3> QED BY <1>2, <1>3, <2>2, <3>1 DEF ToSet
  <2> QED BY <2>1, <2>2
<1>7. ToSet(u) \subseteq ToSet(s) \cup ToSet(t)
  BY <1>3, <1>6 DEF ToSet
<1>8. ToSet(s) \subseteq ToSet(u) /\ ToSet(t) \subseteq ToSet(u)
  <2>1. ToSet(s) \subseteq ToSet(u)
    BY <1>3, <1>4 DEF ToSet
  <2>2. ToSet(t) \subseteq ToSet(u)
    BY <1>3, <1>5 DEF ToSet
  <2> QED BY <2>1, <2>2
<1> QED BY <1>7, <1>8 DEF u

(* FlattenSeq holds what the sequences hold.                               *)
LEMMA FlattenMembers ==
  ASSUME NEW S, NEW seqs \in Seq(Seq(S))
  PROVE  ToSet(FlattenSeq(seqs)) = UNION {ToSet(seqs[i]) : i \in 1 .. Len(seqs)}
<1>0. Len(seqs) \in Nat /\ \A i \in 1 .. Len(seqs) : seqs[i] \in Seq(S)
  OBVIOUS
<1>1. CASE Len(seqs) = 0
  <2>1. seqs = << >> /\ FlattenSeq(seqs) = << >>
    BY <1>1 DEF FlattenSeq
  <2> QED BY <1>1, <2>1 DEF ToSet
<1>2. CASE Len(seqs) # 0
  <2> DEFINE N == Len(seqs)
  <2>1. PICK f \in [1 .. N -> Seq(S)] : JoinedBy(f, seqs, N) /\ FlattenSeq(seqs) = f[N]
    BY <1>2, FlattenJoin
  <2>2. N \in 1 .. N /\ 1 \in 1 .. N
    BY <1>0, <1>2
  <2> HIDE DEF N
  <2> DEFINE G == {n \in 1 .. N : ToSet(f[n]) = UNION {ToSet(seqs[i]) : i \in 1 .. n}}
  <2>3. 1 \in G
    <3>1. f[1] = seqs[1] /\ 1 .. 1 = {1}
      BY <2>1 DEF JoinedBy
    <3>2. ToSet(f[1]) = UNION {ToSet(seqs[i]) : i \in 1 .. 1}
      BY <3>1
    <3> QED BY <2>2, <3>2
  <2>4. ASSUME NEW n \in 1 .. N - 1, n \in G PROVE n + 1 \in G
    <3>1. n \in 1 .. N /\ n + 1 \in 1 .. N /\ 1 .. n + 1 = (1 .. n) \cup {n + 1}
      BY <2>2
    <3>2. f[n+1] = f[n] \o seqs[n+1]
      BY <2>1 DEF JoinedBy
    <3>3. f[n] \in Seq(S) /\ seqs[n+1] \in Seq(S)
      BY <1>0, <2>1, <3>1 DEF N
    <3>4. ToSet(f[n+1]) = ToSet(f[n]) \cup ToSet(seqs[n+1])
      BY <3>2, <3>3, ConcatMembers
    <3>5. ToSet(f[n]) = UNION {ToSet(seqs[i]) : i \in 1 .. n}
      BY <2>4
    <3>6. ToSet(f[n+1]) = UNION {ToSet(seqs[i]) : i \in 1 .. n + 1}
      BY <3>1, <3>4, <3>5
    <3> QED BY <3>1, <3>6
  <2>5. N \in Nat
    BY <1>0 DEF N
  <2>6. N \in G
    <3> HIDE DEF G
    <3> QED BY <2>2, <2>3, <2>4, <2>5, UpTo
  <2> QED BY <2>1, <2>6 DEF N
<1> QED BY <1>1, <1>2

(* Two sequences of sequences whose lengths differ in one place: the       *)
(* lengths of what they join to differ by the same.                        *)
LEMMA FlattenLenUpdate ==
  ASSUME NEW S, NEW seqs \in Seq(Seq(S)), NEW new \in Seq(Seq(S)),
         Len(new) = Len(seqs), NEW k \in 1 .. Len(seqs),
         \A i \in 1 .. Len(seqs) : i # k => Len(new[i]) = Len(seqs[i])
  PROVE  Len(FlattenSeq(new)) = Len(FlattenSeq(seqs)) + Len(new[k]) - Len(seqs[k])
<1> DEFINE N == Len(seqs)
<1>0. /\ N \in Nat /\ N # 0
      /\ \A i \in 1 .. N : seqs[i] \in Seq(S) /\ new[i] \in Seq(S)
  OBVIOUS
<1>1. PICK f \in [1 .. N -> Seq(S)] : JoinedBy(f, seqs, N) /\ FlattenSeq(seqs) = f[N]
  BY <1>0, FlattenJoin
<1>2. PICK g \in [1 .. N -> Seq(S)] : JoinedBy(g, new, N) /\ FlattenSeq(new) = g[N]
  <2>1. \E g \in [1 .. Len(new) -> Seq(S)] :
          JoinedBy(g, new, Len(new)) /\ FlattenSeq(new) = g[Len(new)]
    BY <1>0, FlattenJoin
  <2> QED BY <2>1
<1> HIDE DEF N
<1> DEFINE d == Len(new[k]) - Len(seqs[k])
           G == {n \in 1 .. N : Len(g[n]) = Len(f[n]) + (IF n < k THEN 0 ELSE d)}
<1>3. k \in 1 .. N /\ Len(seqs[k]) \in Nat /\ Len(new[k]) \in Nat /\ d \in Int
  BY <1>0 DEF N
<1>4. ASSUME NEW n \in 1 .. N
      PROVE  /\ seqs[n] \in Seq(S) /\ new[n] \in Seq(S) /\ Len(seqs[n]) \in Nat
             /\ Len(new[n]) = Len(seqs[n]) + (IF n = k THEN d ELSE 0)
  <2>1. seqs[n] \in Seq(S) /\ new[n] \in Seq(S) /\ Len(seqs[n]) \in Nat
    BY <1>0, SMTT(60)
  <2>2. CASE n = k
    BY <1>3, <2>1, <2>2
  <2>3. CASE n # k
    <3>1. Len(new[n]) = Len(seqs[n])
      BY <2>3 DEF N
    <3> HIDE DEF d
    <3> QED BY <2>1, <2>3, <3>1
  <2> QED BY <2>1, <2>2, <2>3
<1>5. 1 \in G
  <2>1. f[1] = seqs[1] /\ g[1] = new[1] /\ 1 \in 1 .. N
    BY <1>0, <1>1, <1>2 DEF JoinedBy
  <2>2. 1 < k <=> 1 # k
    BY <1>3
  <2> HIDE DEF d
  <2>3. Len(g[1]) = Len(f[1]) + (IF 1 < k THEN 0 ELSE d)
    BY <1>4, <2>1, <2>2
  <2> QED BY <2>1, <2>3
<1>a. \A n \in 1 .. N - 1 : n \in 1 .. N /\ n + 1 \in 1 .. N
  BY <1>0
<1>6. ASSUME NEW n \in 1 .. N - 1, n \in G PROVE n + 1 \in G
  <2>1. n \in 1 .. N /\ n + 1 \in 1 .. N
    BY <1>a
  <2>2. f[n+1] = f[n] \o seqs[n+1] /\ g[n+1] = g[n] \o new[n+1]
    BY <1>1, <1>2 DEF JoinedBy
  <2>3. f[n] \in Seq(S) /\ g[n] \in Seq(S)
    BY <1>1, <1>2, <2>1
  <2>4. /\ Len(f[n+1]) = Len(f[n]) + Len(seqs[n+1])
        /\ Len(g[n+1]) = Len(g[n]) + Len(new[n+1])
        /\ Len(f[n]) \in Nat /\ Len(g[n]) \in Nat
    <3>1. Len(f[n] \o seqs[n+1]) = Len(f[n]) + Len(seqs[n+1]) /\ Len(f[n]) \in Nat
      BY <1>4, <2>1, <2>3
    <3>2. Len(g[n] \o new[n+1]) = Len(g[n]) + Len(new[n+1]) /\ Len(g[n]) \in Nat
      BY <1>4, <2>1, <2>3
    <3> QED BY <2>2, <3>1, <3>2
  <2>5. Len(g[n]) = Len(f[n]) + (IF n < k THEN 0 ELSE d)
    BY <1>6
  <2>6. /\ Len(new[n+1]) = Len(seqs[n+1]) + (IF n + 1 = k THEN d ELSE 0)
        /\ Len(seqs[n+1]) \in Nat
    BY <1>4, <2>1
  <2>7. n \in Int /\ k \in Int /\ d \in Int
    BY <1>3
  <2> HIDE DEF d, G
  <2>8. Len(g[n+1]) = Len(f[n+1]) + (IF n + 1 < k THEN 0 ELSE d)
    <3> DEFINE a == Len(f[n])
               b == Len(g[n])
               x == Len(seqs[n+1])
               y == Len(new[n+1])
    <3>1. /\ Len(f[n+1]) = a + x /\ Len(g[n+1]) = b + y
          /\ b = a + (IF n < k THEN 0 ELSE d) /\ y = x + (IF n + 1 = k THEN d ELSE 0)
      BY <2>4, <2>5, <2>6
    <3>2. a \in Nat /\ b \in Nat /\ x \in Nat
      BY <2>4, <2>6
    <3> HIDE DEF a, b, x, y
    <3> QED BY <2>7, <3>1, <3>2
  <2> QED BY <2>1, <2>8 DEF G
<1>7. N \in G
  <2>1. N \in 1 .. N
    BY <1>0
  <2> HIDE DEF G
  <2> QED BY <1>0, <1>5, <1>6, <2>1, UpTo
<1>8. Len(g[N]) = Len(f[N]) + d
  <2>1. Len(g[N]) = Len(f[N]) + (IF N < k THEN 0 ELSE d) /\ ~ (N < k)
    BY <1>0, <1>3, <1>7
  <2> QED BY <2>1
<1>9. Len(f[N]) \in Nat
  BY <1>0, <1>1
<1> QED BY <1>1, <1>2, <1>3, <1>8, <1>9

(* Nothing but empty sequences joins to the empty sequence.                *)
LEMMA FlattenEmpty ==
  ASSUME NEW S, NEW seqs \in Seq(Seq(S)), \A i \in 1 .. Len(seqs) : seqs[i] = << >>
  PROVE  FlattenSeq(seqs) = << >>
<1>1. ToSet(FlattenSeq(seqs)) = UNION {ToSet(seqs[i]) : i \in 1 .. Len(seqs)}
  BY FlattenMembers
<1>2. ToSet(<< >>) = {}
  BY DEF ToSet
<1>3. ToSet(FlattenSeq(seqs)) = {}
  BY <1>1, <1>2
<1>4. FlattenSeq(seqs) \in Seq(S)
  BY FlattenSeqType
<1>5. Len(FlattenSeq(seqs)) = 0
  <2>1. SUFFICES ASSUME Len(FlattenSeq(seqs)) # 0 PROVE FALSE
    OBVIOUS
  <2>2. 1 \in DOMAIN FlattenSeq(seqs)
    BY <1>4, <2>1
  <2>3. FlattenSeq(seqs)[1] \in ToSet(FlattenSeq(seqs))
    BY <2>2 DEF ToSet
  <2> QED BY <1>3, <2>3
<1> QED BY <1>4, <1>5

(* One sequence more.                                                      *)
LEMMA FlattenLenAppend ==
  ASSUME NEW S, NEW seqs \in Seq(Seq(S)), NEW s \in Seq(S)
  PROVE  Len(FlattenSeq(Append(seqs, s))) = Len(FlattenSeq(seqs)) + Len(s)
<1> DEFINE new == Append(seqs, s)
           N == Len(seqs)
<1>0. /\ N \in Nat /\ new \in Seq(Seq(S)) /\ Len(new) = N + 1 /\ new[N + 1] = s
      /\ \A i \in 1 .. N : new[i] = seqs[i] /\ seqs[i] \in Seq(S)
  OBVIOUS
<1> HIDE DEF new
<1>1. PICK g \in [1 .. N + 1 -> Seq(S)] :
        JoinedBy(g, new, N + 1) /\ FlattenSeq(new) = g[N + 1]
  BY <1>0, FlattenJoin
<1>2. CASE N = 0
  <2>1. FlattenSeq(seqs) = << >>
    BY <1>2 DEF FlattenSeq
  <2>2. g[1] = s
    BY <1>0, <1>1, <1>2 DEF JoinedBy
  <2> QED BY <1>1, <1>2, <2>1, <2>2 DEF new
<1>3. CASE N # 0
  <2>1. PICK f \in [1 .. N -> Seq(S)] : JoinedBy(f, seqs, N) /\ FlattenSeq(seqs) = f[N]
    BY <1>3, FlattenJoin
  <2> DEFINE G == {n \in 1 .. N : g[n] = f[n]}
  <2>2. 1 \in G
    BY <1>0, <1>1, <1>3, <2>1 DEF JoinedBy
  <2>3. ASSUME NEW n \in 1 .. N - 1, n \in G PROVE n + 1 \in G
    <3>1. n + 1 \in 1 .. N /\ n \in 1 .. (N + 1) - 1
      BY <1>0, SMTT(60)
    <3>2. f[n+1] = f[n] \o seqs[n+1]
      BY <2>1 DEF JoinedBy
    <3>3. g[n+1] = g[n] \o new[n+1]
      BY <1>1, <3>1, Zenon DEF JoinedBy
    <3>4. new[n+1] = seqs[n+1]
      BY <1>0, <3>1
    <3> QED BY <2>3, <3>1, <3>2, <3>3, <3>4
  <2>4. N \in 1 .. N /\ N \in 1 .. (N + 1) - 1
    BY <1>0, <1>3
  <2>5. N \in G
    <3> HIDE DEF G
    <3> QED BY <1>0, <2>2, <2>3, <2>4, UpTo
  <2>6. g[N + 1] = g[N] \o new[N + 1]
    BY <1>1, <2>4, Zenon DEF JoinedBy
  <2>7. f[N] \in Seq(S) /\ g[N] = f[N]
    BY <2>1, <2>4, <2>5
  <2>8. Len(f[N] \o s) = Len(f[N]) + Len(s)
    BY <2>7
  <2> QED BY <1>0, <1>1, <2>1, <2>6, <2>7, <2>8 DEF new
<1> QED BY <1>2, <1>3

(* The sequence of the empty set, and that of a set of one.                *)
LEMMA SetToSeqEmpty == SetToSeq({}) = << >>
<1>1. Cardinality({}) = 0
  BY FS_EmptySet
<1>2. \A f \in [1 .. 0 -> {}] : f = << >>
  OBVIOUS
<1>3. << >> \in [1 .. 0 -> {}] /\ IsInjective(<< >>)
  BY DEF IsInjective
<1>4. (CHOOSE f \in [1 .. 0 -> {}] : IsInjective(f)) \in [1 .. 0 -> {}]
  BY <1>3
<1>5. SetToSeq({}) \in [1 .. 0 -> {}]
  BY <1>1, <1>4 DEF SetToSeq
<1> QED BY <1>2, <1>5

(* A set of one element has one sequence.                                  *)
LEMMA SetToSeqOne == \A x : SetToSeq({x}) = <<x>>
<1> SUFFICES ASSUME NEW x PROVE SetToSeq({x}) = <<x>>
  OBVIOUS
<1>1. Cardinality({x}) = 1
  BY FS_Singleton
<1>2. \A f \in [1 .. 1 -> {x}] : f = <<x>>
  OBVIOUS
<1>3. <<x>> \in [1 .. 1 -> {x}] /\ IsInjective(<<x>>)
  BY DEF IsInjective
<1>4. (CHOOSE f \in [1 .. 1 -> {x}] : IsInjective(f)) \in [1 .. 1 -> {x}]
  BY <1>3
<1>5. SetToSeq({x}) \in [1 .. 1 -> {x}]
  BY <1>1, <1>4 DEF SetToSeq
<1> QED BY <1>2, <1>5

(* The members of a sequence of one element and of the empty one.          *)
LEMMA OneMember == \A x : ToSet(<<x>>) = {x} /\ ToSet(<< >>) = {}
  BY DEF ToSet

(* The members of a sequence with one element more.                        *)
LEMMA AppendMembers ==
  ASSUME NEW S, NEW s \in Seq(S), NEW e \in S
  PROVE  ToSet(Append(s, e)) = ToSet(s) \cup {e}
<1> DEFINE u == Append(s, e)
<1>1. /\ DOMAIN s = 1 .. Len(s) /\ DOMAIN u = 1 .. Len(s) + 1 /\ Len(s) \in Nat
      /\ u[Len(s) + 1] = e /\ \A i \in 1 .. Len(s) : u[i] = s[i]
  OBVIOUS
<1> HIDE DEF u
<1>2. \A i \in 1 .. Len(s) + 1 : i \in 1 .. Len(s) \/ i = Len(s) + 1
  BY <1>1
<1>3. ASSUME NEW x \in ToSet(u) PROVE x \in ToSet(s) \cup {e}
  BY <1>1, <1>2 DEF ToSet
<1>4. ASSUME NEW x \in ToSet(s) \cup {e} PROVE x \in ToSet(u)
  <2>1. CASE x = e
    BY <1>1, <2>1 DEF ToSet
  <2>2. CASE x \in ToSet(s)
    <3>1. PICK i \in 1 .. Len(s) : x = s[i]
      BY <1>1, <2>2 DEF ToSet
    <3> QED BY <1>1, <3>1 DEF ToSet
  <2> QED BY <2>1, <2>2
<1> QED BY <1>3, <1>4 DEF u

(* Sequences of the same lengths join to sequences of the same length.     *)
LEMMA FlattenLenSame ==
  ASSUME NEW S, NEW seqs \in Seq(Seq(S)), NEW new \in Seq(Seq(S)),
         Len(new) = Len(seqs), \A i \in 1 .. Len(seqs) : Len(new[i]) = Len(seqs[i])
  PROVE  Len(FlattenSeq(new)) = Len(FlattenSeq(seqs))
<1>1. CASE Len(seqs) = 0
  <2>1. seqs = << >> /\ new = << >>
    BY <1>1
  <2> QED BY <2>1
<1>2. CASE Len(seqs) # 0
  <2>1. 1 \in 1 .. Len(seqs)
    BY <1>2
  <2>2. Len(FlattenSeq(new)) = Len(FlattenSeq(seqs)) + Len(new[1]) - Len(seqs[1])
    BY <2>1, FlattenLenUpdate
  <2>3. Len(new[1]) = Len(seqs[1]) /\ Len(seqs[1]) \in Nat
    BY <2>1
  <2>4. FlattenSeq(seqs) \in Seq(S)
    BY FlattenSeqType
  <2> QED BY <2>2, <2>3, <2>4
<1> QED BY <1>1, <1>2

(* The length of two sequences put together.                               *)
LEMMA ConcatLen ==
  ASSUME NEW S, NEW s \in Seq(S), NEW t \in Seq(S)
  PROVE  /\ s \o t \in Seq(S) /\ Len(s \o t) = Len(s) + Len(t)
         /\ Len(s) \in Nat /\ Len(t) \in Nat
  OBVIOUS

(* The first element and the rest of a sequence from m on.                 *)
LEMMA SubSeqFirst ==
  ASSUME NEW S, NEW s \in Seq(S), NEW m \in 1 .. Len(s)
  PROVE  /\ SubSeq(s, m, Len(s)) \in Seq(S) /\ SubSeq(s, m + 1, Len(s)) \in Seq(S)
         /\ Len(SubSeq(s, m, Len(s))) = Len(SubSeq(s, m + 1, Len(s))) + 1
         /\ ToSet(SubSeq(s, m, Len(s))) = ToSet(SubSeq(s, m + 1, Len(s))) \cup {s[m]}
<1> DEFINE n == Len(s)
           a == SubSeq(s, m, n)
           b == SubSeq(s, m + 1, n)
<1>1. /\ a \in Seq(S) /\ Len(a) = n - m + 1 /\ DOMAIN a = 1 .. n - m + 1
      /\ \A i \in 1 .. n - m + 1 : a[i] = s[m + i - 1]
  OBVIOUS
<1>2. /\ b \in Seq(S) /\ Len(b) = n - m /\ DOMAIN b = 1 .. n - m
      /\ \A i \in 1 .. n - m : b[i] = s[m + i]
  OBVIOUS
<1>3. n \in Nat /\ m \in 1 .. n /\ m \in Int
  OBVIOUS
<1> HIDE DEF n, a, b
<1>4. a[1] = s[m] /\ \A i \in 1 .. n - m : a[i + 1] = b[i]
  <2>1. 1 \in 1 .. n - m + 1 /\ m + 1 - 1 = m
    BY <1>3
  <2>2. \A i \in 1 .. n - m : i + 1 \in 1 .. n - m + 1 /\ m + (i + 1) - 1 = m + i
    BY <1>3
  <2>3. a[1] = s[m]
    BY <1>1, <2>1
  <2> QED BY <1>1, <1>2, <2>2, <2>3
<1>5. \A i \in 1 .. n - m + 1 : i = 1 \/ (i - 1 \in 1 .. n - m /\ i = (i - 1) + 1)
  BY <1>3
<1>6. ASSUME NEW x \in ToSet(a) PROVE x \in ToSet(b) \cup {s[m]}
  <2>1. PICK i \in 1 .. n - m + 1 : x = a[i]
    BY <1>1 DEF ToSet
  <2>2. CASE i = 1
    BY <1>4, <2>1, <2>2
  <2>3. CASE i # 1
    <3>1. i - 1 \in 1 .. n - m /\ i = (i - 1) + 1
      BY <1>5, <2>3
    <3>2. x = b[i - 1]
      BY <1>4, <2>1, <3>1
    <3> QED BY <1>2, <3>1, <3>2 DEF ToSet
  <2> QED BY <2>2, <2>3
<1>7. ASSUME NEW x \in ToSet(b) \cup {s[m]} PROVE x \in ToSet(a)
  <2>1. CASE x = s[m]
    <3>1. 1 \in 1 .. n - m + 1
      BY <1>3
    <3> QED BY <1>1, <1>4, <2>1, <3>1 DEF ToSet
  <2>2. CASE x \in ToSet(b)
    <3>1. PICK i \in 1 .. n - m : x = b[i]
      BY <1>2, <2>2 DEF ToSet
    <3>2. i + 1 \in 1 .. n - m + 1 /\ x = a[i + 1]
      BY <1>3, <1>4, <3>1
    <3> QED BY <1>1, <3>2 DEF ToSet
  <2> QED BY <2>1, <2>2
<1>8. ToSet(a) = ToSet(b) \cup {s[m]}
  BY <1>6, <1>7
<1>9. Len(a) = Len(b) + 1
  BY <1>1, <1>2, <1>3
<1> QED BY <1>1, <1>2, <1>8, <1>9 DEF a, b, n

(* A sequence as a part of itself, and the part after its end.             *)
LEMMA SubSeqWhole ==
  ASSUME NEW S, NEW s \in Seq(S)
  PROVE  /\ SubSeq(s, 1, Len(s)) = s
         /\ \A m \in Nat : m > Len(s) => SubSeq(s, m, Len(s)) = << >>
  OBVIOUS

(* Sequences of the same length with the same elements are the same.       *)
LEMMA SameSequence ==
  ASSUME NEW S, NEW s \in Seq(S), NEW t \in Seq(S), Len(s) = Len(t),
         \A i \in 1 .. Len(s) : s[i] = t[i]
  PROVE  s = t
  OBVIOUS

(* A function on 1 .. n is a sequence of length n.                         *)
LEMMA FunctionSequence ==
  ASSUME NEW S, NEW n \in Nat, NEW f \in [1 .. n -> S]
  PROVE  f \in Seq(S) /\ Len(f) = n
  OBVIOUS

(* To join no sequences gives the empty one.                               *)
LEMMA FlattenNothing == FlattenSeq(<< >>) = << >>
  BY DEF FlattenSeq

-----------------------------------------------------------------------------
(* Induction on the level of the elements of D.                            *)
LEMMA ByLevel ==
  ASSUME NEW D, NEW lv \in [D -> Nat], NEW G,
         \A d \in D : (\A e \in D : lv[e] < lv[d] => e \in G) => d \in G
  PROVE  \A d \in D : d \in G
<1> DEFINE Bad == {n \in Nat : \E d \in D : lv[d] = n /\ d \notin G}
<1>1. SUFFICES ASSUME Bad # {} PROVE FALSE
  OBVIOUS
<1>2. Bad \in SUBSET Nat
  OBVIOUS
<1>3. PICK m \in Bad : \A k \in Bad : m <= k
  BY <1>1, <1>2, MinExists
<1>4. PICK d \in D : lv[d] = m /\ d \notin G
  OBVIOUS
<1>5. ASSUME NEW e \in D, lv[e] < lv[d] PROVE e \in G
  <2>1. lv[e] \in Nat /\ m \in Nat /\ ~ (m <= lv[e])
    BY <1>4, <1>5
  <2>2. lv[e] \notin Bad
    BY <1>3, <2>1
  <2> QED BY <2>1, <2>2
<1> QED BY <1>4, <1>5

(* A function on D is defined by recursion when its value at d depends on  *)
(* its values at the elements of lower level only.                         *)
StepsDown(D, V, lv, K, step) ==
  /\ V # {} /\ lv \in [D -> Nat] /\ K \in Nat /\ \A d \in D : lv[d] <= K
  /\ step \in [D \X [D -> V] -> V]
  /\ \A d \in D : \A g, h \in [D -> V] :
       (\A e \in D : lv[e] < lv[d] => g[e] = h[e]) => step[<<d, g>>] = step[<<d, h>>]

Follows(f, D, V, step) == f \in [D -> V] /\ \A d \in D : f[d] = step[<<d, f>>]

(* A function whose value at d is made of values at lower levels exists.   *)
LEMMA RecursionExists ==
  ASSUME NEW D, NEW V, NEW lv, NEW K, NEW step, StepsDown(D, V, lv, K, step)
  PROVE  \E f : Follows(f, D, V, step)
<1>0. PICK v0 \in V : TRUE
  BY DEF StepsDown
<1> USE DEF StepsDown
<1> DEFINE G == {k \in Nat : \E f \in [D -> V] :
                   \A d \in D : lv[d] + 1 < k => f[d] = step[<<d, f>>]}
<1>1. 1 \in G
  <2> DEFINE f == [d \in D |-> v0]
  <2>1. f \in [D -> V] /\ \A d \in D : ~ (lv[d] + 1 < 1)
    OBVIOUS
  <2> QED BY <2>1
<1>2. ASSUME NEW k \in 1 .. (K + 2) - 1, k \in G PROVE k + 1 \in G
  <2>1. PICK f \in [D -> V] : \A d \in D : lv[d] + 1 < k => f[d] = step[<<d, f>>]
    BY <1>2
  <2> DEFINE g == [d \in D |-> step[<<d, f>>]]
  <2>2. g \in [D -> V]
    OBVIOUS
  <2>3. ASSUME NEW d \in D, lv[d] + 1 < k + 1 PROVE g[d] = step[<<d, g>>]
    <3>1. \A e \in D : lv[e] < lv[d] => f[e] = g[e]
      <4>1. ASSUME NEW e \in D, lv[e] < lv[d] PROVE f[e] = g[e]
        <5>1. lv[e] + 1 < k
          BY <4>1, <2>3
        <5> QED BY <5>1, <2>1
      <4> QED BY <4>1
    <3>2. g[d] = step[<<d, f>>]
      OBVIOUS
    <3> HIDE DEF g
    <3>3. step[<<d, f>>] = step[<<d, g>>]
      BY <2>2, <3>1
    <3> QED BY <3>2, <3>3
  <2> HIDE DEF g
  <2>4. k + 1 \in Nat
    OBVIOUS
  <2> QED BY <2>2, <2>3, <2>4
<1>3. K + 2 \in Nat /\ K + 2 \in 1 .. K + 2
  OBVIOUS
<1>4. K + 2 \in G
  <2> HIDE DEF G
  <2> QED BY <1>1, <1>2, <1>3, UpTo
<1>5. PICK f \in [D -> V] : \A d \in D : lv[d] + 1 < K + 2 => f[d] = step[<<d, f>>]
  BY <1>4
<1>6. \A d \in D : lv[d] + 1 < K + 2
  OBVIOUS
<1> QED BY <1>5, <1>6 DEF Follows

(* Induction from 0 up to n, on membership in a set.                       *)
LEMMA FromZero ==
  ASSUME NEW n \in Nat, NEW G, 0 \in G, \A k \in 0 .. n - 1 : k \in G => k + 1 \in G
  PROVE  \A k \in 0 .. n : k \in G
<1> DEFINE H == {i \in Nat : i - 1 \in G}
<1>1. n + 1 \in Nat /\ 1 \in H
  OBVIOUS
<1>2. ASSUME NEW i \in 1 .. (n + 1) - 1, i \in H PROVE i + 1 \in H
  <2>1. i - 1 \in 0 .. n - 1 /\ i - 1 \in G /\ (i - 1) + 1 = (i + 1) - 1 /\ i + 1 \in Nat
    BY <1>2
  <2>2. (i - 1) + 1 \in G
    BY <2>1
  <2> QED BY <2>1, <2>2
<1>3. \A i \in 1 .. n + 1 : i \in H
  <2> HIDE DEF H
  <2> QED BY <1>1, <1>2, UpTo
<1>4. ASSUME NEW k \in 0 .. n PROVE k \in G
  <2>1. k + 1 \in 1 .. n + 1 /\ (k + 1) - 1 = k
    OBVIOUS
  <2>2. k + 1 \in H
    BY <1>3, <2>1
  <2>3. (k + 1) - 1 \in G
    BY <2>2
  <2> QED BY <2>1, <2>3
<1> QED BY <1>4

(* The greatest element of a set of numbers up to n.                       *)
LEMMA MaxIn ==
  ASSUME NEW n \in Nat, NEW s \in SUBSET (1 .. n), s # {}
  PROVE  Max(s) \in s /\ \A y \in s : y <= Max(s)
<1> DEFINE T == {m \in Nat : \A y \in s : y <= m}
<1>1. n \in T /\ T \in SUBSET Nat
  OBVIOUS
<1>2. PICK m \in T : \A k \in T : m <= k
  BY <1>1, MinExists
<1>3. m \in s
  <2>1. SUFFICES ASSUME m \notin s PROVE FALSE
    OBVIOUS
  <2>2. m # 0
    <3>1. PICK y \in s : y \in 1 .. n
      OBVIOUS
    <3> QED BY <1>2, <3>1
  <2>3. m - 1 \in T
    <3>1. \A y \in s : y <= m - 1
      BY <2>1, <1>2
    <3> QED BY <2>2, <1>2, <3>1
  <2> QED BY <2>3, <1>2
<1>4. \A y \in s : m >= y
  BY <1>2
<1> QED BY <1>3, <1>4 DEF Max

(* The greatest number of 1 .. n + 1, and what is left without it.         *)
LEMMA MaxUpTo ==
  ASSUME NEW k \in Nat
  PROVE  Max(1 .. k + 1) = k + 1 /\ (1 .. k + 1) \ {k + 1} = 1 .. k
<1>1. Max(1 .. k + 1) \in 1 .. k + 1 /\ \A y \in 1 .. k + 1 : y <= Max(1 .. k + 1)
  <2>1. k + 1 \in Nat /\ k + 1 \in 1 .. k + 1
    OBVIOUS
  <2> QED BY <2>1, MaxIn
<1> HIDE DEF Max
<1> QED BY <1>1

(* What FoldLeft defines on the sets of places of a sequence exists.       *)
FoldStep(S, X, seq, base, step) ==
  /\ seq \in Seq(X) /\ base \in S /\ step \in [S \X X -> S]

Folds(it, S, seq, base, step) ==
  /\ it \in [SUBSET DOMAIN seq -> S]
  /\ \A s \in SUBSET DOMAIN seq :
       it[s] = IF s = {} THEN base ELSE step[<<it[s \ {Max(s)}], seq[Max(s)]>>]

(* The values of a fold, for every set of positions, exist.                *)
LEMMA FoldExists ==
  ASSUME NEW S, NEW X, NEW seq, NEW base, NEW step, FoldStep(S, X, seq, base, step)
  PROVE  \E it : Folds(it, S, seq, base, step)
<1> USE DEF FoldStep
<1> DEFINE n == Len(seq)
           D == SUBSET (1 .. n)
           lv == [s \in D |-> Cardinality(s)]
           next == [x \in D \X [D -> S] |->
                      IF x[1] = {} THEN base
                      ELSE step[<<x[2][x[1] \ {Max(x[1])}], seq[Max(x[1])]>>]]
<1>0. n \in Nat /\ DOMAIN seq = 1 .. n /\ \A i \in 1 .. n : seq[i] \in X
  OBVIOUS
<1>1. IsFiniteSet(1 .. n) /\ Cardinality(1 .. n) = n
  <2> HIDE DEF n
  <2> QED BY <1>0, FS_Interval
<1>2. ASSUME NEW s \in D
      PROVE  /\ IsFiniteSet(s) /\ Cardinality(s) \in Nat /\ Cardinality(s) <= n
             /\ s # {} => /\ Max(s) \in s /\ Max(s) \in 1 .. n /\ s \ {Max(s)} \in D
                          /\ Cardinality(s \ {Max(s)}) < Cardinality(s)
  <2>1. IsFiniteSet(s) /\ Cardinality(s) \in Nat /\ Cardinality(s) <= n
    BY <1>1, FS_Subset, FS_CardinalityType
  <2>2. ASSUME s # {}
        PROVE  /\ Max(s) \in s /\ Max(s) \in 1 .. n /\ s \ {Max(s)} \in D
               /\ Cardinality(s \ {Max(s)}) < Cardinality(s)
    <3> HIDE DEF n
    <3>1. Max(s) \in s
      BY <1>0, <2>2, MaxIn
    <3>2. Cardinality(s \ {Max(s)}) = Cardinality(s) - 1
      BY <2>1, <3>1, FS_RemoveElement
    <3>3. Cardinality(s \ {Max(s)}) < Cardinality(s)
      BY <2>1, <3>2
    <3>4. Max(s) \in 1 .. n /\ s \ {Max(s)} \in D
      BY <3>1
    <3> QED BY <3>1, <3>3, <3>4
  <2> QED BY <2>1, <2>2
<1> HIDE DEF n
<1>3. lv \in [D -> Nat] /\ \A s \in D : lv[s] = Cardinality(s) /\ lv[s] <= n
  BY <1>2
<1>4. ASSUME NEW d \in D, NEW g \in [D -> S]
      PROVE  /\ next[<<d, g>>] = IF d = {} THEN base ELSE step[<<g[d \ {Max(d)}], seq[Max(d)]>>]
             /\ next[<<d, g>>] \in S
  <2>1. <<d, g>> \in D \X [D -> S] /\ <<d, g>>[1] = d /\ <<d, g>>[2] = g
    OBVIOUS
  <2>2. next[<<d, g>>] = IF d = {} THEN base ELSE step[<<g[d \ {Max(d)}], seq[Max(d)]>>]
    BY <2>1, Zenon
  <2>3. CASE d = {}
    BY <2>2, <2>3
  <2>4. CASE d # {}
    <3>1. g[d \ {Max(d)}] \in S /\ seq[Max(d)] \in X
      BY <1>0, <1>2, <2>4
    <3> HIDE DEF next
    <3> QED BY <2>2, <2>4, <3>1
  <2> QED BY <2>2, <2>3, <2>4
<1>5. next \in [D \X [D -> S] -> S]
  <2>1. ASSUME NEW x \in D \X [D -> S]
        PROVE  (IF x[1] = {} THEN base ELSE step[<<x[2][x[1] \ {Max(x[1])}], seq[Max(x[1])]>>]) \in S
    <3>1. CASE x[1] = {}
      BY <3>1
    <3>2. CASE x[1] # {}
      <4>1. x[1] \in D /\ x[2] \in [D -> S]
        OBVIOUS
      <4>2. x[2][x[1] \ {Max(x[1])}] \in S /\ seq[Max(x[1])] \in X
        BY <1>0, <1>2, <3>2, <4>1
      <4> QED BY <3>2, <4>2
    <3> QED BY <3>1, <3>2
  <2> QED BY <2>1
<1>6. ASSUME NEW d \in D, NEW g \in [D -> S], NEW h \in [D -> S],
             \A e \in D : lv[e] < lv[d] => g[e] = h[e]
      PROVE  next[<<d, g>>] = next[<<d, h>>]
  <2>1. CASE d = {}
    BY <1>4, <2>1
  <2>2. CASE d # {}
    <3>1. d \ {Max(d)} \in D /\ Cardinality(d \ {Max(d)}) < Cardinality(d)
      BY <1>2, <2>2
    <3>2. lv[d \ {Max(d)}] < lv[d]
      BY <1>3, <3>1
    <3>3. g[d \ {Max(d)}] = h[d \ {Max(d)}]
      BY <1>6, <3>1, <3>2
    <3> HIDE DEF next
    <3> QED BY <1>4, <2>2, <3>3
  <2> QED BY <2>1, <2>2
<1> HIDE DEF lv, next
<1>7. StepsDown(D, S, lv, n, next)
  <2>1. \A d \in D : \A g, h \in [D -> S] :
          (\A e \in D : lv[e] < lv[d] => g[e] = h[e]) => next[<<d, g>>] = next[<<d, h>>]
    BY <1>6
  <2>2. \A d \in D : lv[d] <= n
    BY <1>3
  <2>3. S # {} /\ lv \in [D -> Nat]
    BY <1>3
  <2> HIDE DEF D
  <2> QED BY <1>0, <1>5, <2>1, <2>2, <2>3 DEF StepsDown
<1> HIDE DEF D
<1>9. \E f : Follows(f, D, S, next)
  BY <1>7, RecursionExists, Zenon
<1>10. PICK it \in [D -> S] : \A d \in D : it[d] = next[<<d, it>>]
  BY <1>9 DEF Follows
<1> USE DEF D
<1>8. \A d \in D : it[d] = IF d = {} THEN base ELSE step[<<it[d \ {Max(d)}], seq[Max(d)]>>]
  BY <1>4, <1>10
<1> QED BY <1>0, <1>10, <1>8 DEF Folds

(* The least of integers at places in G, and of those the first.           *)
LEMMA FirstOfLeast ==
  ASSUME NEW n \in Nat, NEW G \in SUBSET (1 .. n), G # {}, NEW f \in [1 .. n -> Int]
  PROVE  \E i \in G : \A j \in G : f[i] < f[j] \/ (f[i] = f[j] /\ i <= j)
<1> DEFINE Best(i, m) == \A j \in G : j <= m => f[i] < f[j] \/ (f[i] = f[j] /\ i <= j)
           Good == {m \in 1 .. n : (\A j \in G : j > m) \/ \E i \in G : i <= m /\ Best(i, m)}
<1>1. PICK g \in G : TRUE
  OBVIOUS
<1>2. n \in 1 .. n /\ 1 \in 1 .. n
  OBVIOUS
<1>3. 1 \in Good
  BY <1>2
<1>4. ASSUME NEW m \in 1 .. n - 1, m \in Good PROVE m + 1 \in Good
  <2>0. m + 1 \in 1 .. n /\ m \in Nat
    OBVIOUS
  <2>1. CASE m + 1 \notin G
    <3>1. \A j \in G : j > m => j > m + 1
      BY <2>1
    <3>2. \A j \in G : j <= m + 1 => j <= m
      BY <2>1
    <3>3. \A i \in G : i <= m => i <= m + 1
      OBVIOUS
    <3> QED BY <1>4, <2>0, <3>1, <3>2, <3>3
  <2>2. CASE m + 1 \in G
    <3>1. CASE \A j \in G : j > m
      <4>1. \A j \in G : j <= m + 1 => j = m + 1
        BY <3>1
      <4>2. Best(m + 1, m + 1)
        BY <4>1
      <4> QED BY <2>0, <2>2, <4>2
    <3>2. CASE ~ \A j \in G : j > m
      <4>1. PICK i \in G : i <= m /\ Best(i, m)
        BY <1>4, <3>2
      <4>2. \A j \in G : j <= m + 1 => j <= m \/ j = m + 1
        OBVIOUS
      <4>3. f[i] \in Int /\ f[m + 1] \in Int /\ i <= m + 1 /\ \A j \in G : f[j] \in Int
        BY <4>1, <2>0
      <4>4. CASE f[i] <= f[m + 1]
        <5>1. f[i] < f[m + 1] \/ (f[i] = f[m + 1] /\ i <= m + 1)
          BY <4>3, <4>4
        <5>2. Best(i, m + 1)
          BY <4>1, <4>2, <5>1
        <5> QED BY <2>0, <4>3, <5>2
      <4>5. CASE f[m + 1] < f[i]
        <5>1. ASSUME NEW j \in G, j <= m PROVE f[m + 1] < f[j]
          <6>1. f[i] < f[j] \/ f[i] = f[j]
            BY <4>1, <5>1
          <6> HIDE DEF Best
          <6> QED BY <4>3, <4>5, <6>1
        <5>2. ASSUME NEW j \in G, j <= m + 1
              PROVE  f[m + 1] < f[j] \/ (f[m + 1] = f[j] /\ m + 1 <= j)
          <6>1. CASE j <= m
            BY <5>1, <6>1
          <6>2. CASE j = m + 1
            BY <2>0, <6>2
          <6> QED BY <4>2, <5>2, <6>1, <6>2
        <5>3. Best(m + 1, m + 1)
          BY <5>2
        <5> QED BY <2>0, <2>2, <5>3
      <4> QED BY <4>3, <4>4, <4>5
    <3> QED BY <3>1, <3>2
  <2> QED BY <2>1, <2>2
<1>5. n \in Good
  <2> HIDE DEF Good
  <2> QED BY <1>2, <1>3, <1>4, UpTo
<1>6. \A j \in G : ~ (j > n) /\ j <= n
  OBVIOUS
<1> QED BY <1>1, <1>5, <1>6

(* A finite set of numbers in their order.                                 *)
Rising(q) == \A i, j \in DOMAIN q : i < j => q[i] < q[j]

(* A finite set of natural numbers can be counted upwards.                 *)
LEMMA RisingExists ==
  ASSUME NEW T \in SUBSET Nat, IsFiniteSet(T)
  PROVE  \E q \in [1 .. Cardinality(T) -> T] : Rising(q)
<1> DEFINE G == {k \in Nat : \A S \in SUBSET Nat : IsFiniteSet(S) /\ Cardinality(S) = k =>
                               \E q \in [1 .. k -> S] : Rising(q)}
<1>1. PICK n \in Nat : n = Cardinality(T)
  BY FS_CardinalityType
<1>2. 0 \in G
  <2>1. ASSUME NEW S \in SUBSET Nat PROVE \E q \in [1 .. 0 -> S] : Rising(q)
    <3>1. PICK q : q = [i \in 1 .. 0 |-> 0]
      OBVIOUS
    <3>2. 1 .. 0 = {}
      OBVIOUS
    <3>3. q \in [1 .. 0 -> S] /\ DOMAIN q = {}
      BY <3>1, <3>2
    <3> QED BY <3>3 DEF Rising
  <2> QED BY <2>1
<1>3. ASSUME NEW k \in 0 .. n - 1, k \in G PROVE k + 1 \in G
  <2>0. k \in Nat /\ k + 1 \in Nat
    OBVIOUS
  <2>1. ASSUME NEW S \in SUBSET Nat, IsFiniteSet(S), Cardinality(S) = k + 1
        PROVE  \E q \in [1 .. k + 1 -> S] : Rising(q)
    <3>1. S # {}
      <4>1. Cardinality({}) = 0
        BY FS_EmptySet
      <4> QED BY <2>0, <2>1, <4>1
    <3>2. PICK m \in S : \A x \in S : m <= x
      BY <3>1, MinExists
    <3>3. PICK R : R = S \ {m}
      OBVIOUS
    <3>4. IsFiniteSet(R) /\ Cardinality(R) = Cardinality(S) - 1 /\ R \in SUBSET Nat
      BY <2>1, <3>3, FS_RemoveElement
    <3>5. Cardinality(R) = k
      BY <2>0, <2>1, <3>4
    <3>6. PICK q \in [1 .. k -> R] : Rising(q)
      BY <1>3, <3>4, <3>5
    <3>7. PICK p : p = [i \in 1 .. k + 1 |-> IF i = 1 THEN m ELSE q[i - 1]]
      OBVIOUS
    <3>8. \A i \in 1 .. k + 1 : i = 1 \/ i - 1 \in 1 .. k
      BY <2>0
    <3>9. \A i \in 1 .. k : q[i] \in S /\ q[i] \in Nat /\ m < q[i]
      <4>1. \A x \in R : x \in S /\ x \in Nat /\ x # m /\ m <= x /\ m \in Nat
        BY <3>2, <3>3
      <4>2. \A x \in R : x \in S /\ x \in Nat /\ m < x
        BY <4>1
      <4> QED BY <4>2
    <3>10. p \in [1 .. k + 1 -> S]
      BY <3>7, <3>8, <3>9
    <3>11. ASSUME NEW i \in 1 .. k + 1, NEW j \in 1 .. k + 1, i < j PROVE p[i] < p[j]
      <4>1. j - 1 \in 1 .. k /\ p[j] = q[j - 1]
        <5>1. j # 1
          BY <3>11
        <5> QED BY <3>7, <3>8, <5>1
      <4>2. CASE i = 1
        BY <3>7, <3>9, <4>1, <4>2
      <4>3. CASE i # 1
        <5>1. i - 1 \in 1 .. k /\ p[i] = q[i - 1] /\ i - 1 < j - 1
          BY <3>7, <3>8, <3>11, <4>3
        <5> QED BY <3>6, <4>1, <5>1 DEF Rising
      <4> QED BY <4>2, <4>3
    <3>12. Rising(p)
      BY <3>10, <3>11 DEF Rising
    <3> QED BY <3>10, <3>12
  <2> QED BY <2>0, <2>1
<1>4. n \in G
  <2>1. \A k \in 0 .. n : k \in G
    <3> HIDE DEF G
    <3> QED BY <1>2, <1>3, FromZero
  <2>2. n \in 0 .. n
    OBVIOUS
  <2> HIDE DEF G
  <2> QED BY <2>1, <2>2
<1> QED BY <1>1, <1>4

(* A fold goes through the sequence step by step.                          *)
FoldsBy(F, S, X, seq, base, step) ==
  /\ FoldStep(S, X, seq, base, step) /\ F[{}] = base
  /\ \A s \in SUBSET DOMAIN seq :
       s # {} /\ F[s \ {Max(s)}] \in S => F[s] = step[<<F[s \ {Max(s)}], seq[Max(s)]>>]

StepsOf(h, S, seq, base, step) ==
  /\ h \in [0 .. Len(seq) -> S] /\ h[0] = base
  /\ \A k \in 0 .. Len(seq) - 1 : h[k + 1] = step[<<h[k], seq[k + 1]>>]

(* Such a fold has a value after every step, the last one being its result.*)
LEMMA FoldSteps ==
  ASSUME NEW F, NEW S, NEW X, NEW seq, NEW base, NEW step, FoldsBy(F, S, X, seq, base, step)
  PROVE  \E h : StepsOf(h, S, seq, base, step) /\ h[Len(seq)] = F[DOMAIN seq]
<1>1. PICK n : n = Len(seq)
  OBVIOUS
<1>2. /\ n \in Nat /\ DOMAIN seq = 1 .. n /\ \A i \in 1 .. n : seq[i] \in X
      /\ base \in S /\ step \in [S \X X -> S] /\ F[{}] = base
  BY <1>1 DEF FoldsBy, FoldStep
<1>3. 1 .. 0 = {}
  OBVIOUS
<1>4. ASSUME NEW k \in 0 .. n - 1, F[1 .. k] \in S
      PROVE  F[1 .. k + 1] = step[<<F[1 .. k], seq[k + 1]>>] /\ F[1 .. k + 1] \in S
  <2>1. 1 .. k + 1 \in SUBSET DOMAIN seq /\ 1 .. k + 1 # {} /\ k \in Nat /\ k + 1 \in 1 .. n
    <3>1. k \in Nat /\ 1 .. k + 1 \subseteq 1 .. n /\ 1 \in 1 .. k + 1 /\ k + 1 \in 1 .. n
      BY <1>2
    <3> QED BY <1>2, <3>1
  <2>2. Max(1 .. k + 1) = k + 1 /\ (1 .. k + 1) \ {k + 1} = 1 .. k
    BY <2>1, MaxUpTo
  <2>3. F[1 .. k + 1] = step[<<F[1 .. k], seq[k + 1]>>]
    BY <1>4, <2>1, <2>2 DEF FoldsBy
  <2>4. seq[k + 1] \in X
    BY <1>2, <2>1
  <2> QED BY <1>2, <1>4, <2>3, <2>4
<1> DEFINE G == {k \in 0 .. n : F[1 .. k] \in S}
<1>5. 0 \in G
  BY <1>2, <1>3
<1>6. ASSUME NEW k \in 0 .. n - 1, k \in G PROVE k + 1 \in G
  <2>1. k + 1 \in 0 .. n
    BY <1>2
  <2> QED BY <1>4, <1>6, <2>1
<1>7. \A k \in 0 .. n : k \in G
  <2> HIDE DEF G
  <2> QED BY <1>2, <1>5, <1>6, FromZero
<1> DEFINE h == [k \in 0 .. n |-> F[1 .. k]]
<1>8. /\ h \in [0 .. n -> S] /\ h[0] = base /\ h[n] = F[1 .. n]
      /\ \A k \in 0 .. n - 1 : h[k] = F[1 .. k] /\ h[k + 1] = F[1 .. k + 1]
  BY <1>2, <1>3, <1>7
<1>9. \A k \in 0 .. n - 1 : F[1 .. k] \in S
  <2>1. \A k \in 0 .. n - 1 : k \in 0 .. n
    BY <1>2
  <2> QED BY <1>7, <2>1
<1> HIDE DEF h
<1>10. \A k \in 0 .. n - 1 : h[k + 1] = step[<<h[k], seq[k + 1]>>]
  BY <1>4, <1>8, <1>9
<1> QED BY <1>1, <1>2, <1>8, <1>10 DEF StepsOf

(* What is left without the last element.                                  *)
LEMMA TopTaken ==
  ASSUME NEW S, NEW s \in Seq(S), s # << >>
  PROVE  Last(s) \in S /\ Front(s) \in Seq(S) /\ s = Append(Front(s), Last(s))
<1>1. PICK n : n = Len(s)
  OBVIOUS
<1>2. n \in Nat /\ n # 0 /\ DOMAIN s = 1 .. n /\ n \in 1 .. n /\ n - 1 \in Nat
  BY <1>1
<1>3. PICK t : t = SubSeq(s, 1, n - 1)
  OBVIOUS
<1>4. t \in Seq(S) /\ Len(t) = n - 1 /\ \A i \in 1 .. n - 1 : t[i] = s[i]
  BY <1>1, <1>2, <1>3
<1>5. Last(s) = s[n] /\ Front(s) = t
  BY <1>1, <1>3 DEF Last, Front
<1>6. s[n] \in S
  BY <1>1, <1>2
<1>7. s = Append(t, s[n])
  <2>1. Append(t, s[n]) \in Seq(S) /\ Len(Append(t, s[n])) = n
    BY <1>2, <1>4, <1>6
  <2>2. \A i \in 1 .. n : Append(t, s[n])[i] = s[i]
    BY <1>2, <1>4, <1>6
  <2> QED BY <1>1, <2>1, <2>2
<1> QED BY <1>4, <1>5, <1>6, <1>7

(* What an element more at the end changes.                                *)
LEMMA AppendedTo ==
  ASSUME NEW S, NEW s \in Seq(S), NEW x \in S
  PROVE  /\ Append(s, x) \in Seq(S) /\ ToSet(Append(s, x)) = ToSet(s) \cup {x}
         /\ x \notin ToSet(s) /\ IsInjective(s) <=> IsInjective(Append(s, x))
<1>1. PICK n, t : n = Len(s) /\ t = Append(s, x)
  OBVIOUS
<1>2. /\ n \in Nat /\ t \in Seq(S) /\ DOMAIN s = 1 .. n /\ DOMAIN t = 1 .. n + 1
      /\ t[n + 1] = x /\ \A i \in 1 .. n : t[i] = s[i]
  BY <1>1
<1>3. \A i \in 1 .. n + 1 : i \in 1 .. n \/ i = n + 1
  BY <1>2
<1>4. \A i \in 1 .. n : i \in 1 .. n + 1
  BY <1>2
<1>5. n + 1 \in 1 .. n + 1
  BY <1>2
<1>6. ToSet(t) = ToSet(s) \cup {x}
  BY <1>2, <1>3, <1>4, <1>5 DEF ToSet
<1>7. x \notin ToSet(s) /\ IsInjective(s) => IsInjective(t)
  BY <1>2, <1>3 DEF ToSet, IsInjective
<1>8. IsInjective(t) => x \notin ToSet(s) /\ IsInjective(s)
  <2>1. n + 1 \notin 1 .. n
    BY <1>2
  <2>2. SUFFICES ASSUME \A i, j \in 1 .. n + 1 : t[i] = t[j] => i = j
                 PROVE  x \notin ToSet(s) /\ IsInjective(s)
    BY <1>2 DEF IsInjective
  <2>3. \A i \in 1 .. n : s[i] # x
    BY <1>2, <1>4, <1>5, <2>1, <2>2
  <2>4. \A i, j \in 1 .. n : s[i] = s[j] => i = j
    BY <1>2, <1>4, <2>2
  <2> QED BY <1>2, <2>3, <2>4 DEF ToSet, IsInjective
<1> QED BY <1>1, <1>2, <1>6, <1>7, <1>8

(* Two sequences that have no element in common.                           *)
LEMMA ConcatOnce ==
  ASSUME NEW S, NEW s \in Seq(S), NEW t \in Seq(S)
  PROVE  /\ s \o t \in Seq(S) /\ ToSet(s \o t) = ToSet(s) \cup ToSet(t)
         /\ IsInjective(s) /\ IsInjective(t) /\ ToSet(s) \cap ToSet(t) = {} => IsInjective(s \o t)
<1>1. PICK m, n, u : m = Len(s) /\ n = Len(t) /\ u = s \o t
  OBVIOUS
<1>2. /\ m \in Nat /\ n \in Nat /\ u \in Seq(S) /\ DOMAIN s = 1 .. m /\ DOMAIN t = 1 .. n
      /\ DOMAIN u = 1 .. m + n
      /\ \A i \in 1 .. m + n : u[i] = IF i <= m THEN s[i] ELSE t[i - m]
  BY <1>1
<1>3. ASSUME NEW i \in 1 .. m + n
      PROVE  \/ i \in 1 .. m /\ u[i] = s[i]
             \/ i - m \in 1 .. n /\ u[i] = t[i - m]
  BY <1>2
<1>4. IsInjective(s) /\ IsInjective(t) /\ ToSet(s) \cap ToSet(t) = {} => IsInjective(u)
  <2>1. SUFFICES ASSUME IsInjective(s), IsInjective(t), ToSet(s) \cap ToSet(t) = {},
                        NEW i \in 1 .. m + n, NEW j \in 1 .. m + n, u[i] = u[j]
                 PROVE  i = j
    BY <1>2 DEF IsInjective
  <2>2. \A k \in 1 .. m : s[k] \in ToSet(s)
    BY <1>2 DEF ToSet
  <2>3. \A k \in 1 .. n : t[k] \in ToSet(t)
    BY <1>2 DEF ToSet
  <2>4. CASE i \in 1 .. m /\ u[i] = s[i]
    <3>1. j \in 1 .. m /\ u[j] = s[j]
      BY <1>3, <2>1, <2>2, <2>3, <2>4
    <3> QED BY <1>2, <2>1, <2>4, <3>1 DEF IsInjective
  <2>5. CASE i - m \in 1 .. n /\ u[i] = t[i - m]
    <3>1. j - m \in 1 .. n /\ u[j] = t[j - m]
      BY <1>3, <2>1, <2>2, <2>3, <2>5
    <3>2. i - m = j - m
      BY <1>2, <2>1, <2>5, <3>1 DEF IsInjective
    <3> QED BY <1>2, <3>2
  <2> QED BY <1>3, <2>4, <2>5
<1>5. ToSet(u) = ToSet(s) \cup ToSet(t)
  BY <1>1, ConcatMembers
<1> QED BY <1>1, <1>2, <1>4, <1>5

(* The first element of a sequence may go to the end of the one before it. *)
LEMMA HeadMoved ==
  ASSUME NEW S, NEW s \in Seq(S), NEW t \in Seq(S), t # << >>
  PROVE  Append(s, Head(t)) \o Tail(t) = s \o t
<1>1. PICK m, n, u, v : /\ m = Len(s) /\ n = Len(t)
                        /\ u = Append(s, Head(t)) \o Tail(t) /\ v = s \o t
  OBVIOUS
<1>2. /\ m \in Nat /\ n \in Nat /\ n # 0 /\ v \in Seq(S) /\ Len(v) = m + n
      /\ \A i \in 1 .. m + n : v[i] = IF i <= m THEN s[i] ELSE t[i - m]
  BY <1>1
<1>3. PICK a, b : a = Append(s, Head(t)) /\ b = Tail(t)
  OBVIOUS
<1>4. /\ a \in Seq(S) /\ b \in Seq(S) /\ Len(a) = m + 1 /\ Len(b) = n - 1
      /\ a[m + 1] = t[1] /\ \A i \in 1 .. m : a[i] = s[i]
      /\ \A i \in 1 .. n - 1 : b[i] = t[i + 1]
  BY <1>1, <1>2, <1>3
<1>5. /\ u \in Seq(S) /\ Len(u) = m + n
      /\ \A i \in 1 .. m + n : u[i] = IF i <= m + 1 THEN a[i] ELSE b[i - (m + 1)]
  BY <1>1, <1>2, <1>3, <1>4
<1>6. ASSUME NEW i \in 1 .. m + n PROVE u[i] = v[i]
  <2>1. CASE i <= m
    <3>1. i \in 1 .. m /\ i <= m + 1
      BY <1>2, <2>1
    <3>2. u[i] = a[i]
      BY <1>5, <3>1
    <3>3. v[i] = s[i]
      BY <1>2, <2>1
    <3>4. a[i] = s[i]
      BY <1>4, <3>1
    <3> QED BY <3>2, <3>3, <3>4
  <2>2. CASE i = m + 1
    BY <1>2, <1>4, <1>5, <2>2
  <2>3. CASE i > m + 1
    <3>1. i - (m + 1) \in 1 .. n - 1 /\ i - (m + 1) + 1 = i - m
      BY <1>2, <2>3
    <3>2. ~(i <= m) /\ ~(i <= m + 1)
      BY <1>2, <2>3
    <3>3. u[i] = b[i - (m + 1)]
      BY <1>5, <3>2
    <3>4. v[i] = t[i - m]
      BY <1>2, <3>2
    <3>5. b[i - (m + 1)] = t[i - (m + 1) + 1]
      BY <1>4, <3>1
    <3> QED BY <3>1, <3>3, <3>4, <3>5
  <2> QED BY <1>2, <2>1, <2>2, <2>3
<1>7. u = v
  BY <1>2, <1>5, <1>6, SameSequence
<1> QED BY <1>1, <1>7
=============================================================================
