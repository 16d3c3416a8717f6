------------------------ MODULE SmiUpdateFileProofs ------------------------
(* Proofs about the page file, for any finite set of processes and any      *)
(* number of pages and changes.                                              *)
EXTENDS SmiUpdateFile, FiniteSetTheorems, TLAPS

(* The variables of SmiUpdateFile keep their types, whatever the processes   *)
(* and the pool do.                                                          *)
THEOREM TypeCorrect == Spec => []TypeOK
<1>1. Init => TypeOK
  <2> SUFFICES ASSUME Init PROVE TypeOK
    OBVIOUS
  <2>1. pc \in [Proc -> {"closed", "registering", "open", "unregistering", "counting"}]
    BY DEF Init
  <2>2. got \in [Proc -> SUBSET Page] /\ mine \in [Proc -> SUBSET Change]
    BY DEF Init
  <2>3. \A f : f = [n \in Page |-> {}] => f \in [Page -> SUBSET Change] OBVIOUS
  <2>4. frame \in [Page -> SUBSET Change] /\ disk \in [Page -> SUBSET Change]
        /\ made \in [Page -> SUBSET Change]
    BY <2>3 DEF Init
  <2>5. copy \in [Proc -> Int] BY DEF Init
  <2>6. last \in 0..MaxPages BY BoundAssumption DEF Init
  <2>7. flagged \in BOOLEAN /\ raced \in BOOLEAN /\ forgotten \in BOOLEAN
    BY DEF Init
  <2>8. dirty = {} /\ stuck = {} /\ doubt = {} BY DEF Init
  <2>9. count = 1 /\ countOnDisk = 0 BY DEF Init
  <2>10. countDirty \in BOOLEAN BY DEF Init
  <2> QED BY <2>1, <2>2, <2>4, <2>5, <2>6, <2>7, <2>8, <2>9, <2>10 DEF TypeOK
<1>2. TypeOK /\ [Next]_vars => TypeOK'
  <2> SUFFICES ASSUME TypeOK, [Next]_vars PROVE TypeOK'
    OBVIOUS
  <2> USE BoundAssumption DEF TypeOK, process, pool, system, history
  <2>1. CASE UNCHANGED vars BY <2>1 DEF vars
  <2>2. ASSUME NEW p \in Proc, Step(p) PROVE TypeOK'
    <3>1. CASE OpenRead(p) BY <3>1 DEF OpenRead, ReadCount
    <3>2. CASE RegisterInFile(p)
      <4>1. disk' \in [Page -> SUBSET Change] /\ dirty' \in SUBSET Page
        BY <3>2 DEF RegisterInFile, Written
      <4>2. count' \in Int /\ copy' \in [Proc -> Int] BY <3>2 DEF RegisterInFile
      <4>3. countOnDisk' \in Int /\ countDirty' \in BOOLEAN
        BY <3>2, <4>2 DEF RegisterInFile, CountWritten
      <4> QED BY <3>2, <4>1, <4>2, <4>3 DEF RegisterInFile
    <3>3. ASSUME NEW n \in Page, GetPage(p, n) PROVE TypeOK'
      BY <3>3 DEF GetPage
    <3>4. ASSUME NEW n \in Page, NEW c \in Change, Write(p, n, c) PROVE TypeOK'
      BY <3>4 DEF Write
    <3>5. ASSUME NEW n \in Page, NEW isChanged \in BOOLEAN, PutPage(p, n, isChanged)
          PROVE  TypeOK'
      BY <3>5 DEF PutPage, Marked
    <3>6. CASE AppendNewPage(p) BY <3>6 DEF AppendNewPage, Page
    <3>7. CASE CloseRead(p) BY <3>7 DEF CloseRead, ReadCount
    <3>8. CASE UnRegisterInFile(p) BY <3>8 DEF UnRegisterInFile
    <3>9. CASE Close(p)
      BY <3>9 DEF Close, SyncFile, Marked, CountWritten, Written
    <3> QED BY <2>2, <3>1, <3>2, <3>3, <3>4, <3>5, <3>6, <3>7, <3>8, <3>9 DEF Step
  <2>3. ASSUME NEW n \in Page, Evict(n) PROVE TypeOK' BY <2>3 DEF Evict
  <2>4. CASE EvictCount BY <2>4 DEF EvictCount
  <2> QED BY <2>1, <2>2, <2>3, <2>4 DEF Next
<1> QED BY <1>1, <1>2, PTL DEF Spec
-----------------------------------------------------------------------------
(* What the properties about the pages rest on: only pages of the file are   *)
(* held or changed, a process holds none while the file is closed to it, a   *)
(* page shows nothing that was not written to it, and no change was made to  *)
(* two pages.                                                                *)
PagesInv ==
  /\ \A p \in Proc : got[p] \subseteq 1..last
  /\ \A p \in Proc : pc[p] \in {"closed", "registering"} => got[p] = {}
  /\ \A n \in Page : frame[n] \subseteq made[n] /\ disk[n] \subseteq made[n]
  /\ \A n \in Page : made[n] # {} => n <= last
  /\ \A m, n \in Page : m # n => made[m] \cap made[n] = {}

(* Where put takes the flag, a page the pool will not write is in the file   *)
(* as far as its changes were put back as changes.                           *)
SavedInv == flagged => \A n \in Page \ dirty : made[n] \ doubt \subseteq disk[n]

LEMMA PagesStep ==
  ASSUME TypeOK, PagesInv, [Next]_vars
  PROVE  PagesInv'
<1> USE BoundAssumption DEF TypeOK, PagesInv, process, pool, system, history, Page
<1>1. CASE UNCHANGED vars BY <1>1 DEF vars
<1>2. ASSUME NEW p \in Proc, Step(p) PROVE PagesInv'
  <2>1. CASE OpenRead(p) BY <2>1 DEF OpenRead, ReadCount
  <2>2. CASE RegisterInFile(p) BY <2>2 DEF RegisterInFile, Written
  <2>3. ASSUME NEW n \in Page, GetPage(p, n) PROVE PagesInv' BY <2>3 DEF GetPage
  <2>4. ASSUME NEW n \in Page, NEW c \in Change \ UNION {made[m] : m \in Page},
               Write(p, n, c)
        PROVE  PagesInv'
    <3>1. \A m \in Page : c \notin made[m] OBVIOUS
    <3> QED BY <2>4, <3>1 DEF Write
  <2>5. ASSUME NEW n \in Page, NEW isChanged \in BOOLEAN, PutPage(p, n, isChanged)
        PROVE  PagesInv'
    BY <2>5 DEF PutPage
  <2>6. CASE AppendNewPage(p) BY <2>6 DEF AppendNewPage
  <2>7. CASE CloseRead(p) BY <2>7 DEF CloseRead, ReadCount
  <2>8. CASE UnRegisterInFile(p) BY <2>8 DEF UnRegisterInFile
  <2>9. CASE Close(p)
    <3>1. UNCHANGED <<last, frame, made>> /\ got' = [got EXCEPT ![p] = {}]
          /\ pc' = [pc EXCEPT ![p] = "closed"]
      BY <2>9 DEF Close
    <3>2. ASSUME NEW n \in Page PROVE disk'[n] \subseteq made[n]
      <4>1. CASE count = 0
        <5> HIDE DEF Page
        <5> DEFINE put == Marked(got[p], TRUE)
                            \cap (Page \ (stuck \cup UNION {got[q] : q \in Proc \ {p}}))
        <5>1. disk' = [m \in Page |-> IF m \in put THEN frame[m] ELSE disk[m]]
          BY <2>9, <4>1 DEF Close, SyncFile, Written
        <5> HIDE DEF put
        <5> QED BY <5>1
      <4>2. CASE count # 0 BY <2>9, <4>2 DEF Close
      <4> QED BY <4>1, <4>2
    <3>3. \A q \in Proc : got'[q] \subseteq got[q] /\ (pc'[q] = pc[q] \/ got'[q] = {})
      BY <3>1
    <3> HIDE DEF Page
    <3> QED BY <3>1, <3>2, <3>3
  <2> HIDE DEF PagesInv, TypeOK, Page
  <2> QED BY <1>2, <2>1, <2>2, <2>3, <2>4, <2>5, <2>6, <2>7, <2>8, <2>9 DEF Step
<1>3. ASSUME NEW n \in Page, Evict(n) PROVE PagesInv'
  <2>1. CASE n \in dirty BY <1>3, <2>1 DEF Evict
  <2>2. CASE n \notin dirty BY <1>3, <2>2 DEF Evict
  <2> QED BY <2>1, <2>2
<1>4. CASE EvictCount BY <1>4 DEF EvictCount
<1> QED BY <1>1, <1>2, <1>3, <1>4 DEF Next

LEMMA PagesCorrect == Spec => []PagesInv
<1>1. Init => PagesInv
  BY BoundAssumption DEF Init, PagesInv, Page
<1>2. TypeOK /\ PagesInv /\ [Next]_vars => PagesInv'
  BY PagesStep
<1> QED BY <1>1, <1>2, TypeCorrect, PTL DEF Spec
-----------------------------------------------------------------------------
(* HeldChangesStay with its quantifiers apart: a change of a process is in   *)
(* the frame of a page it holds.                                             *)
LEMMA HeldElement ==
  HeldChangesStay <=>
    \A p \in Proc : \A c \in mine[p] : \E n \in got[p] : c \in frame[n]
BY DEF HeldChangesStay

LEMMA HeldStep ==
  ASSUME TypeOK, PagesInv, HeldChangesStay, [Next]_vars
  PROVE  HeldChangesStay'
<1> USE BoundAssumption DEF TypeOK, process, pool, system, history
<1> SUFFICES ASSUME NEW q \in Proc, NEW d \in mine'[q]
             PROVE  \E n \in got'[q] : d \in frame'[n]
  BY DEF HeldChangesStay
<1>0. ASSUME d \in mine[q]
      PROVE  \E n \in got[q] : n \in Page /\ n \in 1..last /\ d \in frame[n] /\ d \in made[n]
  BY <1>0, HeldElement DEF PagesInv, Page
<1>1. CASE UNCHANGED vars BY <1>0, <1>1 DEF vars
<1>2. ASSUME NEW p \in Proc, Step(p) PROVE \E n \in got'[q] : d \in frame'[n]
  <2>1. CASE OpenRead(p) BY <1>0, <2>1 DEF OpenRead, ReadCount
  <2>2. CASE RegisterInFile(p) BY <1>0, <2>2 DEF RegisterInFile
  <2>3. ASSUME NEW n \in Page, GetPage(p, n) PROVE \E m \in got'[q] : d \in frame'[m]
    BY <1>0, <2>3 DEF GetPage
  <2>4. ASSUME NEW n \in Page, NEW c \in Change, Write(p, n, c)
        PROVE  \E m \in got'[q] : d \in frame'[m]
    BY <1>0, <2>4 DEF Write
  <2>5. ASSUME NEW n \in Page, NEW isChanged \in BOOLEAN, PutPage(p, n, isChanged)
        PROVE  \E m \in got'[q] : d \in frame'[m]
    BY <1>0, <2>5 DEF PutPage
  <2>6. CASE AppendNewPage(p) BY <1>0, <2>6 DEF AppendNewPage
  <2>7. CASE CloseRead(p) BY <1>0, <2>7 DEF CloseRead, ReadCount
  <2>8. CASE UnRegisterInFile(p) BY <1>0, <2>8 DEF UnRegisterInFile
  <2>9. CASE Close(p) BY <1>0, <2>9 DEF Close
  <2> QED BY <1>2, <2>1, <2>2, <2>3, <2>4, <2>5, <2>6, <2>7, <2>8, <2>9 DEF Step
<1>3. ASSUME NEW n \in Page, Evict(n) PROVE \E m \in got'[q] : d \in frame'[m]
  BY <1>0, <1>3 DEF Evict, Pinned
<1>4. CASE EvictCount BY <1>0, <1>4 DEF EvictCount
<1> QED BY <1>1, <1>2, <1>3, <1>4 DEF Next

(* For any number of processes sharing the file: what a process has written  *)
(* to the pages it holds stays in their frames.                              *)
THEOREM HeldChanges == Spec => []HeldChangesStay
<1>1. Init => HeldChangesStay BY DEF Init, HeldChangesStay
<1>2. TypeOK /\ PagesInv /\ HeldChangesStay /\ [Next]_vars => HeldChangesStay'
  BY HeldStep
<1> QED BY <1>1, <1>2, TypeCorrect, PagesCorrect, PTL DEF Spec
-----------------------------------------------------------------------------
(* The pool's sync of the pages in "free", some more of which are marked,    *)
(* and a doubt that goes for the marked pages only.                          *)
LEMMA WrittenKeeps ==
  ASSUME TypeOK, PagesInv, ChangedPagesStay, SavedInv, flagged,
         NEW marked \in SUBSET Page, NEW free \in SUBSET Page,
         dirty \subseteq marked, Written(marked, free),
         UNCHANGED <<flagged, frame, made>>,
         NEW put \in SUBSET marked,
         doubt' = doubt \ UNION {frame[n] : n \in put}
  PROVE  ChangedPagesStay' /\ SavedInv'
<1> USE DEF TypeOK
<1>1. ASSUME NEW n \in Page, NEW d \in made[n], d \notin doubt' PROVE d \in frame[n]
  <2>1. CASE d \notin doubt BY <2>1 DEF ChangedPagesStay
  <2>2. ASSUME NEW m \in put, d \in frame[m] PROVE d \in frame[n]
    BY <2>2 DEF PagesInv
  <2> QED BY <1>1, <2>1, <2>2
<1>2. ASSUME NEW n \in Page, n \notin dirty', NEW d \in made[n], d \notin doubt'
      PROVE  d \in disk'[n]
  <2>1. CASE n \in marked
    <3>1. n \in marked \cap free BY <1>2, <2>1 DEF Written
    <3> QED BY <1>1, <1>2, <3>1 DEF Written
  <2>2. CASE n \notin marked
    <3>1. disk'[n] = disk[n] /\ n \notin dirty BY <2>2 DEF Written
    <3>2. ASSUME NEW m \in put PROVE d \notin frame[m]
      BY <2>2 DEF PagesInv
    <3>3. d \notin doubt BY <1>2, <3>2
    <3> QED BY <3>1, <3>3 DEF SavedInv
  <2> QED BY <2>1, <2>2
<1> QED BY <1>1, <1>2 DEF ChangedPagesStay, SavedInv

LEMMA SavedStep ==
  ASSUME TypeOK, PagesInv, ChangedPagesStay, SavedInv, [Next]_vars
  PROVE  ChangedPagesStay' /\ SavedInv'
<1> USE BoundAssumption DEF TypeOK, process, pool, system, history
<1>0. flagged' = flagged
  BY ZenonT(60) DEF Next, Step, OpenRead, ReadCount, RegisterInFile, GetPage, Write, PutPage,
     AppendNewPage, CloseRead, UnRegisterInFile, Close, Evict, EvictCount, vars
<1> SUFFICES ASSUME flagged PROVE ChangedPagesStay' /\ SavedInv'
  BY <1>0 DEF ChangedPagesStay, SavedInv
<1> DEFINE Kept == ChangedPagesStay' /\ SavedInv'
<1>1. CASE UNCHANGED vars BY <1>1 DEF vars, ChangedPagesStay, SavedInv
<1>2. ASSUME NEW p \in Proc, Step(p) PROVE Kept
  <2>1. CASE OpenRead(p)
    BY <2>1 DEF OpenRead, ReadCount, ChangedPagesStay, SavedInv
  <2>2. CASE RegisterInFile(p)
    <3> DEFINE free == {n \in Page : ~Pinned(n)}
    <3>1. doubt' = doubt \ UNION {frame[n] : n \in {}} BY <2>2 DEF RegisterInFile
    <3>2. Written(dirty, free) BY <2>2 DEF RegisterInFile
    <3>3. UNCHANGED <<flagged, frame, made>> BY <2>2 DEF RegisterInFile
    <3>4. free \in SUBSET Page /\ dirty \in SUBSET Page /\ {} \in SUBSET dirty OBVIOUS
    <3> HIDE DEF free
    <3> QED BY <3>1, <3>2, <3>3, <3>4, WrittenKeeps
  <2>3. ASSUME NEW n \in Page, GetPage(p, n) PROVE Kept
    BY <2>3 DEF GetPage, ChangedPagesStay, SavedInv
  <2>4. ASSUME NEW n \in Page, NEW c \in Change, Write(p, n, c) PROVE Kept
    BY <2>4 DEF Write, ChangedPagesStay, SavedInv
  <2>5. ASSUME NEW n \in Page, NEW isChanged \in BOOLEAN, PutPage(p, n, isChanged)
        PROVE  Kept
    <3>1. CASE isChanged
      <4>1. dirty' = dirty \cup {n} /\ doubt' = doubt \ frame[n]
            /\ UNCHANGED <<flagged, frame, disk, made>>
        BY <2>5, <3>1 DEF PutPage, Marked
      <4>2. ASSUME NEW m \in Page, m # n, NEW d \in made[m] PROVE d \notin frame[n]
        BY <4>2 DEF PagesInv
      <4>3. ChangedPagesStay' BY <4>1, <4>2 DEF ChangedPagesStay
      <4>4. SavedInv' BY <4>1, <4>2 DEF SavedInv
      <4> QED BY <4>3, <4>4
    <3>2. CASE ~isChanged
      BY <2>5, <3>2 DEF PutPage, Marked, ChangedPagesStay, SavedInv
    <3> QED BY <3>1, <3>2
  <2>6. CASE AppendNewPage(p)
    <3>1. ASSUME NEW n \in Page, n = last + 1 PROVE made[n] = {}
      BY <3>1 DEF PagesInv, Page
    <3> QED BY <2>6, <3>1 DEF AppendNewPage, ChangedPagesStay, SavedInv
  <2>7. CASE CloseRead(p)
    BY <2>7 DEF CloseRead, ReadCount, ChangedPagesStay, SavedInv
  <2>8. CASE UnRegisterInFile(p)
    BY <2>8 DEF UnRegisterInFile, ChangedPagesStay, SavedInv
  <2>9. CASE Close(p)
    <3>1. CASE count = 0
      <4>1. Written(dirty \cup got[p], Page \ (stuck \cup UNION {got[q] : q \in Proc \ {p}}))
        BY <2>9, <3>1 DEF Close, SyncFile, Marked
      <4>2. doubt' = doubt \ UNION {frame[n] : n \in got[p]}
            /\ UNCHANGED <<flagged, frame, made>>
        BY <2>9, <3>1 DEF Close, SyncFile
      <4>3. got[p] \in SUBSET (dirty \cup got[p]) /\ dirty \cup got[p] \in SUBSET Page
        OBVIOUS
      <4> QED BY <4>1, <4>2, <4>3, WrittenKeeps, SMTT(60)
    <3>2. CASE count # 0
      BY <2>9, <3>2 DEF Close, ChangedPagesStay, SavedInv
    <3> QED BY <3>1, <3>2
  <2> QED BY <1>2, <2>1, <2>2, <2>3, <2>4, <2>5, <2>6, <2>7, <2>8, <2>9 DEF Step
<1>3. ASSUME NEW n \in Page, Evict(n) PROVE Kept
  <2>1. CASE n \in dirty BY <1>3, <2>1 DEF Evict, ChangedPagesStay, SavedInv
  <2>2. CASE n \notin dirty BY <1>3, <2>2 DEF Evict, ChangedPagesStay, SavedInv
  <2> QED BY <2>1, <2>2
<1>4. CASE EvictCount BY <1>4 DEF EvictCount, ChangedPagesStay, SavedInv
<1> QED BY <1>1, <1>2, <1>3, <1>4 DEF Next

LEMMA SavedCorrect == Spec => [](ChangedPagesStay /\ SavedInv)
<1>1. Init => ChangedPagesStay /\ SavedInv BY DEF Init, ChangedPagesStay, SavedInv
<1>2. TypeOK /\ PagesInv /\ (ChangedPagesStay /\ SavedInv) /\ [Next]_vars
        => (ChangedPagesStay /\ SavedInv)'
  BY SavedStep
<1> QED BY <1>1, <1>2, TypeCorrect, PagesCorrect, PTL DEF Spec

(* For any number of processes and pages: where put takes the flag, no       *)
(* change that was put back as a change leaves its page.                     *)
THEOREM ChangedPages == Spec => []ChangedPagesStay
BY SavedCorrect, PTL
-----------------------------------------------------------------------------
(* The processes the count stands for.                                       *)
Sharing == {p \in Proc : pc[p] \in {"open", "unregistering"}}

(* The count is right, and so is the copy of the one process that has one.   *)
CountInv ==
  ~raced /\ ~forgotten =>
    /\ count = Cardinality(Sharing)
    /\ \A p \in Proc : Counting(p) =>
         copy[p] = count /\ \A q \in Proc \ {p} : ~Counting(q)

LEMMA SharingFinite == IsFiniteSet(Sharing)
BY ProcAssumption, FS_Subset DEF Sharing

LEMMA CountStep ==
  ASSUME TypeOK, CountInv, [Next]_vars
  PROVE  CountInv'
<1> USE DEF TypeOK, process, pool, system, history, Counting
<1> SUFFICES ASSUME ~raced', ~forgotten'
             PROVE  /\ count' = Cardinality(Sharing')
                    /\ \A p \in Proc : Counting(p)' =>
                         copy'[p] = count' /\ \A q \in Proc \ {p} : ~Counting(q)'
  BY DEF CountInv
<1>0. ~raced /\ ~forgotten
  BY ZenonT(60) DEF Next, Step, OpenRead, ReadCount, RegisterInFile, GetPage, Write, PutPage,
     AppendNewPage, CloseRead, UnRegisterInFile, Close, Evict, EvictCount, vars
<1>1. count = Cardinality(Sharing) BY <1>0 DEF CountInv
<1>2. \A p \in Proc : Counting(p) => copy[p] = count /\ \A q \in Proc \ {p} : ~Counting(q)
  BY <1>0 DEF CountInv
<1> DEFINE Right ==
      /\ count' = Cardinality(Sharing')
      /\ \A p \in Proc : Counting(p)' =>
           copy'[p] = count' /\ \A q \in Proc \ {p} : ~Counting(q)'
<1>3. ASSUME UNCHANGED <<pc, copy, count>> PROVE Right
  <2>1. Sharing' = Sharing BY <1>3 DEF Sharing
  <2> QED BY <1>1, <1>2, <1>3, <2>1
<1>4. ASSUME NEW p \in Proc, NEW from, NEW to, ReadCount(p, from, to),
             <<from, to>> \in {<<"closed", "registering">>, <<"open", "unregistering">>}
      PROVE  Right
  <2>1. Sharing' = Sharing BY <1>4 DEF ReadCount, Sharing
  <2>2. \A q \in Proc \ {p} : ~Counting(q) BY <1>4 DEF ReadCount
  <2>3. count' = count BY <1>4 DEF ReadCount
  <2> QED BY <1>1, <1>4, <2>1, <2>2, <2>3 DEF ReadCount
<1>5. ASSUME NEW p \in Proc, RegisterInFile(p) PROVE Right
  <2>1. Counting(p) BY <1>5 DEF RegisterInFile
  <2>2. Sharing' = Sharing \cup {p} BY <1>5 DEF RegisterInFile, Sharing
  <2>3. p \notin Sharing BY <1>5 DEF RegisterInFile, Sharing
  <2>4. Cardinality(Sharing') = Cardinality(Sharing) + 1
    BY <2>2, <2>3, SharingFinite, FS_AddElement
  <2>5. count' = count + 1 BY <1>2, <1>5, <2>1 DEF RegisterInFile
  <2>6. \A q \in Proc : ~Counting(q)' BY <1>2, <1>5, <2>1 DEF RegisterInFile
  <2> QED BY <1>1, <2>4, <2>5, <2>6
<1>6. ASSUME NEW p \in Proc, UnRegisterInFile(p) PROVE Right
  <2>1. Counting(p) BY <1>6 DEF UnRegisterInFile
  <2>2. Sharing' = Sharing \ {p} BY <1>6 DEF UnRegisterInFile, Sharing
  <2>3. p \in Sharing BY <1>6 DEF UnRegisterInFile, Sharing
  <2>4. Cardinality(Sharing') = Cardinality(Sharing) - 1
    BY <2>2, <2>3, SharingFinite, FS_RemoveElement
  <2>5. count' = count - 1 BY <1>2, <1>6, <2>1 DEF UnRegisterInFile
  <2>6. \A q \in Proc : ~Counting(q)' BY <1>2, <1>6, <2>1 DEF UnRegisterInFile
  <2> QED BY <1>1, <2>4, <2>5, <2>6
<1>7. ASSUME NEW p \in Proc, Close(p) PROVE Right
  <2>1. Sharing' = Sharing BY <1>7 DEF Close, Sharing
  <2>2. \A q \in Proc : Counting(q)' => Counting(q) BY <1>7 DEF Close
  <2> QED BY <1>1, <1>2, <1>7, <2>1, <2>2 DEF Close
<1>8. CASE UNCHANGED vars BY <1>3, <1>8 DEF vars
<1>9. ASSUME NEW p \in Proc, Step(p) PROVE Right
  <2>1. CASE OpenRead(p) BY <1>4, <2>1 DEF OpenRead
  <2>2. CASE CloseRead(p) BY <1>4, <2>2 DEF CloseRead
  <2>3. CASE RegisterInFile(p) \/ UnRegisterInFile(p) \/ Close(p)
    BY <1>5, <1>6, <1>7, <2>3
  <2>4. ASSUME NEW n \in Page, GetPage(p, n) PROVE Right BY <1>3, <2>4 DEF GetPage
  <2>5. ASSUME NEW n \in Page, NEW c \in Change, Write(p, n, c) PROVE Right
    BY <1>3, <2>5 DEF Write
  <2>6. ASSUME NEW n \in Page, NEW b \in BOOLEAN, PutPage(p, n, b) PROVE Right
    BY <1>3, <2>6 DEF PutPage
  <2>7. CASE AppendNewPage(p) BY <1>3, <2>7 DEF AppendNewPage
  <2> QED BY <1>9, <2>1, <2>2, <2>3, <2>4, <2>5, <2>6, <2>7 DEF Step
<1>10. ASSUME NEW n \in Page, Evict(n) PROVE Right BY <1>3, <1>10 DEF Evict
<1>11. CASE EvictCount BY <1>3, <1>11 DEF EvictCount
<1> QED BY <1>8, <1>9, <1>10, <1>11 DEF Next

(* For any number of processes: the count is the number of processes that    *)
(* have the file open, as long as no two hold a copy of the system page at   *)
(* a time and the pool has dropped no unmarked count.                        *)
THEOREM CountCorrect == Spec => []CountRight
<1>1. Init => CountInv
  <2> SUFFICES ASSUME Init PROVE CountInv
    OBVIOUS
  <2>1. PICK c \in Proc : pc = [p \in Proc |-> IF p = c THEN "open" ELSE "closed"]
    BY DEF Init
  <2>2. Sharing = {c} BY <2>1 DEF Sharing
  <2>3. Cardinality(Sharing) = 1 BY <2>2, FS_Singleton
  <2>4. \A p \in Proc : ~Counting(p) BY <2>1 DEF Counting
  <2> QED BY <2>3, <2>4 DEF Init, CountInv
<1>2. TypeOK /\ CountInv /\ [Next]_vars => CountInv'
  BY CountStep
<1>3. CountInv => CountRight BY DEF CountInv, CountRight, Sharing
<1> QED BY <1>1, <1>2, <1>3, TypeCorrect, PTL DEF Spec
-----------------------------------------------------------------------------
LEMMA LastClose ==
  ASSUME TypeOK, PagesInv, HeldChangesStay, CountRight, SavedInv', [Next]_vars,
         NEW p \in Proc, pc[p] = "counting", pc'[p] = "closed",
         \A q \in Proc \ {p} : pc[q] = "closed",
         flagged, ~raced, ~forgotten
  PROVE  \A n \in Page \ stuck :
           /\ made[n] \ doubt' \subseteq disk'[n]
           /\ mine[p] \cap doubt' \cap made[n] = {}
<1> USE DEF TypeOK, process, pool, system, history
<1>1. Close(p)
  <2>1. ~UNCHANGED pc OBVIOUS
  <2>2. \A q \in Proc : OpenRead(q) \/ RegisterInFile(q) \/ CloseRead(q)
                        \/ UnRegisterInFile(q) => pc'[p] = pc[p]
    BY DEF OpenRead, CloseRead, ReadCount, RegisterInFile, UnRegisterInFile
  <2>3. \A q \in Proc : Close(q) => q = p BY DEF Close
  <2>4. \A q \in Proc, n \in Page :
          /\ ~GetPage(q, n) /\ ~Evict(n) /\ \A c \in Change : ~Write(q, n, c)
          /\ \A b \in BOOLEAN : ~PutPage(q, n, b)
    BY <2>1, ZenonT(60) DEF GetPage, Evict, Write, PutPage
  <2>5. ~EvictCount /\ ~UNCHANGED vars /\ \A q \in Proc : ~AppendNewPage(q)
    BY <2>1 DEF EvictCount, vars, AppendNewPage
  <2> QED BY <2>2, <2>3, <2>4, <2>5 DEF Next, Step
<1>2. {q \in Proc : pc[q] \in {"open", "unregistering"}} = {} OBVIOUS
<1>3. count = 0 BY <1>2, FS_EmptySet DEF CountRight
<1>4. \A q \in Proc \ {p} : got[q] = {} BY DEF PagesInv
<1>5. stuck \cup UNION {got[q] : q \in Proc \ {p}} = stuck BY <1>4
<1>6. dirty' = (dirty \cup got[p]) \ (Page \ stuck)
  BY <1>1, <1>3, <1>5 DEF Close, SyncFile, Marked, Written
<1>7. made' = made /\ flagged' = flagged
  BY <1>1, <1>3 DEF Close, SyncFile
<1>8. ASSUME NEW n \in Page \ stuck PROVE made[n] \ doubt' \subseteq disk'[n]
  <2>1. n \in Page \ dirty' BY <1>6
  <2> QED BY <1>7, <2>1 DEF SavedInv
<1>9. doubt' = doubt \ UNION {frame[n] : n \in got[p]}
  BY <1>1, <1>3 DEF Close, SyncFile
<1>10. mine[p] \cap doubt' = {} BY <1>9 DEF HeldChangesStay
<1> QED BY <1>8, <1>10

(* For any number of processes and pages: closing the file as the last one   *)
(* writes what was put back as changed, and all changes of one's own.        *)
THEOREM LastCloseCorrect == Spec => LastCloseWrites
<1>1. TypeOK /\ PagesInv /\ HeldChangesStay /\ CountRight /\ SavedInv' /\ [Next]_vars
      => [\A p \in Proc :
            ( /\ pc[p] = "counting" /\ pc'[p] = "closed"
              /\ \A q \in Proc \ {p} : pc[q] = "closed"
              /\ flagged /\ ~raced /\ ~forgotten )
            => \A n \in Page \ stuck :
                 /\ made[n] \ doubt' \subseteq disk'[n]
                 /\ mine[p] \cap doubt' \cap made[n] = {}]_vars
  BY LastClose
<1> QED BY <1>1, TypeCorrect, PagesCorrect, HeldChanges, CountCorrect, SavedCorrect,
           PTL DEF Spec, LastCloseWrites
=============================================================================
