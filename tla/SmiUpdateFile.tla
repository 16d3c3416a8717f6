--------------------------- MODULE SmiUpdateFile ---------------------------
(* The page file SETI stores its pages in (src/StorageManager/bdbUpdateFile.cpp,     *)
(* src/include/SecondoSMI.h), shared by several processes through the buffer *)
(* pool of the storage manager.  Page 0 counts the processes that share the  *)
(* file; nothing locks it.  A process changes a page through a pointer into  *)
(* the pool, and the pool writes a page to the file only when it was told    *)
(* that the page changed.                                                    *)
(*                                                                           *)
(* The pool itself is external.  A page nobody has pinned may leave it at    *)
(* any time: the frame is then what the file holds, or the file becomes what *)
(* the frame held.  The content of a page is the set of changes it shows.    *)
EXTENDS Integers, FiniteSets

CONSTANTS Proc,        \* processes
          MaxPages,    \* bound: pages appended to the file
          MaxChanges,  \* bound: changes made to pages
          MaxCount     \* bound: the file is opened while the count is
                       \* within -MaxCount..MaxCount

ASSUME ProcAssumption == IsFiniteSet(Proc)
ASSUME BoundAssumption == MaxPages \in Nat /\ MaxChanges \in Nat /\ MaxCount \in Nat

Page == 1..MaxPages
Change == 1..MaxChanges

VARIABLES
  flagged,   \* built against a storage manager whose put takes the dirty flag
  pc,        \* what a process does with the file
  copy,      \* its copy of the system page, 0 outside of register and unregister
  got,       \* gotPages: the pages it has not put back
  last,      \* existPageNum: number of the last page of the file
  frame,     \* what the pool shows of a page
  disk,      \* what the file holds of it
  dirty,     \* pages the pool will write before it drops them
  count, countOnDisk, countDirty,  \* the same for shareByNum on page 0
  stuck,     \* pages pinned by a process that has closed the file
  \* history, read by the properties only
  made,      \* the changes made to each page
  mine,      \* the changes a process has made to the pages it holds
  doubt,     \* changes nobody has put back as changes
  raced,     \* two processes changed the count at the same time
  forgotten  \* the pool dropped a count that was not marked as changed

process == <<pc, copy, got>>
pool == <<frame, disk, dirty>>
system == <<count, countOnDisk, countDirty>>
history == <<made, mine, doubt>>
vars == <<flagged, process, last, pool, system, stuck, history, raced, forgotten>>

Counting(p) == pc[p] \in {"registering", "unregistering"}
Pinned(n) == n \in stuck \/ \E p \in Proc : n \in got[p]

\* sync of the pool: the changed pages nobody has pinned go to the file.
Written(marked, free) ==
  /\ disk' = [n \in Page |-> IF n \in marked \cap free THEN frame[n] ELSE disk[n]]
  /\ dirty' = marked \ free

\* sync of the system page, whose frame holds c.
CountWritten(c, free) ==
  IF countDirty /\ free
  THEN countOnDisk' = c /\ countDirty' = FALSE
  ELSE UNCHANGED <<countOnDisk, countDirty>>

----------------------------------------------------------------------------
(* Create has written the system page with a count of 0 and registered its   *)
(* own process; that change of the count is not marked in either build.      *)
Init ==
  /\ flagged \in BOOLEAN
  /\ \E c \in Proc : pc = [p \in Proc |-> IF p = c THEN "open" ELSE "closed"]
  /\ copy = [p \in Proc |-> 0]
  /\ got = [p \in Proc |-> {}]
  /\ last = 0
  /\ frame = [n \in Page |-> {}] /\ disk = frame /\ dirty = {}
  /\ count = 1 /\ countOnDisk = 0 /\ countDirty = FALSE
  /\ stuck = {}
  /\ made = [n \in Page |-> {}] /\ mine = [p \in Proc |-> {}] /\ doubt = {}
  /\ raced = FALSE /\ forgotten = FALSE

\* The system page is pinned and copied out of its frame.
ReadCount(p, from, to) ==
  /\ pc[p] = from
  /\ pc' = [pc EXCEPT ![p] = to]
  /\ copy' = [copy EXCEPT ![p] = count]
  /\ raced' = (raced \/ \E q \in Proc \ {p} : Counting(q))
  /\ UNCHANGED <<flagged, got, last, pool, system, stuck, history, forgotten>>

OpenRead(p) ==
  /\ count \in -MaxCount..MaxCount
  /\ ReadCount(p, "closed", "registering")

\* A fault: the copy goes back as it was read.
RegisterInFileUncounted(p) ==
  /\ pc[p] = "registering"
  /\ pc' = [pc EXCEPT ![p] = "open"]
  /\ count' = copy[p]
  /\ CountWritten(count', \A q \in Proc \ {p} : ~Counting(q))
  /\ Written(dirty, {n \in Page : ~Pinned(n)})
  /\ copy' = [copy EXCEPT ![p] = 0]
  /\ UNCHANGED <<flagged, got, last, frame, stuck, history, raced, forgotten>>

\* The copy with one process more goes back into the frame, which is put
\* back without the flag; then the file is synchronised.
RegisterInFile(p) ==
  /\ pc[p] = "registering"
  /\ pc' = [pc EXCEPT ![p] = "open"]
  /\ count' = copy[p] + 1
  /\ CountWritten(count', \A q \in Proc \ {p} : ~Counting(q))
  /\ Written(dirty, {n \in Page : ~Pinned(n)})
  /\ copy' = [copy EXCEPT ![p] = 0]
  /\ UNCHANGED <<flagged, got, last, frame, stuck, history, raced, forgotten>>

\* A page the process holds already comes from gotPages, another is pinned.
GetPage(p, n) ==
  /\ pc[p] = "open" /\ n <= last
  /\ got' = [got EXCEPT ![p] = @ \cup {n}]
  /\ UNCHANGED <<flagged, pc, copy, last, pool, system, stuck, history, raced, forgotten>>

\* SmiUpdatePage::Write: memcpy into the frame of a page the process holds.
\* (AppendNewPage returns a pointer to a page it has put back; the callers take
\* the number from it and call GetPage, none writes through it.)
Write(p, n, c) ==
  /\ pc[p] = "open" /\ n \in got[p]
  /\ frame' = [frame EXCEPT ![n] = @ \cup {c}]
  /\ made' = [made EXCEPT ![n] = @ \cup {c}]
  /\ mine' = [mine EXCEPT ![p] = @ \cup {c}]
  /\ doubt' = doubt \cup {c}
  /\ UNCHANGED <<flagged, process, last, disk, dirty, system, stuck, raced, forgotten>>

\* The pages a put marks as changed: isChanged reaches the pool only through
\* the flag.
Marked(pages, isChanged) ==
  IF flagged /\ isChanged THEN dirty \cup pages ELSE dirty

\* A fault: the two calls of put are swapped: changed pages go back as clean.
PutPageSwapped(p, n, isChanged) ==
  /\ pc[p] = "open" /\ n \in got[p]
  /\ got' = [got EXCEPT ![p] = @ \ {n}]
  /\ dirty' = Marked({n}, ~isChanged)
  /\ mine' = [mine EXCEPT ![p] = @ \ made[n]]
  /\ doubt' = IF isChanged THEN doubt \ frame[n] ELSE doubt
  /\ UNCHANGED <<flagged, pc, copy, last, frame, disk, system, stuck, made, raced, forgotten>>

PutPage(p, n, isChanged) ==
  /\ pc[p] = "open" /\ n \in got[p]
  /\ got' = [got EXCEPT ![p] = @ \ {n}]
  /\ dirty' = Marked({n}, isChanged)
  /\ mine' = [mine EXCEPT ![p] = @ \ made[n]]
  /\ doubt' = IF isChanged THEN doubt \ frame[n] ELSE doubt
  /\ UNCHANGED <<flagged, pc, copy, last, frame, disk, system, stuck, made, raced, forgotten>>

\* A fault: the number of the new page is computed without the + 1.
AppendNewPageBefore(p) ==
  /\ pc[p] = "open" /\ last < MaxPages
  /\ last' = last + 1
  /\ frame' = [frame EXCEPT ![last + 1] = {}]
  /\ dirty' = dirty \cup {last}
  /\ UNCHANGED <<flagged, process, disk, system, stuck, history, raced, forgotten>>

\* A fault: the last page of the file is zeroed instead of the new one.
AppendNewPageOver(p) ==
  /\ pc[p] = "open" /\ MaxPages > 0
  /\ last' = IF last = 0 THEN 1 ELSE last
  /\ frame' = [frame EXCEPT ![last'] = {}]
  /\ dirty' = dirty \cup {last'}
  /\ UNCHANGED <<flagged, process, disk, system, stuck, history, raced, forgotten>>

\* A page of zeroes; it is put back before the caller gets its pointer, and
\* it is no member of gotPages.
AppendNewPage(p) ==
  /\ pc[p] = "open" /\ last < MaxPages
  /\ last' = last + 1
  /\ frame' = [frame EXCEPT ![last + 1] = {}]
  /\ dirty' = dirty \cup {last + 1}
  /\ UNCHANGED <<flagged, process, disk, system, stuck, history, raced, forgotten>>

CloseRead(p) == ReadCount(p, "open", "unregistering")

UnRegisterInFile(p) ==
  /\ pc[p] = "unregistering"
  /\ pc' = [pc EXCEPT ![p] = "counting"]
  /\ count' = copy[p] - 1
  /\ countDirty' = (countDirty \/ flagged)
  /\ copy' = [copy EXCEPT ![p] = 0]
  /\ UNCHANGED <<flagged, got, last, pool, countOnDisk, stuck, history,
                 raced, forgotten>>

\* A fault: the file is synchronised before the pages are put back.
SyncFileFirst(p) ==
  /\ Written(dirty, {n \in Page : ~Pinned(n)})
  /\ CountWritten(count, \A q \in Proc : ~Counting(q))
  /\ doubt' = doubt \ UNION {frame[n] : n \in got[p]}
  /\ UNCHANGED stuck

\* SyncFile puts every page of gotPages back, all of them as changed, and
\* synchronises the file.
SyncFile(p) ==
  LET others == stuck \cup UNION {got[q] : q \in Proc \ {p}}
  IN  /\ Written(Marked(got[p], TRUE), Page \ others)
      /\ CountWritten(count, \A q \in Proc : ~Counting(q))
      /\ doubt' = doubt \ UNION {frame[n] : n \in got[p]}
      /\ UNCHANGED stuck

\* The count is read again.  While others share the file nothing is put back
\* and the pins of this process outlive it.
Close(p) ==
  /\ pc[p] = "counting"
  /\ pc' = [pc EXCEPT ![p] = "closed"]
  /\ IF count = 0
     THEN SyncFile(p)
     ELSE /\ stuck' = stuck \cup got[p]
          /\ UNCHANGED <<disk, dirty, countOnDisk, countDirty, doubt>>
  /\ got' = [got EXCEPT ![p] = {}]
  /\ mine' = [mine EXCEPT ![p] = {}]
  /\ UNCHANGED <<flagged, copy, last, frame, count, made, raced, forgotten>>

----------------------------------------------------------------------------
(* External: the pool makes room.                                            *)
Evict(n) ==
  /\ ~Pinned(n)
  /\ frame[n] # disk[n] \/ n \in dirty
  /\ IF n \in dirty
     THEN disk' = [disk EXCEPT ![n] = frame[n]] /\ UNCHANGED frame
     ELSE frame' = [frame EXCEPT ![n] = disk[n]] /\ UNCHANGED disk
  /\ dirty' = dirty \ {n}
  /\ UNCHANGED <<flagged, process, last, system, stuck, history, raced, forgotten>>

EvictCount ==
  /\ \A p \in Proc : ~Counting(p)
  /\ count # countOnDisk
  /\ IF countDirty
     THEN countOnDisk' = count /\ UNCHANGED <<count, forgotten>>
     ELSE count' = countOnDisk /\ forgotten' = TRUE /\ UNCHANGED countOnDisk
  /\ countDirty' = FALSE
  /\ UNCHANGED <<flagged, process, last, pool, stuck, history, raced>>

Step(p) ==
  \/ OpenRead(p)
  \/ RegisterInFile(p)
  \/ \E n \in Page : GetPage(p, n)
  \/ \E n \in Page, c \in Change \ UNION {made[m] : m \in Page} :
       /\ c - 1 \in {0} \cup UNION {made[m] : m \in Page}
       /\ Write(p, n, c)
  \/ \E n \in Page, isChanged \in BOOLEAN : PutPage(p, n, isChanged)
  \/ AppendNewPage(p)
  \/ CloseRead(p)
  \/ UnRegisterInFile(p)
  \/ Close(p)

Next == (\E p \in Proc : Step(p)) \/ (\E n \in Page : Evict(n)) \/ EvictCount

Spec == Init /\ [][Next]_vars

----------------------------------------------------------------------------
(* Type invariant.                                                           *)
TypeOK ==
  /\ flagged \in BOOLEAN /\ raced \in BOOLEAN /\ forgotten \in BOOLEAN
  /\ pc \in [Proc -> {"closed", "registering", "open", "unregistering", "counting"}]
  /\ copy \in [Proc -> Int]
  /\ got \in [Proc -> SUBSET Page]
  /\ last \in 0..MaxPages
  /\ frame \in [Page -> SUBSET Change] /\ disk \in [Page -> SUBSET Change]
  /\ dirty \in SUBSET Page /\ stuck \in SUBSET Page
  /\ count \in Int /\ countOnDisk \in Int /\ countDirty \in BOOLEAN
  /\ made \in [Page -> SUBSET Change]
  /\ mine \in [Proc -> SUBSET Change] /\ doubt \in SUBSET Change

(* The comment before RegisterInFile says that the counter follows the       *)
(* processes that open and close the file.  It does, whatever the order of   *)
(* the processes' steps, as long as no two of them hold their copies of the  *)
(* system page at the same time and the pool has not dropped an unmarked     *)
(* count.                                                                    *)
CountRight ==
  ~raced /\ ~forgotten =>
    count = Cardinality({p \in Proc : pc[p] \in {"open", "unregistering"}})

(* What a process has written to the pages it holds is in their frames,      *)
(* whatever other processes put back, close or append meanwhile and whatever *)
(* the pool drops.                                                           *)
HeldChangesStay ==
  \A p \in Proc : mine[p] \subseteq UNION {frame[n] : n \in got[p]}

(* Where put takes the flag, a change that somebody has put back with        *)
(* isChanged is never lost, also when others put the same page back as       *)
(* unchanged or leave it pinned.                                             *)
ChangedPagesStay ==
  flagged => \A n \in Page : made[n] \ doubt \subseteq frame[n]

(* When the last process closes the file and the count was kept right, its   *)
(* own changes are in the file, and so are all changes of other processes,   *)
(* but for those that nobody put back as changes and those on pages that a   *)
(* process pinned beyond its own close.                                      *)
LastCloseWrites ==
  [][\A p \in Proc :
       ( /\ pc[p] = "counting" /\ pc'[p] = "closed"
         /\ \A q \in Proc \ {p} : pc[q] = "closed"
         /\ flagged /\ ~raced /\ ~forgotten )
       => \A n \in Page \ stuck :
            /\ made[n] \ doubt' \subseteq disk'[n]
            /\ mine[p] \cap doubt' \cap made[n] = {}]_vars
=============================================================================
