------------------------ MODULE SETISemaphoreProofs ------------------------
(***************************************************************************)
(* Proofs about the semaphore of a SETI index, for any set of processes,   *)
(* any number of polls and any bound on the inserts.                       *)
(***************************************************************************)
EXTENDS SETISemaphore, TLAPS

(* The variables of SETISemaphore keep their types: the polls never run    *)
(* below zero, as GetSemaphore stops at a timeout.                         *)
THEOREM TypeCorrect == Spec => []TypeOK
<1>1. Init => TypeOK
  <2> SUFFICES ASSUME Init PROVE TypeOK
    OBVIOUS
  <2> USE DEF Init
  <2>1. file \in [Part -> Nat] OBVIOUS
  <2>2. mem \in [Proc -> [Part -> Nat]] OBVIOUS
  <2>3. op \in [Proc -> Operation \cup {"none"}] /\ pc \in [Proc -> Location]
    BY DEF Location
  <2>4. sem \in BOOLEAN /\ leaked \in BOOLEAN /\ next \in Nat /\ polls \in [Proc -> Nat] OBVIOUS
  <2>5. mixed \in BOOLEAN /\ torn \subseteq Proc /\ met \subseteq Proc OBVIOUS
  <2> QED BY <2>1, <2>2, <2>3, <2>4, <2>5 DEF TypeOK
<1>2. TypeOK /\ [Next]_vars => TypeOK'
  <2> SUFFICES ASSUME TypeOK, [Next]_vars PROVE TypeOK'
    OBVIOUS
  <2> USE PollsAssumption DEF TypeOK, Location, Holding, Reading, Operation, Search, Part, flag, history
  <2>1. ASSUME NEW p \in Proc, InsertHandle(p) PROVE TypeOK'
    BY <2>1 DEF InsertHandle
  <2>2. ASSUME NEW p \in Proc, NEW o \in Operation, Call(p, o) PROVE TypeOK'
    BY <2>2 DEF Call, Goto
  <2>3. ASSUME NEW p \in Proc, Work(p) PROVE TypeOK'
    <3>1. CASE GetSemaphoreFree(p) BY <3>1 DEF GetSemaphoreFree, Goto
    <3>2. CASE GetSemaphoreBusy(p)
      <4>1. polls[p] - 1 \in Nat BY <3>2 DEF GetSemaphoreBusy
      <4> QED BY <3>2, <4>1 DEF GetSemaphoreBusy
    <3>3. CASE GetSemaphoreTimeout(p) \/ EmptyRange(p) \/ WindowOutside(p)
      BY <3>3 DEF GetSemaphoreTimeout, EmptyRange, WindowOutside, Return, Goto
    <3>4. CASE SetSemaphore(p)
      <4>1. UNCHANGED <<mixed, torn, met>> \/ UpdateBegins(p)
        BY <3>4 DEF SetSemaphore
      <4>2. mixed' \in BOOLEAN /\ torn' \subseteq Proc /\ met' \subseteq Proc
        BY <4>1 DEF UpdateBegins, Updating, Writers
      <4> QED BY <3>4, <4>2 DEF SetSemaphore, Goto
    <3>5. CASE WindowInside(p) \/ SearchPages(p)
      BY <3>5 DEF WindowInside, SearchPages, Goto
    <3>6. CASE UpdateHeader(p) BY <3>6 DEF UpdateHeader, Write, Goto
    <3>7. CASE UpdateFLine(p) BY <3>7 DEF UpdateFLine, Write, Goto
    <3>8. CASE UpdateCells(p) BY <3>8 DEF UpdateCells, Write, Goto
    <3>9. CASE ReleaseSemaphore(p) BY <3>9 DEF ReleaseSemaphore, Return, Goto
    <3>10. CASE ReadHeader(p) BY <3>10 DEF ReadHeader, Read, Goto, Writers
    <3>11. CASE ReadFLine(p) BY <3>11 DEF ReadFLine, Read, Goto
    <3>12. CASE ReadCells(p) BY <3>12 DEF ReadCells, Read, Return, Goto
    <3> QED BY <2>3, <3>1, <3>2, <3>3, <3>4, <3>5, <3>6, <3>7, <3>8, <3>9,
                <3>10, <3>11, <3>12 DEF Work
  <2>4. CASE UNCHANGED vars BY <2>4 DEF vars, flag
  <2> QED BY <2>1, <2>2, <2>3, <2>4 DEF Next
<1> QED BY <1>1, <1>2, PTL DEF Spec
-----------------------------------------------------------------------------
(* A process enters the section by SetSemaphore and leaves it by           *)
(* ReleaseSemaphore, which clears the flag, or by WindowOutside, which     *)
(* leaks it.                                                               *)
LEMMA FlagHasOwnerStep ==
  ASSUME TypeOK, FlagHasOwner, [Next]_vars
  PROVE  FlagHasOwner'
<1> SUFFICES ASSUME sem', ~leaked'
             PROVE  \E q \in Proc : pc'[q] \in Holding
  BY DEF FlagHasOwner
<1>1. CASE UNCHANGED vars BY <1>1 DEF vars, flag, FlagHasOwner
<1>2. ASSUME NEW p \in Proc, SetSemaphore(p) PROVE \E q \in Proc : pc'[q] \in Holding
  <2>1. pc'[p] \in {"header", "window"} BY <1>2 DEF SetSemaphore, Goto, TypeOK
  <2> QED BY <2>1 DEF Holding
<1>3. ASSUME NEW p \in Proc, ~SetSemaphore(p), Work(p)
      PROVE  \E q \in Proc : pc'[q] \in Holding
  <2>1. ~ReleaseSemaphore(p) /\ ~WindowOutside(p)
    BY DEF ReleaseSemaphore, WindowOutside, TypeOK
  <2>2. sem /\ ~leaked
    <3>1. UNCHANGED flag
      BY <1>3, <2>1 DEF Work, GetSemaphoreFree, GetSemaphoreBusy,
         GetSemaphoreTimeout, EmptyRange, WindowInside, SearchPages, UpdateHeader,
         UpdateFLine, UpdateCells, ReadHeader, ReadFLine, ReadCells
    <3> QED
      BY <3>1 DEF flag
  <2>3. PICK q \in Proc : pc[q] \in Holding BY <2>2 DEF FlagHasOwner
  <2>4. q # p => pc'[q] = pc[q]
    BY <1>3, <2>1 DEF Work, GetSemaphoreFree, GetSemaphoreBusy, GetSemaphoreTimeout,
        EmptyRange, WindowInside, SearchPages, UpdateHeader, UpdateFLine,
        UpdateCells, ReadHeader, ReadFLine, ReadCells, Return, Goto, TypeOK
  <2>5. pc[p] \in Holding => pc'[p] \in Holding
    BY <1>3, <2>1 DEF Work, GetSemaphoreFree, GetSemaphoreBusy, GetSemaphoreTimeout,
        EmptyRange, WindowInside, SearchPages, UpdateHeader, UpdateFLine,
        UpdateCells, ReadHeader, ReadFLine, ReadCells, Return, Goto, TypeOK, Holding
  <2> QED BY <2>3, <2>4, <2>5
<1>4. ASSUME NEW p \in Proc, InsertHandle(p) \/ \E o \in Operation : Call(p, o)
      PROVE  \E q \in Proc : pc'[q] \in Holding
  <2>1. PICK q \in Proc : pc[q] \in Holding
    BY <1>4 DEF InsertHandle, Call, FlagHasOwner, flag
  <2>2. pc'[q] = pc[q]
    BY <1>4, <2>1 DEF InsertHandle, Call, Goto, TypeOK, Holding
  <2> QED BY <2>1, <2>2
<1> QED BY <1>1, <1>2, <1>3, <1>4 DEF Next

(* For any number of processes racing for the flag: it is up only while    *)
(* some operation will still clear it, or since a search left early.       *)
THEOREM FlagOwned == Spec => []FlagHasOwner
<1>1. Init => FlagHasOwner BY DEF Init, FlagHasOwner
<1>2. TypeOK /\ FlagHasOwner /\ [Next]_vars => FlagHasOwner'
  BY FlagHasOwnerStep
<1> QED BY <1>1, <1>2, TypeCorrect, PTL DEF Spec
-----------------------------------------------------------------------------
(***************************************************************************)
(* What UpdateSETI writes, with any number of updating processes.          *)
(***************************************************************************)
(* The operation a process is in, by its place in it.                      *)
PlaceFits ==
  \A p \in Proc :
    /\ pc[p] \in Writing => op[p] = "UpdateSETI"
    /\ pc[p] \in Reading => op[p] = "ReadSETI"
    /\ pc[p] \in {"window", "search"} => op[p] # "UpdateSETI"

(* A memory is whole but for a process that read the file across an update,*)
(* or that reads it just now.                                              *)
MemoryWhole ==
  \A p \in Proc :
    p \notin torn /\ pc[p] \notin Reading
      => \A x, y \in Part : mem[p][x] = mem[p][y]

(* How far a reader that no update has disturbed has copied the file.      *)
ReadProgress ==
  \A p \in Proc :
    p \notin torn /\ pc[p] \in {"readFLine", "readCells"} =>
      /\ ~mixed /\ Writers = {}
      /\ mem[p]["header"] = file["header"]
      /\ pc[p] = "readCells" => mem[p]["fline"] = file["fline"]

(* How far the only writer of a file that is not mixed has copied its      *)
(* memory, which is whole.                                                 *)
WriteProgress ==
  ~mixed =>
    /\ \A p, q \in Writers : p = q
    /\ \A p \in Writers :
         /\ p \notin torn
         /\ pc[p] \in {"fline", "cells"} => file["header"] = mem[p]["header"]
         /\ pc[p] = "cells" => file["fline"] = mem[p]["fline"]

(* The same for an update that met no other one, whatever it copies, up to *)
(* its end.                                                                *)
PublishProgress ==
  \A p \in Updating :
    p \notin met =>
      /\ \A q \in Writers : q = p
      /\ pc[p] \in {"fline", "cells"} => file["header"] = mem[p]["header"]
      /\ pc[p] = "cells" => file["fline"] = mem[p]["fline"]
      /\ pc[p] = "release" => file = mem[p]

UpdateInv ==
  /\ PlaceFits /\ MemoryWhole /\ ReadProgress /\ WriteProgress
  /\ PublishProgress /\ FileConsistent

LEMMA PlaceFitsStep ==
  ASSUME TypeOK, PlaceFits, [Next]_vars
  PROVE  PlaceFits'
<1> USE DEF PlaceFits, TypeOK, Writing, Reading, Goto, Return
<1>1. CASE UNCHANGED vars BY <1>1 DEF vars
<1>2. ASSUME NEW p \in Proc, InsertHandle(p) PROVE PlaceFits'
  BY <1>2 DEF InsertHandle
<1>3. ASSUME NEW p \in Proc, NEW o \in Operation, Call(p, o) PROVE PlaceFits'
  BY <1>3 DEF Call
<1>4. ASSUME NEW p \in Proc, Work(p) PROVE PlaceFits'
  BY <1>4 DEF Work, GetSemaphoreFree, GetSemaphoreBusy, GetSemaphoreTimeout,
      EmptyRange, SetSemaphore, WindowOutside, WindowInside, SearchPages,
      UpdateHeader, UpdateFLine, UpdateCells, ReleaseSemaphore, ReadHeader,
      ReadFLine, ReadCells
<1> QED BY <1>1, <1>2, <1>3, <1>4 DEF Next

(* The steps that copy nothing and begin no update.                        *)
Quiet(p) ==
  \/ \E o \in Operation : Call(p, o)
  \/ GetSemaphoreFree(p) \/ GetSemaphoreBusy(p) \/ GetSemaphoreTimeout(p)
  \/ EmptyRange(p) \/ (SetSemaphore(p) /\ op[p] # "UpdateSETI")
  \/ WindowOutside(p) \/ WindowInside(p) \/ SearchPages(p)
  \/ ReleaseSemaphore(p)

(* Such a step moves a process between places where nothing is copied.     *)
LEMMA QuietMoves ==
  ASSUME TypeOK, PlaceFits, NEW p \in Proc, Quiet(p)
  PROVE  /\ UNCHANGED <<file, mem, mixed, torn>>
         /\ \A q \in Proc : pc'[q] # "idle" => (q \in met' <=> q \in met)
         /\ \A q \in Proc \ {p} : pc'[q] = pc[q] /\ op'[q] = op[q]
         /\ pc'[p] = pc[p] \/ pc[p] \notin Writing \cup Reading
         /\ pc'[p] \notin Writing \cup {"readFLine", "readCells"} \/ pc'[p] = pc[p]
         /\ pc'[p] = "release" => op'[p] # "UpdateSETI"
<1> USE DEF TypeOK, PlaceFits, Writing, Reading, Goto, Return, history
<1>1. ASSUME NEW o \in Operation, Call(p, o)
      PROVE  /\ UNCHANGED <<file, mem, mixed, torn>>
             /\ \A q \in Proc : pc'[q] # "idle" => (q \in met' <=> q \in met)
             /\ \A q \in Proc \ {p} : pc'[q] = pc[q] /\ op'[q] = op[q]
             /\ pc'[p] = pc[p] \/ pc[p] \notin Writing \cup Reading
             /\ pc'[p] \notin Writing \cup {"readFLine", "readCells"} \/ pc'[p] = pc[p]
             /\ pc'[p] = "release" => op'[p] # "UpdateSETI"
  BY <1>1 DEF Call
<1>2. CASE GetSemaphoreFree(p) \/ GetSemaphoreBusy(p) \/ GetSemaphoreTimeout(p)
  BY <1>2 DEF GetSemaphoreFree, GetSemaphoreBusy, GetSemaphoreTimeout
<1>3. CASE EmptyRange(p) \/ (SetSemaphore(p) /\ op[p] # "UpdateSETI")
  BY <1>3 DEF EmptyRange, SetSemaphore
<1>4. CASE WindowOutside(p) \/ WindowInside(p) \/ SearchPages(p)
  BY <1>4 DEF WindowOutside, WindowInside, SearchPages
<1>5. CASE ReleaseSemaphore(p) BY <1>5 DEF ReleaseSemaphore
<1> QED BY <1>1, <1>2, <1>3, <1>4, <1>5 DEF Quiet

LEMMA QuietKeeps ==
  ASSUME TypeOK, UpdateInv, PlaceFits', NEW p \in Proc, Quiet(p)
  PROVE  UpdateInv'
<1>1. /\ file' = file /\ mem' = mem
      /\ mixed' = mixed /\ torn' = torn
      /\ \A q \in Proc : pc'[q] # "idle" => (q \in met' <=> q \in met)
      /\ \A q \in Proc \ {p} : pc'[q] = pc[q] /\ op'[q] = op[q]
      /\ pc'[p] = pc[p] \/ pc[p] \notin Writing \cup Reading
      /\ pc'[p] \notin Writing \cup {"readFLine", "readCells"} \/ pc'[p] = pc[p]
      /\ pc'[p] = "release" => op'[p] # "UpdateSETI"
  BY QuietMoves DEF UpdateInv
<1>2. Writers' = Writers
  BY <1>1 DEF Writers
<1>3. /\ Updating' \subseteq Updating
      /\ \A q \in Updating' : pc'[q] = pc[q] /\ (q \in met' <=> q \in met)
  BY <1>1, PlaceFits' DEF Updating, Writing, UpdateInv, PlaceFits
<1>4. MemoryWhole'
  BY <1>1 DEF UpdateInv, MemoryWhole
<1>5. ReadProgress'
  BY <1>1, <1>2 DEF UpdateInv, ReadProgress
<1>6. WriteProgress'
  BY <1>1, <1>2 DEF UpdateInv, WriteProgress, Writers
<1>7. PublishProgress'
  BY <1>1, <1>2, <1>3 DEF UpdateInv, PublishProgress
<1>8. FileConsistent'
  BY <1>1, <1>2 DEF UpdateInv, FileConsistent
<1> QED BY <1>4, <1>5, <1>6, <1>7, <1>8 DEF UpdateInv

(* An insert makes the memory of an idle process whole and copies nothing. *)
LEMMA InsertKeeps ==
  ASSUME TypeOK, UpdateInv, PlaceFits', NEW p \in Proc, InsertHandle(p)
  PROVE  UpdateInv'
<1>1. /\ file' = file /\ pc' = pc /\ op' = op
      /\ mixed' = mixed /\ torn' = torn /\ met' = met
      /\ \A q \in Proc \ {p} : mem'[q] = mem[q]
      /\ \A x, y \in Part : mem'[p][x] = mem'[p][y]
      /\ pc[p] = "idle"
  BY DEF InsertHandle, history, TypeOK
<1>2. Writers' = Writers /\ Updating' = Updating
  BY <1>1 DEF Writers, Updating
<1>3. p \notin Writers /\ p \notin Updating
  BY <1>1 DEF Writers, Updating, Writing
<1>4. MemoryWhole'
  BY <1>1 DEF UpdateInv, MemoryWhole
<1>5. ReadProgress'
  BY <1>1, <1>2 DEF UpdateInv, ReadProgress
<1>6. WriteProgress'
  BY <1>1, <1>2, <1>3 DEF UpdateInv, WriteProgress, Writers
<1>7. PublishProgress'
  BY <1>1, <1>2, <1>3 DEF UpdateInv, PublishProgress, Updating
<1>8. FileConsistent'
  BY <1>1, <1>2 DEF UpdateInv, FileConsistent
<1> QED BY <1>4, <1>5, <1>6, <1>7, <1>8 DEF UpdateInv

(* The process that begins an update is the only writer, or the file is    *)
(* mixed from now on.                                                      *)
LEMMA BeginKeeps ==
  ASSUME TypeOK, UpdateInv, PlaceFits', NEW p \in Proc,
         SetSemaphore(p), op[p] = "UpdateSETI"
  PROVE  UpdateInv'
<1>1. /\ file' = file /\ mem' = mem /\ op' = op
      /\ \A q \in Proc \ {p} : pc'[q] = pc[q]
      /\ pc[p] = "set" /\ pc'[p] = "header"
      /\ UpdateBegins(p)
  BY DEF SetSemaphore, Goto, TypeOK
<1>2. Writers' = Writers \cup {p} /\ p \notin Writers
  BY <1>1 DEF Writers, Writing
<1>3. Updating' = Updating \cup {p} /\ p \notin Updating
  BY <1>1 DEF Updating, Writing
<1>4. /\ torn \subseteq torn' /\ (p \in torn' => p \in torn)
      /\ \A q \in Proc : pc'[q] \in {"readFLine", "readCells"} => q \in torn'
  BY <1>1 DEF UpdateBegins
<1>5. MemoryWhole'
  BY <1>1, <1>4 DEF UpdateInv, MemoryWhole, Reading
<1>6. ReadProgress'
  BY <1>4 DEF ReadProgress
<1>7. WriteProgress'
  <2>1. mixed' \/ (Writers' = {p} /\ p \notin torn')
    BY <1>1, <1>2, <1>4 DEF UpdateBegins
  <2> QED BY <2>1, <1>1 DEF WriteProgress
<1>8. PublishProgress'
  <2>1. \A q \in Updating' : q \notin met' => q = p /\ Writers' = {p}
    BY <1>1, <1>2, <1>3 DEF UpdateBegins
  <2> QED BY <2>1, <1>1 DEF PublishProgress
<1>9. FileConsistent' BY <1>2 DEF FileConsistent
<1> QED BY <1>5, <1>6, <1>7, <1>8, <1>9 DEF UpdateInv

(* A write of one part by a process that goes on to the next.              *)
LEMMA WriteKeeps ==
  ASSUME TypeOK, UpdateInv, PlaceFits', NEW p \in Proc,
         UpdateHeader(p) \/ UpdateFLine(p)
  PROVE  UpdateInv'
<1>1. /\ mem' = mem /\ op' = op
      /\ mixed' = mixed /\ torn' = torn /\ met' = met
      /\ \A q \in Proc \ {p} : pc'[q] = pc[q]
      /\ pc[p] \in Writing /\ pc'[p] \in {"fline", "cells"}
  BY DEF UpdateHeader, UpdateFLine, Goto, Writing, history, TypeOK
<1>2. \/ /\ pc'[p] = "fline"
         /\ file'["header"] = mem[p]["header"]
      \/ /\ pc'[p] = "cells" /\ pc[p] = "fline"
         /\ file'["header"] = file["header"] /\ file'["fline"] = mem[p]["fline"]
  BY DEF UpdateHeader, UpdateFLine, Write, Goto, Part, TypeOK
<1>3. Writers' = Writers /\ Updating' = Updating /\ p \in Writers /\ p \in Updating
  BY <1>1 DEF Writers, Updating, Writing, UpdateInv, PlaceFits
<1>4. MemoryWhole'
  BY <1>1 DEF UpdateInv, MemoryWhole, Writing, Reading
<1>5. ReadProgress'
  BY <1>1, <1>3 DEF UpdateInv, ReadProgress
<1>6. WriteProgress'
  <2> SUFFICES ASSUME ~mixed PROVE WriteProgress'
    BY <1>1 DEF WriteProgress
  <2>1. \A q \in Writers : q = p
    BY <1>3 DEF UpdateInv, WriteProgress
  <2>2. p \notin torn /\ (pc[p] = "fline" => file["header"] = mem[p]["header"])
    BY <1>3 DEF UpdateInv, WriteProgress
  <2> QED BY <1>1, <1>2, <1>3, <2>1, <2>2 DEF WriteProgress
<1>7. PublishProgress'
  <2> SUFFICES ASSUME NEW q \in Updating, q \notin met
               PROVE  /\ \A r \in Writers : r = q
                      /\ pc'[q] \in {"fline", "cells"} => file'["header"] = mem[q]["header"]
                      /\ pc'[q] = "cells" => file'["fline"] = mem[q]["fline"]
                      /\ pc'[q] = "release" => file' = mem[q]
    BY <1>1, <1>3 DEF PublishProgress
  <2>1. \A r \in Writers : r = q BY DEF UpdateInv, PublishProgress
  <2>2. q = p BY <1>3, <2>1
  <2>3. pc[p] = "fline" => file["header"] = mem[p]["header"]
    BY <2>2 DEF UpdateInv, PublishProgress
  <2> QED BY <1>1, <1>2, <2>1, <2>2, <2>3
<1>8. FileConsistent' BY <1>3 DEF FileConsistent
<1> QED BY <1>4, <1>5, <1>6, <1>7, <1>8 DEF UpdateInv

(* The last write of an update.                                            *)
LEMMA CellsKeep ==
  ASSUME TypeOK, UpdateInv, PlaceFits', NEW p \in Proc, UpdateCells(p)
  PROVE  UpdateInv'
<1>1. /\ mem' = mem /\ op' = op
      /\ mixed' = mixed /\ torn' = torn /\ met' = met
      /\ \A q \in Proc \ {p} : pc'[q] = pc[q]
      /\ pc[p] = "cells" /\ pc'[p] = "release"
      /\ file' = [file EXCEPT !["cells"] = mem[p]["cells"]]
  BY DEF UpdateCells, Write, Goto, history, TypeOK
<1>2. /\ Writers' = Writers \ {p} /\ Updating' = Updating
      /\ p \in Writers /\ p \in Updating
  BY <1>1 DEF Writers, Updating, Writing, UpdateInv, PlaceFits
<1>3. MemoryWhole'
  BY <1>1 DEF UpdateInv, MemoryWhole, Reading
<1>4. ReadProgress'
  BY <1>1, <1>2 DEF UpdateInv, ReadProgress
<1>5. /\ mem[p] \in [Part -> Nat] /\ file \in [Part -> Nat]
      /\ file' = [file EXCEPT !["cells"] = mem[p]["cells"]]
      /\ file["header"] = mem[p]["header"] /\ file["fline"] = mem[p]["fline"]
      => file' = mem[p]
  <2> SUFFICES ASSUME mem[p] \in [Part -> Nat], file \in [Part -> Nat],
                      file' = [file EXCEPT !["cells"] = mem[p]["cells"]],
                      file["header"] = mem[p]["header"], file["fline"] = mem[p]["fline"]
               PROVE  file' = mem[p]
    OBVIOUS
  <2>1. \A x \in Part : file'[x] = mem[p][x] BY DEF Part
  <2> QED BY <2>1
<1>6. mem[p] \in [Part -> Nat] /\ file \in [Part -> Nat] BY DEF TypeOK
<1>7. WriteProgress'
  BY <1>1, <1>2 DEF UpdateInv, WriteProgress
<1>8. PublishProgress'
  <2> SUFFICES ASSUME NEW q \in Updating, q \notin met
               PROVE  /\ \A r \in Writers' : r = q
                      /\ pc'[q] \in {"fline", "cells"} => file'["header"] = mem[q]["header"]
                      /\ pc'[q] = "cells" => file'["fline"] = mem[q]["fline"]
                      /\ pc'[q] = "release" => file' = mem[q]
    BY <1>1, <1>2 DEF PublishProgress
  <2>1. q = p BY <1>2 DEF UpdateInv, PublishProgress
  <2>2. file["header"] = mem[p]["header"] /\ file["fline"] = mem[p]["fline"]
    BY <1>1, <2>1 DEF UpdateInv, PublishProgress
  <2>3. \A r \in Writers' : r = q BY <1>2 DEF UpdateInv, PublishProgress
  <2> QED BY <1>1, <1>5, <1>6, <2>1, <2>2, <2>3
<1>9. FileConsistent'
  <2> SUFFICES ASSUME ~mixed PROVE \A x, y \in Part : file'[x] = file'[y]
    BY <1>1 DEF FileConsistent
  <2>1. /\ p \notin torn
        /\ file["header"] = mem[p]["header"] /\ file["fline"] = mem[p]["fline"]
    BY <1>1, <1>2 DEF UpdateInv, WriteProgress
  <2>2. \A x, y \in Part : mem[p][x] = mem[p][y]
    BY <1>1, <2>1 DEF UpdateInv, MemoryWhole, Reading
  <2> QED BY <1>1, <1>5, <1>6, <2>1, <2>2
<1> QED BY <1>3, <1>4, <1>7, <1>8, <1>9 DEF UpdateInv

(* A reader that no update disturbs copies a whole file.                   *)
LEMMA ReadKeeps ==
  ASSUME TypeOK, UpdateInv, PlaceFits', NEW p \in Proc,
         ReadHeader(p) \/ ReadFLine(p) \/ ReadCells(p)
  PROVE  UpdateInv'
<1>1. /\ file' = file /\ mixed' = mixed /\ met' = met
      /\ \A q \in Proc \ {p} :
           mem'[q] = mem[q] /\ pc'[q] = pc[q] /\ op'[q] = op[q]
      /\ \A q \in Proc \ {p} : q \in torn' <=> q \in torn
      /\ pc[p] \in Reading /\ pc'[p] \in {"readFLine", "readCells", "idle"}
  BY DEF ReadHeader, ReadFLine, ReadCells, Read, Goto, Return, Reading, history,
         TypeOK
<1>2. /\ Writers' = Writers /\ p \notin Writers
      /\ Updating' = Updating /\ p \notin Updating
  BY <1>1 DEF Writers, Updating, Writing, Reading, UpdateInv, PlaceFits
<1>3. p \notin torn' /\ pc'[p] # "idle" =>
        /\ ~mixed /\ Writers = {}
        /\ mem'[p]["header"] = file["header"]
        /\ pc'[p] = "readCells" => mem'[p]["fline"] = file["fline"]
  <2>1. CASE ReadHeader(p)
    BY <2>1 DEF ReadHeader, Read, Goto, TypeOK, Part
  <2>2. CASE ReadFLine(p)
    BY <2>2 DEF ReadFLine, Read, Goto, TypeOK, Part, history, UpdateInv, ReadProgress
  <2>3. CASE ReadCells(p)
    BY <2>3 DEF ReadCells, Return, Goto, TypeOK
  <2> QED BY <2>1, <2>2, <2>3
<1>4. p \notin torn' /\ pc'[p] = "idle" => \A x, y \in Part : mem'[p][x] = mem'[p][y]
  <2> SUFFICES ASSUME p \notin torn', ReadCells(p)
               PROVE  \A x, y \in Part : mem'[p][x] = mem'[p][y]
    BY DEF ReadHeader, ReadFLine, Goto, TypeOK
  <2>1. /\ ~mixed /\ Writers = {}
        /\ mem[p]["header"] = file["header"] /\ mem[p]["fline"] = file["fline"]
    BY DEF ReadCells, history, UpdateInv, ReadProgress
  <2>2. \A x, y \in Part : file[x] = file[y]
    BY <2>1 DEF UpdateInv, FileConsistent
  <2>3. \A x \in Part : mem'[p][x] = file[x]
    BY <2>1 DEF ReadCells, Read, TypeOK, Part
  <2> QED BY <2>2, <2>3
<1>5. MemoryWhole'
  BY <1>1, <1>4 DEF UpdateInv, MemoryWhole, Reading
<1>6. ReadProgress'
  BY <1>1, <1>2, <1>3 DEF UpdateInv, ReadProgress
<1>7. WriteProgress'
  BY <1>1, <1>2 DEF UpdateInv, WriteProgress, Writers
<1>8. PublishProgress'
  BY <1>1, <1>2 DEF UpdateInv, PublishProgress, Updating
<1>9. FileConsistent' BY <1>1, <1>2 DEF UpdateInv, FileConsistent
<1> QED BY <1>5, <1>6, <1>7, <1>8, <1>9 DEF UpdateInv

LEMMA UpdateInvStep ==
  ASSUME TypeOK, UpdateInv, [Next]_vars
  PROVE  UpdateInv'
<1>1. PlaceFits' BY PlaceFitsStep DEF UpdateInv
<1>2. CASE UNCHANGED vars
  BY <1>2 DEF vars, history, UpdateInv, PlaceFits, MemoryWhole, ReadProgress,
     WriteProgress, PublishProgress, FileConsistent, Writers, Updating
<1>3. ASSUME NEW p \in Proc,
             InsertHandle(p) \/ Work(p) \/ \E o \in Operation : Call(p, o)
      PROVE  UpdateInv'
  <2>1. CASE Quiet(p) BY <1>1, <2>1, QuietKeeps
  <2>2. CASE InsertHandle(p) BY <1>1, <2>2, InsertKeeps
  <2>3. CASE SetSemaphore(p) /\ op[p] = "UpdateSETI" BY <1>1, <2>3, BeginKeeps
  <2>4. CASE UpdateHeader(p) \/ UpdateFLine(p) BY <1>1, <2>4, WriteKeeps
  <2>5. CASE UpdateCells(p) BY <1>1, <2>5, CellsKeep
  <2>6. CASE ReadHeader(p) \/ ReadFLine(p) \/ ReadCells(p)
    BY <1>1, <2>6, ReadKeeps
  <2> QED BY <1>3, <2>1, <2>2, <2>3, <2>4, <2>5, <2>6 DEF Work, Quiet
<1> QED BY <1>2, <1>3 DEF Next

THEOREM UpdateInvariant == Spec => []UpdateInv
<1>1. Init => UpdateInv
  <2> SUFFICES ASSUME Init PROVE UpdateInv
    OBVIOUS
  <2>1. \A p \in Proc : pc[p] = "idle" /\ op[p] = "none" BY DEF Init
  <2>2. Writers = {} /\ Updating = {} BY <2>1 DEF Writers, Updating, Writing
  <2>3. PlaceFits BY <2>1 DEF PlaceFits, Writing, Reading
  <2>4. MemoryWhole /\ FileConsistent
    BY DEF Init, MemoryWhole, FileConsistent
  <2>5. ReadProgress BY <2>1 DEF ReadProgress
  <2>6. WriteProgress /\ PublishProgress
    BY <2>2 DEF WriteProgress, PublishProgress
  <2> QED BY <2>3, <2>4, <2>5, <2>6 DEF UpdateInv
<1>2. TypeOK /\ UpdateInv /\ [Next]_vars => UpdateInv'
  BY UpdateInvStep
<1> QED BY <1>1, <1>2, TypeCorrect, PTL DEF Spec

(* Any number of processes race for the flag, update, search and open the  *)
(* file: whenever no update is under way its parts agree, unless updates   *)
(* overlapped or an update wrote a memory read across another one.         *)
THEOREM FileStaysConsistent == Spec => []FileConsistent
<1>1. UpdateInv => FileConsistent BY DEF UpdateInv
<1> QED BY <1>1, UpdateInvariant, PTL

(* The step by which an update returns leaves the file alone.              *)
LEMMA ReturnStep ==
  ASSUME TypeOK, [Next]_vars, NEW p \in Proc, pc[p] = "release", pc'[p] = "idle"
  PROVE  UNCHANGED file
<1>1. PICK q \in Proc : InsertHandle(q) \/ Work(q) \/ \E o \in Operation : Call(q, o)
  BY DEF Next, vars
<1>2. CASE InsertHandle(q) \/ \E o \in Operation : Call(q, o)
  BY <1>2 DEF InsertHandle, Call
<1>3. CASE Work(q)
  <2>1. p = q
    BY <1>3 DEF Work, TypeOK, Goto, Return, GetSemaphoreFree,
       GetSemaphoreBusy, GetSemaphoreTimeout, EmptyRange, SetSemaphore,
       WindowOutside, WindowInside, SearchPages, UpdateHeader, UpdateFLine,
       UpdateCells, ReleaseSemaphore, ReadHeader, ReadFLine, ReadCells
  <2> QED
    BY <1>3, <2>1 DEF Work, GetSemaphoreFree, GetSemaphoreBusy,
       GetSemaphoreTimeout, EmptyRange, SetSemaphore, WindowOutside,
       WindowInside, SearchPages, UpdateHeader, UpdateFLine, UpdateCells,
       ReleaseSemaphore, ReadHeader, ReadFLine, ReadCells
<1> QED BY <1>1, <1>2, <1>3

(* With any number of updating processes, an UpdateSETI that returns true  *)
(* and met no other update has left its index, and nothing else, in the    *)
(* file.                                                                   *)
THEOREM UpdateIsPublished == Spec => UpdatePublishes
<1>1. ASSUME TypeOK, UpdateInv, [Next]_vars
      PROVE  [\A p \in Proc :
                pc[p] = "release" /\ pc'[p] = "idle" /\ op[p] = "UpdateSETI"
                  => file' = mem[p] \/ p \in met]_vars
  <2> SUFFICES ASSUME NEW p \in Proc, pc[p] = "release", pc'[p] = "idle",
                      op[p] = "UpdateSETI", p \notin met
               PROVE  file' = mem[p]
    OBVIOUS
  <2>1. p \in Updating BY DEF Updating
  <2>2. file = mem[p] BY <1>1, <2>1 DEF UpdateInv, PublishProgress
  <2> QED BY <1>1, <2>2, ReturnStep
<1> QED BY <1>1, UpdateInvariant, TypeCorrect, PTL DEF Spec, UpdatePublishes
-----------------------------------------------------------------------------
(* One process that updates: what the finding AllWritten needs to fail is a*)
(* second one.                                                             *)
SingleUpdater == \A p, q \in Updaters : p = q

(* Only a process that inserts updates, and alone it meets no other update.*)
NeverMet ==
  /\ \A p \in Proc : op[p] = "UpdateSETI" => p \in Updaters
  /\ met = {}

LEMMA NeverMetStep ==
  ASSUME SingleUpdater, TypeOK, PlaceFits, NeverMet, [Next]_vars
  PROVE  NeverMet'
<1> USE DEF NeverMet, TypeOK, Return, history
<1>1. CASE UNCHANGED vars BY <1>1 DEF vars
<1>2. ASSUME NEW p \in Proc, InsertHandle(p) PROVE NeverMet'
  BY <1>2 DEF InsertHandle
<1>3. ASSUME NEW p \in Proc, NEW o \in Operation, Call(p, o) PROVE NeverMet'
  BY <1>3 DEF Call
<1>4. ASSUME NEW p \in Proc, SetSemaphore(p) PROVE NeverMet'
  <2>1. CASE op[p] = "UpdateSETI"
    <3>1. pc[p] = "set" /\ UpdateBegins(p) /\ op' = op
      BY <1>4, <2>1 DEF SetSemaphore
    <3>2. \A q \in Updating : q = p
      BY <2>1 DEF Updating, SingleUpdater
    <3>3. p \notin Updating BY <3>1 DEF Updating, Writing
    <3>4. Updating = {} BY <3>2, <3>3
    <3>5. Writers \subseteq Updating
      BY DEF Writers, Updating, PlaceFits
    <3> QED BY <3>1, <3>4, <3>5 DEF UpdateBegins
  <2>2. CASE op[p] # "UpdateSETI" BY <1>4, <2>2 DEF SetSemaphore
  <2> QED BY <2>1, <2>2
<1>5. ASSUME NEW p \in Proc, Work(p), ~SetSemaphore(p) PROVE NeverMet'
  BY <1>5 DEF Work, GetSemaphoreFree, GetSemaphoreBusy, GetSemaphoreTimeout,
      EmptyRange, WindowOutside, WindowInside, SearchPages,
      UpdateHeader, UpdateFLine, UpdateCells, ReleaseSemaphore, ReadHeader,
      ReadFLine, ReadCells
<1> QED BY <1>1, <1>2, <1>3, <1>4, <1>5 DEF Next

(* If a single process of those that share the file updates it, however    *)
(* many search and open it, an update about to return true finds all of its*)
(* index in the file.  GetSemaphore does not see to that: the assumption   *)
(* is on who calls it.                                                     *)
THEOREM SingleUpdaterWritesAll ==
  ASSUME SingleUpdater PROVE Spec => []AllWritten
<1>1. Init => NeverMet BY DEF Init, NeverMet
<1>2. TypeOK /\ UpdateInv /\ NeverMet /\ [Next]_vars => NeverMet'
  BY NeverMetStep DEF UpdateInv
<1>3. UpdateInv /\ NeverMet => AllWritten
  <2> SUFFICES ASSUME UpdateInv, NeverMet, NEW p \in Proc,
                      op[p] = "UpdateSETI", pc[p] = "release"
               PROVE  file = mem[p]
    BY DEF AllWritten
  <2>1. p \in Updating /\ p \notin met BY DEF Updating, NeverMet
  <2> QED BY <2>1 DEF UpdateInv, PublishProgress
<1> QED BY <1>1, <1>2, <1>3, UpdateInvariant, TypeCorrect, PTL DEF Spec
=============================================================================
