--------------------------- MODULE SETISemaphore ---------------------------
(***************************************************************************)
(* The semaphore of a SETI index (src/SETI/SETIAlgebra.cpp).               *)
(*                                                                         *)
(* The index lives in the pages of one SmiUpdateFile, which every process  *)
(* that opened the object shares.  A boolean behind the header on the      *)
(* header page tells whether the file is in use.  GetSemaphore polls it a  *)
(* bounded number of times, SetSemaphore writes it: reading the flag and   *)
(* setting it are two separate accesses of the page.  UpdateSETI and the   *)
(* three searches run under the flag; ReadSETI, by which a process opens   *)
(* the object, does not look at it.                                        *)
(*                                                                         *)
(* One step of the model is one access of the shared pages.  What is       *)
(* written is abstracted to a version: the state of the index in the       *)
(* memory of the process at the moment of the call.                        *)
(***************************************************************************)
EXTENDS Naturals

CONSTANTS
  Proc,         \* the processes that opened the SETI object
  Updaters,     \* those that insert uploads
  Polls,        \* further reads of a set flag before giving up
                \* (timeout in GetSemaphore, 100001 in the code)
  MaxVersion    \* bound on the number of inserts of all processes

ASSUME PollsAssumption == Polls \in Nat

ASSUME UpdatersAssumption == Updaters \subseteq Proc

Part == {"header", "fline", "cells"}

Search == {"FindTrjSegments", "FindTrjPages", "FindCells"}

Operation == Search \cup {"UpdateSETI", "ReadSETI"}

VARIABLES
  sem,     \* the flag on the header page
  leaked,  \* history: the flag was last left up by a search that returned
  mixed,   \* history: the file was last written by updates that overlap, or
           \* from a memory that is torn
  torn,    \* history: the processes that read the file across an update, or
           \* while it was mixed
  met,     \* history: the processes in an update that met another one
  file,    \* file[part]: version of the header, front line and cell pages
  mem,     \* mem[p][part]: version of that part in the memory of p
  next,    \* number of the next version
  op,      \* op[p]: the operation p executes
  pc,      \* pc[p]: the next access of p to the shared pages
  polls    \* polls[p]: reads of the flag p has left

flag == <<sem, leaked>>
history == <<mixed, torn, met>>
vars == <<flag, history, file, mem, next, op, pc, polls>>

(* Between its SetSemaphore(true) and its SetSemaphore(false).             *)
Holding == {"window", "header", "fline", "cells", "search", "release"}

Writing == {"header", "fline", "cells"}

Reading == {"readHeader", "readFLine", "readCells"}

Location == Holding \cup Reading \cup {"idle", "poll", "set"}

Init ==
  /\ sem = FALSE /\ leaked = FALSE
  /\ mixed = FALSE /\ torn = {} /\ met = {}
  /\ file = [x \in Part |-> 0]
  /\ mem = [p \in Proc |-> [x \in Part |-> 0]]
  /\ next = 1
  /\ op = [p \in Proc |-> "none"]
  /\ pc = [p \in Proc |-> "idle"]
  /\ polls = [p \in Proc |-> 0]

(* The processes that write the file, and those that have not returned yet.*)
Writers == {q \in Proc : pc[q] \in Writing}

Updating ==
  {q \in Proc : op[q] = "UpdateSETI" /\ pc[q] \in Writing \cup {"release"}}

Goto(p, l) == pc' = [pc EXCEPT ![p] = l]

(* The locals of a call end with it.                                       *)
Return(p) == Goto(p, "idle") /\ op' = [op EXCEPT ![p] = "none"]

(***************************************************************************)
(* Seeded faults: each stands in for the action it is named after when a   *)
(* property is tested against a mutated specification.                     *)
(***************************************************************************)
BusyWithoutLimit(p) ==
  /\ pc[p] = "poll" /\ sem
  /\ polls' = [polls EXCEPT ![p] = polls[p] - 1]
  /\ UNCHANGED <<flag, history, file, mem, next, op, pc>>

BusyWithoutCountdown(p) ==
  /\ pc[p] = "poll" /\ sem /\ polls[p] > 0
  /\ UNCHANGED vars

EmptyRangeAfterLock(p) ==
  /\ pc[p] = "window" /\ op[p] = "FindTrjPages"
  /\ Return(p)
  /\ UNCHANGED <<flag, history, file, mem, next, polls>>

FLineLast(p) ==
  /\ pc[p] = "fline"
  /\ file' = [file EXCEPT !["fline"] = mem[p]["fline"]]
  /\ Goto(p, "release")
  /\ UNCHANGED <<flag, history, mem, next, op, polls>>

HeaderSkipped(p) ==
  /\ pc[p] = "header"
  /\ Goto(p, "fline")
  /\ UNCHANGED <<flag, history, file, mem, next, op, polls>>

SearchUnreleased(p) ==
  /\ pc[p] = "search"
  /\ Return(p)
  /\ UNCHANGED <<flag, history, file, mem, next, polls>>

(***************************************************************************)
(* The operations                                                          *)
(***************************************************************************)
(* Inserts change the index of the process in memory only.                 *)
InsertHandle(p) ==
  /\ p \in Updaters /\ pc[p] = "idle" /\ next <= MaxVersion
  /\ mem' = [mem EXCEPT ![p] = [x \in Part |-> next]]
  /\ next' = next + 1
  /\ UNCHANGED <<flag, history, file, op, pc, polls>>

Call(p, o) ==
  /\ pc[p] = "idle"
  /\ o = "UpdateSETI" => p \in Updaters
  /\ op' = [op EXCEPT ![p] = o]
  /\ polls' = [polls EXCEPT ![p] = Polls]
  /\ Goto(p, IF o = "ReadSETI" THEN "readHeader" ELSE "poll")
  /\ UNCHANGED <<flag, history, file, mem, next>>

(* A read of the flag that finds the file released ends the wait.          *)
GetSemaphoreFree(p) ==
  /\ pc[p] = "poll" /\ ~sem
  /\ Goto(p, "set")
  /\ polls' = [polls EXCEPT ![p] = 0]
  /\ UNCHANGED <<flag, history, file, mem, next, op>>

GetSemaphoreBusy(p) ==
  /\ pc[p] = "poll" /\ sem /\ polls[p] > 0
  /\ polls' = [polls EXCEPT ![p] = polls[p] - 1]
  /\ UNCHANGED <<flag, history, file, mem, next, op, pc>>

(* The last read still found it set: UpdateSETI returns false, a search    *)
(* returns no hits.                                                        *)
GetSemaphoreTimeout(p) ==
  /\ pc[p] = "poll" /\ sem /\ polls[p] = 0
  /\ Return(p)
  /\ UNCHANGED <<flag, history, file, mem, next, polls>>

(* FindTrjPages compares the distances before it takes the semaphore.      *)
EmptyRange(p) ==
  /\ pc[p] = "set" /\ op[p] = "FindTrjPages"
  /\ Return(p)
  /\ UNCHANGED <<flag, history, file, mem, next, polls>>

(* The history of the file when the update of p begins: it overlaps with   *)
(* those of the writers, and with the readers that are in between.         *)
UpdateBegins(p) ==
  /\ mixed' = (Writers # {} \/ p \in torn)
  /\ torn' = torn \cup {q \in Proc : pc[q] \in {"readFLine", "readCells"}}
  /\ met' = met \cup Updating \cup IF Writers = {} THEN {} ELSE {p}

(* Two processes that both found the flag down are both here.              *)
SetSemaphore(p) ==
  /\ pc[p] = "set"
  /\ sem' = TRUE /\ leaked' = FALSE
  /\ IF op[p] = "UpdateSETI"
     THEN Goto(p, "header") /\ UpdateBegins(p)
     ELSE Goto(p, "window") /\ UNCHANGED history
  /\ UNCHANGED <<file, mem, next, op, polls>>

(* The window does not intersect the area of the index: the search returns *)
(* at once, and the flag stays as SetSemaphore left it.                    *)
WindowOutside(p) ==
  /\ pc[p] = "window"
  /\ Return(p)
  /\ leaked' = sem
  /\ UNCHANGED <<sem, history, file, mem, next, polls>>

WindowInside(p) ==
  /\ pc[p] = "window"
  /\ Goto(p, "search")
  /\ UNCHANGED <<flag, history, file, mem, next, op, polls>>

SearchPages(p) ==
  /\ pc[p] = "search"
  /\ Goto(p, "release")
  /\ UNCHANGED <<flag, history, file, mem, next, op, polls>>

Write(p, part) == file' = [file EXCEPT ![part] = mem[p][part]]

UpdateHeader(p) ==
  /\ pc[p] = "header"
  /\ Write(p, "header")
  /\ Goto(p, "fline")
  /\ UNCHANGED <<flag, history, mem, next, op, polls>>

UpdateFLine(p) ==
  /\ pc[p] = "fline"
  /\ Write(p, "fline")
  /\ Goto(p, "cells")
  /\ UNCHANGED <<flag, history, mem, next, op, polls>>

UpdateCells(p) ==
  /\ pc[p] = "cells"
  /\ Write(p, "cells")
  /\ Goto(p, "release")
  /\ UNCHANGED <<flag, history, mem, next, op, polls>>

ReleaseSemaphore(p) ==
  /\ pc[p] = "release"
  /\ sem' = FALSE /\ leaked' = FALSE
  /\ Return(p)
  /\ met' = met \ {p}
  /\ UNCHANGED <<mixed, torn, file, mem, next, polls>>

(* ReadSETI, on opening the object, reads the three parts of the index     *)
(* without a look at the flag.                                             *)
Read(p, part) == mem' = [mem EXCEPT ![p][part] = file[part]]

ReadHeader(p) ==
  /\ pc[p] = "readHeader"
  /\ Read(p, "header")
  /\ torn' = IF mixed \/ Writers # {} THEN torn \cup {p} ELSE torn \ {p}
  /\ Goto(p, "readFLine")
  /\ UNCHANGED <<flag, mixed, met, file, next, op, polls>>

ReadFLine(p) ==
  /\ pc[p] = "readFLine"
  /\ Read(p, "fline")
  /\ Goto(p, "readCells")
  /\ UNCHANGED <<flag, history, file, next, op, polls>>

ReadCells(p) ==
  /\ pc[p] = "readCells"
  /\ Read(p, "cells")
  /\ Return(p)
  /\ UNCHANGED <<flag, history, file, next, polls>>

(* What p does once it has been called.                                    *)
Work(p) ==
  \/ GetSemaphoreFree(p) \/ GetSemaphoreBusy(p) \/ GetSemaphoreTimeout(p)
  \/ EmptyRange(p) \/ SetSemaphore(p)
  \/ WindowOutside(p) \/ WindowInside(p) \/ SearchPages(p)
  \/ UpdateHeader(p) \/ UpdateFLine(p) \/ UpdateCells(p)
  \/ ReleaseSemaphore(p)
  \/ ReadHeader(p) \/ ReadFLine(p) \/ ReadCells(p)

Next ==
  \E p \in Proc :
    \/ InsertHandle(p)
    \/ \E o \in Operation : Call(p, o)
    \/ Work(p)

Spec == Init /\ [][Next]_vars

(* A process that is inside a call goes on: the query processor runs it to *)
(* its end.  No fairness for the callers.                                  *)
FairSpec == Spec /\ \A p \in Proc : WF_vars(Work(p))
-----------------------------------------------------------------------------
(***************************************************************************)
(* Properties                                                              *)
(***************************************************************************)

TypeOK ==
  /\ sem \in BOOLEAN /\ leaked \in BOOLEAN
  /\ mixed \in BOOLEAN /\ torn \subseteq Proc /\ met \subseteq Proc
  /\ file \in [Part -> Nat]
  /\ mem \in [Proc -> [Part -> Nat]]
  /\ next \in Nat
  /\ op \in [Proc -> Operation \cup {"none"}]
  /\ pc \in [Proc -> Location]
  /\ polls \in [Proc -> Nat]

(* The flag is up only on behalf of somebody, a process between its        *)
(* SetSemaphore(true) and its SetSemaphore(false), or because a search     *)
(* left at "Search window does not intersect the SETI area" after it was   *)
(* last written.  However the unguarded reads and writes of the flag       *)
(* interleave, it gets stuck in no other way.                              *)
FlagHasOwner == sem => leaked \/ \E p \in Proc : pc[p] \in Holding

(* UpdateSETI writes the header, the front line and the cells one after    *)
(* the other.  Whenever no update is under way the three belong together,  *)
(* in spite of the readers that race for the flag and may clear it in the  *)
(* middle of the update.  The file comes apart in two ways only: updates   *)
(* that are inside together, as the flag does not keep them apart, and the *)
(* update of a process that opened the object during another one's.        *)
FileConsistent ==
  Writers = {} /\ ~mixed => \A x, y \in Part : file[x] = file[y]

(* When UpdateSETI returns true, the file holds the index this process has *)
(* in memory, all three parts of it, unless the update met another one     *)
(* between its SetSemaphore(true) and its SetSemaphore(false).             *)
UpdatePublishes ==
  [][\A p \in Proc :
       pc[p] = "release" /\ pc'[p] = "idle" /\ op[p] = "UpdateSETI"
         => file' = mem[p] \/ p \in met]_vars

(* Every operation returns: the polling of a set flag is bounded.          *)
OperationsReturn ==
  \A p \in Proc : pc[p] # "idle" ~> pc[p] = "idle"

(* A file that is locked is released again, unless a search leaves it.     *)
LockedFileReleased == sem ~> ~sem \/ leaked

(* "Writes all SETI data into file.": an update that is about to return    *)
(* true finds its own index in the file, all of it.                        *)
AllWritten ==
  \A p \in Proc :
    op[p] = "UpdateSETI" /\ pc[p] = "release" => file = mem[p]
=============================================================================
