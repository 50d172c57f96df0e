------------------------------- MODULE Paging -------------------------------
(***************************************************************************)
(* Demand paging and processes in the "userprog" kernel: frames            *)
(* (userprog/memoryManager.cc), page tables and swap files (addrspace.cc,  *)
(* swap.cc), the process table (processTable.cc) and the page-fault, Exec  *)
(* and Exit handlers (exception.cc).                                       *)
(*                                                                         *)
(* A step is the code between two moments at which another thread may get  *)
(* the CPU: the end of a user instruction and the end of Acquire and       *)
(* Release of memoryLock and processTableLock, where interrupts are        *)
(* enabled and the timer may ask for a Yield.  Without the timer (plain    *)
(* nachos) a process keeps the CPU until it waits for the console or ends. *)
(* The stub file system is synchronous, so swapping never waits.           *)
(***************************************************************************)
EXTENDS Naturals, FiniteSets, FiniteSetsExt

CONSTANTS Procs,         \* the threads that run user programs, none of them twice
          First,         \* main, which StartProcess turns into the first process
          NoProc,        \* the NULL of the process table; nobody
          NumPages,      \* AddrSpace::numPages
          NumPhysPages,  \* frames of main memory
          TableSize,     \* slots of the process table
          DataPages,     \* bound: <<p, n>>, the pages their programs write to
          MaxWrites,     \* bound: how often a program writes to such a page
          Preemptive     \* nachos -rs: the timer interrupts the kernel too

ASSUME PagingAssumption ==
  /\ First \in Procs /\ NoProc \notin Procs
  /\ NumPages \in Nat /\ NumPhysPages \in Nat \ {0}
  /\ TableSize \in Nat \ {0}
  /\ MaxWrites \in Nat
  /\ Preemptive \in BOOLEAN

ASSUME DataPagesAssumption == DataPages \subseteq Procs \X Nat

Pages  == 0 .. (NumPages - 1)
Frames == 0 .. (NumPhysPages - 1)
Slots  == 1 .. TableSize

VARIABLES
  pc,                  \* where the thread of each process is
  running,             \* who has the CPU, when nobody is preempted
  page, frame,         \* pageNumber of LoadPage or i of ReleaseMemory; a frame
  pageTable,           \* AddrSpace::pageTable
  swapped,             \* the swap file: {} or the contents of each page
  isOccupied, processID, pageTableEntry,   \* MemoryManager::frames
  numberOfFreeFrames, mainMemory, memoryLock,
  table, nProcesses,   \* ProcessTable
  threadID,            \* Thread::threadID and AddrSpace::spaceID
  crashed, halted      \* a NULL or freed pointer was followed; Halt was called

processVars == <<pc, running, page, frame>>
spaceVars   == <<pageTable, swapped>>
frameVars   == <<isOccupied, processID, pageTableEntry, numberOfFreeFrames>>
tableVars   == <<table, nProcesses, threadID>>
endVars     == <<crashed, halted>>
vars == <<processVars, spaceVars, frameVars, mainMemory, memoryLock, tableVars,
          endVars>>

NoFrame  == NumPhysPages
NoEntry  == <<NoProc, 0>>
Unmapped == [physicalPage |-> NoFrame, valid |-> FALSE, dirty |-> FALSE]

\* The contents of a page: whose page it is, and how many writes it has seen
\* since it was read from the executable.
FromFile(p, n) == <<p, n, 0>>
Contents       == Procs \X Pages \X (0 .. MaxWrites)

\* MemoryManager(), ProcessTable() and StartProcess for the first process.
Init ==
  /\ pc = [p \in Procs |-> IF p = First THEN "user" ELSE "none"]
  /\ running = First
  /\ page = [p \in Procs |-> 0]
  /\ frame = [p \in Procs |-> NoFrame]
  /\ pageTable = [p \in Procs |-> [n \in Pages |-> Unmapped]]
  /\ swapped = [p \in Procs |-> [n \in Pages |-> {}]]
  /\ isOccupied = [f \in Frames |-> FALSE]
  /\ processID = [f \in Frames |-> 0]
  /\ pageTableEntry = [f \in Frames |-> NoEntry]
  /\ numberOfFreeFrames = NumPhysPages
  /\ mainMemory = [f \in Frames |-> {}]
  /\ memoryLock = NoProc
  /\ table = [i \in Slots |-> IF i = 1 THEN First ELSE NoProc]
  /\ nProcesses = 1
  /\ threadID = [p \in Procs |-> IF p = First THEN 1 ELSE 0]
  /\ crashed = FALSE
  /\ halted = FALSE

-----------------------------------------------------------------------------
\* Process p has the CPU at "here", and gets to "there".
At(p, here) ==
  /\ ~crashed /\ ~halted
  /\ pc[p] = here
  /\ ~Preemptive => running = p

Step(p, here, there) == At(p, here) /\ pc' = [pc EXCEPT ![p] = there]

\* A process that has started and not finished.
Live == {p \in Procs : pc[p] \notin {"none", "gone"}}

\* Processes whose space "delete currentThread->space" has freed.
Deleted == {p \in Procs : pc[p] \in {"leave", "count", "gone"}}

\* Without preemption: p waits for the console, and any process that is not
\* waiting itself goes on.
WaitForConsole(p) ==
  /\ Step(p, "user", "user")
  /\ ~Preemptive
  /\ running' \in Live
  /\ UNCHANGED <<page, frame, spaceVars, frameVars, mainMemory, memoryLock,
                 tableVars, endVars>>

-----------------------------------------------------------------------------
(***************************************************************************)
(* User instructions                                                       *)
(***************************************************************************)

\* Machine::WriteMem to a page that Translate finds valid changes a part of
\* what is in its frame.
WriteMem(p, n) ==
  LET f == pageTable[p][n].physicalPage IN
  /\ Step(p, "user", "user")
  /\ <<p, n>> \in DataPages
  /\ pageTable[p][n].valid
  /\ \E c \in mainMemory[f] :
       /\ c[3] < MaxWrites
       /\ mainMemory' = [mainMemory EXCEPT ![f] = {[c EXCEPT ![3] = @ + 1]}]
  /\ pageTable' = [pageTable EXCEPT ![p][n].dirty = TRUE]
  /\ UNCHANGED <<running, page, frame, swapped, frameVars, memoryLock, tableVars, endVars>>

\* Translate finds it invalid: PageFaultExceptionHandler calls LoadPage, which
\* calls AllocateFrame.
PageFault(p, n) ==
  /\ Step(p, "user", "acquire")
  /\ ~pageTable[p][n].valid
  /\ page' = [page EXCEPT ![p] = n]
  /\ UNCHANGED <<running, frame, spaceVars, frameVars, mainMemory, memoryLock,
                 tableVars, endVars>>

-----------------------------------------------------------------------------
(***************************************************************************)
(* MemoryManager::AllocateFrame and AddrSpace::LoadPage                    *)
(***************************************************************************)

\* memoryLock->Acquire() of AllocateFrame.
AcquireToAllocate(p) ==
  /\ Step(p, "acquire", "allocate")
  /\ memoryLock = NoProc
  /\ memoryLock' = p
  /\ UNCHANGED <<running, page, frame, spaceVars, frameVars, mainMemory, tableVars, endVars>>

\* Mutant: AllocateFrame returns without releasing memoryLock.
AssignKeepsLock(p, f) ==
  /\ isOccupied' = [isOccupied EXCEPT ![f] = TRUE]
  /\ processID' = [processID EXCEPT ![f] = threadID[p]]
  /\ pageTableEntry' = [pageTableEntry EXCEPT ![f] = <<p, page[p]>>]
  /\ frame' = [frame EXCEPT ![p] = f]
  /\ UNCHANGED memoryLock

\* Frame f goes to the page that p is loading, and AllocateFrame returns it.
Assign(p, f) ==
  /\ isOccupied' = [isOccupied EXCEPT ![f] = TRUE]
  /\ processID' = [processID EXCEPT ![f] = threadID[p]]
  /\ pageTableEntry' = [pageTableEntry EXCEPT ![f] = <<p, page[p]>>]
  /\ frame' = [frame EXCEPT ![p] = f]
  /\ memoryLock' = NoProc

FreeFrames == {f \in Frames : ~isOccupied[f]}

\* The first frame that is not occupied.
AllocateFrame(p) ==
  /\ Step(p, "allocate", "load")
  /\ numberOfFreeFrames > 0
  /\ Assign(p, Min(FreeFrames))
  /\ numberOfFreeFrames' = numberOfFreeFrames - 1
  /\ UNCHANGED <<running, page, spaceVars, mainMemory, tableVars, endVars>>

\* AllocateFrameByForce picks any frame (RANDOM_REPLACEMENT), and calls
\* ProcessTable::Get with the identifier of the process that has it.
ChooseVictim(p) ==
  /\ Step(p, "allocate", "get")
  /\ numberOfFreeFrames = 0
  /\ \E victim \in Frames : frame' = [frame EXCEPT ![p] = victim]
  /\ UNCHANGED <<running, page, spaceVars, frameVars, mainMemory, memoryLock,
                 tableVars, endVars>>

\* ProcessTable::Get tests its slot; NULL would be followed as a Thread*.
GetProcess(p) ==
  /\ Step(p, "get", "evict")
  /\ crashed' = (table[processID[frame[p]]] = NoProc)
  /\ UNCHANGED <<running, page, frame, spaceVars, frameVars, mainMemory, memoryLock,
                 tableVars, halted>>

\* Mutant: ForcedEvict forgets to make the page invalid.
EvictLeavesValid(p) ==
  LET f     == frame[p]
      owner == table[processID[f]]
      n     == pageTableEntry[f][2]
      entry == pageTable[owner][n] IN
  /\ Step(p, "evict", "load")
  /\ owner # NoProc /\ owner \notin Deleted
  /\ swapped' = [swapped EXCEPT ![owner][n] = mainMemory[entry.physicalPage]]
  /\ pageTable' = [pageTable EXCEPT ![owner][n].dirty = FALSE]
  /\ Assign(p, f)
  /\ UNCHANGED <<numberOfFreeFrames, crashed, running, page, mainMemory, tableVars, halted>>

\* It returns what is in the slot by then, which is followed to its space, as
\* is the entry of the frame.  The page of the victim is written to its swap
\* file if it is dirty, and loses its frame.
Evict(p) ==
  LET f     == frame[p]
      owner == table[processID[f]]
      n     == pageTableEntry[f][2]
      entry == pageTable[owner][n] IN
  /\ Step(p, "evict", "load")
  /\ \/ /\ owner = NoProc \/ {owner, pageTableEntry[f][1]} \cap Deleted # {}
        /\ crashed' = TRUE
        /\ UNCHANGED <<frame, spaceVars, frameVars, memoryLock>>
     \/ /\ owner # NoProc /\ {owner, pageTableEntry[f][1]} \cap Deleted = {}
        /\ swapped' = IF entry.dirty
                      THEN [swapped EXCEPT ![owner][n] = mainMemory[entry.physicalPage]]
                      ELSE swapped
        /\ pageTable' = [pageTable EXCEPT ![owner][n].dirty = FALSE,
                                          ![owner][n].valid = FALSE]
        /\ Assign(p, f)
        /\ UNCHANGED <<numberOfFreeFrames, crashed>>
  /\ UNCHANGED <<running, page, mainMemory, tableVars, halted>>

\* Mutant: LoadPage reads the executable even when the page has been swapped out.
LoadPageFromFile(p) ==
  LET n == page[p]
      f == frame[p] IN
  /\ Step(p, "load", "user")
  /\ mainMemory' = [mainMemory EXCEPT ![f] = {FromFile(p, n)}]
  /\ swapped' = [swapped EXCEPT ![p][n] = {FromFile(p, n)}]
  /\ pageTable' = [pageTable EXCEPT ![p][n].physicalPage = f, ![p][n].valid = TRUE]
  /\ UNCHANGED <<running, page, frame, frameVars, memoryLock, tableVars, endVars>>

\* LoadPage fills the frame from the swap file, or from the executable, which
\* it then stores in the swap file; the page becomes valid.
LoadPage(p) ==
  LET n == page[p]
      f == frame[p]
      contents == IF swapped[p][n] = {} THEN {FromFile(p, n)} ELSE swapped[p][n] IN
  /\ Step(p, "load", "user")
  /\ mainMemory' = [mainMemory EXCEPT ![f] = contents]
  /\ swapped' = [swapped EXCEPT ![p][n] = contents]
  /\ pageTable' = [pageTable EXCEPT ![p][n].physicalPage = f, ![p][n].valid = TRUE]
  /\ UNCHANGED <<running, page, frame, frameVars, memoryLock, tableVars, endVars>>

-----------------------------------------------------------------------------
(***************************************************************************)
(* SysCallExecHandler                                                      *)
(***************************************************************************)

\* p starts q, which gets the first free slot, a new address space and swap
\* file, and is forked.  A full table makes the call fail without effect.
Exec(p, q) ==
  LET free == {i \in Slots : table[i] = NoProc} IN
  /\ At(p, "user")
  /\ pc[q] = "none"
  /\ free # {}
  /\ pc' = [pc EXCEPT ![q] = "user"]
  /\ table' = [table EXCEPT ![Min(free)] = q]
  /\ threadID' = [threadID EXCEPT ![q] = Min(free)]
  /\ nProcesses' = nProcesses + 1
  /\ UNCHANGED <<running, page, frame, spaceVars, frameVars, mainMemory, memoryLock,
                 endVars>>

\* SysCallHaltHandler.
SysCallHalt(p) ==
  /\ Step(p, "user", "halting")
  /\ halted' = TRUE
  /\ UNCHANGED <<running, page, frame, spaceVars, frameVars, mainMemory, memoryLock,
                 tableVars, crashed>>

-----------------------------------------------------------------------------
(***************************************************************************)
(* SysCallExitHandler                                                      *)
(***************************************************************************)

\* The process ends, by Exit or by an exception, and calls ReleaseMemory.
Exit(p) ==
  /\ Step(p, "user", "release")
  /\ page' = [page EXCEPT ![p] = 0]
  /\ UNCHANGED <<running, frame, spaceVars, frameVars, mainMemory, memoryLock,
                 tableVars, endVars>>

\* A round of the loop of ReleaseMemory.  A valid page has its frame freed.
ReleaseValid(p) ==
  /\ Step(p, "release", "acquireFree")
  /\ page[p] < NumPages
  /\ pageTable[p][page[p]].valid
  /\ frame' = [frame EXCEPT ![p] = pageTable[p][page[p]].physicalPage]
  /\ UNCHANGED <<running, page, spaceVars, frameVars, mainMemory, memoryLock,
                 tableVars, endVars>>

ReleaseInvalid(p) ==
  /\ Step(p, "release", "release")
  /\ page[p] < NumPages
  /\ ~pageTable[p][page[p]].valid
  /\ page' = [page EXCEPT ![p] = @ + 1]
  /\ UNCHANGED <<running, frame, spaceVars, frameVars, mainMemory, memoryLock,
                 tableVars, endVars>>

\* memoryLock->Acquire() of FreeFrame.
AcquireToFree(p) ==
  /\ Step(p, "acquireFree", "free")
  /\ memoryLock = NoProc
  /\ memoryLock' = p
  /\ UNCHANGED <<running, page, frame, spaceVars, frameVars, mainMemory, tableVars, endVars>>

FreeFrameTwice(p) ==
  /\ Step(p, "free", "release")
  /\ isOccupied' = [isOccupied EXCEPT ![frame[p]] = FALSE]
  /\ numberOfFreeFrames' = numberOfFreeFrames + 1
  /\ memoryLock' = NoProc
  /\ page' = [page EXCEPT ![p] = @ + 1]
  /\ UNCHANGED <<running, frame, spaceVars, processID, pageTableEntry, mainMemory,
                 tableVars, endVars>>

\* The rest of FreeFrame, and the next round of the loop.
FreeFrame(p) ==
  /\ Step(p, "free", "release")
  /\ isOccupied' = [isOccupied EXCEPT ![frame[p]] = FALSE]
  /\ numberOfFreeFrames' = numberOfFreeFrames + (IF isOccupied[frame[p]] THEN 1 ELSE 0)
  /\ memoryLock' = NoProc
  /\ page' = [page EXCEPT ![p] = @ + 1]
  /\ UNCHANGED <<running, frame, spaceVars, processID, pageTableEntry, mainMemory,
                 tableVars, endVars>>

\* Mutant: the loop stops one page short.
DeleteSpaceEarly(p) ==
  /\ Step(p, "release", "leave")
  /\ page[p] >= NumPages - 1
  /\ UNCHANGED <<running, page, frame, spaceVars, frameVars, mainMemory, memoryLock,
                 tableVars, endVars>>

\* The end of the loop, and "delete currentThread->space".
DeleteSpace(p) ==
  /\ Step(p, "release", "leave")
  /\ page[p] = NumPages
  /\ UNCHANGED <<running, page, frame, spaceVars, frameVars, mainMemory, memoryLock,
                 tableVars, endVars>>

\* Mutant: the slot is freed, but nProcesses is not decremented.
LeaveTableUncounted(p) ==
  /\ Step(p, "leave", "count")
  /\ table' = [table EXCEPT ![threadID[p]] = NoProc]
  /\ UNCHANGED <<nProcesses, running, page, frame, spaceVars, frameVars, mainMemory,
                 memoryLock, threadID, endVars>>

\* ProcessTable::Release.
LeaveTable(p) ==
  /\ Step(p, "leave", "count")
  /\ table' = [table EXCEPT ![threadID[p]] = NoProc]
  /\ nProcesses' = nProcesses - 1
  /\ UNCHANGED <<running, page, frame, spaceVars, frameVars, mainMemory, memoryLock,
                 threadID, endVars>>

\* Mutant: the last but one halts the machine.
FinishEarly(p) ==
  /\ Step(p, "count", "gone")
  /\ halted' = (nProcesses <= 1)
  /\ IF halted' \/ Preemptive THEN UNCHANGED running ELSE running' \in Live \ {p}
  /\ UNCHANGED <<page, frame, spaceVars, frameVars, mainMemory, memoryLock,
                 tableVars, crashed>>

\* ProcessTable::GetProcessCount: the last process halts the machine, any
\* other one finishes and somebody else runs.
Finish(p) ==
  /\ Step(p, "count", "gone")
  /\ halted' = (nProcesses = 0)
  /\ IF halted' \/ Preemptive THEN UNCHANGED running ELSE running' \in Live \ {p}
  /\ UNCHANGED <<page, frame, spaceVars, frameVars, mainMemory, memoryLock,
                 tableVars, crashed>>

-----------------------------------------------------------------------------
\* What a process does without choosing to: the kernel's part.
InKernel(p) ==
  \/ AllocateFrame(p) \/ ChooseVictim(p) \/ GetProcess(p) \/ Evict(p)
  \/ LoadPage(p)
  \/ ReleaseValid(p) \/ ReleaseInvalid(p) \/ FreeFrame(p)
  \/ DeleteSpace(p) \/ LeaveTable(p) \/ Finish(p)

InUser(p) ==
  \/ WaitForConsole(p)
  \/ \E n \in Pages : WriteMem(p, n) \/ PageFault(p, n)
  \/ \E q \in Procs : Exec(p, q)
  \/ SysCallHalt(p)
  \/ Exit(p)

Next == \E p \in Procs : InKernel(p) \/ InUser(p) \/ AcquireToAllocate(p) \/ AcquireToFree(p)

Spec == Init /\ [][Next]_vars

\* A thread in the kernel goes on, because the ready list is FIFO and the timer
\* always comes again.  A waiter for memoryLock goes on when the lock stays
\* free: no more, as Lock::Acquire tests again after it wakes and another thread
\* may have been faster.  What a user program does is its own affair.
Fairness ==
  \A p \in Procs : /\ WF_vars(InKernel(p))
                  /\ WF_vars(AcquireToAllocate(p) \/ AcquireToFree(p))

FairSpec == Spec /\ Fairness

-----------------------------------------------------------------------------
(***************************************************************************)
(* Properties                                                              *)
(***************************************************************************)

\* The variables have the types of the code's fields and the lock has a holder
\* exactly while a thread is inside AllocateFrame or FreeFrame.
PagingTypeOK ==
  /\ pc \in [Procs -> {"none", "user", "acquire", "allocate", "get", "evict", "load",
                       "release", "acquireFree", "free", "leave", "count", "gone",
                       "halting"}]
  /\ running \in Procs
  /\ page \in [Procs -> 0 .. NumPages]
  /\ frame \in [Procs -> Frames \cup {NoFrame}]
  /\ pageTable \in [Procs -> [Pages -> [physicalPage : Frames \cup {NoFrame},
                                       valid : BOOLEAN, dirty : BOOLEAN]]]
  /\ swapped \in [Procs -> [Pages -> SUBSET Contents]]
  /\ isOccupied \in [Frames -> BOOLEAN]
  /\ processID \in [Frames -> 0 .. TableSize]
  /\ pageTableEntry \in [Frames -> (Procs \X Pages) \cup {NoEntry}]
  /\ numberOfFreeFrames \in 0 .. NumPhysPages
  /\ mainMemory \in [Frames -> SUBSET Contents]
  /\ memoryLock \in Procs \cup {NoProc}
  /\ table \in [Slots -> Procs \cup {NoProc}]
  /\ nProcesses \in 0 .. TableSize
  /\ threadID \in [Procs -> 0 .. TableSize]
  /\ crashed \in BOOLEAN /\ halted \in BOOLEAN
  /\ \A p \in Procs : memoryLock = p <=> pc[p] \in {"allocate", "get", "evict", "free"}

\* MemoryManager::numberOfFreeFrames is the number of entries that are not
\* occupied, although ReleaseMemory may free a frame that has been freed or
\* has a new owner since it looked.  Otherwise AllocateFrame would return an
\* uninitialized frame number.
FreeFramesAreCounted == numberOfFreeFrames = Cardinality(FreeFrames)

\* A page is valid exactly when its frame is occupied for it, and that frame
\* names the process that owns it (between two system calls of an unpreempted
\* kernel; LoadPage and ReleaseMemory are on their way from one to the other).
FramesAgree ==
  \A p \in Procs, n \in Pages :
    (pc[p] \in {"user", "acquire", "halting"}) =>
       /\ pageTable[p][n].valid =>
            LET f == pageTable[p][n].physicalPage IN
            isOccupied[f] /\ pageTableEntry[f] = <<p, n>> /\ table[processID[f]] = p
       /\ \A f \in Frames :
            isOccupied[f] /\ pageTableEntry[f] = <<p, n>> =>
            pageTable[p][n].valid /\ pageTable[p][n].physicalPage = f

\* Page tables, the list of frames and the process table tell the same story.
TablesAgree == PagingTypeOK /\ FramesAgree

\* The kernel follows no NULL and no freed pointer: a victim's process is in the
\* table and its space exists when AllocateFrameByForce evicts its page.
NeverCrashes == ~crashed

\* "interrupt->Halt()" of SysCallExitHandler runs when no other process still
\* has an address space; it cuts nobody's program short.
NobodyIsCutShort ==
  halted => \/ \E p \in Procs : pc[p] = "halting"
            \/ \A p \in Procs : pc[p] \in {"none", "count", "gone"}

\* What the processes may rely on: no eviction or exit of another one takes the
\* kernel down, and none stops the machine under them.
ProcessesAreSafe == NeverCrashes /\ NobodyIsCutShort

\* The victim of AllocateFrameByForce is an existing page, one that is in the
\* frame that is taken from it (memoryManager.cc:64).
EvictsAnExistingPage ==
  \A p \in Procs : pc[p] = "evict" =>
    LET owner == pageTableEntry[frame[p]][1]
        n     == pageTableEntry[frame[p]][2] IN
    pageTable[owner][n].valid /\ pageTable[owner][n].physicalPage = frame[p]

\* What the user programs see is the virtual memory of VirtualMemory.
Alive == {p \in Procs : pc[p] \in {"user", "acquire", "allocate", "get", "evict", "load",
                                  "halting"}}

\* What is kept of a page, in its frame or else in the swap file, and so what is
\* in it: as long as nothing is kept it is as in the executable.
Kept(p, n) ==
  LET e == pageTable[p][n] IN
  IF e.valid THEN mainMemory[e.physicalPage] ELSE swapped[p][n]

ContentOf(p, n) ==
  IF p \in Alive /\ Kept(p, n) # {} THEN CHOOSE c \in Kept(p, n) : TRUE ELSE FromFile(p, n)

Abstract == INSTANCE VirtualMemory
              WITH alive  <- Alive,
                   memory <- [p \in Procs |-> [n \in Pages |-> ContentOf(p, n)]]

\* A page always has what its process wrote to it last, through faults,
\* evictions to the swap file and reloads.
ImplementsVirtualMemory == Abstract!Spec

\* Whoever gets memoryLock releases it (unless the machine stops), on every path
\* through AllocateFrame, AllocateFrameByForce and FreeFrame.
MemoryLockIsReleased ==
  \A p \in Procs : memoryLock = p ~> (memoryLock # p \/ halted \/ crashed)

\* When every process is on its way out, the machine halts: the last one to
\* leave the process table sees a count of zero.
LastOneHalts ==
  (\A p \in Procs : pc[p] \in {"none", "release", "acquireFree", "free", "leave",
                               "count", "gone"}) ~> (halted \/ crashed)
=============================================================================
