---------------------------- MODULE PagingProofs ----------------------------
(***************************************************************************)
(* Proofs about Paging, for any number of processes, pages and frames: what *)
(* holds under any preemption, and then what plain nachos, which preempts   *)
(* nobody in the kernel, adds to it.                                        *)
(***************************************************************************)
EXTENDS Paging, FiniteSetTheorems, TLAPS

\* A thread is between Acquire and Release of memoryLock.
Inside == {"allocate", "get", "evict", "free"}

\* A thread uses its variable "frame" (allocatedFrameNumber, frameNumber).
UsesFrame == {"get", "evict", "load", "acquireFree", "free"}

\* The part of the state that decides about frames has its type.
FramesTyped ==
  /\ pc = [p \in Procs |-> pc[p]]
  /\ frame \in [Procs -> Frames \cup {NoFrame}]
  /\ pageTable \in [Procs -> [Pages -> [physicalPage : Frames \cup {NoFrame},
                                       valid : BOOLEAN, dirty : BOOLEAN]]]
  /\ isOccupied \in [Frames -> BOOLEAN]
  /\ numberOfFreeFrames \in Nat

LockedInside == \A p \in Procs : pc[p] \in Inside => memoryLock = p

FramesExist ==
  /\ \A p \in Procs : pc[p] \in UsesFrame => frame[p] \in Frames
  /\ \A p \in Procs, n \in Pages :
       pageTable[p][n].valid => pageTable[p][n].physicalPage \in Frames

\* AllocateFrameByForce runs while every frame is occupied, and stays so since
\* it keeps memoryLock.
ForcedWhenFull == \A p \in Procs : pc[p] \in {"get", "evict"} => numberOfFreeFrames = 0

CountInv ==
  /\ FramesTyped
  /\ LockedInside
  /\ FramesExist
  /\ ForcedWhenFull
  /\ FreeFramesAreCounted

-----------------------------------------------------------------------------
LEMMA FreeFramesAreFinite ==
  /\ IsFiniteSet(FreeFrames)
  /\ Cardinality(FreeFrames) \in Nat
  /\ Cardinality(FreeFrames) = 0 <=> FreeFrames = {}
<1>1. IsFiniteSet(Frames)
  BY PagingAssumption, FS_Interval DEF Frames
<1>2. IsFiniteSet(FreeFrames)
  BY <1>1, FS_Subset DEF FreeFrames
<1>. QED  BY <1>2, FS_CardinalityType, FS_EmptySet

\* A loop over the frames or the slots finds the first one that is free.
LEMMA LeastIsThere ==
  ASSUME NEW S, S \subseteq Nat, S # {}
  PROVE  Min(S) \in S
<1>1. PICK x \in S : \A y \in S : ~(<<y, x>> \in OpToRel(<, Nat))
  BY WFMin, NatLessThanWellFounded
<1>2. \A y \in Nat, z \in Nat : y < z => <<y, z>> \in OpToRel(<, Nat)
  BY DEF OpToRel
<1>3. ASSUME NEW y \in S PROVE x <= y
  <2>1. ~(y < x)
    BY <1>1, <1>2
  <2>. QED  BY <2>1
<1>. QED  BY <1>1, <1>3 DEF Min

\* Taking a free frame, taking an occupied one, and freeing one.
LEMMA Occupy ==
  ASSUME NEW f \in Frames, isOccupied \in [Frames -> BOOLEAN],
         isOccupied' = [isOccupied EXCEPT ![f] = TRUE]
  PROVE  /\ isOccupied' \in [Frames -> BOOLEAN]
         /\ f \in FreeFrames => Cardinality(FreeFrames)' = Cardinality(FreeFrames) - 1
         /\ f \notin FreeFrames => Cardinality(FreeFrames)' = Cardinality(FreeFrames)
<1>1. FreeFrames' = FreeFrames \ {f}
  BY DEF FreeFrames
<1>. QED  BY <1>1, FreeFramesAreFinite, FS_RemoveElement

LEMMA Vacate ==
  ASSUME NEW f \in Frames, isOccupied \in [Frames -> BOOLEAN],
         isOccupied' = [isOccupied EXCEPT ![f] = FALSE]
  PROVE  /\ isOccupied' \in [Frames -> BOOLEAN]
         /\ Cardinality(FreeFrames)' =
              Cardinality(FreeFrames) + (IF isOccupied[f] THEN 1 ELSE 0)
<1>1. FreeFrames' = FreeFrames \cup {f}
  BY DEF FreeFrames
<1>2. f \in FreeFrames <=> ~isOccupied[f]
  BY DEF FreeFrames
<1>. QED  BY <1>1, <1>2, FreeFramesAreFinite, FS_AddElement

-----------------------------------------------------------------------------
\* The steps that change neither a page table nor a frame.
LEMMA Elsewhere ==
  ASSUME CountInv, NEW p \in Procs, NEW here, NEW there,
         Step(p, here, there),
         UNCHANGED <<frame, pageTable, isOccupied, numberOfFreeFrames>>,
         there \in Inside => memoryLock' = p,
         there \notin {"get", "evict"} \/ here \in {"get", "evict"},
         there \notin UsesFrame \/ here \in UsesFrame,
         memoryLock' = memoryLock \/ memoryLock = NoProc
  PROVE  CountInv'
<1>1. /\ pc' = [q \in Procs |-> pc'[q]]
      /\ pc[p] = here /\ pc'[p] = there
      /\ \A q \in Procs : q # p => pc'[q] = pc[q]
  BY DEF CountInv, FramesTyped, Step, At
<1>2. FramesTyped'
  BY <1>1 DEF CountInv, FramesTyped
<1>3. LockedInside'
  BY <1>1, PagingAssumption DEF CountInv, LockedInside
<1>4. FramesExist'
  BY <1>1 DEF CountInv, FramesExist
<1>5. ForcedWhenFull'
  BY <1>1 DEF CountInv, ForcedWhenFull
<1>6. FreeFramesAreCounted'
  BY DEF CountInv, FreeFramesAreCounted, FreeFrames
<1>. QED  BY <1>2, <1>3, <1>4, <1>5, <1>6 DEF CountInv

\* The pages tables change, as in LoadPage, ForcedEvict and WriteMem.
LEMMA PageChanges ==
  ASSUME FramesTyped, FramesExist, NEW p \in Procs, NEW n \in Pages,
         NEW e \in [physicalPage : Frames \cup {NoFrame}, valid : BOOLEAN, dirty : BOOLEAN],
         e.valid => e.physicalPage \in Frames,
         pageTable' = [pageTable EXCEPT ![p][n] = e]
  PROVE  /\ pageTable' \in [Procs -> [Pages -> [physicalPage : Frames \cup {NoFrame},
                                               valid : BOOLEAN, dirty : BOOLEAN]]]
         /\ \A q \in Procs, m \in Pages :
              pageTable'[q][m].valid => pageTable'[q][m].physicalPage \in Frames
<1>. DEFINE Entries == [physicalPage : Frames \cup {NoFrame}, valid : BOOLEAN, dirty : BOOLEAN]
<1>1. pageTable \in [Procs -> [Pages -> Entries]] /\ e \in Entries
  BY DEF FramesTyped
<1>. HIDE DEF Entries
<1>2. pageTable' \in [Procs -> [Pages -> Entries]]
  BY <1>1
<1>3. \A q \in Procs, m \in Pages :
         pageTable'[q][m] = IF q = p /\ m = n THEN e ELSE pageTable[q][m]
  BY <1>1
<1>. QED  BY <1>2, <1>3 DEF FramesExist, Entries

\* The parts of a step that moves p and changes a frame or a page.
LEMMA Moves ==
  ASSUME CountInv, NEW p \in Procs, NEW here, NEW there,
         Step(p, here, there)
  PROVE  /\ pc' = [q \in Procs |-> pc'[q]]
         /\ pc[p] = here /\ pc'[p] = there
         /\ \A q \in Procs : q # p => pc'[q] = pc[q]
BY DEF CountInv, FramesTyped, Step, At

\* While a thread is inside, no other one is.
LEMMA AloneInside ==
  ASSUME CountInv, NEW p \in Procs, pc[p] \in Inside, NEW q \in Procs, q # p
  PROVE  pc[q] \notin Inside
BY DEF CountInv, LockedInside

LEMMA WriteMemStep ==
  ASSUME CountInv, NEW p \in Procs, NEW n \in Pages, WriteMem(p, n)
  PROVE  CountInv'
<1>1. Step(p, "user", "user") /\ UNCHANGED <<frame, isOccupied, numberOfFreeFrames, memoryLock>>
  BY DEF WriteMem, frameVars
<1>2. /\ pc' = [q \in Procs |-> pc'[q]]
      /\ \A q \in Procs : pc'[q] = pc[q]
  BY <1>1, Moves
<1>. DEFINE r == pageTable[p][n]
            e == [r EXCEPT !.dirty = TRUE]
<1>3. pageTable' = [pageTable EXCEPT ![p][n] = e]
  BY DEF WriteMem
<1>4. /\ e \in [physicalPage : Frames \cup {NoFrame}, valid : BOOLEAN, dirty : BOOLEAN]
      /\ e.valid => e.physicalPage \in Frames
  <2>1. /\ r \in [physicalPage : Frames \cup {NoFrame}, valid : BOOLEAN, dirty : BOOLEAN]
        /\ r.valid => r.physicalPage \in Frames
    BY DEF CountInv, FramesTyped, FramesExist
  <2>. HIDE DEF r
  <2>. QED  BY <2>1
<1>. HIDE DEF e
<1>5. FramesTyped' /\ FramesExist'
  BY <1>1, <1>2, <1>3, <1>4, PageChanges DEF CountInv, FramesTyped, FramesExist
<1>6. LockedInside' /\ ForcedWhenFull' /\ FreeFramesAreCounted'
  BY <1>1, <1>2 DEF CountInv, LockedInside, ForcedWhenFull, FreeFramesAreCounted, FreeFrames
<1>. QED  BY <1>5, <1>6 DEF CountInv

LEMMA LoadPageStep ==
  ASSUME CountInv, NEW p \in Procs, page[p] \in Pages, LoadPage(p)
  PROVE  CountInv'
<1>. DEFINE n == page[p]
            r == pageTable[p][n]
            e == [[r EXCEPT !.physicalPage = frame[p]] EXCEPT !.valid = TRUE]
<1>1. Step(p, "load", "user") /\ UNCHANGED <<frame, isOccupied, numberOfFreeFrames, memoryLock>>
  BY DEF LoadPage, frameVars
<1>2. /\ pc' = [q \in Procs |-> pc'[q]]
      /\ pc[p] = "load" /\ pc'[p] = "user"
      /\ \A q \in Procs : q # p => pc'[q] = pc[q]
  BY <1>1, Moves
<1>3. pageTable' = [pageTable EXCEPT ![p][n] = e]
  BY DEF LoadPage, CountInv, FramesTyped
<1>4. frame[p] \in Frames
  BY <1>2 DEF CountInv, FramesExist, UsesFrame
<1>5. /\ e \in [physicalPage : Frames \cup {NoFrame}, valid : BOOLEAN, dirty : BOOLEAN]
      /\ e.valid => e.physicalPage \in Frames
  <2>1. r \in [physicalPage : Frames \cup {NoFrame}, valid : BOOLEAN, dirty : BOOLEAN]
    BY DEF CountInv, FramesTyped
  <2>. HIDE DEF r
  <2>. QED  BY <1>4, <2>1
<1>. HIDE DEF e
<1>6. FramesTyped' /\ FramesExist'
  BY <1>1, <1>2, <1>3, <1>5, PageChanges DEF CountInv, FramesTyped, FramesExist, UsesFrame
<1>7. LockedInside' /\ ForcedWhenFull' /\ FreeFramesAreCounted'
  BY <1>1, <1>2 DEF CountInv, LockedInside, Inside, ForcedWhenFull, FreeFramesAreCounted,
                    FreeFrames
<1>. QED  BY <1>6, <1>7 DEF CountInv

LEMMA AllocateFrameStep ==
  ASSUME CountInv, NEW p \in Procs, AllocateFrame(p)
  PROVE  CountInv'
<1>. DEFINE f == Min(FreeFrames)
<1>1. /\ Step(p, "allocate", "load")
      /\ isOccupied' = [isOccupied EXCEPT ![f] = TRUE]
      /\ frame' = [frame EXCEPT ![p] = f]
      /\ numberOfFreeFrames > 0 /\ numberOfFreeFrames' = numberOfFreeFrames - 1
      /\ UNCHANGED pageTable
  BY DEF AllocateFrame, Assign, spaceVars
<1>2. /\ pc' = [q \in Procs |-> pc'[q]]
      /\ pc[p] = "allocate" /\ pc'[p] = "load"
      /\ \A q \in Procs : q # p => pc'[q] = pc[q]
  BY <1>1, Moves
<1>3. FreeFrames # {}
  BY <1>1, FreeFramesAreFinite DEF CountInv, FreeFramesAreCounted
<1>4. f \in FreeFrames /\ f \in Frames
  BY <1>3, PagingAssumption, LeastIsThere DEF FreeFrames, Frames
<1>. HIDE DEF f
<1>5. /\ isOccupied' \in [Frames -> BOOLEAN]
      /\ Cardinality(FreeFrames)' = Cardinality(FreeFrames) - 1
  BY <1>1, <1>4, Occupy DEF CountInv, FramesTyped
<1>6. FramesTyped'
  <2>1. numberOfFreeFrames' \in Nat
    BY <1>1 DEF CountInv, FramesTyped
  <2>2. frame' \in [Procs -> Frames \cup {NoFrame}]
    BY <1>1, <1>4 DEF CountInv, FramesTyped
  <2>. QED  BY <1>1, <1>2, <1>5, <2>1, <2>2 DEF CountInv, FramesTyped
<1>7. \A q \in Procs : q # p => pc[q] \notin Inside
  BY <1>2, AloneInside DEF Inside
<1>8. LockedInside' /\ ForcedWhenFull'
  BY <1>2, <1>7 DEF LockedInside, ForcedWhenFull, Inside
<1>9. FramesExist'
  BY <1>1, <1>2, <1>4 DEF CountInv, FramesTyped, FramesExist, UsesFrame
<1>10. FreeFramesAreCounted'
  BY <1>1, <1>5 DEF CountInv, FreeFramesAreCounted
<1>. QED  BY <1>6, <1>8, <1>9, <1>10 DEF CountInv

LEMMA ChooseVictimStep ==
  ASSUME CountInv, NEW p \in Procs, ChooseVictim(p)
  PROVE  CountInv'
<1>1. PICK victim \in Frames :
         /\ Step(p, "allocate", "get")
         /\ numberOfFreeFrames = 0
         /\ frame' = [frame EXCEPT ![p] = victim]
         /\ UNCHANGED <<pageTable, isOccupied, numberOfFreeFrames, memoryLock>>
  BY DEF ChooseVictim, spaceVars, frameVars
<1>2. /\ pc' = [q \in Procs |-> pc'[q]]
      /\ pc[p] = "allocate" /\ pc'[p] = "get"
      /\ \A q \in Procs : q # p => pc'[q] = pc[q]
  BY <1>1, Moves
<1>3. FramesTyped'
  BY <1>1, <1>2 DEF CountInv, FramesTyped
<1>4. FramesExist'
  BY <1>1, <1>2 DEF CountInv, FramesTyped, FramesExist, UsesFrame
<1>5. LockedInside' /\ ForcedWhenFull' /\ FreeFramesAreCounted'
  BY <1>1, <1>2 DEF CountInv, LockedInside, Inside, ForcedWhenFull, FreeFramesAreCounted,
                    FreeFrames
<1>. QED  BY <1>3, <1>4, <1>5 DEF CountInv

LEMMA EvictStep ==
  ASSUME CountInv, NEW p \in Procs, Evict(p)
  PROVE  CountInv'
<1>. DEFINE f == frame[p]
            owner == table[processID[f]]
            n == pageTableEntry[f][2]
            r == pageTable[owner][n]
            e == [[r EXCEPT !.dirty = FALSE] EXCEPT !.valid = FALSE]
<1>1. Step(p, "evict", "load")
  BY DEF Evict
<1>2. /\ pc' = [q \in Procs |-> pc'[q]]
      /\ pc[p] = "evict" /\ pc'[p] = "load"
      /\ \A q \in Procs : q # p => pc'[q] = pc[q]
  BY <1>1, Moves
<1>3. \A q \in Procs : q # p => pc[q] \notin Inside
  BY <1>2, AloneInside DEF Inside
<1>4. LockedInside' /\ ForcedWhenFull'
  BY <1>2, <1>3 DEF LockedInside, ForcedWhenFull, Inside
<1>5. CASE UNCHANGED <<frame, spaceVars, frameVars, memoryLock>>
  <2>1. UNCHANGED <<frame, pageTable, isOccupied, numberOfFreeFrames>>
    BY <1>5 DEF spaceVars, frameVars
  <2>2. FramesTyped' /\ FramesExist' /\ FreeFramesAreCounted'
    BY <1>2, <2>1 DEF CountInv, FramesTyped, FramesExist, UsesFrame, FreeFramesAreCounted,
                      FreeFrames
  <2>. QED  BY <1>4, <2>2 DEF CountInv
<1>6. CASE /\ pageTable' = [pageTable EXCEPT ![owner][n].dirty = FALSE,
                                            ![owner][n].valid = FALSE]
           /\ Assign(p, f)
           /\ UNCHANGED numberOfFreeFrames
  <2>1. f \in Frames /\ isOccupied \in [Frames -> BOOLEAN]
    BY <1>2 DEF CountInv, FramesExist, FramesTyped, UsesFrame
  <2>2. f \notin FreeFrames
    BY <1>2, FreeFramesAreFinite DEF CountInv, ForcedWhenFull, FreeFramesAreCounted
  <2>3. /\ isOccupied' \in [Frames -> BOOLEAN]
        /\ Cardinality(FreeFrames)' = Cardinality(FreeFrames)
    BY <1>6, <2>1, <2>2, Occupy DEF Assign
  <2>4. frame' = frame
    BY <1>6 DEF Assign, CountInv, FramesTyped
  <2>5. /\ pageTable' \in [Procs -> [Pages -> [physicalPage : Frames \cup {NoFrame},
                                              valid : BOOLEAN, dirty : BOOLEAN]]]
        /\ \A q \in Procs, m \in Pages :
             pageTable'[q][m].valid => pageTable'[q][m].physicalPage \in Frames
    <3>1. CASE owner \in Procs /\ n \in Pages
      <4>1. r \in [physicalPage : Frames \cup {NoFrame}, valid : BOOLEAN, dirty : BOOLEAN]
        BY <3>1 DEF CountInv, FramesTyped
      <4>2. pageTable' = [pageTable EXCEPT ![owner][n] = e]
        BY <1>6, <3>1 DEF CountInv, FramesTyped
      <4>. HIDE DEF r
      <4>3. /\ e \in [physicalPage : Frames \cup {NoFrame}, valid : BOOLEAN, dirty : BOOLEAN]
            /\ e.valid => e.physicalPage \in Frames
        BY <4>1
      <4>. HIDE DEF e, owner, n
      <4>. QED  BY <3>1, <4>2, <4>3, PageChanges DEF CountInv
    <3>2. CASE ~(owner \in Procs /\ n \in Pages)
      <4>1. pageTable' = [pageTable EXCEPT ![owner] = [pageTable[owner] EXCEPT ![n] = e]]
        BY <1>6 DEF CountInv, FramesTyped
      <4>2. /\ pageTable = [q \in Procs |-> pageTable[q]]
            /\ \A q \in Procs : pageTable[q] = [m \in Pages |-> pageTable[q][m]]
        BY DEF CountInv, FramesTyped
      <4>. HIDE DEF e, owner, n
      <4>3. pageTable' = pageTable
        <5>1. owner \in Procs => [pageTable[owner] EXCEPT ![n] = e] = pageTable[owner]
          BY <3>2, <4>2
        <5>. QED  BY <4>1, <4>2, <5>1
      <4>. QED  BY <4>3 DEF CountInv, FramesTyped, FramesExist
    <3>. QED  BY <3>1, <3>2
  <2>6. FramesTyped'
    BY <1>2, <1>6, <2>3, <2>4, <2>5 DEF CountInv, FramesTyped
  <2>7. FramesExist'
    BY <1>2, <2>4, <2>5 DEF CountInv, FramesExist, UsesFrame
  <2>8. FreeFramesAreCounted'
    BY <1>6, <2>3 DEF CountInv, FreeFramesAreCounted
  <2>. QED  BY <1>4, <2>6, <2>7, <2>8 DEF CountInv
<1>. QED  BY <1>5, <1>6 DEF Evict

LEMMA ReleaseValidStep ==
  ASSUME CountInv, NEW p \in Procs, page[p] \in Pages, ReleaseValid(p)
  PROVE  CountInv'
<1>1. /\ Step(p, "release", "acquireFree")
      /\ pageTable[p][page[p]].valid
      /\ frame' = [frame EXCEPT ![p] = pageTable[p][page[p]].physicalPage]
      /\ UNCHANGED <<pageTable, isOccupied, numberOfFreeFrames, memoryLock>>
  BY DEF ReleaseValid, spaceVars, frameVars
<1>2. /\ pc' = [q \in Procs |-> pc'[q]]
      /\ pc[p] = "release" /\ pc'[p] = "acquireFree"
      /\ \A q \in Procs : q # p => pc'[q] = pc[q]
  BY <1>1, Moves
<1>3. /\ pageTable[p][page[p]].physicalPage \in Frames
      /\ frame' \in [Procs -> Frames \cup {NoFrame}]
  BY <1>1 DEF CountInv, FramesExist, FramesTyped
<1>4. FramesTyped'
  BY <1>1, <1>2, <1>3 DEF CountInv, FramesTyped
<1>5. FramesExist'
  BY <1>1, <1>2, <1>3 DEF CountInv, FramesTyped, FramesExist, UsesFrame
<1>6. LockedInside' /\ ForcedWhenFull' /\ FreeFramesAreCounted'
  BY <1>1, <1>2 DEF CountInv, LockedInside, Inside, ForcedWhenFull, FreeFramesAreCounted,
                    FreeFrames
<1>. QED  BY <1>4, <1>5, <1>6 DEF CountInv

LEMMA FreeFrameStep ==
  ASSUME CountInv, NEW p \in Procs, FreeFrame(p)
  PROVE  CountInv'
<1>. DEFINE f == frame[p]
<1>1. /\ Step(p, "free", "release")
      /\ isOccupied' = [isOccupied EXCEPT ![f] = FALSE]
      /\ numberOfFreeFrames' = numberOfFreeFrames + (IF isOccupied[f] THEN 1 ELSE 0)
      /\ UNCHANGED <<frame, pageTable>>
  BY DEF FreeFrame, spaceVars
<1>2. /\ pc' = [q \in Procs |-> pc'[q]]
      /\ pc[p] = "free" /\ pc'[p] = "release"
      /\ \A q \in Procs : q # p => pc'[q] = pc[q]
  BY <1>1, Moves
<1>3. f \in Frames
  BY <1>2 DEF CountInv, FramesExist, UsesFrame
<1>4. /\ isOccupied' \in [Frames -> BOOLEAN]
      /\ Cardinality(FreeFrames)' =
           Cardinality(FreeFrames) + (IF isOccupied[f] THEN 1 ELSE 0)
  BY <1>1, <1>3, Vacate DEF CountInv, FramesTyped
<1>5. numberOfFreeFrames' \in Nat
  BY <1>1 DEF CountInv, FramesTyped
<1>6. FramesTyped' /\ FramesExist'
  BY <1>1, <1>2, <1>4, <1>5 DEF CountInv, FramesTyped, FramesExist, UsesFrame
<1>7. \A q \in Procs : q # p => pc[q] \notin Inside
  BY <1>2, AloneInside DEF Inside
<1>8. LockedInside' /\ ForcedWhenFull'
  BY <1>2, <1>7 DEF LockedInside, ForcedWhenFull, Inside
<1>9. FreeFramesAreCounted'
  BY <1>1, <1>4 DEF CountInv, FreeFramesAreCounted
<1>. QED  BY <1>6, <1>8, <1>9 DEF CountInv

LEMMA ExecStep ==
  ASSUME CountInv, NEW p \in Procs, NEW q \in Procs, Exec(p, q)
  PROVE  CountInv'
<1>1. /\ pc' = [pc EXCEPT ![q] = "user"] /\ pc[q] = "none"
      /\ UNCHANGED <<frame, pageTable, isOccupied, numberOfFreeFrames, memoryLock>>
  BY DEF Exec, spaceVars, frameVars
<1>2. /\ pc' = [r \in Procs |-> pc'[r]]
      /\ pc'[q] = "user"
      /\ \A r \in Procs : r # q => pc'[r] = pc[r]
  BY <1>1 DEF CountInv, FramesTyped
<1>3. FramesTyped' /\ FramesExist'
  BY <1>1, <1>2 DEF CountInv, FramesTyped, FramesExist, UsesFrame
<1>4. LockedInside' /\ ForcedWhenFull' /\ FreeFramesAreCounted'
  BY <1>1, <1>2 DEF CountInv, LockedInside, Inside, ForcedWhenFull, FreeFramesAreCounted,
                    FreeFrames
<1>. QED  BY <1>3, <1>4 DEF CountInv

-----------------------------------------------------------------------------
\* A thread uses its variable "page" (pageNumber of LoadPage, i of ReleaseMemory).
UsesPage == {"acquire", "allocate", "get", "evict", "load", "acquireFree", "free"}

\* The page numbers that LoadPage and FreeFrame are called for exist.
PagesExist ==
  /\ pc = [p \in Procs |-> pc[p]]
  /\ page \in [Procs -> Nat]
  /\ \A p \in Procs : pc[p] \in UsesPage => page[p] \in Pages

\* The steps in between, and the steps after which the page is not used.
LEMMA PageStays ==
  ASSUME PagesExist, NEW p \in Procs, NEW here, NEW there, Step(p, here, there),
         page' = page, there \in UsesPage => here \in UsesPage
  PROVE  PagesExist'
BY DEF PagesExist, Step, At

LEMMA PagesExistStep ==
  ASSUME PagesExist, [Next]_vars
  PROVE  PagesExist'
<1>1. CASE UNCHANGED vars
  BY <1>1 DEF PagesExist, vars, processVars
<1>2. ASSUME NEW p \in Procs, InKernel(p) \/ InUser(p) \/ AcquireToAllocate(p) \/ AcquireToFree(p)
      PROVE  PagesExist'
  <2>1. CASE \/ AllocateFrame(p) \/ ChooseVictim(p) \/ GetProcess(p) \/ Evict(p)
             \/ AcquireToAllocate(p) \/ AcquireToFree(p)
    <3>1. /\ page' = page
          /\ \/ Step(p, "acquire", "allocate") \/ Step(p, "allocate", "load")
             \/ Step(p, "allocate", "get") \/ Step(p, "get", "evict")
             \/ Step(p, "evict", "load") \/ Step(p, "acquireFree", "free")
      BY <2>1 DEF AllocateFrame, ChooseVictim, GetProcess, Evict, AcquireToAllocate, AcquireToFree
    <3>. QED  BY <3>1, PageStays DEF UsesPage
  <2>2. CASE LoadPage(p) \/ DeleteSpace(p) \/ LeaveTable(p)
    <3>1. /\ page' = page
          /\ Step(p, "load", "user") \/ Step(p, "release", "leave") \/ Step(p, "leave", "count")
      BY <2>2 DEF LoadPage, DeleteSpace, LeaveTable
    <3>. QED  BY <3>1, PageStays DEF UsesPage
  <2>3. CASE Finish(p) \/ WaitForConsole(p) \/ SysCallHalt(p)
    <3>1. /\ page' = page
          /\ Step(p, "count", "gone") \/ Step(p, "user", "user") \/ Step(p, "user", "halting")
      BY <2>3 DEF Finish, WaitForConsole, SysCallHalt
    <3>. QED  BY <3>1, PageStays DEF UsesPage
  <2>4. CASE ReleaseValid(p)
    BY <2>4, PagingAssumption DEF PagesExist, ReleaseValid, Step, At, Pages, UsesPage
  <2>5. CASE ReleaseInvalid(p) \/ FreeFrame(p)
    BY <2>5 DEF PagesExist, ReleaseInvalid, FreeFrame, Step, At, UsesPage
  <2>6. ASSUME NEW n \in Pages, WriteMem(p, n)
        PROVE  PagesExist'
    <3>1. page' = page /\ Step(p, "user", "user")
      BY <2>6 DEF WriteMem
    <3>. QED  BY <3>1, PageStays DEF UsesPage
  <2>7. ASSUME NEW n \in Pages, PageFault(p, n)
        PROVE  PagesExist'
    BY <2>7, PagingAssumption DEF PagesExist, PageFault, Step, At, Pages, UsesPage
  <2>8. ASSUME NEW q \in Procs, Exec(p, q)
        PROVE  PagesExist'
    BY <2>8 DEF PagesExist, Exec, UsesPage
  <2>9. CASE Exit(p)
    BY <2>9 DEF PagesExist, Exit, Step, At, UsesPage
  <2>. QED  BY <1>2, <2>1, <2>2, <2>3, <2>4, <2>5, <2>6, <2>7, <2>8, <2>9 DEF InKernel, InUser
<1>. QED  BY <1>1, <1>2 DEF Next

LEMMA CountInvStep ==
  ASSUME CountInv, PagesExist, [Next]_vars
  PROVE  CountInv'
<1>1. CASE UNCHANGED vars
  <2>1. UNCHANGED <<pc, frame, pageTable, isOccupied, numberOfFreeFrames, memoryLock>>
    BY <1>1 DEF vars, processVars, spaceVars, frameVars
  <2>. QED  BY <2>1 DEF CountInv, FramesTyped, LockedInside, FramesExist, ForcedWhenFull,
                        FreeFramesAreCounted, FreeFrames
<1>2. ASSUME NEW p \in Procs, InKernel(p) \/ InUser(p) \/ AcquireToAllocate(p) \/ AcquireToFree(p)
      PROVE  CountInv'
  <2>1. CASE AllocateFrame(p)
    BY <2>1, AllocateFrameStep
  <2>2. CASE ChooseVictim(p)
    BY <2>2, ChooseVictimStep
  <2>3. CASE Evict(p)
    BY <2>3, EvictStep
  <2>4. CASE LoadPage(p)
    <3>1. pc[p] = "load"
      BY <2>4 DEF LoadPage, Step, At
    <3>. QED  BY <2>4, <3>1, LoadPageStep DEF PagesExist, UsesPage
  <2>5. CASE ReleaseValid(p)
    <3>1. page[p] \in Pages
      BY <2>5, PagingAssumption DEF ReleaseValid, PagesExist, Pages
    <3>. QED  BY <2>5, <3>1, ReleaseValidStep
  <2>6. CASE FreeFrame(p)
    BY <2>6, FreeFrameStep
  <2>7. ASSUME NEW n \in Pages, WriteMem(p, n)
        PROVE  CountInv'
    BY <2>7, WriteMemStep
  <2>8. ASSUME NEW q \in Procs, Exec(p, q)
        PROVE  CountInv'
    BY <2>8, ExecStep
  <2>9. CASE GetProcess(p) \/ AcquireToAllocate(p) \/ AcquireToFree(p)
    <3>1. CASE GetProcess(p)
      <4>1. /\ Step(p, "get", "evict")
            /\ UNCHANGED <<frame, pageTable, isOccupied, numberOfFreeFrames, memoryLock>>
        BY <3>1 DEF GetProcess, spaceVars, frameVars
      <4>2. memoryLock = p
        BY <4>1 DEF Step, At, CountInv, LockedInside, Inside
      <4>. QED  BY <4>1, <4>2, Elsewhere DEF Inside, UsesFrame
    <3>2. CASE AcquireToAllocate(p)
      <4>1. /\ Step(p, "acquire", "allocate") /\ memoryLock = NoProc /\ memoryLock' = p
            /\ UNCHANGED <<frame, pageTable, isOccupied, numberOfFreeFrames>>
        BY <3>2 DEF AcquireToAllocate, spaceVars, frameVars
      <4>. QED  BY <4>1, Elsewhere DEF Inside, UsesFrame
    <3>3. CASE AcquireToFree(p)
      <4>1. /\ Step(p, "acquireFree", "free") /\ memoryLock = NoProc /\ memoryLock' = p
            /\ UNCHANGED <<frame, pageTable, isOccupied, numberOfFreeFrames>>
        BY <3>3 DEF AcquireToFree, spaceVars, frameVars
      <4>. QED  BY <4>1, Elsewhere DEF Inside, UsesFrame
    <3>. QED  BY <2>9, <3>1, <3>2, <3>3
  <2>10. ASSUME NEW n \in Pages, PageFault(p, n)
         PROVE  CountInv'
    <3>1. /\ Step(p, "user", "acquire")
          /\ UNCHANGED <<frame, pageTable, isOccupied, numberOfFreeFrames, memoryLock>>
      BY <2>10 DEF PageFault, spaceVars, frameVars
    <3>. QED  BY <3>1, Elsewhere DEF Inside, UsesFrame
  <2>11. CASE WaitForConsole(p) \/ SysCallHalt(p) \/ Exit(p)
    <3>1. /\ Step(p, "user", "user") \/ Step(p, "user", "halting") \/ Step(p, "user", "release")
          /\ UNCHANGED <<frame, pageTable, isOccupied, numberOfFreeFrames, memoryLock>>
      BY <2>11 DEF WaitForConsole, SysCallHalt, Exit, spaceVars, frameVars
    <3>. QED  BY <3>1, Elsewhere DEF Inside, UsesFrame
  <2>12. CASE ReleaseInvalid(p) \/ DeleteSpace(p)
    <3>1. /\ Step(p, "release", "release") \/ Step(p, "release", "leave")
          /\ UNCHANGED <<frame, pageTable, isOccupied, numberOfFreeFrames, memoryLock>>
      BY <2>12 DEF ReleaseInvalid, DeleteSpace, spaceVars, frameVars
    <3>. QED  BY <3>1, Elsewhere DEF Inside, UsesFrame
  <2>13. CASE LeaveTable(p) \/ Finish(p)
    <3>1. /\ Step(p, "leave", "count") \/ Step(p, "count", "gone")
          /\ UNCHANGED <<frame, pageTable, isOccupied, numberOfFreeFrames, memoryLock>>
      BY <2>13 DEF LeaveTable, Finish, spaceVars, frameVars
    <3>. QED  BY <3>1, Elsewhere DEF Inside, UsesFrame
  <2>. QED  BY <1>2, <2>1, <2>2, <2>3, <2>4, <2>5, <2>6, <2>7, <2>8, <2>9, <2>10, <2>11, <2>12,
               <2>13 DEF InKernel, InUser
<1>. QED  BY <1>1, <1>2 DEF Next

LEMMA StartsCounted == Init => CountInv /\ PagesExist
<1>. SUFFICES ASSUME Init PROVE CountInv /\ PagesExist
  OBVIOUS
<1>1. FreeFrames = Frames /\ Cardinality(Frames) = NumPhysPages
  BY PagingAssumption, FS_Interval DEF Init, FreeFrames, Frames
<1>2. FreeFramesAreCounted
  BY <1>1 DEF Init, FreeFramesAreCounted
<1>3. /\ pageTable = [p \in Procs |-> [n \in Pages |-> Unmapped]]
      /\ Unmapped \in [physicalPage : Frames \cup {NoFrame}, valid : BOOLEAN, dirty : BOOLEAN]
      /\ Unmapped.valid = FALSE
  BY DEF Init, Unmapped
<1>. DEFINE Entries == [physicalPage : Frames \cup {NoFrame}, valid : BOOLEAN, dirty : BOOLEAN]
<1>4. pageTable \in [Procs -> [Pages -> Entries]]
  BY <1>3
<1>5. FramesTyped
  BY <1>4, PagingAssumption DEF Init, FramesTyped
<1>6. \A p \in Procs, n \in Pages : ~pageTable[p][n].valid
  BY <1>3
<1>7. FramesExist /\ LockedInside /\ ForcedWhenFull
  BY <1>6 DEF Init, FramesExist, LockedInside, ForcedWhenFull, UsesFrame, Inside
<1>8. PagesExist
  BY DEF Init, PagesExist, UsesPage
<1>. QED  BY <1>2, <1>5, <1>7, <1>8 DEF CountInv

\* numberOfFreeFrames is exact for any number of processes, pages and frames,
\* and with any preemption: AllocateFrame always finds the frame it counted on,
\* in spite of the frames that ReleaseMemory frees late.
THEOREM FreeFramesCounted == Spec => []FreeFramesAreCounted
<1>. DEFINE Inv == CountInv /\ PagesExist
<1>1. Init => Inv
  BY StartsCounted
<1>2. Inv /\ [Next]_vars => Inv'
  BY CountInvStep, PagesExistStep
<1>3. Inv => FreeFramesAreCounted
  BY DEF CountInv
<1>. QED  BY <1>1, <1>2, <1>3, PTL DEF Spec

-----------------------------------------------------------------------------
(***************************************************************************)
(* The process table.  A process has its slot from Exec, or from the       *)
(* start, until ProcessTable::Release, and nProcesses counts the slots in  *)
(* use, with any preemption.                                               *)
(***************************************************************************)
Places == {"none", "user", "acquire", "allocate", "get", "evict", "load", "release",
           "acquireFree", "free", "leave", "count", "gone", "halting"}

\* Where a process is not in the table.
Out == {"none", "count", "gone"}

TableTyped ==
  /\ pc \in [Procs -> Places]
  /\ table \in [Slots -> Procs \cup {NoProc}]
  /\ threadID \in [Procs -> 0 .. TableSize]

SlotsAreRight ==
  /\ \A p \in Procs : pc[p] \notin Out => threadID[p] \in Slots /\ table[threadID[p]] = p
  /\ \A i \in Slots : table[i] # NoProc => pc[table[i]] \notin Out /\ threadID[table[i]] = i

SlotsInUse == {i \in Slots : table[i] # NoProc}

TableInv ==
  TableTyped /\ SlotsAreRight /\ nProcesses = Cardinality(SlotsInUse) /\ NobodyIsCutShort

LEMMA SlotsAreFinite ==
  /\ IsFiniteSet(SlotsInUse) /\ Cardinality(SlotsInUse) \in 0 .. TableSize
  /\ Cardinality(SlotsInUse) = 0 <=> SlotsInUse = {}
<1>1. IsFiniteSet(Slots) /\ Cardinality(Slots) = TableSize
  BY PagingAssumption, FS_Interval DEF Slots
<1>2. SlotsInUse \subseteq Slots
  BY DEF SlotsInUse
<1>. QED  BY <1>1, <1>2, FS_Subset, FS_CardinalityType, FS_EmptySet, PagingAssumption

\* The steps that leave the table alone.
LEMMA TableStays ==
  ASSUME TableInv, NEW p \in Procs, NEW here, NEW there \in Places, Step(p, here, there),
         UNCHANGED tableVars,
         here \in Out <=> there \in Out,
         halted' => there = "halting"
  PROVE  TableInv'
<1>1. /\ pc[p] = here /\ pc' = [pc EXCEPT ![p] = there]
      /\ UNCHANGED <<table, nProcesses, threadID>>
  BY DEF Step, At, tableVars
<1>2. TableTyped' /\ SlotsAreRight'
  BY <1>1, PagingAssumption DEF TableInv, TableTyped, SlotsAreRight
<1>3. NobodyIsCutShort'
  BY <1>1 DEF TableInv, TableTyped, NobodyIsCutShort
<1>. QED  BY <1>1, <1>2, <1>3 DEF TableInv, SlotsInUse

LEMMA ExecTable ==
  ASSUME TableInv, NEW p \in Procs, NEW q \in Procs, Exec(p, q)
  PROVE  TableInv'
<1>1. PICK i : i = Min({j \in Slots : table[j] = NoProc})
  OBVIOUS
<1>2. /\ ~halted /\ pc[q] = "none" /\ pc' = [pc EXCEPT ![q] = "user"]
      /\ {j \in Slots : table[j] = NoProc} # {}
      /\ table' = [table EXCEPT ![i] = q] /\ threadID' = [threadID EXCEPT ![q] = i]
      /\ nProcesses' = nProcesses + 1 /\ halted' = halted
  BY <1>1 DEF Exec, At, endVars
<1>3. i \in Slots /\ table[i] = NoProc
  <2>1. {j \in Slots : table[j] = NoProc} \subseteq Nat
    BY DEF Slots
  <2>. QED  BY <1>1, <1>2, <2>1, LeastIsThere
<1>4. TableTyped'
  BY <1>2, <1>3, PagingAssumption DEF TableInv, TableTyped, Places, Slots
<1>5. SlotsAreRight'
  BY <1>2, <1>3, PagingAssumption DEF TableInv, TableTyped, SlotsAreRight, Out
<1>6. SlotsInUse' = SlotsInUse \cup {i} /\ i \notin SlotsInUse
  BY <1>2, <1>3, PagingAssumption DEF SlotsInUse, TableInv, TableTyped
<1>7. nProcesses' = Cardinality(SlotsInUse')
  BY <1>2, <1>6, SlotsAreFinite, FS_AddElement DEF TableInv
<1>. QED  BY <1>2, <1>4, <1>5, <1>7 DEF TableInv, NobodyIsCutShort

LEMMA LeaveTableStep ==
  ASSUME TableInv, NEW p \in Procs, LeaveTable(p)
  PROVE  TableInv'
<1>1. PICK i : i = threadID[p]
  OBVIOUS
<1>2. /\ ~halted /\ pc[p] = "leave" /\ pc' = [pc EXCEPT ![p] = "count"]
      /\ table' = [table EXCEPT ![i] = NoProc]
      /\ nProcesses' = nProcesses - 1 /\ halted' = halted /\ threadID' = threadID
  BY <1>1 DEF LeaveTable, Step, At, endVars
<1>3. i \in Slots /\ table[i] = p
  BY <1>1, <1>2 DEF TableInv, SlotsAreRight, Out
<1>4. TableTyped'
  BY <1>2 DEF TableInv, TableTyped, Places
<1>5. SlotsAreRight'
  BY <1>1, <1>2, <1>3, PagingAssumption DEF TableInv, TableTyped, SlotsAreRight, Out
<1>6. SlotsInUse' = SlotsInUse \ {i} /\ i \in SlotsInUse
  BY <1>2, <1>3, PagingAssumption DEF SlotsInUse, TableInv, TableTyped
<1>7. nProcesses' = Cardinality(SlotsInUse')
  BY <1>2, <1>6, SlotsAreFinite, FS_RemoveElement DEF TableInv
<1>. QED  BY <1>2, <1>4, <1>5, <1>7 DEF TableInv, NobodyIsCutShort

LEMMA FinishTable ==
  ASSUME TableInv, NEW p \in Procs, Finish(p)
  PROVE  TableInv'
<1>1. /\ pc[p] = "count" /\ pc' = [pc EXCEPT ![p] = "gone"]
      /\ halted' = (nProcesses = 0) /\ UNCHANGED <<table, nProcesses, threadID>>
  BY DEF Finish, Step, At, tableVars
<1>2. TableTyped' /\ SlotsAreRight'
  BY <1>1, PagingAssumption DEF TableInv, TableTyped, SlotsAreRight, Places, Out
<1>3. ASSUME halted'  PROVE \A q \in Procs : pc'[q] \in {"none", "count", "gone"}
  <2>1. SlotsInUse = {}
    BY <1>1, <1>3, SlotsAreFinite DEF TableInv
  <2>2. \A q \in Procs : pc[q] \in Out
    BY <2>1, PagingAssumption DEF TableInv, SlotsAreRight, SlotsInUse
  <2>. QED  BY <1>1, <2>2 DEF TableInv, TableTyped, Out
<1>. QED  BY <1>1, <1>2, <1>3 DEF TableInv, NobodyIsCutShort, SlotsInUse

LEMMA TableInvStep ==
  ASSUME TableInv, [Next]_vars
  PROVE  TableInv'
<1>1. CASE UNCHANGED vars
  BY <1>1 DEF TableInv, TableTyped, SlotsAreRight, NobodyIsCutShort, SlotsInUse, vars,
              processVars, tableVars, endVars
<1>2. ASSUME NEW p \in Procs, NEW here \in Places \ Out, NEW there \in Places \ Out,
             Step(p, here, there), UNCHANGED <<tableVars, halted>>
      PROVE  TableInv'
  <2>1. ~halted
    BY <1>2 DEF Step, At
  <2>. QED  BY <1>2, <2>1, TableStays
<1>3. ASSUME NEW p \in Procs, InKernel(p) \/ InUser(p) \/ AcquireToAllocate(p) \/ AcquireToFree(p)
      PROVE  TableInv'
  <2>1. CASE \/ AllocateFrame(p) \/ ChooseVictim(p) \/ GetProcess(p) \/ Evict(p) \/ LoadPage(p)
             \/ AcquireToAllocate(p) \/ AcquireToFree(p)
    <3>1. /\ UNCHANGED <<tableVars, halted>>
          /\ \E here \in Places \ Out, there \in Places \ Out : Step(p, here, there)
      BY <2>1 DEF AllocateFrame, ChooseVictim, GetProcess, Evict, LoadPage, AcquireToAllocate,
                  AcquireToFree, endVars, Places, Out
    <3>. QED  BY <1>2, <3>1
  <2>2. CASE ReleaseValid(p) \/ ReleaseInvalid(p) \/ FreeFrame(p) \/ DeleteSpace(p)
    <3>1. /\ UNCHANGED <<tableVars, halted>>
          /\ \E here \in Places \ Out, there \in Places \ Out : Step(p, here, there)
      BY <2>2 DEF ReleaseValid, ReleaseInvalid, FreeFrame, DeleteSpace, endVars, Places, Out
    <3>. QED  BY <1>2, <3>1
  <2>3. CASE WaitForConsole(p) \/ Exit(p) \/ \E n \in Pages : WriteMem(p, n) \/ PageFault(p, n)
    <3>1. /\ UNCHANGED <<tableVars, halted>>
          /\ \E here \in Places \ Out, there \in Places \ Out : Step(p, here, there)
      BY <2>3 DEF WaitForConsole, Exit, WriteMem, PageFault, endVars, Places, Out
    <3>. QED  BY <1>2, <3>1
  <2>4. CASE SysCallHalt(p)
    BY <2>4, TableStays DEF SysCallHalt, Places, Out
  <2>. QED  BY <1>3, <2>1, <2>2, <2>3, <2>4, ExecTable, LeaveTableStep, FinishTable
            DEF InKernel, InUser
<1>. QED  BY <1>1, <1>3 DEF Next

LEMMA TableStarts == Init => TableInv
<1>. SUFFICES ASSUME Init PROVE TableInv
  OBVIOUS
<1>1. 1 \in Slots /\ 1 \in 0 .. TableSize
  BY PagingAssumption DEF Slots
<1>2. TableTyped /\ SlotsAreRight /\ NobodyIsCutShort
  BY <1>1, PagingAssumption
     DEF Init, TableTyped, SlotsAreRight, NobodyIsCutShort, Places, Out
<1>3. SlotsInUse = {1}
  BY <1>1, PagingAssumption DEF Init, SlotsInUse
<1>. QED  BY <1>2, <1>3, FS_Singleton DEF Init, TableInv

\* The last process to leave the table stops the machine and no earlier one does,
\* for any number of processes and with any preemption.
THEOREM NobodyCutShort == Spec => []NobodyIsCutShort
<1>1. TableInv => NobodyIsCutShort
  BY DEF TableInv
<1>. QED  BY <1>1, TableStarts, TableInvStep, PTL DEF Spec

-----------------------------------------------------------------------------
(***************************************************************************)
(* The unpreempted system: a process keeps the CPU through its system call *)
(* or page fault, and page tables and frames agree whenever another one    *)
(* gets it.                                                                *)
(***************************************************************************)
OneAtATime ==
  /\ running \in Procs
  /\ \A q \in Procs : q # running => pc[q] \in {"none", "user", "gone"}

LockIsHeld ==
  /\ memoryLock \in Procs \cup {NoProc}
  /\ \A p \in Procs : memoryLock = p <=> pc[p] \in Inside

\* The loop of ReleaseMemory has gone past page n of p.
GivenUp(p, n) ==
  \/ pc[p] \in {"leave", "count", "gone"}
  \/ pc[p] \in {"release", "acquireFree", "free"} /\ n < page[p]

Has(p, n)      == pageTable[p][n].valid /\ ~GivenUp(p, n)
Loads(p, n, f) == pc[p] = "load" /\ page[p] = n /\ frame[p] = f

PagesInFrames ==
  \A p \in Procs, n \in Pages : Has(p, n) =>
    LET f == pageTable[p][n].physicalPage IN isOccupied[f] /\ pageTableEntry[f] = <<p, n>>

FramesInPages ==
  \A f \in Frames : isOccupied[f] =>
    /\ pageTableEntry[f] \in Procs \X Pages
    /\ \A p \in Procs, n \in Pages : pageTableEntry[f] = <<p, n>> =>
         /\ processID[f] = threadID[p]
         /\ (Has(p, n) /\ pageTable[p][n].physicalPage = f) \/ Loads(p, n, f)

\* What a process has, where it is.
PlaceIsRight(p) ==
  /\ pc[p] = "load" => isOccupied[frame[p]] /\ pageTableEntry[frame[p]] = <<p, page[p]>>
  /\ pc[p] \in {"acquire", "allocate", "get", "evict", "load"} => ~pageTable[p][page[p]].valid
  /\ pc[p] \in {"acquireFree", "free"} =>
       /\ pageTable[p][page[p]].valid
       /\ frame[p] = pageTable[p][page[p]].physicalPage
  /\ pc[p] = "none" => \A n \in Pages : pageTable[p][n] = Unmapped /\ swapped[p][n] = {}

PlacesInv == \A p \in Procs : PlaceIsRight(p)

DataTyped ==
  /\ page \in [Procs -> 0 .. NumPages]
  /\ swapped \in [Procs -> [Pages -> SUBSET Contents]]
  /\ processID \in [Frames -> 0 .. TableSize]
  /\ pageTableEntry \in [Frames -> (Procs \X Pages) \cup {NoEntry}]
  /\ mainMemory \in [Frames -> SUBSET Contents]
  /\ crashed = FALSE /\ halted \in BOOLEAN

BaseInv  == CountInv /\ PagesExist /\ TableInv
AgreeInv == DataTyped /\ OneAtATime /\ LockIsHeld /\ PagesInFrames /\ FramesInPages /\ PlacesInv

\* The process that takes a step has the CPU, and the others are in user mode.
LEMMA HasTheCPU ==
  ASSUME ~Preemptive, BaseInv, AgreeInv, NEW p \in Procs, NEW here, At(p, here)
  PROVE  running = p /\ \A q \in Procs \ {p} : pc[q] \in {"none", "user", "gone"}
BY DEF At, AgreeInv, OneAtATime

LEMMA LockMoves ==
  ASSUME BaseInv, AgreeInv, NEW p \in Procs, NEW here, NEW there, Step(p, here, there),
         \/ (here \in Inside <=> there \in Inside) /\ memoryLock' = memoryLock
         \/ here \in Inside /\ there \notin Inside /\ memoryLock' = NoProc
         \/ here \notin Inside /\ there \in Inside /\ memoryLock = NoProc /\ memoryLock' = p
  PROVE  LockIsHeld'
<1>1. pc[p] = here /\ pc' = [pc EXCEPT ![p] = there] /\ pc = [q \in Procs |-> pc[q]]
  BY DEF Step, At, BaseInv, CountInv, FramesTyped
<1>. QED  BY <1>1, PagingAssumption DEF AgreeInv, LockIsHeld

\* What a process has does not change.
LEMMA FramesStay ==
  ASSUME AgreeInv,
         \A p \in Procs, n \in Pages :
           /\ Has(p, n)' = Has(p, n)
           /\ pageTable'[p][n].physicalPage = pageTable[p][n].physicalPage,
         \A p \in Procs : pc[p] # "load" /\ (threadID'[p] = threadID[p] \/ pc[p] = "none"),
         UNCHANGED <<isOccupied, processID, pageTableEntry>>
  PROVE  PagesInFrames' /\ FramesInPages'
<1>1. PagesInFrames'
  BY DEF AgreeInv, PagesInFrames
<1>2. \A p \in Procs, n \in Pages : Has(p, n) => pc[p] # "none"
  BY DEF AgreeInv, PlacesInv, PlaceIsRight, Has, Unmapped
<1>3. FramesInPages'
  BY <1>2 DEF AgreeInv, FramesInPages, Loads
<1>. QED  BY <1>1, <1>3

\* The steps inside a system call or page fault that change no frame: what is
\* left to show of them is where they take the process.
LEMMA CalmStep ==
  ASSUME ~Preemptive, BaseInv, AgreeInv, NEW p \in Procs, NEW here, NEW there,
         Step(p, here, there), here # "load", there # "none", there # "load",
         running' \in Procs, running' = p \/ there \in {"user", "gone"},
         DataTyped', LockIsHeld',
         UNCHANGED <<pageTable, swapped, isOccupied, processID, pageTableEntry, threadID>>,
         \A n \in Pages : Has(p, n)' = Has(p, n),
         \A q \in Procs \ {p} : page'[q] = page[q] /\ frame'[q] = frame[q],
         PlaceIsRight(p)'
  PROVE  AgreeInv'
<1>1. /\ pc[p] = here /\ pc' = [pc EXCEPT ![p] = there] /\ pc = [q \in Procs |-> pc[q]]
  BY DEF Step, At, BaseInv, CountInv, FramesTyped
<1>2. \A q \in Procs \ {p} : pc[q] \in {"none", "user", "gone"} /\ pc'[q] = pc[q]
  BY <1>1, HasTheCPU DEF Step
<1>3. OneAtATime'
  BY <1>1, <1>2 DEF OneAtATime
<1>4. \A q \in Procs, n \in Pages : Has(q, n)' = Has(q, n)
  <2>. SUFFICES ASSUME NEW q \in Procs \ {p}, NEW n \in Pages PROVE Has(q, n)' = Has(q, n)
    OBVIOUS
  <2>. QED  BY <1>2 DEF Has, GivenUp
<1>5. PagesInFrames' /\ FramesInPages'
  BY <1>1, <1>2, <1>4, FramesStay
<1>6. PlacesInv'
  BY <1>2 DEF AgreeInv, PlacesInv, PlaceIsRight
<1>. QED  BY <1>3, <1>5, <1>6 DEF AgreeInv
LEMMA ReleaseAgrees ==
  ASSUME ~Preemptive, BaseInv, AgreeInv, NEW p \in Procs,
         \/ ReleaseValid(p) \/ ReleaseInvalid(p) \/ AcquireToFree(p)
         \/ DeleteSpace(p) \/ LeaveTable(p) \/ Finish(p) \/ Exit(p)
  PROVE  AgreeInv'
<1> USE PagingAssumption
<1>0. /\ pc = [q \in Procs |-> pc[q]] /\ page \in [Procs -> 0 .. NumPages]
      /\ frame = [q \in Procs |-> frame[q]]
      /\ DataTyped /\ PlaceIsRight(p) /\ running \in Procs
      /\ Pages = 0 .. (NumPages - 1) /\ NumPages \in Nat
  BY DEF BaseInv, CountInv, FramesTyped, AgreeInv, DataTyped, PlacesInv, OneAtATime, Pages
<1>1. CASE ReleaseValid(p)
  <2>1. /\ Step(p, "release", "acquireFree") /\ pageTable[p][page[p]].valid
        /\ frame' = [frame EXCEPT ![p] = pageTable[p][page[p]].physicalPage]
        /\ UNCHANGED <<running, page, spaceVars, frameVars, mainMemory, memoryLock, tableVars, endVars>>
    BY <1>1 DEF ReleaseValid
  <2>2. pc[p] = "release" /\ pc' = [pc EXCEPT ![p] = "acquireFree"] /\ running = p
    BY <2>1, HasTheCPU DEF Step, At
  <2>3. DataTyped'
    BY <1>0, <2>1 DEF DataTyped, spaceVars, frameVars, endVars
  <2>4. LockIsHeld'
    BY <2>1, LockMoves DEF Inside
  <2>5. PlaceIsRight(p)'
    BY <1>0, <2>1, <2>2 DEF PlaceIsRight, spaceVars
  <2>6. \A n \in Pages : Has(p, n)' = Has(p, n)
    BY <1>0, <2>1, <2>2 DEF Has, GivenUp, spaceVars
  <2>. QED  BY <1>0, <2>1, <2>2, <2>3, <2>4, <2>5, <2>6, CalmStep DEF spaceVars, frameVars, tableVars
<1>2. CASE ReleaseInvalid(p)
  <2>1. /\ Step(p, "release", "release") /\ page[p] < NumPages /\ ~pageTable[p][page[p]].valid
        /\ page' = [page EXCEPT ![p] = @ + 1]
        /\ UNCHANGED <<running, frame, spaceVars, frameVars, mainMemory, memoryLock, tableVars, endVars>>
    BY <1>2 DEF ReleaseInvalid
  <2>2. pc[p] = "release" /\ pc' = [pc EXCEPT ![p] = "release"] /\ running = p
    BY <2>1, HasTheCPU DEF Step, At
  <2>3. DataTyped'
    BY <1>0, <2>1 DEF DataTyped, spaceVars, frameVars, endVars
  <2>4. LockIsHeld'
    BY <2>1, LockMoves DEF Inside
  <2>5. PlaceIsRight(p)'
    BY <1>0, <2>1, <2>2 DEF PlaceIsRight, spaceVars
  <2>6. \A n \in Pages : Has(p, n)' = Has(p, n)
    <3>. SUFFICES ASSUME NEW n \in Pages PROVE Has(p, n)' = Has(p, n)
      OBVIOUS
    <3>1. page'[p] = page[p] + 1 /\ n \in Nat /\ page[p] \in Nat
      BY <1>0, <2>1
    <3>2. n < page'[p] <=> n < page[p] \/ n = page[p]
      BY <3>1
    <3>. QED  BY <1>0, <2>1, <2>2, <3>2 DEF Has, GivenUp, spaceVars
  <2>. QED  BY <1>0, <2>1, <2>2, <2>3, <2>4, <2>5, <2>6, CalmStep DEF spaceVars, frameVars, tableVars
<1>3. CASE AcquireToFree(p)
  <2>1. /\ Step(p, "acquireFree", "free") /\ memoryLock = NoProc /\ memoryLock' = p
        /\ UNCHANGED <<running, page, frame, spaceVars, frameVars, mainMemory, tableVars, endVars>>
    BY <1>3 DEF AcquireToFree
  <2>2. pc[p] = "acquireFree" /\ pc' = [pc EXCEPT ![p] = "free"] /\ running = p
    BY <2>1, HasTheCPU DEF Step, At
  <2>3. DataTyped'
    BY <1>0, <2>1 DEF DataTyped, spaceVars, frameVars, endVars
  <2>4. LockIsHeld'
    BY <2>1, LockMoves DEF Inside
  <2>5. PlaceIsRight(p)'
    BY <1>0, <2>1, <2>2 DEF PlaceIsRight, spaceVars
  <2>6. \A n \in Pages : Has(p, n)' = Has(p, n)
    BY <1>0, <2>1, <2>2 DEF Has, GivenUp, spaceVars
  <2>. QED  BY <1>0, <2>1, <2>2, <2>3, <2>4, <2>5, <2>6, CalmStep DEF spaceVars, frameVars, tableVars
<1>4. CASE DeleteSpace(p)
  <2>1. /\ Step(p, "release", "leave") /\ page[p] = NumPages
        /\ UNCHANGED <<running, page, frame, spaceVars, frameVars, mainMemory, memoryLock, tableVars, endVars>>
    BY <1>4 DEF DeleteSpace
  <2>2. pc[p] = "release" /\ pc' = [pc EXCEPT ![p] = "leave"] /\ running = p
    BY <2>1, HasTheCPU DEF Step, At
  <2>3. DataTyped'
    BY <1>0, <2>1 DEF DataTyped, spaceVars, frameVars, endVars
  <2>4. LockIsHeld'
    BY <2>1, LockMoves DEF Inside
  <2>5. PlaceIsRight(p)'
    BY <1>0, <2>1, <2>2 DEF PlaceIsRight, spaceVars
  <2>6. \A n \in Pages : Has(p, n)' = Has(p, n)
    BY <1>0, <2>1, <2>2 DEF Has, GivenUp, spaceVars
  <2>. QED  BY <1>0, <2>1, <2>2, <2>3, <2>4, <2>5, <2>6, CalmStep DEF spaceVars, frameVars, tableVars
<1>5. CASE LeaveTable(p) \/ Finish(p)
  <2>1. PICK there \in {"count", "gone"} :
          /\ Step(p, IF there = "count" THEN "leave" ELSE "count", there)
          /\ running' \in Procs /\ (there = "count" => running' = running)
          /\ halted' \in BOOLEAN
          /\ UNCHANGED <<page, frame, spaceVars, frameVars, mainMemory, memoryLock, threadID, crashed>>
    <3>1. CASE LeaveTable(p)
      BY <1>0, <3>1 DEF LeaveTable, DataTyped, endVars
    <3>2. CASE Finish(p)
      BY <1>0, <3>2 DEF Finish, Live, tableVars
    <3>. QED  BY <1>5, <3>1, <3>2
  <2>2. /\ pc[p] \in {"leave", "count"} /\ pc' = [pc EXCEPT ![p] = there]
        /\ there = "count" => running' = p
    BY <2>1, HasTheCPU DEF Step, At
  <2>3. DataTyped'
    BY <1>0, <2>1 DEF DataTyped, spaceVars, frameVars
  <2>4. LockIsHeld'
    BY <2>1, LockMoves DEF Inside
  <2>5. PlaceIsRight(p)'
    BY <1>0, <2>1, <2>2 DEF PlaceIsRight, spaceVars
  <2>6. \A n \in Pages : Has(p, n)' = Has(p, n)
    BY <1>0, <2>1, <2>2 DEF Has, GivenUp, spaceVars
  <2>. QED  BY <1>0, <2>1, <2>2, <2>3, <2>4, <2>5, <2>6, CalmStep DEF spaceVars, frameVars
<1>6. CASE Exit(p)
  <2>1. /\ Step(p, "user", "release") /\ page' = [page EXCEPT ![p] = 0]
        /\ UNCHANGED <<running, frame, spaceVars, frameVars, mainMemory, memoryLock, tableVars, endVars>>
    BY <1>6 DEF Exit
  <2>2. pc[p] = "user" /\ pc' = [pc EXCEPT ![p] = "release"] /\ running = p
    BY <2>1, HasTheCPU DEF Step, At
  <2>3. DataTyped'
    BY <1>0, <2>1 DEF DataTyped, spaceVars, frameVars, endVars
  <2>4. LockIsHeld'
    BY <2>1, LockMoves DEF Inside
  <2>5. PlaceIsRight(p)'
    BY <1>0, <2>1, <2>2 DEF PlaceIsRight, spaceVars
  <2>6. \A n \in Pages : Has(p, n)' = Has(p, n)
    BY <1>0, <2>1, <2>2 DEF Has, GivenUp, spaceVars
  <2>. QED  BY <1>0, <2>1, <2>2, <2>3, <2>4, <2>5, <2>6, CalmStep DEF spaceVars, frameVars, tableVars
<1>. QED  BY <1>1, <1>2, <1>3, <1>4, <1>5, <1>6

LEMMA KernelEntryAgrees ==
  ASSUME ~Preemptive, BaseInv, AgreeInv, NEW p \in Procs,
         \/ AcquireToAllocate(p) \/ ChooseVictim(p) \/ GetProcess(p)
         \/ WaitForConsole(p) \/ SysCallHalt(p) \/ \E n \in Pages : PageFault(p, n)
  PROVE  AgreeInv'
<1> USE PagingAssumption
<1>0. /\ pc = [q \in Procs |-> pc[q]] /\ page \in [Procs -> 0 .. NumPages]
      /\ frame = [q \in Procs |-> frame[q]]
      /\ DataTyped /\ PlaceIsRight(p) /\ running \in Procs
      /\ Pages = 0 .. (NumPages - 1) /\ NumPages \in Nat
  BY DEF BaseInv, CountInv, FramesTyped, AgreeInv, DataTyped, PlacesInv, OneAtATime, Pages
<1>1. CASE AcquireToAllocate(p)
  <2>1. /\ Step(p, "acquire", "allocate") /\ memoryLock = NoProc /\ memoryLock' = p
        /\ UNCHANGED <<running, page, frame, spaceVars, frameVars, mainMemory, tableVars, endVars>>
    BY <1>1 DEF AcquireToAllocate
  <2>2. pc[p] = "acquire" /\ pc' = [pc EXCEPT ![p] = "allocate"] /\ running = p
    BY <2>1, HasTheCPU DEF Step, At
  <2>3. DataTyped'
    BY <1>0, <2>1 DEF DataTyped, spaceVars, frameVars, endVars
  <2>4. LockIsHeld'
    BY <2>1, LockMoves DEF Inside
  <2>5. PlaceIsRight(p)'
    BY <1>0, <2>1, <2>2 DEF PlaceIsRight, spaceVars
  <2>6. \A n \in Pages : Has(p, n)' = Has(p, n)
    BY <1>0, <2>1, <2>2 DEF Has, GivenUp, spaceVars
  <2>. QED  BY <1>0, <2>1, <2>2, <2>3, <2>4, <2>5, <2>6, CalmStep DEF spaceVars, frameVars, tableVars
<1>2. CASE ChooseVictim(p)
  <2>1. /\ Step(p, "allocate", "get")
        /\ \E victim \in Frames : frame' = [frame EXCEPT ![p] = victim]
        /\ UNCHANGED <<running, page, spaceVars, frameVars, mainMemory, memoryLock, tableVars, endVars>>
    BY <1>2 DEF ChooseVictim
  <2>2. pc[p] = "allocate" /\ pc' = [pc EXCEPT ![p] = "get"] /\ running = p
    BY <2>1, HasTheCPU DEF Step, At
  <2>3. DataTyped'
    BY <1>0, <2>1 DEF DataTyped, spaceVars, frameVars, endVars
  <2>4. LockIsHeld'
    BY <2>1, LockMoves DEF Inside
  <2>5. PlaceIsRight(p)'
    BY <1>0, <2>1, <2>2 DEF PlaceIsRight, spaceVars
  <2>6. \A n \in Pages : Has(p, n)' = Has(p, n)
    BY <1>0, <2>1, <2>2 DEF Has, GivenUp, spaceVars
  <2>. QED  BY <1>0, <2>1, <2>2, <2>3, <2>4, <2>5, <2>6, CalmStep DEF spaceVars, frameVars, tableVars
<1>3. CASE GetProcess(p)
  <2>1. /\ Step(p, "get", "evict") /\ crashed' = (table[processID[frame[p]]] = NoProc)
        /\ UNCHANGED <<running, page, frame, spaceVars, frameVars, mainMemory, memoryLock, tableVars, halted>>
    BY <1>3 DEF GetProcess
  <2>2. pc[p] = "get" /\ pc' = [pc EXCEPT ![p] = "evict"] /\ running = p
    BY <2>1, HasTheCPU DEF Step, At
  <2>3. DataTyped'
    <3>1. frame[p] \in Frames /\ frame[p] \notin FreeFrames
      BY <2>2, FreeFramesAreFinite
         DEF BaseInv, CountInv, FramesExist, UsesFrame, ForcedWhenFull, FreeFramesAreCounted
    <3>2. PICK q \in Procs, n \in Pages :
            /\ pageTableEntry[frame[p]] = <<q, n>> /\ processID[frame[p]] = threadID[q]
            /\ Has(q, n) \/ pc[q] = "load"
      BY <3>1 DEF FreeFrames, AgreeInv, FramesInPages, Loads
    <3>3. pc[q] \notin Out
      BY <3>2 DEF Has, GivenUp, AgreeInv, PlacesInv, PlaceIsRight, Unmapped, Out
    <3>4. table[processID[frame[p]]] = q
      BY <3>2, <3>3 DEF BaseInv, TableInv, SlotsAreRight
    <3>. QED  BY <1>0, <2>1, <3>4 DEF DataTyped, spaceVars, frameVars
  <2>4. LockIsHeld'
    BY <2>1, LockMoves DEF Inside
  <2>5. PlaceIsRight(p)'
    BY <1>0, <2>1, <2>2 DEF PlaceIsRight, spaceVars
  <2>6. \A n \in Pages : Has(p, n)' = Has(p, n)
    BY <1>0, <2>1, <2>2 DEF Has, GivenUp, spaceVars
  <2>. QED  BY <1>0, <2>1, <2>2, <2>3, <2>4, <2>5, <2>6, CalmStep DEF spaceVars, frameVars, tableVars
<1>4. CASE WaitForConsole(p)
  <2>1. /\ Step(p, "user", "user") /\ running' \in Procs
        /\ UNCHANGED <<page, frame, spaceVars, frameVars, mainMemory, memoryLock, tableVars, endVars>>
    BY <1>4 DEF WaitForConsole, Live
  <2>2. pc[p] = "user" /\ pc' = [pc EXCEPT ![p] = "user"] /\ running = p
    BY <2>1, HasTheCPU DEF Step, At
  <2>3. DataTyped'
    BY <1>0, <2>1 DEF DataTyped, spaceVars, frameVars, endVars
  <2>4. LockIsHeld'
    BY <2>1, LockMoves DEF Inside
  <2>5. PlaceIsRight(p)'
    BY <1>0, <2>1, <2>2 DEF PlaceIsRight, spaceVars
  <2>6. \A n \in Pages : Has(p, n)' = Has(p, n)
    BY <1>0, <2>1, <2>2 DEF Has, GivenUp, spaceVars
  <2>. QED  BY <1>0, <2>1, <2>2, <2>3, <2>4, <2>5, <2>6, CalmStep DEF spaceVars, frameVars, tableVars
<1>5. CASE SysCallHalt(p)
  <2>1. /\ Step(p, "user", "halting") /\ halted' = TRUE
        /\ UNCHANGED <<running, page, frame, spaceVars, frameVars, mainMemory, memoryLock, tableVars, crashed>>
    BY <1>5 DEF SysCallHalt
  <2>2. pc[p] = "user" /\ pc' = [pc EXCEPT ![p] = "halting"] /\ running = p
    BY <2>1, HasTheCPU DEF Step, At
  <2>3. DataTyped'
    BY <1>0, <2>1 DEF DataTyped, spaceVars, frameVars, endVars
  <2>4. LockIsHeld'
    BY <2>1, LockMoves DEF Inside
  <2>5. PlaceIsRight(p)'
    BY <1>0, <2>1, <2>2 DEF PlaceIsRight, spaceVars
  <2>6. \A n \in Pages : Has(p, n)' = Has(p, n)
    BY <1>0, <2>1, <2>2 DEF Has, GivenUp, spaceVars
  <2>. QED  BY <1>0, <2>1, <2>2, <2>3, <2>4, <2>5, <2>6, CalmStep DEF spaceVars, frameVars, tableVars
<1>6. CASE \E n \in Pages : PageFault(p, n)
  <2>1. PICK n \in Pages :
          /\ Step(p, "user", "acquire") /\ ~pageTable[p][n].valid /\ page' = [page EXCEPT ![p] = n]
          /\ UNCHANGED <<running, frame, spaceVars, frameVars, mainMemory, memoryLock, tableVars, endVars>>
    BY <1>6 DEF PageFault
  <2>2. pc[p] = "user" /\ pc' = [pc EXCEPT ![p] = "acquire"] /\ running = p
    BY <2>1, HasTheCPU DEF Step, At
  <2>3. DataTyped'
    BY <1>0, <2>1 DEF DataTyped, spaceVars, frameVars, endVars
  <2>4. LockIsHeld'
    BY <2>1, LockMoves DEF Inside
  <2>5. PlaceIsRight(p)'
    BY <1>0, <2>1, <2>2 DEF PlaceIsRight, spaceVars
  <2>6. \A m \in Pages : Has(p, m)' = Has(p, m)
    BY <1>0, <2>1, <2>2 DEF Has, GivenUp, spaceVars
  <2>. QED  BY <1>0, <2>1, <2>2, <2>3, <2>4, <2>5, <2>6, CalmStep DEF spaceVars, frameVars, tableVars
<1>. QED  BY <1>1, <1>2, <1>3, <1>4, <1>5, <1>6

-----------------------------------------------------------------------------
\* What every step starts from.
LEMMA StartOfStep ==
  ASSUME ~Preemptive, BaseInv, AgreeInv, NEW p \in Procs, NEW here, NEW there,
         Step(p, here, there)
  PROVE  /\ running = p /\ pc[p] = here /\ pc' = [pc EXCEPT ![p] = there]
         /\ \A q \in Procs \ {p} : pc[q] \in {"none", "user", "gone"} /\ pc'[q] = pc[q]
         /\ pc'[p] = there
         /\ pc = [q \in Procs |-> pc[q]] /\ page \in [Procs -> 0 .. NumPages]
         /\ frame = [q \in Procs |-> frame[q]]
         /\ DataTyped /\ PlaceIsRight(p) /\ running \in Procs
         /\ isOccupied \in [Frames -> BOOLEAN]
         /\ Pages = 0 .. (NumPages - 1) /\ NumPages \in Nat
BY HasTheCPU, PagingAssumption
   DEF BaseInv, CountInv, FramesTyped, AgreeInv, DataTyped, PlacesInv, OneAtATime, Pages, Step, At

LEMMA ExecAgrees ==
  ASSUME ~Preemptive, BaseInv, AgreeInv, NEW p \in Procs, NEW q \in Procs, Exec(p, q)
  PROVE  AgreeInv'
<1> USE PagingAssumption
<1>1. /\ At(p, "user") /\ pc[q] = "none" /\ pc' = [pc EXCEPT ![q] = "user"]
      /\ \E i : threadID' = [threadID EXCEPT ![q] = i]
      /\ UNCHANGED <<running, page, frame, pageTable, swapped, isOccupied, processID,
                     pageTableEntry, mainMemory, memoryLock, endVars>>
  BY DEF Exec, spaceVars, frameVars
<1>2. /\ running = p /\ pc[p] = "user" /\ p # q /\ running \in Procs
      /\ \A r \in Procs : r # p => pc[r] \in {"none", "user", "gone"}
      /\ pc = [r \in Procs |-> pc[r]] /\ threadID = [r \in Procs |-> threadID[r]]
  BY <1>1, HasTheCPU DEF At, AgreeInv, OneAtATime, BaseInv, CountInv, FramesTyped, TableInv, TableTyped
<1>3. DataTyped'
  BY <1>1 DEF AgreeInv, DataTyped, endVars
<1>4. OneAtATime' /\ LockIsHeld'
  BY <1>1, <1>2 DEF AgreeInv, OneAtATime, LockIsHeld, Inside
<1>5. PagesInFrames' /\ FramesInPages'
  <2>1. \A r \in Procs, n \in Pages :
          /\ Has(r, n)' = Has(r, n)
          /\ pageTable'[r][n].physicalPage = pageTable[r][n].physicalPage
    BY <1>1, <1>2 DEF Has, GivenUp
  <2>2. \A r \in Procs : pc[r] # "load" /\ (threadID'[r] = threadID[r] \/ pc[r] = "none")
    BY <1>1, <1>2
  <2>. QED  BY <1>1, <2>1, <2>2, FramesStay
<1>6. PlacesInv'
  BY <1>1, <1>2 DEF AgreeInv, PlacesInv, PlaceIsRight
<1>. QED  BY <1>3, <1>4, <1>5, <1>6 DEF AgreeInv

\* The frame of a page that a process has.
LEMMA FrameOfPage ==
  ASSUME BaseInv, AgreeInv, NEW p \in Procs, NEW n \in Pages, Has(p, n)
  PROVE  /\ pageTable[p][n].physicalPage \in Frames
         /\ isOccupied[pageTable[p][n].physicalPage]
         /\ pageTableEntry[pageTable[p][n].physicalPage] = <<p, n>>
BY DEF BaseInv, CountInv, FramesExist, Has, AgreeInv, PagesInFrames

LEMMA WriteMemAgrees ==
  ASSUME ~Preemptive, BaseInv, AgreeInv, NEW p \in Procs, NEW n \in Pages, WriteMem(p, n)
  PROVE  AgreeInv'
<1> USE PagingAssumption
<1>1. PICK f : f = pageTable[p][n].physicalPage
  OBVIOUS
<1>2. /\ Step(p, "user", "user") /\ pageTable[p][n].valid
      /\ \E c \in mainMemory[f] :
           /\ c[3] < MaxWrites
           /\ mainMemory' = [mainMemory EXCEPT ![f] = {[c EXCEPT ![3] = @ + 1]}]
      /\ pageTable' = [pageTable EXCEPT ![p][n].dirty = TRUE]
      /\ UNCHANGED <<running, page, frame, swapped, frameVars, memoryLock, tableVars, endVars>>
  BY <1>1 DEF WriteMem
<1>3. /\ running = p /\ pc[p] = "user" /\ pc' = [pc EXCEPT ![p] = "user"] /\ pc' = pc
      /\ \A q \in Procs \ {p} : pc[q] \in {"none", "user", "gone"} /\ pc'[q] = pc[q]
      /\ DataTyped
  BY <1>2, StartOfStep
<1>4. \A q \in Procs, m \in Pages :
        /\ pageTable'[q][m].valid = pageTable[q][m].valid
        /\ pageTable'[q][m].physicalPage = pageTable[q][m].physicalPage
        /\ q # p => pageTable'[q][m] = pageTable[q][m]
  BY <1>2 DEF BaseInv, CountInv, FramesTyped
<1>5. f \in Frames
  BY <1>1, <1>2 DEF BaseInv, CountInv, FramesExist
<1>6. mainMemory' \in [Frames -> SUBSET Contents]
  <2>1. PICK c \in Contents :
          /\ c[3] < MaxWrites
          /\ mainMemory' = [mainMemory EXCEPT ![f] = {[c EXCEPT ![3] = @ + 1]}]
    BY <1>2, <1>3, <1>5 DEF DataTyped
  <2>2. [c EXCEPT ![3] = @ + 1] \in Contents
    BY <2>1 DEF Contents
  <2>. QED  BY <1>3, <1>5, <2>1, <2>2 DEF DataTyped
<1>7. DataTyped'
  BY <1>2, <1>3, <1>6 DEF DataTyped, frameVars, endVars
<1>8. OneAtATime' /\ LockIsHeld'
  BY <1>2, <1>3 DEF AgreeInv, OneAtATime, LockIsHeld
<1>9. \A q \in Procs, m \in Pages : Has(q, m)' = Has(q, m)
  BY <1>2, <1>3, <1>4 DEF Has, GivenUp
<1>10. PagesInFrames' /\ FramesInPages'
  BY <1>2, <1>3, <1>4, <1>9, FramesStay DEF frameVars, tableVars
<1>11. PlacesInv'
  BY <1>2, <1>3, <1>4 DEF AgreeInv, PlacesInv, PlaceIsRight
<1>. QED  BY <1>7, <1>8, <1>10, <1>11 DEF AgreeInv

LEMMA AllocateAgrees ==
  ASSUME ~Preemptive, BaseInv, AgreeInv, NEW p \in Procs, AllocateFrame(p)
  PROVE  AgreeInv'
<1> USE PagingAssumption
<1>1. PICK f : f = Min(FreeFrames)
  OBVIOUS
<1>2. /\ Step(p, "allocate", "load") /\ numberOfFreeFrames > 0
      /\ isOccupied' = [isOccupied EXCEPT ![f] = TRUE]
      /\ processID' = [processID EXCEPT ![f] = threadID[p]]
      /\ pageTableEntry' = [pageTableEntry EXCEPT ![f] = <<p, page[p]>>]
      /\ frame' = [frame EXCEPT ![p] = f]
      /\ memoryLock' = NoProc
      /\ UNCHANGED <<running, page, spaceVars, mainMemory, tableVars, endVars>>
  BY <1>1 DEF AllocateFrame, Assign
<1>3. f \in Frames /\ ~isOccupied[f]
  <2>1. FreeFrames # {}
    BY <1>2, FreeFramesAreFinite DEF BaseInv, CountInv, FreeFramesAreCounted
  <2>2. FreeFrames \subseteq Nat
    BY DEF FreeFrames, Frames
  <2>. QED  BY <1>1, <2>1, <2>2, LeastIsThere DEF FreeFrames
<1>4. /\ running = p /\ pc[p] = "allocate" /\ pc'[p] = "load"
      /\ \A q \in Procs \ {p} : pc[q] \in {"none", "user", "gone"} /\ pc'[q] = pc[q]
      /\ DataTyped /\ PlaceIsRight(p) /\ isOccupied \in [Frames -> BOOLEAN]
  BY <1>2, StartOfStep
<1>5. page[p] \in Pages /\ threadID[p] \in 0 .. TableSize /\ frame = [q \in Procs |-> frame[q]]
  BY <1>4 DEF BaseInv, PagesExist, UsesPage, TableInv, TableTyped, CountInv, FramesTyped
<1>6. DataTyped'
  <2>1. pageTableEntry' \in [Frames -> (Procs \X Pages) \cup {NoEntry}]
    BY <1>2, <1>3, <1>4, <1>5 DEF DataTyped
  <2>2. processID' \in [Frames -> 0 .. TableSize]
    BY <1>2, <1>3, <1>4, <1>5 DEF DataTyped
  <2>. QED  BY <1>2, <1>4, <2>1, <2>2 DEF DataTyped, spaceVars, endVars
<1>7. OneAtATime' /\ LockIsHeld'
  <2>1. LockIsHeld'
    BY <1>2, LockMoves DEF Inside
  <2>. QED  BY <1>2, <1>4, <2>1 DEF AgreeInv, OneAtATime
<1>8. \A q \in Procs, m \in Pages : Has(q, m)' = Has(q, m)
  <2>. SUFFICES ASSUME NEW q \in Procs, NEW m \in Pages PROVE Has(q, m)' = Has(q, m)
    OBVIOUS
  <2>. QED  BY <1>2, <1>4 DEF Has, GivenUp, spaceVars
<1>9. /\ isOccupied'[f] /\ pageTableEntry'[f] = <<p, page[p]>> /\ processID'[f] = threadID[p]
      /\ \A g \in Frames \ {f} : /\ isOccupied'[g] = isOccupied[g]
                                 /\ pageTableEntry'[g] = pageTableEntry[g]
                                 /\ processID'[g] = processID[g]
  BY <1>2, <1>3, <1>4 DEF DataTyped
<1>10. PagesInFrames'
  <2>. SUFFICES ASSUME NEW q \in Procs, NEW m \in Pages, Has(q, m)
                PROVE  LET g == pageTable[q][m].physicalPage IN
                       isOccupied'[g] /\ pageTableEntry'[g] = <<q, m>>
    BY <1>2, <1>8 DEF PagesInFrames, spaceVars
  <2>. QED  BY <1>3, <1>9, FrameOfPage
<1>11. FramesInPages'
  <2>. SUFFICES ASSUME NEW g \in Frames, isOccupied'[g]
                PROVE  /\ pageTableEntry'[g] \in Procs \X Pages
                       /\ \A q \in Procs, m \in Pages : pageTableEntry'[g] = <<q, m>> =>
                            /\ processID'[g] = threadID'[q]
                            /\ \/ Has(q, m)' /\ pageTable'[q][m].physicalPage = g
                               \/ Loads(q, m, g)'
    BY DEF FramesInPages
  <2>1. CASE g = f
    <3>1. Loads(p, page[p], f)'
      BY <1>2, <1>4, <1>5 DEF Loads
    <3>. QED  BY <1>2, <1>5, <1>9, <2>1, <3>1 DEF tableVars
  <2>2. CASE g # f
    <3>1. \A q \in Procs, m \in Pages : ~Loads(q, m, g)
      BY <1>4 DEF Loads
    <3>. QED  BY <1>2, <1>8, <1>9, <2>2, <3>1 DEF AgreeInv, FramesInPages, spaceVars, tableVars
  <2>. QED  BY <2>1, <2>2
<1>12. PlacesInv'
  <2>1. PlaceIsRight(p)'
    BY <1>2, <1>4, <1>5, <1>9 DEF PlaceIsRight, spaceVars
  <2>. QED  BY <1>2, <1>4, <2>1 DEF AgreeInv, PlacesInv, PlaceIsRight, spaceVars
<1>. QED  BY <1>6, <1>7, <1>10, <1>11, <1>12 DEF AgreeInv

\* A victim is the frame of a page that its process has.
LEMMA VictimIsAPage ==
  ASSUME ~Preemptive, BaseInv, AgreeInv, NEW p \in Procs, pc[p] \in {"get", "evict"},
         At(p, pc[p])
  PROVE  /\ frame[p] \in Frames /\ isOccupied[frame[p]]
         /\ \E q \in Procs, m \in Pages :
              /\ pageTableEntry[frame[p]] = <<q, m>> /\ table[processID[frame[p]]] = q
              /\ pageTable[q][m].valid /\ pageTable[q][m].physicalPage = frame[p]
              /\ ~GivenUp(q, m) /\ pc[q] \in {"user", "get", "evict"}
<1>1. frame[p] \in Frames /\ isOccupied[frame[p]]
  <2>1. frame[p] \in Frames /\ frame[p] \notin FreeFrames
    BY FreeFramesAreFinite
       DEF BaseInv, CountInv, FramesExist, UsesFrame, ForcedWhenFull, FreeFramesAreCounted
  <2>. QED  BY <2>1 DEF FreeFrames
<1>2. PICK q \in Procs, m \in Pages :
        /\ pageTableEntry[frame[p]] = <<q, m>> /\ processID[frame[p]] = threadID[q]
        /\ (Has(q, m) /\ pageTable[q][m].physicalPage = frame[p]) \/ pc[q] = "load"
  BY <1>1 DEF AgreeInv, FramesInPages, Loads
<1>3. pc[q] \in {"none", "user", "gone", "get", "evict"}
  BY HasTheCPU
<1>4. Has(q, m) /\ pageTable[q][m].physicalPage = frame[p] /\ pc[q] \in {"user", "get", "evict"}
  BY <1>2, <1>3 DEF Has, GivenUp, AgreeInv, PlacesInv, PlaceIsRight, Unmapped
<1>5. table[processID[frame[p]]] = q
  BY <1>2, <1>4 DEF BaseInv, TableInv, SlotsAreRight, Out
<1>. QED  BY <1>1, <1>2, <1>4, <1>5 DEF Has

\* What Evict does when the victim is an existing page, which it always is.
LEMMA EvictsPage ==
  ASSUME ~Preemptive, BaseInv, AgreeInv, NEW p \in Procs, Evict(p)
  PROVE  \E f \in Frames, q \in Procs, m \in Pages :
           /\ f = frame[p] /\ isOccupied[f] /\ pageTableEntry[f] = <<q, m>>
           /\ pageTable[q][m].valid /\ pageTable[q][m].physicalPage = f
           /\ ~GivenUp(q, m) /\ pc[q] \in {"user", "evict"}
           /\ Step(p, "evict", "load")
           /\ swapped' = IF pageTable[q][m].dirty
                         THEN [swapped EXCEPT ![q][m] = mainMemory[f]]
                         ELSE swapped
           /\ pageTable'[q][m].valid = FALSE /\ pageTable'[q][m].dirty = FALSE
           /\ \A r \in Procs, k \in Pages :
                r # q \/ k # m => pageTable'[r][k] = pageTable[r][k]
           /\ isOccupied' = [isOccupied EXCEPT ![f] = TRUE]
           /\ processID' = [processID EXCEPT ![f] = threadID[p]]
           /\ pageTableEntry' = [pageTableEntry EXCEPT ![f] = <<p, page[p]>>]
           /\ frame' = frame
           /\ memoryLock' = NoProc
           /\ UNCHANGED <<running, page, mainMemory, table, threadID, crashed, halted>>
<1>1. Step(p, "evict", "load") /\ pc[p] = "evict" /\ At(p, "evict")
  BY DEF Evict, Step, At
<1>2. PICK f \in Frames : f = frame[p] /\ isOccupied[f]
  BY <1>1, VictimIsAPage
<1>3. PICK q \in Procs, m \in Pages :
        /\ pageTableEntry[f] = <<q, m>> /\ table[processID[f]] = q
        /\ pageTable[q][m].valid /\ pageTable[q][m].physicalPage = f
        /\ ~GivenUp(q, m) /\ pc[q] \in {"user", "get", "evict"}
  BY <1>1, <1>2, VictimIsAPage
<1>4. pc[q] \in {"user", "evict"} /\ q # NoProc /\ q \notin Deleted
  BY <1>1, <1>3, HasTheCPU, PagingAssumption DEF Deleted
<1>5. /\ swapped' = IF pageTable[q][m].dirty
                    THEN [swapped EXCEPT ![q][m] = mainMemory[f]] ELSE swapped
      /\ pageTable' = [pageTable EXCEPT ![q][m].dirty = FALSE, ![q][m].valid = FALSE]
      /\ Assign(p, f)
      /\ UNCHANGED <<running, page, mainMemory, tableVars, crashed, halted>>
  <2>. DEFINE owner == table[processID[frame[p]]]
              n == pageTableEntry[frame[p]][2]
  <2>1. owner = q /\ n = m /\ {owner, pageTableEntry[frame[p]][1]} \cap Deleted = {}
    BY <1>2, <1>3, <1>4
  <2>. QED  BY <1>2, <1>3, <1>4, <2>1 DEF Evict
<1>6. /\ pageTable'[q][m].valid = FALSE /\ pageTable'[q][m].dirty = FALSE
      /\ \A r \in Procs, k \in Pages : r # q \/ k # m => pageTable'[r][k] = pageTable[r][k]
  BY <1>5 DEF BaseInv, CountInv, FramesTyped
<1>7. frame' = frame
  BY <1>2, <1>5 DEF Assign, BaseInv, CountInv, FramesTyped
<1>8. /\ isOccupied' = [isOccupied EXCEPT ![f] = TRUE]
      /\ processID' = [processID EXCEPT ![f] = threadID[p]]
      /\ pageTableEntry' = [pageTableEntry EXCEPT ![f] = <<p, page[p]>>]
      /\ memoryLock' = NoProc
      /\ UNCHANGED <<running, page, mainMemory, table, threadID, crashed, halted>>
  BY <1>5 DEF Assign, tableVars
<1>. WITNESS f \in Frames, q \in Procs, m \in Pages
<1>. QED  BY <1>1, <1>2, <1>3, <1>4, <1>5, <1>6, <1>7, <1>8

LEMMA EvictAgrees ==
  ASSUME ~Preemptive, BaseInv, AgreeInv, NEW p \in Procs, Evict(p)
  PROVE  AgreeInv'
<1> USE PagingAssumption
<1>1. PICK f \in Frames, q \in Procs, m \in Pages :
         /\ f = frame[p] /\ isOccupied[f] /\ pageTableEntry[f] = <<q, m>>
         /\ pageTable[q][m].valid /\ pageTable[q][m].physicalPage = f
         /\ ~GivenUp(q, m) /\ pc[q] \in {"user", "evict"}
         /\ Step(p, "evict", "load")
         /\ swapped' = IF pageTable[q][m].dirty
                       THEN [swapped EXCEPT ![q][m] = mainMemory[f]]
                       ELSE swapped
         /\ pageTable'[q][m].valid = FALSE /\ pageTable'[q][m].dirty = FALSE
         /\ \A r \in Procs, k \in Pages :
              r # q \/ k # m => pageTable'[r][k] = pageTable[r][k]
         /\ isOccupied' = [isOccupied EXCEPT ![f] = TRUE]
         /\ processID' = [processID EXCEPT ![f] = threadID[p]]
         /\ pageTableEntry' = [pageTableEntry EXCEPT ![f] = <<p, page[p]>>]
         /\ frame' = frame
         /\ memoryLock' = NoProc
         /\ UNCHANGED <<running, page, mainMemory, table, threadID, crashed, halted>>
  BY EvictsPage
<1>2. /\ running = p /\ pc[p] = "evict" /\ pc'[p] = "load"
      /\ \A r \in Procs \ {p} : pc[r] \in {"none", "user", "gone"} /\ pc'[r] = pc[r]
      /\ DataTyped /\ PlaceIsRight(p) /\ isOccupied \in [Frames -> BOOLEAN]
  BY <1>1, StartOfStep
<1>3. page[p] \in Pages /\ threadID[p] \in 0 .. TableSize
  BY <1>2 DEF BaseInv, PagesExist, UsesPage, TableInv, TableTyped
<1>4. /\ ~pageTable'[q][m].valid
      /\ \A r \in Procs, k \in Pages :
           r # q \/ k # m => pageTable'[r][k] = pageTable[r][k] /\ swapped'[r][k] = swapped[r][k]
  BY <1>1, <1>2 DEF BaseInv, CountInv, FramesTyped, DataTyped
<1>5. DataTyped'
  <2>1. pageTableEntry' \in [Frames -> (Procs \X Pages) \cup {NoEntry}]
    BY <1>1, <1>2, <1>3 DEF DataTyped
  <2>2. processID' \in [Frames -> 0 .. TableSize]
    BY <1>1, <1>2, <1>3 DEF DataTyped
  <2>3. swapped' \in [Procs -> [Pages -> SUBSET Contents]]
    <3>. DEFINE D == SUBSET Contents
    <3>1. mainMemory[f] \in D /\ swapped \in [Procs -> [Pages -> D]]
      BY <1>2 DEF DataTyped
    <3>. HIDE DEF D
    <3>2. swapped' \in [Procs -> [Pages -> D]]
      BY <1>1, <3>1
    <3>. QED  BY <3>2 DEF D
  <2>. QED  BY <1>1, <1>2, <2>1, <2>2, <2>3 DEF DataTyped
<1>6. OneAtATime' /\ LockIsHeld'
  <2>1. LockIsHeld'
    BY <1>1, LockMoves DEF Inside
  <2>. QED  BY <1>1, <1>2, <2>1 DEF AgreeInv, OneAtATime
<1>7. \A r \in Procs, k \in Pages : Has(r, k)' <=> Has(r, k) /\ (r # q \/ k # m)
  <2>. SUFFICES ASSUME NEW r \in Procs, NEW k \in Pages
                PROVE  Has(r, k)' <=> Has(r, k) /\ (r # q \/ k # m)
    OBVIOUS
  <2>1. GivenUp(r, k)' = GivenUp(r, k)
    BY <1>1, <1>2 DEF GivenUp
  <2>. QED  BY <1>4, <2>1 DEF Has
<1>8. /\ isOccupied'[f] /\ pageTableEntry'[f] = <<p, page[p]>> /\ processID'[f] = threadID[p]
      /\ \A g \in Frames \ {f} : /\ isOccupied'[g] = isOccupied[g]
                                 /\ pageTableEntry'[g] = pageTableEntry[g]
                                 /\ processID'[g] = processID[g]
  BY <1>1, <1>2 DEF DataTyped
<1>9. PagesInFrames'
  <2>. SUFFICES ASSUME NEW r \in Procs, NEW k \in Pages, Has(r, k)'
                PROVE  LET g == pageTable'[r][k].physicalPage IN
                       isOccupied'[g] /\ pageTableEntry'[g] = <<r, k>>
    BY DEF PagesInFrames
  <2>1. Has(r, k) /\ (r # q \/ k # m) /\ pageTable'[r][k] = pageTable[r][k]
    BY <1>4, <1>7
  <2>2. PICK g \in Frames : /\ g = pageTable[r][k].physicalPage
                            /\ isOccupied[g] /\ pageTableEntry[g] = <<r, k>>
    BY <2>1, FrameOfPage
  <2>3. g # f
    BY <1>1, <2>1, <2>2
  <2>. QED  BY <1>8, <2>1, <2>2, <2>3
<1>10. FramesInPages'
  <2>. SUFFICES ASSUME NEW g \in Frames, isOccupied'[g]
                PROVE  /\ pageTableEntry'[g] \in Procs \X Pages
                       /\ \A r \in Procs, k \in Pages : pageTableEntry'[g] = <<r, k>> =>
                            /\ processID'[g] = threadID'[r]
                            /\ \/ Has(r, k)' /\ pageTable'[r][k].physicalPage = g
                               \/ Loads(r, k, g)'
    BY DEF FramesInPages
  <2>1. CASE g = f
    <3>1. Loads(p, page[p], f)'
      BY <1>1, <1>2 DEF Loads
    <3>. QED  BY <1>1, <1>3, <1>8, <2>1, <3>1
  <2>2. CASE g # f
    <3>1. \A r \in Procs, k \in Pages : ~Loads(r, k, g)
      BY <1>2 DEF Loads
    <3>. QED  BY <1>1, <1>4, <1>7, <1>8, <2>2, <3>1 DEF AgreeInv, FramesInPages
  <2>. QED  BY <2>1, <2>2
<1>11. PlacesInv'
  <2>1. PlaceIsRight(p)'
    BY <1>1, <1>2, <1>3, <1>4, <1>8 DEF PlaceIsRight
  <2>2. ASSUME NEW r \in Procs \ {p}  PROVE PlaceIsRight(r)'
    <3>1. pc[r] = "none" => r # q
      BY <1>1
    <3>. QED  BY <1>2, <1>4, <3>1 DEF AgreeInv, PlacesInv, PlaceIsRight
  <2>. QED  BY <2>1, <2>2 DEF PlacesInv
<1>. QED  BY <1>5, <1>6, <1>9, <1>10, <1>11 DEF AgreeInv

LEMMA LoadAgrees ==
  ASSUME ~Preemptive, BaseInv, AgreeInv, NEW p \in Procs, LoadPage(p)
  PROVE  AgreeInv'
<1> USE PagingAssumption
<1>1. PICK f, n : f = frame[p] /\ n = page[p]
  OBVIOUS
<1>2. Step(p, "load", "user")
  BY DEF LoadPage
<1>3. /\ running = p /\ pc[p] = "load" /\ pc'[p] = "user"
      /\ \A r \in Procs \ {p} : pc[r] \in {"none", "user", "gone"} /\ pc'[r] = pc[r]
      /\ DataTyped /\ PlaceIsRight(p) /\ isOccupied \in [Frames -> BOOLEAN]
  BY <1>2, StartOfStep
<1>4. n \in Pages /\ f \in Frames
  BY <1>1, <1>3 DEF BaseInv, PagesExist, UsesPage, CountInv, FramesExist, UsesFrame
<1>5. PICK contents \in SUBSET Contents :
        /\ mainMemory' = [mainMemory EXCEPT ![f] = contents]
        /\ swapped' = [swapped EXCEPT ![p][n] = contents]
        /\ pageTable' = [pageTable EXCEPT ![p][n].physicalPage = f, ![p][n].valid = TRUE]
        /\ UNCHANGED <<running, page, frame, frameVars, memoryLock, tableVars, endVars>>
  <2>1. FromFile(p, n) \in Contents
    BY <1>4 DEF FromFile, Contents
  <2>2. swapped[p][n] \in SUBSET Contents
    BY <1>3, <1>4 DEF DataTyped
  <2>3. PICK contents : contents = IF swapped[p][n] = {} THEN {FromFile(p, n)} ELSE swapped[p][n]
    OBVIOUS
  <2>4. contents \in SUBSET Contents
    BY <2>1, <2>2, <2>3
  <2>. QED  BY <1>1, <2>3, <2>4 DEF LoadPage
<1>6. /\ ~pageTable[p][n].valid /\ isOccupied[f] /\ pageTableEntry[f] = <<p, n>>
  BY <1>1, <1>3 DEF PlaceIsRight
<1>7. /\ pageTable'[p][n].valid /\ pageTable'[p][n].physicalPage = f
      /\ \A r \in Procs, k \in Pages :
           r # p \/ k # n => pageTable'[r][k] = pageTable[r][k] /\ swapped'[r][k] = swapped[r][k]
  BY <1>3, <1>4, <1>5 DEF BaseInv, CountInv, FramesTyped, DataTyped
<1>8. DataTyped'
  <2>1. mainMemory' \in [Frames -> SUBSET Contents]
    BY <1>3, <1>5 DEF DataTyped
  <2>2. swapped' \in [Procs -> [Pages -> SUBSET Contents]]
    <3>. DEFINE D == SUBSET Contents
    <3>1. contents \in D /\ swapped \in [Procs -> [Pages -> D]]
      BY <1>3 DEF DataTyped
    <3>. HIDE DEF D
    <3>2. swapped' \in [Procs -> [Pages -> D]]
      BY <1>4, <1>5, <3>1
    <3>. QED  BY <3>2 DEF D
  <2>. QED  BY <1>3, <1>5, <2>1, <2>2 DEF DataTyped, frameVars, endVars
<1>9. OneAtATime' /\ LockIsHeld'
  <2>1. LockIsHeld'
    BY <1>2, <1>5, LockMoves DEF Inside
  <2>. QED  BY <1>3, <1>5, <2>1 DEF AgreeInv, OneAtATime
<1>10. \A r \in Procs, k \in Pages : Has(r, k)' <=> Has(r, k) \/ (r = p /\ k = n)
  <2>. SUFFICES ASSUME NEW r \in Procs, NEW k \in Pages
                PROVE  Has(r, k)' <=> Has(r, k) \/ (r = p /\ k = n)
    OBVIOUS
  <2>1. GivenUp(r, k)' = GivenUp(r, k) /\ ~GivenUp(p, k)
    BY <1>3, <1>5 DEF GivenUp
  <2>. QED  BY <1>6, <1>7, <2>1 DEF Has
<1>11. PagesInFrames'
  <2>. SUFFICES ASSUME NEW r \in Procs, NEW k \in Pages, Has(r, k)'
                PROVE  LET g == pageTable'[r][k].physicalPage IN
                       isOccupied[g] /\ pageTableEntry[g] = <<r, k>>
    BY <1>5 DEF PagesInFrames, frameVars
  <2>1. CASE r = p /\ k = n
    BY <1>6, <1>7, <2>1
  <2>2. CASE ~(r = p /\ k = n)
    <3>1. Has(r, k) /\ pageTable'[r][k] = pageTable[r][k]
      BY <1>7, <1>10, <2>2
    <3>. QED  BY <3>1, FrameOfPage
  <2>. QED  BY <2>1, <2>2
<1>12. FramesInPages'
  <2>. SUFFICES ASSUME NEW g \in Frames, isOccupied[g], NEW r \in Procs, NEW k \in Pages,
                       pageTableEntry[g] = <<r, k>>
                PROVE  Has(r, k)' /\ pageTable'[r][k].physicalPage = g
    <3>1. UNCHANGED <<isOccupied, processID, pageTableEntry, threadID>>
      BY <1>5 DEF frameVars, tableVars
    <3>. QED  BY <3>1 DEF AgreeInv, FramesInPages
  <2>1. CASE r = p /\ k = n
    <3>1. ~Has(r, k)
      BY <1>6, <2>1 DEF Has
    <3>2. g = f
      <4>1. Loads(r, k, g)
        BY <3>1 DEF AgreeInv, FramesInPages
      <4>. QED  BY <1>1, <2>1, <4>1 DEF Loads
    <3>. QED  BY <1>7, <1>10, <2>1, <3>2
  <2>2. CASE ~(r = p /\ k = n)
    <3>1. ~Loads(r, k, g)
      BY <1>1, <1>3, <2>2 DEF Loads
    <3>. QED  BY <1>7, <1>10, <2>2, <3>1 DEF AgreeInv, FramesInPages
  <2>. QED  BY <2>1, <2>2
<1>13. PlacesInv'
  BY <1>3, <1>7 DEF AgreeInv, PlacesInv, PlaceIsRight
<1>. QED  BY <1>8, <1>9, <1>11, <1>12, <1>13 DEF AgreeInv

LEMMA FreeAgrees ==
  ASSUME ~Preemptive, BaseInv, AgreeInv, NEW p \in Procs, FreeFrame(p)
  PROVE  AgreeInv'
<1> USE PagingAssumption
<1>1. PICK f, n : f = frame[p] /\ n = page[p]
  OBVIOUS
<1>2. /\ Step(p, "free", "release")
      /\ isOccupied' = [isOccupied EXCEPT ![f] = FALSE]
      /\ memoryLock' = NoProc
      /\ page' = [page EXCEPT ![p] = n + 1]
      /\ UNCHANGED <<running, frame, spaceVars, processID, pageTableEntry, mainMemory,
                     tableVars, endVars>>
  BY <1>1 DEF FreeFrame
<1>3. /\ running = p /\ pc[p] = "free" /\ pc'[p] = "release"
      /\ \A r \in Procs \ {p} : pc[r] \in {"none", "user", "gone"} /\ pc'[r] = pc[r]
      /\ DataTyped /\ PlaceIsRight(p) /\ isOccupied \in [Frames -> BOOLEAN]
      /\ Pages = 0 .. (NumPages - 1) /\ NumPages \in Nat /\ page \in [Procs -> 0 .. NumPages]
  BY <1>2, StartOfStep
<1>4. n \in Pages /\ f \in Frames
  BY <1>1, <1>3 DEF BaseInv, PagesExist, UsesPage, CountInv, FramesExist, UsesFrame
<1>5. pageTable[p][n].valid /\ pageTable[p][n].physicalPage = f
  BY <1>1, <1>3 DEF PlaceIsRight
<1>6. page'[p] = n + 1 /\ \A r \in Procs \ {p} : page'[r] = page[r]
  BY <1>2, <1>3
<1>7. Has(p, n) /\ isOccupied[f] /\ pageTableEntry[f] = <<p, n>>
  <2>1. Has(p, n)
    BY <1>1, <1>3, <1>4, <1>5 DEF Has, GivenUp
  <2>. QED  BY <1>4, <1>5, <2>1, FrameOfPage
<1>8. DataTyped'
  <2>1. page' \in [Procs -> 0 .. NumPages]
    BY <1>2, <1>3, <1>4
  <2>. QED  BY <1>2, <1>3, <2>1 DEF DataTyped, spaceVars, endVars
<1>9. OneAtATime' /\ LockIsHeld'
  <2>1. LockIsHeld'
    BY <1>2, LockMoves DEF Inside
  <2>. QED  BY <1>2, <1>3, <2>1 DEF AgreeInv, OneAtATime
<1>10. \A r \in Procs, k \in Pages : Has(r, k)' <=> Has(r, k) /\ ~(r = p /\ k = n)
  <2>. SUFFICES ASSUME NEW r \in Procs, NEW k \in Pages
                PROVE  Has(r, k)' <=> Has(r, k) /\ ~(r = p /\ k = n)
    OBVIOUS
  <2>1. CASE r = p
    <3>1. k < page'[p] <=> k < page[p] \/ k = n
      BY <1>1, <1>3, <1>4, <1>6
    <3>. QED  BY <1>2, <1>3, <2>1, <3>1 DEF Has, GivenUp, spaceVars
  <2>2. CASE r # p
    BY <1>2, <1>3, <1>6, <2>2 DEF Has, GivenUp, spaceVars
  <2>. QED  BY <2>1, <2>2
<1>11. PagesInFrames'
  <2>. SUFFICES ASSUME NEW r \in Procs, NEW k \in Pages, Has(r, k)'
                PROVE  LET g == pageTable[r][k].physicalPage IN
                       isOccupied'[g] /\ pageTableEntry[g] = <<r, k>>
    BY <1>2 DEF PagesInFrames, spaceVars
  <2>1. Has(r, k) /\ ~(r = p /\ k = n)
    BY <1>10
  <2>2. PICK g \in Frames : /\ g = pageTable[r][k].physicalPage
                            /\ isOccupied[g] /\ pageTableEntry[g] = <<r, k>>
    BY <2>1, FrameOfPage
  <2>3. g # f
    BY <1>7, <2>1, <2>2
  <2>. QED  BY <1>2, <1>3, <1>4, <2>2, <2>3
<1>12. FramesInPages'
  <2>. SUFFICES ASSUME NEW g \in Frames, isOccupied'[g]
                PROVE  /\ pageTableEntry[g] \in Procs \X Pages
                       /\ \A r \in Procs, k \in Pages : pageTableEntry[g] = <<r, k>> =>
                            /\ processID[g] = threadID[r]
                            /\ Has(r, k)' /\ pageTable[r][k].physicalPage = g
    BY <1>2 DEF FramesInPages, spaceVars, tableVars
  <2>1. g # f /\ isOccupied[g]
    BY <1>2, <1>3, <1>4
  <2>2. \A r \in Procs, k \in Pages : ~Loads(r, k, g)
    BY <1>3 DEF Loads
  <2>. QED  BY <1>5, <1>10, <2>1, <2>2 DEF AgreeInv, FramesInPages
<1>13. PlacesInv'
  BY <1>2, <1>3 DEF AgreeInv, PlacesInv, PlaceIsRight, spaceVars
<1>. QED  BY <1>8, <1>9, <1>11, <1>12, <1>13 DEF AgreeInv

LEMMA AgreeInvStep ==
  ASSUME ~Preemptive, BaseInv, AgreeInv, [Next]_vars
  PROVE  AgreeInv'
<1>1. CASE UNCHANGED vars
  <2>1. /\ DataTyped' /\ OneAtATime' /\ LockIsHeld'
    BY <1>1 DEF AgreeInv, DataTyped, OneAtATime, LockIsHeld, vars, processVars, spaceVars,
                frameVars, endVars
  <2>2. PagesInFrames' /\ FramesInPages' /\ PlacesInv'
    BY <1>1 DEF AgreeInv, PagesInFrames, FramesInPages, PlacesInv, PlaceIsRight, Has, GivenUp, Loads,
                vars, processVars, spaceVars, frameVars, tableVars
  <2>. QED  BY <2>1, <2>2 DEF AgreeInv
<1>. QED
  BY <1>1, ReleaseAgrees, KernelEntryAgrees, ExecAgrees, WriteMemAgrees, AllocateAgrees,
     EvictAgrees, LoadAgrees, FreeAgrees
     DEF Next, InKernel, InUser

LEMMA AgreeStarts == Init => BaseInv /\ AgreeInv
<1>. SUFFICES ASSUME Init PROVE BaseInv /\ AgreeInv
  OBVIOUS
<1> USE PagingAssumption
<1>1. DataTyped
  <2>1. NumPages \in Nat /\ 0 \in 0 .. NumPages /\ 0 \in 0 .. TableSize
    OBVIOUS
  <2>. QED  BY <2>1 DEF Init, DataTyped
<1>2. OneAtATime /\ LockIsHeld
  BY DEF Init, OneAtATime, LockIsHeld, Inside
<1>3. PagesInFrames /\ FramesInPages /\ PlacesInv
  BY DEF Init, PagesInFrames, FramesInPages, PlacesInv, PlaceIsRight, Has, Unmapped
<1>. QED  BY <1>1, <1>2, <1>3, StartsCounted, TableStarts DEF BaseInv, AgreeInv

LEMMA BaseInvStep ==
  ASSUME BaseInv, [Next]_vars  PROVE BaseInv'
BY CountInvStep, PagesExistStep, TableInvStep DEF BaseInv

LEMMA AgreeInvSuffices == BaseInv /\ AgreeInv => TablesAgree /\ ProcessesAreSafe
<1>. SUFFICES ASSUME BaseInv, AgreeInv PROVE TablesAgree /\ ProcessesAreSafe
  OBVIOUS
<1> USE PagingAssumption
<1>1. PagingTypeOK
  <2>1. /\ pc \in [Procs -> Places] /\ running \in Procs
        /\ page \in [Procs -> 0 .. NumPages]
        /\ frame \in [Procs -> Frames \cup {NoFrame}]
        /\ pageTable \in [Procs -> [Pages -> [physicalPage : Frames \cup {NoFrame},
                                             valid : BOOLEAN, dirty : BOOLEAN]]]
        /\ table \in [Slots -> Procs \cup {NoProc}]
        /\ threadID \in [Procs -> 0 .. TableSize]
        /\ isOccupied \in [Frames -> BOOLEAN]
    BY DEF BaseInv, AgreeInv, CountInv, FramesTyped, TableInv, TableTyped, OneAtATime, DataTyped
  <2>2. numberOfFreeFrames \in 0 .. NumPhysPages
    <3>1. IsFiniteSet(Frames) /\ Cardinality(Frames) = NumPhysPages
      BY FS_Interval DEF Frames
    <3>2. Cardinality(FreeFrames) <= NumPhysPages
      BY <3>1, FS_Subset DEF FreeFrames
    <3>. QED  BY <3>2, FreeFramesAreFinite DEF BaseInv, CountInv, FreeFramesAreCounted
  <2>3. nProcesses \in 0 .. TableSize
    BY SlotsAreFinite DEF BaseInv, TableInv
  <2>4. \A p \in Procs : memoryLock = p <=> pc[p] \in {"allocate", "get", "evict", "free"}
    BY DEF AgreeInv, LockIsHeld, Inside
  <2>. QED  BY <2>1, <2>2, <2>3, <2>4
            DEF AgreeInv, DataTyped, LockIsHeld, PagingTypeOK, Places
<1>2. FramesAgree
  <2>. SUFFICES ASSUME NEW p \in Procs, NEW n \in Pages, pc[p] \in {"user", "acquire", "halting"}
                PROVE  /\ pageTable[p][n].valid =>
                            LET f == pageTable[p][n].physicalPage IN
                            isOccupied[f] /\ pageTableEntry[f] = <<p, n>> /\ table[processID[f]] = p
                       /\ \A f \in Frames :
                            isOccupied[f] /\ pageTableEntry[f] = <<p, n>> =>
                            pageTable[p][n].valid /\ pageTable[p][n].physicalPage = f
    BY DEF FramesAgree
  <2>1. ASSUME NEW f \in Frames, isOccupied[f], pageTableEntry[f] = <<p, n>>
        PROVE  /\ pageTable[p][n].valid /\ pageTable[p][n].physicalPage = f
               /\ processID[f] = threadID[p]
    BY <2>1 DEF AgreeInv, FramesInPages, Has, Loads
  <2>2. table[threadID[p]] = p
    BY DEF BaseInv, TableInv, SlotsAreRight, Out
  <2>3. ASSUME pageTable[p][n].valid
        PROVE  \E f \in Frames : /\ f = pageTable[p][n].physicalPage
                                 /\ isOccupied[f] /\ pageTableEntry[f] = <<p, n>>
    BY <2>3, FrameOfPage DEF Has, GivenUp
  <2>. QED  BY <2>1, <2>2, <2>3
<1>. QED
  BY <1>1, <1>2
     DEF TablesAgree, ProcessesAreSafe, NeverCrashes, AgreeInv, DataTyped, BaseInv, TableInv

\* Plain nachos, which preempts nobody in the kernel: page tables, frames and the
\* process table tell the same story, for any number of processes, pages and
\* frames and whatever victims are drawn.
THEOREM TablesAlwaysAgree == ~Preemptive => (Spec => []TablesAgree)
<1>. SUFFICES ASSUME ~Preemptive PROVE Spec => []TablesAgree
  OBVIOUS
<1>1. BaseInv /\ AgreeInv /\ [Next]_vars => (BaseInv /\ AgreeInv)'
  BY BaseInvStep, AgreeInvStep
<1>2. BaseInv /\ AgreeInv => TablesAgree
  BY AgreeInvSuffices
<1>. QED  BY <1>1, <1>2, AgreeStarts, PTL DEF Spec

\* And no process takes the kernel down: the victim's process is in the table and
\* its space exists, and the machine is halted under nobody.
THEOREM NobodyComesToHarm == ~Preemptive => (Spec => []ProcessesAreSafe)
<1>. SUFFICES ASSUME ~Preemptive PROVE Spec => []ProcessesAreSafe
  OBVIOUS
<1>1. BaseInv /\ AgreeInv /\ [Next]_vars => (BaseInv /\ AgreeInv)'
  BY BaseInvStep, AgreeInvStep
<1>2. BaseInv /\ AgreeInv => ProcessesAreSafe
  BY AgreeInvSuffices
<1>. QED  BY <1>1, <1>2, AgreeStarts, PTL DEF Spec

-----------------------------------------------------------------------------
(***************************************************************************)
(* What the user programs see.  A page that is in a frame has one contents *)
(* there, which is also in the swap file unless the page is dirty; a page  *)
(* that is in no frame has it in the swap file, or is as in the executable.*)
(***************************************************************************)
OneIn(S) == \E c \in Contents : S = {c}

PageIsKept(p, n) ==
  LET e == pageTable[p][n] IN
  /\ IF e.valid THEN /\ OneIn(mainMemory[e.physicalPage])
                     /\ e.dirty \/ swapped[p][n] = mainMemory[e.physicalPage]
                ELSE e.dirty = FALSE
  /\ swapped[p][n] = {} \/ OneIn(swapped[p][n])

MemoryInv == \A p \in Alive, n \in Pages : PageIsKept(p, n)

LEMMA TheOneIn ==
  ASSUME NEW c  PROVE (CHOOSE x \in {c} : TRUE) = c
OBVIOUS

LEMMA SameChoice ==
  ASSUME NEW S, NEW T, S = T  PROVE (CHOOSE c \in S : TRUE) = (CHOOSE c \in T : TRUE)
OBVIOUS

\* The contents of a page, before a step and after it.
LEMMA ContentIs ==
  ASSUME NEW p \in Procs, NEW n \in Pages
  PROVE  /\ p \notin Alive \/ Kept(p, n) = {} => ContentOf(p, n) = FromFile(p, n)
         /\ p \notin Alive' \/ Kept(p, n)' = {} => ContentOf(p, n)' = FromFile(p, n)
         /\ \A c : p \in Alive /\ Kept(p, n) = {c} => ContentOf(p, n) = c
         /\ \A c : p \in Alive' /\ Kept(p, n)' = {c} => ContentOf(p, n)' = c
<1>1. \A c : {c} # {} /\ (CHOOSE x \in {c} : TRUE) = c
  BY TheOneIn
<1>2. ASSUME NEW c, p \in Alive, Kept(p, n) = {c}  PROVE ContentOf(p, n) = c
  BY <1>1, <1>2, Zenon DEF ContentOf
<1>3. ASSUME NEW c, p \in Alive', Kept(p, n)' = {c}  PROVE ContentOf(p, n)' = c
  BY <1>1, <1>3, Zenon DEF ContentOf
<1>4. p \notin Alive \/ Kept(p, n) = {} => ContentOf(p, n) = FromFile(p, n)
  BY DEF ContentOf
<1>5. p \notin Alive' \/ Kept(p, n)' = {} => ContentOf(p, n)' = FromFile(p, n)
  BY DEF ContentOf
<1>. QED  BY <1>2, <1>3, <1>4, <1>5

LEMMA SameContent ==
  ASSUME NEW p \in Procs, NEW n \in Pages, p \in Alive' <=> p \in Alive,
         p \in Alive => Kept(p, n)' = Kept(p, n)
  PROVE  ContentOf(p, n)' = ContentOf(p, n)
<1>1. CASE p \notin Alive \/ Kept(p, n) = {}
  BY <1>1, ContentIs
<1>2. CASE p \in Alive /\ Kept(p, n) # {}
  <2>1. /\ ContentOf(p, n) = CHOOSE c \in Kept(p, n) : TRUE
        /\ ContentOf(p, n)' = CHOOSE c \in Kept(p, n)' : TRUE
    BY <1>2 DEF ContentOf
  <2>. QED  BY <1>2, <2>1, SameChoice
<1>. QED  BY <1>1, <1>2

\* Nothing that a program sees changes.
LEMMA MemoryStays ==
  ASSUME MemoryInv, Alive' = Alive,
         \A p \in Alive, n \in Pages :
           /\ pageTable'[p][n] = pageTable[p][n] /\ swapped'[p][n] = swapped[p][n]
           /\ pageTable[p][n].valid => mainMemory'[pageTable[p][n].physicalPage]
                                         = mainMemory[pageTable[p][n].physicalPage]
  PROVE  MemoryInv' /\ UNCHANGED Abstract!vars
<1>1. MemoryInv'
  BY DEF MemoryInv, PageIsKept, OneIn
<1>2. ASSUME NEW p \in Procs, NEW n \in Pages  PROVE ContentOf(p, n)' = ContentOf(p, n)
  <2>1. p \in Alive => Kept(p, n)' = Kept(p, n)
    BY DEF Kept
  <2>. QED  BY <2>1, SameContent
<1>. QED  BY <1>1, <1>2 DEF Abstract!vars

LiveStages == {"user", "acquire", "allocate", "get", "evict", "load", "halting"}

LEMMA AliveStays ==
  ASSUME BaseInv, NEW p \in Procs, NEW here, NEW there, Step(p, here, there),
         here \in LiveStages <=> there \in LiveStages
  PROVE  Alive' = Alive
BY DEF BaseInv, TableInv, TableTyped, Step, At, Alive, LiveStages
LEMMA CalmMemory ==
  ASSUME BaseInv, MemoryInv, NEW p \in Procs, NEW here, NEW there, Step(p, here, there),
         here \in LiveStages <=> there \in LiveStages,
         UNCHANGED <<pageTable, swapped, mainMemory>>
  PROVE  MemoryInv' /\ UNCHANGED Abstract!vars
BY AliveStays, MemoryStays

\* The abstract memory after a step that changes the contents of one page, or of
\* the pages of one process.
LEMMA ExecStarts ==
  ASSUME BaseInv, AgreeInv, MemoryInv, NEW p \in Procs, NEW q \in Procs, Exec(p, q)
  PROVE  MemoryInv' /\ Abstract!Next
<1>1. /\ pc[p] = "user" /\ pc[q] = "none" /\ pc' = [pc EXCEPT ![q] = "user"]
      /\ UNCHANGED <<pageTable, swapped, mainMemory>>
      /\ pc = [r \in Procs |-> pc[r]]
  BY DEF Exec, At, spaceVars, BaseInv, CountInv, FramesTyped
<1>2. p \in Alive /\ q \notin Alive /\ Alive' = Alive \cup {q}
  BY <1>1 DEF Alive
<1>3. \A n \in Pages : /\ pageTable[q][n].valid = FALSE /\ pageTable[q][n].dirty = FALSE
                       /\ swapped[q][n] = {}
  BY <1>1 DEF AgreeInv, PlacesInv, PlaceIsRight, Unmapped
<1>4. MemoryInv'
  BY <1>1, <1>2, <1>3 DEF MemoryInv, PageIsKept, OneIn
<1>5. ASSUME NEW r \in Procs, NEW n \in Pages  PROVE ContentOf(r, n)' = ContentOf(r, n)
  <2>1. CASE r = q
    BY <1>1, <1>2, <1>3, <2>1, ContentIs DEF Kept
  <2>2. CASE r # q
    BY <1>1, <1>2, <2>2, SameContent DEF Kept
  <2>. QED  BY <2>1, <2>2
<1>6. Abstract!Start(q)
  BY <1>2, <1>5 DEF Abstract!Start
<1>. QED  BY <1>4, <1>6 DEF Abstract!Next

LEMMA ExitEnds ==
  ASSUME BaseInv, MemoryInv, NEW p \in Procs, Exit(p)
  PROVE  MemoryInv' /\ Abstract!Next
<1>1. /\ pc[p] = "user" /\ pc' = [pc EXCEPT ![p] = "release"]
      /\ UNCHANGED <<pageTable, swapped, mainMemory>>
      /\ pc = [r \in Procs |-> pc[r]]
  BY DEF Exit, Step, At, spaceVars, BaseInv, CountInv, FramesTyped
<1>2. p \in Alive /\ Alive' = Alive \ {p}
  BY <1>1 DEF Alive
<1>3. MemoryInv'
  BY <1>1, <1>2 DEF MemoryInv, PageIsKept, OneIn
<1>4. \A n \in Pages : ContentOf(p, n)' = FromFile(p, n)
  BY <1>2, ContentIs
<1>5. \A r \in Procs \ {p}, n \in Pages : ContentOf(r, n)' = ContentOf(r, n)
  BY <1>1, <1>2, SameContent DEF Kept
<1>6. Abstract!End(p)
  BY <1>2, <1>4, <1>5 DEF Abstract!End
<1>. QED  BY <1>3, <1>6 DEF Abstract!Next

LEMMA WriteWrites ==
  ASSUME BaseInv, AgreeInv, MemoryInv, NEW p \in Procs, NEW n \in Pages, WriteMem(p, n)
  PROVE  MemoryInv' /\ Abstract!Next
<1>1. PICK f : f = pageTable[p][n].physicalPage
  OBVIOUS
<1>2. /\ Step(p, "user", "user") /\ pageTable[p][n].valid
      /\ \E c \in mainMemory[f] :
           /\ c[3] < MaxWrites
           /\ mainMemory' = [mainMemory EXCEPT ![f] = {[c EXCEPT ![3] = @ + 1]}]
      /\ pageTable' = [pageTable EXCEPT ![p][n].dirty = TRUE]
      /\ swapped' = swapped
  BY <1>1 DEF WriteMem
<1>3. p \in Alive /\ Alive' = Alive /\ Has(p, n)
  <2>1. pc[p] = "user"
    BY <1>2 DEF Step, At
  <2>. QED  BY <1>2, <2>1, AliveStays DEF Alive, LiveStages, Has, GivenUp
<1>4. f \in Frames /\ pageTableEntry[f] = <<p, n>>
  BY <1>1, <1>3, FrameOfPage
<1>5. PICK c \in Contents : mainMemory[f] = {c}
  BY <1>1, <1>2, <1>3 DEF MemoryInv, PageIsKept, OneIn
<1>6. PICK d \in Contents : d = [c EXCEPT ![3] = @ + 1]
  <2>1. c[3] < MaxWrites
    BY <1>2, <1>5
  <2>2. [c EXCEPT ![3] = @ + 1] \in Contents
    BY <2>1, PagingAssumption DEF Contents
  <2>. QED  BY <2>2
<1>7. c[3] < MaxWrites /\ mainMemory'[f] = {d}
      /\ \A g \in Frames \ {f} : mainMemory'[g] = mainMemory[g]
  BY <1>2, <1>4, <1>5, <1>6 DEF AgreeInv, DataTyped
<1>8. /\ pageTable'[p][n].valid /\ pageTable'[p][n].physicalPage = f /\ pageTable'[p][n].dirty
      /\ \A q \in Procs, m \in Pages : q # p \/ m # n => pageTable'[q][m] = pageTable[q][m]
  BY <1>1, <1>2 DEF BaseInv, CountInv, FramesTyped
<1>9. ASSUME NEW q \in Alive, NEW m \in Pages, q # p \/ m # n, pageTable[q][m].valid
      PROVE  /\ pageTable[q][m].physicalPage \in Frames
             /\ mainMemory'[pageTable[q][m].physicalPage] = mainMemory[pageTable[q][m].physicalPage]
  <2>1. q \in Procs /\ Has(q, m)
    BY <1>9 DEF Alive, Has, GivenUp
  <2>. QED  BY <1>4, <1>7, <1>9, <2>1, FrameOfPage
<1>10. ASSUME NEW q \in Alive, NEW m \in Pages  PROVE PageIsKept(q, m)'
  <2>1. CASE q = p /\ m = n
    BY <1>2, <1>3, <1>7, <1>8, <2>1 DEF MemoryInv, PageIsKept, OneIn
  <2>2. CASE q # p \/ m # n
    <3>1. q \in Procs /\ PageIsKept(q, m) /\ pageTable'[q][m] = pageTable[q][m]
      BY <1>8, <2>2 DEF MemoryInv, Alive
    <3>. QED  BY <1>2, <1>9, <2>2, <3>1 DEF PageIsKept, OneIn
  <2>. QED  BY <2>1, <2>2
<1>11. ContentOf(p, n) = c /\ ContentOf(p, n)' = d
  <2>1. Kept(p, n) = {c} /\ Kept(p, n)' = {d}
    BY <1>1, <1>2, <1>5, <1>7, <1>8 DEF Kept
  <2>. QED  BY <1>3, <2>1, ContentIs
<1>12. ASSUME NEW q \in Procs, NEW m \in Pages, q # p \/ m # n
       PROVE  ContentOf(q, m)' = ContentOf(q, m)
  <2>1. q \in Alive => Kept(q, m)' = Kept(q, m)
    <3>1. pageTable'[q][m] = pageTable[q][m] /\ swapped' = swapped
      BY <1>2, <1>8, <1>12
    <3>. QED  BY <1>9, <1>12, <3>1 DEF Kept
  <2>. QED  BY <1>3, <2>1, SameContent
<1>13. Abstract!Write(p, n)
  <2>. DEFINE memory == [q \in Procs |-> [m \in Pages |-> ContentOf(q, m)]]
  <2>1. memory[p][n] = c
    BY <1>11
  <2>2. memory' = [memory EXCEPT ![p][n][3] = @ + 1]
    <3>1. memory' = [memory EXCEPT ![p][n] = d]
      BY <1>3, <1>11, <1>12 DEF Alive
    <3>. QED  BY <1>6, <2>1, <3>1
  <2>. QED  BY <1>3, <1>7, <2>1, <2>2 DEF Abstract!Write
<1>. QED  BY <1>3, <1>10, <1>13 DEF MemoryInv, Abstract!Next

\* A step that takes a page from its frame, or brings one into a frame, keeps
\* what the programs see.
LEMMA EvictKeeps ==
  ASSUME ~Preemptive, BaseInv, AgreeInv, MemoryInv, NEW p \in Procs, Evict(p)
  PROVE  MemoryInv' /\ UNCHANGED Abstract!vars
<1>1. PICK f \in Frames, q \in Procs, m \in Pages :
         /\ f = frame[p] /\ isOccupied[f] /\ pageTableEntry[f] = <<q, m>>
         /\ pageTable[q][m].valid /\ pageTable[q][m].physicalPage = f
         /\ ~GivenUp(q, m) /\ pc[q] \in {"user", "evict"}
         /\ Step(p, "evict", "load")
         /\ swapped' = IF pageTable[q][m].dirty
                       THEN [swapped EXCEPT ![q][m] = mainMemory[f]]
                       ELSE swapped
         /\ pageTable'[q][m].valid = FALSE /\ pageTable'[q][m].dirty = FALSE
         /\ \A r \in Procs, k \in Pages :
              r # q \/ k # m => pageTable'[r][k] = pageTable[r][k]
         /\ isOccupied' = [isOccupied EXCEPT ![f] = TRUE]
         /\ processID' = [processID EXCEPT ![f] = threadID[p]]
         /\ pageTableEntry' = [pageTableEntry EXCEPT ![f] = <<p, page[p]>>]
         /\ frame' = frame
         /\ memoryLock' = NoProc
         /\ UNCHANGED <<running, page, mainMemory, table, threadID, crashed, halted>>
  BY EvictsPage
<1>2. q \in Alive /\ Alive' = Alive
  BY <1>1, AliveStays DEF Alive, LiveStages
<1>3. PICK c \in Contents : mainMemory[f] = {c}
  <2>1. PageIsKept(q, m)
    BY <1>2 DEF MemoryInv
  <2>. QED  BY <1>1, <2>1 DEF PageIsKept, OneIn
<1>4. /\ swapped'[q][m] = {c}
      /\ \A r \in Procs, k \in Pages : r # q \/ k # m => swapped'[r][k] = swapped[r][k]
  <2>1. swapped \in [Procs -> [Pages -> SUBSET Contents]]
    BY DEF AgreeInv, DataTyped
  <2>2. CASE pageTable[q][m].dirty
    BY <1>1, <1>3, <2>1, <2>2
  <2>3. CASE ~pageTable[q][m].dirty
    BY <1>1, <1>2, <1>3, <2>3 DEF MemoryInv, PageIsKept
  <2>. QED  BY <2>2, <2>3
<1>5. \A r \in Alive, k \in Pages : Kept(r, k)' = Kept(r, k)
  <2>. SUFFICES ASSUME NEW r \in Alive, NEW k \in Pages  PROVE Kept(r, k)' = Kept(r, k)
    OBVIOUS
  <2>1. CASE r = q /\ k = m
    BY <1>1, <1>3, <1>4, <2>1 DEF Kept
  <2>2. CASE r # q \/ k # m
    <3>1. pageTable'[r][k] = pageTable[r][k] /\ swapped'[r][k] = swapped[r][k]
      BY <1>1, <1>4, <2>2 DEF Alive
    <3>. QED  BY <1>1, <3>1 DEF Kept
  <2>. QED  BY <2>1, <2>2
<1>6. MemoryInv'
  <2>. SUFFICES ASSUME NEW r \in Alive, NEW k \in Pages  PROVE PageIsKept(r, k)'
    BY <1>2 DEF MemoryInv
  <2>1. CASE r = q /\ k = m
    BY <1>1, <1>4, <2>1 DEF PageIsKept, OneIn
  <2>2. CASE r # q \/ k # m
    <3>1. pageTable'[r][k] = pageTable[r][k] /\ swapped'[r][k] = swapped[r][k]
      BY <1>1, <1>4, <2>2 DEF Alive
    <3>2. PageIsKept(r, k)
      BY DEF MemoryInv
    <3>. QED  BY <1>1, <3>1, <3>2 DEF PageIsKept
  <2>. QED  BY <2>1, <2>2
<1>7. \A r \in Procs, k \in Pages : ContentOf(r, k)' = ContentOf(r, k)
  BY <1>2, <1>5, SameContent
<1>. QED  BY <1>2, <1>6, <1>7 DEF Abstract!vars

LEMMA LoadKeeps ==
  ASSUME ~Preemptive, BaseInv, AgreeInv, MemoryInv, NEW p \in Procs, LoadPage(p)
  PROVE  MemoryInv' /\ UNCHANGED Abstract!vars
<1>1. PICK f, n : f = frame[p] /\ n = page[p]
  OBVIOUS
<1>2. Step(p, "load", "user")
  BY DEF LoadPage
<1>3. /\ pc[p] = "load" /\ DataTyped /\ PlaceIsRight(p)
      /\ p \in Alive /\ Alive' = Alive
  BY <1>2, StartOfStep, AliveStays DEF Alive, LiveStages
<1>4. n \in Pages /\ f \in Frames
  BY <1>1, <1>3 DEF BaseInv, PagesExist, UsesPage, CountInv, FramesExist, UsesFrame
<1>5. PICK contents : contents = IF swapped[p][n] = {} THEN {FromFile(p, n)} ELSE swapped[p][n]
  OBVIOUS
<1>6. /\ mainMemory' = [mainMemory EXCEPT ![f] = contents]
      /\ swapped' = [swapped EXCEPT ![p][n] = contents]
      /\ pageTable' = [pageTable EXCEPT ![p][n].physicalPage = f, ![p][n].valid = TRUE]
  BY <1>1, <1>5 DEF LoadPage
<1>7. PICK c \in Contents : contents = {c}
  <2>1. CASE swapped[p][n] = {}
    <3>1. FromFile(p, n) \in Contents
      BY <1>4, PagingAssumption DEF FromFile, Contents
    <3>. QED  BY <1>5, <2>1, <3>1
  <2>2. CASE swapped[p][n] # {}
    BY <1>3, <1>4, <1>5, <2>2 DEF MemoryInv, PageIsKept, OneIn
  <2>. QED  BY <2>1, <2>2
<1>8. /\ ~pageTable[p][n].valid /\ pageTableEntry[f] = <<p, n>>
  BY <1>1, <1>3 DEF PlaceIsRight
<1>9. /\ pageTable'[p][n].valid /\ pageTable'[p][n].physicalPage = f
      /\ swapped'[p][n] = {c} /\ mainMemory'[f] = {c}
  BY <1>3, <1>4, <1>6, <1>7 DEF BaseInv, CountInv, FramesTyped, DataTyped
<1>10. ASSUME NEW r \in Alive, NEW k \in Pages, r # p \/ k # n
       PROVE  /\ pageTable'[r][k] = pageTable[r][k] /\ swapped'[r][k] = swapped[r][k]
              /\ pageTable[r][k].valid => mainMemory'[pageTable[r][k].physicalPage]
                                            = mainMemory[pageTable[r][k].physicalPage]
  <2>1. r \in Procs
    BY DEF Alive
  <2>2. /\ pageTable'[r][k] = pageTable[r][k] /\ swapped'[r][k] = swapped[r][k]
    BY <1>3, <1>4, <1>6, <1>10, <2>1 DEF BaseInv, CountInv, FramesTyped, DataTyped
  <2>3. ASSUME pageTable[r][k].valid
        PROVE  mainMemory'[pageTable[r][k].physicalPage] = mainMemory[pageTable[r][k].physicalPage]
    <3>1. Has(r, k)
      BY <2>3 DEF Alive, Has, GivenUp
    <3>2. PICK g \in Frames : g = pageTable[r][k].physicalPage /\ pageTableEntry[g] = <<r, k>>
      BY <2>1, <3>1, FrameOfPage
    <3>3. g # f
      BY <1>8, <1>10, <3>2
    <3>. QED  BY <1>3, <1>6, <3>2, <3>3 DEF DataTyped
  <2>. QED  BY <2>2, <2>3
<1>11. MemoryInv'
  <2>. SUFFICES ASSUME NEW r \in Alive, NEW k \in Pages  PROVE PageIsKept(r, k)'
    BY <1>3 DEF MemoryInv
  <2>1. CASE r = p /\ k = n
    BY <1>9, <2>1 DEF PageIsKept, OneIn
  <2>2. CASE r # p \/ k # n
    BY <1>10, <2>2 DEF MemoryInv, PageIsKept, OneIn
  <2>. QED  BY <2>1, <2>2
<1>12. ContentOf(p, n)' = ContentOf(p, n)
  <2>1. ContentOf(p, n)' = c
    <3>1. Kept(p, n)' = {c}
      BY <1>9 DEF Kept
    <3>. QED  BY <1>3, <1>4, <3>1, ContentIs
  <2>2. Kept(p, n) = swapped[p][n]
    BY <1>8 DEF Kept
  <2>3. ContentOf(p, n) = c
    BY <1>3, <1>4, <1>5, <1>7, <2>2, ContentIs
  <2>. QED  BY <2>1, <2>3
<1>13. ASSUME NEW r \in Procs, NEW k \in Pages  PROVE ContentOf(r, k)' = ContentOf(r, k)
  <2>1. CASE r = p /\ k = n
    BY <1>12, <2>1
  <2>2. CASE r # p \/ k # n
    <3>1. r \in Alive => Kept(r, k)' = Kept(r, k)
      BY <1>10, <2>2 DEF Kept
    <3>. QED  BY <1>3, <3>1, SameContent
  <2>. QED  BY <2>1, <2>2
<1>. QED  BY <1>3, <1>11, <1>13 DEF Abstract!vars

\* Every step is a step of the virtual memory, or none.
LEMMA MemoryStep ==
  ASSUME ~Preemptive, BaseInv, AgreeInv, MemoryInv, [Next]_vars
  PROVE  MemoryInv' /\ [Abstract!Next]_(Abstract!vars)
<1>1. CASE UNCHANGED vars
  <2>1. UNCHANGED <<pc, pageTable, swapped, mainMemory>>
    BY <1>1 DEF vars, processVars, spaceVars
  <2>2. Alive' = Alive
    BY <2>1 DEF Alive
  <2>. QED  BY <2>1, <2>2, MemoryStays
<1>2. ASSUME NEW p \in Procs,
             \/ WaitForConsole(p) \/ \E n \in Pages : PageFault(p, n)
             \/ SysCallHalt(p) \/ AcquireToAllocate(p) \/ AllocateFrame(p)
             \/ ChooseVictim(p) \/ GetProcess(p)
      PROVE  MemoryInv' /\ UNCHANGED Abstract!vars
  <2>1. \E here \in LiveStages, there \in LiveStages :
          Step(p, here, there) /\ UNCHANGED <<pageTable, swapped, mainMemory>>
    BY <1>2 DEF WaitForConsole, PageFault, SysCallHalt, AcquireToAllocate, AllocateFrame,
                ChooseVictim, GetProcess, LiveStages, spaceVars
  <2>. QED  BY <2>1, CalmMemory
<1>3. ASSUME NEW p \in Procs,
             \/ ReleaseValid(p) \/ ReleaseInvalid(p) \/ AcquireToFree(p) \/ FreeFrame(p)
             \/ DeleteSpace(p) \/ LeaveTable(p) \/ Finish(p)
      PROVE  MemoryInv' /\ UNCHANGED Abstract!vars
  <2>1. \E here, there : /\ here \notin LiveStages /\ there \notin LiveStages
                         /\ Step(p, here, there) /\ UNCHANGED <<pageTable, swapped, mainMemory>>
    BY <1>3 DEF ReleaseValid, ReleaseInvalid, AcquireToFree, FreeFrame, DeleteSpace, LeaveTable,
                Finish, LiveStages, spaceVars
  <2>. QED  BY <2>1, CalmMemory
<1>. QED
  BY <1>1, <1>2, <1>3, ExecStarts, ExitEnds, WriteWrites, EvictKeeps, LoadKeeps
     DEF Next, InKernel, InUser

LEMMA MemoryStarts == Init => MemoryInv /\ Abstract!Init
<1>. SUFFICES ASSUME Init PROVE MemoryInv /\ Abstract!Init
  OBVIOUS
<1>1. \A p \in Procs, n \in Pages : /\ pageTable[p][n].valid = FALSE /\ pageTable[p][n].dirty = FALSE
                                    /\ swapped[p][n] = {}
  BY DEF Init, Unmapped
<1>2. Alive = {First}
  BY PagingAssumption DEF Init, Alive
<1>3. MemoryInv
  BY <1>1 DEF MemoryInv, PageIsKept, OneIn, Alive
<1>4. \A p \in Procs, n \in Pages : ContentOf(p, n) = FromFile(p, n)
  BY <1>1, ContentIs DEF Kept
<1>. QED  BY <1>2, <1>3, <1>4, PagingAssumption DEF Abstract!Init

\* Demand paging implements virtual memory: in plain nachos a page always has
\* what its process wrote to it last, through any faults, evictions to the swap
\* file and reloads, of this process and of all the others.
THEOREM PagingImplementsVirtualMemory == ~Preemptive => (Spec => ImplementsVirtualMemory)
<1>. SUFFICES ASSUME ~Preemptive PROVE Spec => ImplementsVirtualMemory
  OBVIOUS
<1>. DEFINE I == BaseInv /\ AgreeInv /\ MemoryInv
<1>1. Init => I /\ Abstract!Init
  BY AgreeStarts, MemoryStarts
<1>2. I /\ [Next]_vars => I' /\ [Abstract!Next]_(Abstract!vars)
  BY BaseInvStep, AgreeInvStep, MemoryStep
<1>. HIDE DEF I
<1>. QED  BY <1>1, <1>2, PTL DEF Spec, ImplementsVirtualMemory, Abstract!Spec
=============================================================================
