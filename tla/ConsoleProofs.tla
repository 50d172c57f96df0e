---------------------------- MODULE ConsoleProofs ----------------------------
(***************************************************************************)
(* Console for any number of processes and any sizes of calls: the device  *)
(* is never given a second character while it is busy, and every unit of   *)
(* readAvail is the character in the buffer.                               *)
(***************************************************************************)
EXTENDS Console, KernelProofs

\* What the proof needs of the calls, whose loops end with their last character.
CallTypes ==
  /\ stage \in [Threads -> Stages]
  /\ left \in [Threads -> Nat]
  /\ incoming \in Nat /\ typed \in Nat /\ got \in Nat
  /\ putBusy \in BOOLEAN
  /\ \A t \in Threads :
       /\ stage[t] \in {"writeLock", "get", "take", "put"} => left[t] > 0
       /\ stage[t] \in {"store", "readEnd", "writeEnd"} => left[t] = 0
       /\ stage[t] = "readLock" => left[t] <= MaxSize
       /\ stage[t] = "writeLock" => left[t] <= MaxSize + 1

\* A process is between GetLock and ReleaseLock only with the lock.
Owns(t) == stage[t] \in ReadStages \cup WriteStages

OwnersHaveTheLock ==
  \A t \in Threads :
    Owns(t) => isHeldBySome[consoleLock] /\ currentHolder[consoleLock] = t

\* A character on its way out is an interrupt to come, or a unit to take, of the
\* one process that waits for it.
PutsAreAwaited ==
  /\ putBusy <=> pending[writeDone] # 0
  /\ pending[writeDone] + value[writeDone] =
       IF \E t \in Threads : stage[t] = "done" THEN 1 ELSE 0

DriverInv == KernelTypes /\ CallTypes /\ OwnersHaveTheLock /\ PutsAreAwaited

-----------------------------------------------------------------------------
LEMMA ExitStep ==
  ASSUME KernelTypes, SysCallExit
  PROVE  KernelTypes' /\ UNCHANGED Shared
<1>1. ProgramHalts \/ Finish
  BY DEF SysCallExit, ProgramHalts
<1>. QED  BY <1>1, QuietSteps

LEMMA ConsoleConstants ==
  /\ consoleLock \in Locks /\ readAvail \in Semaphores /\ writeDone \in Semaphores
  /\ readAvail # writeDone
BY ConsoleAssumption

-----------------------------------------------------------------------------
(***************************************************************************)
(* The lock and the outgoing character.                                    *)
(***************************************************************************)

\* A process that goes on in its call, without taking or giving up the lock.
LEMMA SameOwner ==
  ASSUME CallTypes, OwnersHaveTheLock, UNCHANGED <<isHeldBySome, currentHolder>>,
         NEW p \in Threads, NEW there, stage' = [stage EXCEPT ![p] = there],
         there \in ReadStages \cup WriteStages => Owns(p)
  PROVE  OwnersHaveTheLock'
BY DEF CallTypes, OwnersHaveTheLock, Owns

\* A step away from the display.
LEMMA SamePut ==
  ASSUME CallTypes, PutsAreAwaited, UNCHANGED <<putBusy, pending>>,
         value'[writeDone] = value[writeDone],
         NEW p \in Threads, NEW there, stage' = [stage EXCEPT ![p] = there],
         stage[p] # "done", there # "done"
  PROVE  PutsAreAwaited'
<1>1. (\E t \in Threads : stage'[t] = "done") <=> (\E t \in Threads : stage[t] = "done")
  BY DEF CallTypes
<1>. QED  BY <1>1 DEF PutsAreAwaited

\* A step of the kernel that the calls do not notice.
LEMMA OutsideStep ==
  ASSUME DriverInv, KernelTypes', UNCHANGED <<Shared, callVars, consoleVars>>
  PROVE  DriverInv'
BY DEF DriverInv, CallTypes, OwnersHaveTheLock, Owns, PutsAreAwaited, Shared,
       callVars, consoleVars

LEMMA DriverStarts == ConsoleInit => DriverInv
<1> SUFFICES ASSUME ConsoleInit PROVE DriverInv
  OBVIOUS
<1> USE DEF ConsoleInit, Init, Stages, EOF
<1>1. KernelTypes
  BY KernelAssumption DEF KernelTypes
<1>2. CallTypes
  BY DEF CallTypes
<1>3. OwnersHaveTheLock
  BY DEF OwnersHaveTheLock, Owns, ReadStages, WriteStages
<1>4. PutsAreAwaited
  BY ConsoleAssumption, ConsoleConstants DEF PutsAreAwaited
<1>. QED  BY <1>1, <1>2, <1>3, <1>4 DEF DriverInv

LEMMA CallInv ==
  ASSUME DriverInv, Call  PROVE DriverInv'
<1> DEFINE p == currentThread
<1>1. PICK there \in {"readLock", "writeLock"}, n \in Nat :
        /\ there = "writeLock" => n \in 1 .. (MaxSize + 1)
        /\ there = "readLock" => n <= MaxSize
        /\ stage' = [stage EXCEPT ![p] = there]
        /\ left' = [left EXCEPT ![p] = n]
  BY ConsoleAssumption DEF Call
<1>2. UNCHANGED vars /\ UNCHANGED consoleVars /\ stage[p] = "user" /\ p \in Threads
  BY DEF Call, Is, DriverInv, KernelTypes
<1>3. UNCHANGED <<Shared, currentThread, readyList, semQueue, lockQueue, condQueue>>
  BY <1>2 DEF vars, threadVars, semVars, lockVars, deviceVars, Shared
<1>4. KernelTypes'
  BY <1>3 DEF DriverInv, KernelTypes, Shared
<1>5. CallTypes'
  BY <1>1, <1>2 DEF DriverInv, CallTypes, Stages, consoleVars
<1>6. OwnersHaveTheLock'
  BY <1>1, <1>2, <1>3, SameOwner DEF DriverInv, Shared, ReadStages, WriteStages
<1>7. PutsAreAwaited'
  BY <1>1, <1>2, <1>3, SamePut DEF DriverInv, Shared, consoleVars
<1>. QED  BY <1>4, <1>5, <1>6, <1>7 DEF DriverInv

LEMMA GetLockInv ==
  ASSUME DriverInv, GetLock  PROVE DriverInv'
<1> DEFINE p == currentThread
<1> USE ConsoleConstants
<1>0. p \in Threads /\ UNCHANGED consoleVars /\ CallTypes
  BY DEF DriverInv, KernelTypes, GetLock
<1>1. CASE AcquireTakes(consoleLock)
  <2>1. ~isHeldBySome[consoleLock] /\ UNCHANGED <<value, pending>>
    BY <1>1 DEF AcquireTakes, semVars, deviceVars
  <2>2. /\ isHeldBySome' = [isHeldBySome EXCEPT ![consoleLock] = TRUE]
        /\ currentHolder' = [currentHolder EXCEPT ![consoleLock] = p]
    BY <1>1 DEF AcquireTakes
  <2>3. PICK there \in {"get", "readEnd", "put"} :
          GoesTo(there) /\ (there = "readEnd" <=> left[p] = 0)
    <3>1. ~AcquireSleeps(consoleLock)
      BY <1>1 DEF AcquireTakes, AcquireSleeps
    <3>2. left[p] \in Nat
      BY <1>0 DEF CallTypes
    <3>3. CASE Is("readLock") /\ GoesTo(Rounds(left[p], "get", "readEnd"))
      <4>1. CASE left[p] = 0
        BY <3>3, <4>1 DEF Rounds
      <4>2. CASE left[p] > 0
        BY <3>3, <4>2 DEF Rounds
      <4>. QED  BY <3>2, <4>1, <4>2
    <3>4. CASE Is("writeLock") /\ GoesTo("put")
      <4>1. left[p] > 0
        BY <3>4, <1>0 DEF CallTypes, Is
      <4>. QED  BY <3>4, <4>1
    <3>. QED  BY <3>1, <3>3, <3>4 DEF GetLock
  <2>4. stage[p] \in {"readLock", "writeLock"}
    BY <1>1 DEF GetLock, Is
  <2>5. stage' = [stage EXCEPT ![p] = there] /\ left' = left
    BY <2>3 DEF GoesTo
  <2>6. KernelTypes'
    BY <1>1, <2>1, <2>2 DEF DriverInv, KernelTypes, AcquireTakes, semVars
  <2>7. CallTypes'
    BY <1>0, <2>3, <2>5 DEF CallTypes, Stages, ReadStages, WriteStages, consoleVars
  <2>8. OwnersHaveTheLock'
    <3>1. \A t \in Threads : ~Owns(t)
      BY <2>1 DEF DriverInv, OwnersHaveTheLock
    <3>2. isHeldBySome'[consoleLock] /\ currentHolder'[consoleLock] = p
      BY <2>2 DEF DriverInv, KernelTypes
    <3>. QED  BY <3>1, <3>2, <2>5, <1>0 DEF OwnersHaveTheLock, Owns, CallTypes
  <2>9. PutsAreAwaited'
    BY <1>0, <2>1, <2>4, <2>5, SamePut DEF DriverInv, consoleVars
  <2>. QED  BY <2>6, <2>7, <2>8, <2>9 DEF DriverInv
<1>2. CASE AcquireSleeps(consoleLock)
  <2>1. KernelTypes' /\ UNCHANGED Shared
    BY <1>2, QuietSteps DEF DriverInv
  <2>2. stage' = stage /\ left' = left
    <3>1. ~AcquireTakes(consoleLock)
      BY <1>2 DEF AcquireTakes, AcquireSleeps
    <3>. QED  BY <3>1, <1>0 DEF GetLock, Is, GoesTo, CallTypes
  <2>. QED  BY <1>0, <2>1, <2>2, OutsideStep DEF callVars
<1>. QED  BY <1>1, <1>2 DEF GetLock

LEMMA AwaitCharInv ==
  ASSUME DriverInv, AwaitChar  PROVE DriverInv'
<1> DEFINE p == currentThread
<1> USE ConsoleConstants
<1>0. p \in Threads /\ UNCHANGED consoleVars /\ CallTypes /\ stage[p] = "get"
  BY DEF DriverInv, KernelTypes, AwaitChar, Is
<1>1. CASE PTakes(readAvail) /\ GoesTo("take")
  <2>1. /\ KernelTypes' /\ UNCHANGED <<pending, isHeldBySome, currentHolder>>
        /\ value'[writeDone] = value[writeDone]
    BY <1>1, PTakesStep DEF DriverInv, KernelTypes
  <2>2. stage' = [stage EXCEPT ![p] = "take"] /\ left' = left
    BY <1>1 DEF GoesTo
  <2>3. CallTypes'
    BY <1>0, <2>2 DEF CallTypes, Stages, ReadStages, consoleVars
  <2>4. OwnersHaveTheLock'
    BY <1>0, <2>1, <2>2, SameOwner DEF DriverInv, Owns, ReadStages
  <2>5. PutsAreAwaited'
    BY <1>0, <2>1, <2>2, SamePut DEF DriverInv, consoleVars
  <2>. QED  BY <2>1, <2>3, <2>4, <2>5 DEF DriverInv
<1>2. CASE PSleeps(readAvail) /\ GoesTo("get")
  <2>1. KernelTypes' /\ UNCHANGED Shared
    BY <1>2, QuietSteps DEF DriverInv
  <2>2. UNCHANGED callVars
    BY <1>0, <1>2 DEF GoesTo, CallTypes, callVars
  <2>. QED  BY <1>0, <2>1, <2>2, OutsideStep
<1>. QED  BY <1>1, <1>2 DEF AwaitChar

\* TakeChar and StoreBuffer are the process's own affair.
LEMMA BufferInv ==
  ASSUME DriverInv, TakeChar \/ StoreBuffer  PROVE DriverInv'
<1> DEFINE p == currentThread
<1>1. PICK there \in {"get", "store", "readEnd"} : stage' = [stage EXCEPT ![p] = there]
  BY DEF TakeChar, StoreBuffer, Counts, GoesTo, Rounds
<1>2. /\ p \in Threads /\ stage[p] \in {"take", "store"} /\ UNCHANGED vars
      /\ UNCHANGED <<typed, putBusy>>
  BY DEF DriverInv, KernelTypes, TakeChar, StoreBuffer, Is, consoleVars
<1>3. UNCHANGED <<Shared, currentThread, readyList, semQueue, lockQueue, condQueue>>
  BY <1>2 DEF vars, threadVars, semVars, lockVars, deviceVars, Shared
<1>4. KernelTypes'
  BY <1>3 DEF DriverInv, KernelTypes, Shared
<1>5. CallTypes'
  <2>1. stage' \in [Threads -> Stages]
    BY <1>1 DEF DriverInv, CallTypes, Stages, ReadStages
  <2>2. CASE TakeChar
    <3>1. left[p] > 0 /\ left' = [left EXCEPT ![p] = @ - 1]
      BY <1>2, <2>2 DEF TakeChar, Counts, Is, DriverInv, CallTypes
    <3>2. stage' = [stage EXCEPT ![p] = Rounds(left[p] - 1, "get", "store")]
      BY <2>2 DEF TakeChar, Counts
    <3>. QED  BY <1>2, <2>1, <2>2, <3>1, <3>2 DEF DriverInv, CallTypes, TakeChar, EOF, Rounds
  <2>3. CASE StoreBuffer
    BY <1>2, <2>1, <2>3 DEF DriverInv, CallTypes, StoreBuffer, GoesTo, consoleVars, Is
  <2>. QED  BY <2>2, <2>3
<1>6. OwnersHaveTheLock'
  BY <1>1, <1>2, <1>3, SameOwner DEF DriverInv, Shared, Owns, ReadStages
<1>7. PutsAreAwaited'
  BY <1>1, <1>2, <1>3, SamePut DEF DriverInv, Shared
<1>. QED  BY <1>4, <1>5, <1>6, <1>7 DEF DriverInv

LEMMA PutCharInv ==
  ASSUME DriverInv, PutChar  PROVE DriverInv'
<1> DEFINE p == currentThread
<1> USE ConsoleConstants
<1>0. /\ p \in Threads /\ stage[p] = "put" /\ left[p] > 0 /\ CallTypes /\ KernelTypes
      /\ UNCHANGED <<currentThread, readyList, semQueue, lockQueue, condQueue, value,
                     isHeldBySome, currentHolder, incoming, typed, got>>
  BY DEF DriverInv, KernelTypes, CallTypes, PutChar, Is, threadVars, semVars, lockVars
<1>1. /\ stage' = [stage EXCEPT ![p] = "done"] /\ left' = [left EXCEPT ![p] = @ - 1]
      /\ pending' = [pending EXCEPT ![writeDone] = @ + 1] /\ putBusy'
  BY DEF PutChar, Counts
<1>2. KernelTypes'
  BY <1>0, <1>1 DEF KernelTypes
<1>3. CallTypes'
  BY <1>0, <1>1 DEF CallTypes, Stages, WriteStages
<1>4. OwnersHaveTheLock'
  BY <1>0, <1>1, SameOwner DEF DriverInv, Owns, WriteStages
<1>5. PutsAreAwaited'
  <2>1. ~ \E t \in Threads : stage[t] = "done"
    BY <1>0 DEF DriverInv, OwnersHaveTheLock, Owns, WriteStages
  <2>2. pending[writeDone] = 0 /\ value[writeDone] = 0
    BY <1>0, <2>1 DEF DriverInv, PutsAreAwaited, KernelTypes
  <2>3. \E t \in Threads : stage'[t] = "done"
    BY <1>0, <1>1 DEF CallTypes
  <2>4. pending'[writeDone] = 1 /\ value'[writeDone] = 0
    BY <1>0, <1>1, <2>2 DEF KernelTypes
  <2>. QED  BY <1>1, <2>3, <2>4 DEF PutsAreAwaited
<1>. QED  BY <1>2, <1>3, <1>4, <1>5 DEF DriverInv

LEMMA AwaitDoneInv ==
  ASSUME DriverInv, AwaitDone  PROVE DriverInv'
<1> DEFINE p == currentThread
<1> USE ConsoleConstants
<1>0. /\ p \in Threads /\ UNCHANGED consoleVars /\ CallTypes /\ KernelTypes
      /\ stage[p] = "done"
  BY DEF DriverInv, KernelTypes, AwaitDone, Is
<1>1. CASE PTakes(writeDone) /\ GoesTo(Rounds(left[p], "put", "writeEnd"))
  <2>1. /\ KernelTypes' /\ UNCHANGED <<pending, isHeldBySome, currentHolder>>
        /\ value[writeDone] > 0 /\ value' = [value EXCEPT ![writeDone] = @ - 1]
    BY <1>0, <1>1, PTakesStep
  <2>2. PICK there \in {"put", "writeEnd"} :
          /\ stage' = [stage EXCEPT ![p] = there] /\ left' = left
          /\ there = "put" => left[p] > 0
          /\ there = "writeEnd" => left[p] = 0
    <3>1. left[p] \in Nat
      BY <1>0 DEF CallTypes
    <3>2. CASE left[p] > 0
      BY <1>1, <3>2 DEF GoesTo, Rounds
    <3>3. CASE left[p] = 0
      BY <1>1, <3>3 DEF GoesTo, Rounds
    <3>. QED  BY <3>1, <3>2, <3>3
  <2>3. CallTypes'
    BY <1>0, <2>2 DEF CallTypes, Stages, WriteStages, consoleVars
  <2>4. OwnersHaveTheLock'
    BY <1>0, <2>1, <2>2, SameOwner DEF DriverInv, Owns, WriteStages
  <2>5. PutsAreAwaited'
    <3>1. pending[writeDone] = 0 /\ value[writeDone] = 1
      BY <1>0, <2>1 DEF DriverInv, PutsAreAwaited, KernelTypes
    <3>2. \A t \in Threads : stage'[t] # "done"
      BY <1>0, <2>2 DEF CallTypes, DriverInv, OwnersHaveTheLock, Owns, WriteStages
    <3>3. pending'[writeDone] = 0 /\ value'[writeDone] = 0 /\ putBusy' = putBusy
      BY <1>0, <2>1, <3>1 DEF KernelTypes, consoleVars
    <3>. QED  BY <3>1, <3>2, <3>3 DEF DriverInv, PutsAreAwaited
  <2>. QED  BY <2>1, <2>3, <2>4, <2>5 DEF DriverInv
<1>2. CASE PSleeps(writeDone) /\ GoesTo("done")
  <2>1. KernelTypes' /\ UNCHANGED Shared
    BY <1>0, <1>2, QuietSteps
  <2>2. UNCHANGED callVars
    BY <1>0, <1>2 DEF GoesTo, CallTypes, callVars
  <2>. QED  BY <1>0, <2>1, <2>2, OutsideStep
<1>. QED  BY <1>1, <1>2 DEF AwaitDone

LEMMA ReleaseLockInv ==
  ASSUME DriverInv, ReleaseLock  PROVE DriverInv'
<1> DEFINE p == currentThread
<1> USE ConsoleConstants
<1>0. /\ p \in Threads /\ UNCHANGED consoleVars /\ CallTypes
      /\ stage[p] \in {"readEnd", "writeEnd"}
      /\ stage' = [stage EXCEPT ![p] = "user"] /\ left' = left
  BY DEF DriverInv, KernelTypes, ReleaseLock, Is, GoesTo
<1>1. KernelTypes' /\ UNCHANGED <<value, pending>>
  BY ReleaseStep DEF DriverInv, ReleaseLock, Freed
<1>2. CallTypes'
  BY <1>0 DEF CallTypes, Stages, consoleVars
<1>3. OwnersHaveTheLock'
  <2>1. \A t \in Threads : ~Owns(t)'
    BY <1>0 DEF DriverInv, CallTypes, OwnersHaveTheLock, Owns, ReadStages, WriteStages
  <2>. QED  BY <2>1 DEF OwnersHaveTheLock
<1>4. PutsAreAwaited'
  BY <1>0, <1>1, SamePut DEF DriverInv, consoleVars
<1>. QED  BY <1>1, <1>2, <1>3, <1>4 DEF DriverInv

LEMMA DeviceInv ==
  ASSUME DriverInv, CheckCharAvail \/ WriteDone  PROVE DriverInv'
<1> USE ConsoleConstants
<1>0. KernelTypes /\ CallTypes /\ UNCHANGED callVars
  BY DEF DriverInv, CheckCharAvail, WriteDone
<1>1. CASE CheckCharAvail
  <2>1. /\ KernelTypes' /\ value' = [value EXCEPT ![readAvail] = @ + 1]
        /\ UNCHANGED <<pending, isHeldBySome, currentHolder, putBusy>>
    BY <1>0, <1>1, VStep DEF CheckCharAvail, KernelTypes
  <2>2. CallTypes'
    BY <1>0, <1>1 DEF CheckCharAvail, CallTypes, callVars, EOF
  <2>3. OwnersHaveTheLock' /\ PutsAreAwaited'
    BY <1>0, <2>1 DEF DriverInv, OwnersHaveTheLock, Owns, PutsAreAwaited, callVars, KernelTypes
  <2>. QED  BY <2>1, <2>2, <2>3 DEF DriverInv
<1>2. CASE WriteDone
  <2>1. /\ pending[writeDone] > 0 /\ pending' = [pending EXCEPT ![writeDone] = @ - 1]
        /\ putBusy' = FALSE /\ UNCHANGED <<incoming, typed, got>>
    BY <1>2 DEF WriteDone, CheckIfDue
  <2>2. /\ KernelTypes' /\ value' = [value EXCEPT ![writeDone] = @ + 1]
        /\ UNCHANGED <<isHeldBySome, currentHolder>>
    <3>1. pending' \in [Semaphores -> Nat]
      <4>1. pending[writeDone] - 1 \in Nat
        BY <1>0, <2>1 DEF KernelTypes
      <4>. QED  BY <1>0, <2>1, <4>1 DEF KernelTypes
    <3>2. DoV(writeDone)
      BY <1>2 DEF WriteDone, CheckIfDue
    <3>. QED  BY <1>0, <3>1, <3>2, VStep
  <2>3. CallTypes'
    BY <1>0, <2>1 DEF CallTypes, callVars
  <2>4. OwnersHaveTheLock'
    BY <1>0, <2>2 DEF DriverInv, OwnersHaveTheLock, Owns, callVars
  <2>5. PutsAreAwaited'
    <3>1. pending[writeDone] = 1 /\ value[writeDone] = 0
      BY <1>0, <2>1 DEF DriverInv, PutsAreAwaited, KernelTypes
    <3>2. pending'[writeDone] = 0 /\ value'[writeDone] = 1
      BY <1>0, <2>1, <2>2, <3>1 DEF KernelTypes
    <3>3. \E t \in Threads : stage'[t] = "done"
      BY <1>0, <3>1 DEF DriverInv, PutsAreAwaited, callVars
    <3>4. ~putBusy'
      BY <2>1
    <3>5. pending'[writeDone] + value'[writeDone] = 1
      BY <3>2
    <3>. QED  BY <3>2, <3>3, <3>4, <3>5 DEF PutsAreAwaited
  <2>. QED  BY <2>2, <2>3, <2>4, <2>5 DEF DriverInv
<1>. QED  BY <1>1, <1>2

LEMMA DriverInvStep ==
  ASSUME DriverInv, [ConsoleNext]_systemVars  PROVE DriverInv'
<1>1. CASE UNCHANGED systemVars
  <2>1. KernelTypes' /\ UNCHANGED <<Shared, callVars, consoleVars>>
    BY <1>1 DEF systemVars, vars, threadVars, semVars, lockVars, deviceVars, Shared,
                DriverInv, KernelTypes
  <2>. QED  BY <2>1, OutsideStep
<1>2. CASE DriverStep
  BY <1>2, GetLockInv, AwaitCharInv, BufferInv, PutCharInv, AwaitDoneInv, ReleaseLockInv
     DEF DriverStep
<1>3. CASE BadAddress \/ ExecOrExit \/ KernelStep \/ Preempt
  <2>1. KernelTypes' /\ UNCHANGED Shared
    BY <1>3, QuietSteps, ExitStep DEF DriverInv, BadAddress, ExecOrExit, KernelStep, Preempt
  <2>2. UNCHANGED <<callVars, consoleVars>>
    BY <1>3 DEF BadAddress, ExecOrExit, KernelStep, Preempt
  <2>. QED  BY <2>1, <2>2, OutsideStep
<1>. QED  BY <1>1, <1>2, <1>3, CallInv, DeviceInv DEF ConsoleNext

\* No PutChar is called while another one is in progress: the ASSERT of
\* Console::PutChar cannot fail.
THEOREM PutsDoNotOverlap == ConsoleSpec => []PutsOneAtATime
<1>1. DriverInv => PutsOneAtATime
  <2> SUFFICES ASSUME DriverInv, NEW t \in Threads, stage[t] = "put"
               PROVE  ~putBusy /\ pending[writeDone] = 0 /\ value[writeDone] = 0
    BY DEF PutsOneAtATime
  <2>1. ~ \E u \in Threads : stage[u] = "done"
    BY DEF DriverInv, OwnersHaveTheLock, Owns, WriteStages
  <2>2. pending[writeDone] = 0 /\ value[writeDone] = 0
    BY <2>1, ConsoleConstants DEF DriverInv, PutsAreAwaited, KernelTypes
  <2>. QED  BY <2>2 DEF DriverInv, PutsAreAwaited
<1>. QED  BY <1>1, DriverStarts, DriverInvStep, PTL DEF ConsoleSpec

-----------------------------------------------------------------------------
(***************************************************************************)
(* Types                                                                   *)
(***************************************************************************)

\* The counters stay in their bounds.
Bounds ==
  /\ \A t \in Threads : left[t] <= MaxSize + 1
  /\ incoming <= MaxTyped /\ typed <= MaxTyped /\ got <= MaxTyped

LEMMA BoundsStep ==
  ASSUME DriverInv, Bounds, [ConsoleNext]_systemVars
  PROVE  Bounds'
<1> DEFINE p == currentThread
<1>0. p \in Threads /\ CallTypes /\ MaxSize \in Nat /\ MaxTyped \in Nat
  BY ConsoleAssumption DEF DriverInv, KernelTypes
<1>1. CASE Call
  <2>1. PICK n \in 0 .. (MaxSize + 1) : left' = [left EXCEPT ![p] = n]
    BY <1>0, <1>1 DEF Call
  <2>. QED  BY <1>0, <1>1, <2>1 DEF Bounds, Call, consoleVars, CallTypes
<1>2. CASE TakeChar \/ PutChar
  <2>1. left[p] > 0 /\ left' = [left EXCEPT ![p] = @ - 1]
    BY <1>0, <1>2 DEF TakeChar, PutChar, Counts, Is, CallTypes
  <2>2. UNCHANGED typed /\ incoming' \in {incoming, EOF} /\ got' \in {got, incoming}
    BY <1>2 DEF TakeChar, PutChar
  <2>. QED  BY <1>0, <2>1, <2>2 DEF Bounds, CallTypes, EOF
<1>3. CASE GetLock \/ AwaitChar \/ StoreBuffer \/ AwaitDone \/ ReleaseLock
  <2>1. UNCHANGED left /\ UNCHANGED consoleVars
    BY <1>3 DEF GetLock, AwaitChar, StoreBuffer, AwaitDone, ReleaseLock, GoesTo
  <2>. QED  BY <2>1 DEF Bounds, consoleVars
<1>4. CASE CheckCharAvail
  <2>1. typed < MaxTyped /\ typed' = typed + 1 /\ incoming' \in {EOF, typed + 1}
        /\ UNCHANGED <<left, got>>
    BY <1>4 DEF CheckCharAvail, callVars
  <2>. QED  BY <1>0, <2>1 DEF Bounds, CallTypes, EOF
<1>5. CASE WriteDone
  BY <1>5 DEF WriteDone, Bounds, callVars
<1>6. CASE BadAddress \/ ExecOrExit \/ KernelStep \/ Preempt \/ UNCHANGED systemVars
  <2>1. UNCHANGED <<callVars, consoleVars>>
    BY <1>6 DEF BadAddress, ExecOrExit, KernelStep, Preempt, systemVars
  <2>. QED  BY <2>1 DEF Bounds, callVars, consoleVars
<1>. QED  BY <1>1, <1>2, <1>3, <1>4, <1>5, <1>6 DEF ConsoleNext, DriverStep

\* The loops of Read and Write count down to zero and no further, and no number
\* of a character is made up.
THEOREM ConsoleTypesCorrect == ConsoleSpec => []ConsoleTypeOK
<1>1. ConsoleInit => Bounds
  BY ConsoleAssumption DEF ConsoleInit, Bounds, EOF
<1>2. DriverInv /\ Bounds => ConsoleTypeOK
  BY ConsoleAssumption DEF DriverInv, CallTypes, Bounds, ConsoleTypeOK
<1>. QED  BY <1>1, <1>2, DriverStarts, DriverInvStep, BoundsStep, PTL DEF ConsoleSpec

-----------------------------------------------------------------------------
(***************************************************************************)
(* The incoming characters, when none of them looks like EOF.              *)
(***************************************************************************)

\* Besides UnitIsAChar: the buffer holds the character after the one that was
\* taken last, if another has been typed.
CharsInOrder ==
  /\ UnitIsAChar
  /\ typed = got + (IF incoming = EOF THEN 0 ELSE 1)
  /\ incoming # EOF => incoming = got + 1
  /\ typed <= MaxTyped

\* A step away from the keyboard.
LEMMA SameChars ==
  ASSUME CallTypes, CharsInOrder, UNCHANGED <<incoming, typed, got>>,
         value'[readAvail] = value[readAvail],
         NEW p \in Threads, NEW there, stage' = [stage EXCEPT ![p] = there],
         stage[p] # "take", there # "take"
  PROVE  CharsInOrder'
<1>1. \A t \in Threads : (stage'[t] = "take") <=> (stage[t] = "take")
  BY DEF CallTypes
<1>. QED  BY <1>1 DEF CharsInOrder, UnitIsAChar, EOF

LEMMA CharsInOrderStep ==
  ASSUME LooksLikeEOF = {}, DriverInv, CharsInOrder, [ConsoleNext]_systemVars
  PROVE  CharsInOrder'
<1> DEFINE p == currentThread
<1> USE ConsoleConstants
<1>0. p \in Threads /\ CallTypes /\ KernelTypes
  BY DEF DriverInv, KernelTypes
<1>1. CASE UNCHANGED <<Shared, callVars, consoleVars>>
  BY <1>1 DEF CharsInOrder, UnitIsAChar, EOF, Shared, callVars, consoleVars
<1>2. CASE UNCHANGED systemVars
  BY <1>1, <1>2 DEF systemVars, vars, semVars, lockVars, deviceVars, Shared
<1>3. CASE BadAddress \/ ExecOrExit \/ KernelStep \/ Preempt
  <2>1. UNCHANGED Shared
    BY <1>0, <1>3, QuietSteps, ExitStep DEF BadAddress, ExecOrExit, KernelStep, Preempt
  <2>. QED  BY <1>1, <1>3, <2>1 DEF BadAddress, ExecOrExit, KernelStep, Preempt
<1>4. CASE Call
  <2>1. PICK there \in {"readLock", "writeLock"} : stage' = [stage EXCEPT ![p] = there]
    BY <1>4 DEF Call
  <2>2. stage[p] = "user" /\ UNCHANGED <<value, incoming, typed, got>>
    BY <1>4 DEF Call, Is, consoleVars, vars, semVars
  <2>. QED  BY <1>0, <2>1, <2>2, SameChars
<1>5. CASE GetLock
  <2>1. UNCHANGED <<value, incoming, typed, got>>
    <3>1. UNCHANGED value
      BY <1>0, <1>5, QuietSteps DEF GetLock, AcquireTakes, semVars, Shared
    <3>. QED  BY <1>5, <3>1 DEF GetLock, consoleVars
  <2>2. PICK there \in {"get", "readEnd", "put", "readLock", "writeLock"} : GoesTo(there)
    BY <1>5 DEF GetLock, Rounds
  <2>3. stage[p] \in {"readLock", "writeLock"}
    BY <1>5 DEF GetLock, Is
  <2>. QED  BY <1>0, <2>1, <2>2, <2>3, SameChars DEF GoesTo
<1>6. CASE AwaitChar
  <2>1. stage[p] = "get" /\ UNCHANGED <<incoming, typed, got>>
    BY <1>6 DEF AwaitChar, Is, consoleVars
  <2>2. CASE PTakes(readAvail) /\ GoesTo("take")
    <3>1. value[readAvail] > 0 /\ value'[readAvail] = value[readAvail] - 1
      BY <1>0, <2>2, PTakesStep DEF KernelTypes
    <3>2. \A t \in Threads : stage[t] # "take"
      BY <1>0, <2>1 DEF DriverInv, OwnersHaveTheLock, Owns, ReadStages
    <3>3. incoming # EOF /\ value[readAvail] = 1
      BY <1>0, <3>1, <3>2 DEF CharsInOrder, UnitIsAChar, KernelTypes
    <3>4. stage'[p] = "take"
      BY <1>0, <2>2 DEF GoesTo, CallTypes
    <3>. QED  BY <1>0, <2>1, <3>1, <3>3, <3>4 DEF CharsInOrder, UnitIsAChar, EOF
  <2>3. CASE PSleeps(readAvail) /\ GoesTo("get")
    <3>1. UNCHANGED value
      BY <1>0, <2>3, QuietSteps DEF Shared
    <3>. QED  BY <1>0, <2>1, <2>3, <3>1, SameChars DEF GoesTo
  <2>. QED  BY <1>6, <2>2, <2>3 DEF AwaitChar
<1>7. CASE TakeChar
  <2>1. /\ stage[p] = "take" /\ got' = incoming /\ incoming' = EOF
        /\ UNCHANGED <<value, typed>>
    BY <1>7 DEF TakeChar, Is, vars, semVars
  <2>2. incoming # EOF /\ value[readAvail] = 0 /\ incoming = got + 1 /\ typed = incoming
    BY <1>0, <2>1 DEF CharsInOrder, UnitIsAChar
  <2>3. \A t \in Threads : stage'[t] # "take"
    <3>1. \A t \in Threads : stage[t] = "take" => t = p
      BY <1>0, <2>1 DEF DriverInv, OwnersHaveTheLock, Owns, ReadStages
    <3>2. PICK there \in {"get", "store"} : stage' = [stage EXCEPT ![p] = there]
      BY <1>7 DEF TakeChar, Counts, Rounds
    <3>. QED  BY <1>0, <3>1, <3>2 DEF CallTypes
  <2>. QED  BY <1>0, <2>1, <2>2, <2>3 DEF CharsInOrder, UnitIsAChar, CallTypes
<1>8. CASE StoreBuffer \/ PutChar \/ AwaitDone \/ ReleaseLock
  <2>1. value'[readAvail] = value[readAvail] /\ UNCHANGED <<incoming, typed, got>>
    <3>1. CASE StoreBuffer \/ PutChar
      BY <3>1 DEF StoreBuffer, PutChar, vars, semVars, consoleVars
    <3>2. CASE AwaitDone
      BY <1>0, <3>2, PTakesStep, QuietSteps DEF AwaitDone, Shared, consoleVars, KernelTypes
    <3>3. CASE ReleaseLock
      BY <1>0, <3>3, ReleaseStep DEF ReleaseLock, Freed, consoleVars
    <3>. QED  BY <1>8, <3>1, <3>2, <3>3
  <2>2. stage[p] \in {"store", "put", "done", "readEnd", "writeEnd"}
    BY <1>8 DEF StoreBuffer, PutChar, AwaitDone, ReleaseLock, Is
  <2>3. PICK there \in {"readEnd", "done", "put", "writeEnd", "user"} :
          stage' = [stage EXCEPT ![p] = there]
    BY <1>8 DEF StoreBuffer, PutChar, AwaitDone, ReleaseLock, GoesTo, Counts, Rounds
  <2>. QED  BY <1>0, <2>1, <2>2, <2>3, SameChars
<1>9. CASE CheckCharAvail
  <2>1. /\ incoming = EOF /\ typed' = typed + 1 /\ incoming' = typed + 1
        /\ typed < MaxTyped /\ UNCHANGED <<stage, got, pending>> /\ DoV(readAvail)
    BY <1>9 DEF CheckCharAvail, callVars
  <2>2. value' = [value EXCEPT ![readAvail] = @ + 1]
    BY <1>0, <2>1, VStep DEF KernelTypes
  <2>3. /\ \A t \in Threads : stage[t] # "take"
        /\ value[readAvail] = 0 /\ typed = got
    BY <1>0, <2>1 DEF CharsInOrder, UnitIsAChar, CallTypes
  <2>4. value'[readAvail] = 1
    BY <1>0, <2>2, <2>3 DEF KernelTypes
  <2>5. typed' <= MaxTyped
    BY <1>0, <2>1, ConsoleAssumption DEF CallTypes
  <2>. QED  BY <1>0, <2>1, <2>3, <2>4, <2>5 DEF CharsInOrder, UnitIsAChar, EOF, CallTypes
<1>10. CASE WriteDone
  <2>1. DoV(writeDone) /\ UNCHANGED <<stage, incoming, typed, got>>
    BY <1>10 DEF WriteDone, CheckIfDue, callVars
  <2>2. value'[readAvail] = value[readAvail]
    BY <1>0, <2>1 DEF DoV, KernelTypes
  <2>. QED  BY <2>1, <2>2 DEF CharsInOrder, UnitIsAChar, EOF
<1>. QED  BY <1>2, <1>3, <1>4, <1>5, <1>6, <1>7, <1>8, <1>9, <1>10
          DEF ConsoleNext, DriverStep

\* Every unit of readAvail is the character in the buffer, provided that no
\* typed character equals EOF.
THEOREM UnitsAreChars ==
  ASSUME LooksLikeEOF = {}
  PROVE  ConsoleSpec => []UnitIsAChar
<1>1. ConsoleInit => CharsInOrder
  BY ConsoleAssumption, ConsoleConstants DEF ConsoleInit, Init, CharsInOrder, UnitIsAChar, EOF
<1>2. DriverInv /\ CharsInOrder /\ [ConsoleNext]_systemVars => CharsInOrder'
  BY CharsInOrderStep
<1>3. CharsInOrder => UnitIsAChar
  BY DEF CharsInOrder
<1>. QED  BY <1>1, <1>2, <1>3, DriverStarts, DriverInvStep, PTL DEF ConsoleSpec

-----------------------------------------------------------------------------
(***************************************************************************)
(* Console implements Terminal.                                            *)
(***************************************************************************)
LEMMA OnlyOwner ==
  ASSUME NEW t, NEW S, S = {t}
  PROVE  (IF S = {} THEN NoThread ELSE CHOOSE u \in S : TRUE) = t
OBVIOUS

KindOf(t) == IF stage[t] \in ReadStages THEN "read" ELSE "write"

\* What the terminal looks like from the process that has the lock, and without.
LEMMA Seen ==
  /\ DriverInv => \A t \in Threads :
       Owns(t) => /\ Owners # {} /\ TerminalUser = t
                  /\ TerminalKind = KindOf(t)
  /\ (\A t \in Threads : ~Owns(t)) =>
       Owners = {} /\ TerminalUser = NoThread /\ TerminalKind = "none"
<1>1. ASSUME DriverInv, NEW t \in Threads, Owns(t)
      PROVE  Owners # {} /\ TerminalUser = t /\ TerminalKind = KindOf(t)
  <2>1. Owners = {t}
    BY <1>1 DEF Owners, DriverInv, OwnersHaveTheLock, Owns
  <2>2. TerminalUser = t
    BY <2>1, OnlyOwner DEF TerminalUser
  <2>. QED  BY <2>1, <2>2 DEF TerminalKind, KindOf
<1>2. ASSUME \A t \in Threads : ~Owns(t)
      PROVE  Owners = {} /\ TerminalUser = NoThread /\ TerminalKind = "none"
  <2>1. Owners = {}
    BY <1>2 DEF Owners, Owns
  <2>. QED  BY <2>1 DEF TerminalUser, TerminalKind
<1>. QED  BY <1>1, <1>2

LEMMA SeenNext ==
  /\ DriverInv' => \A t \in Threads :
       Owns(t)' => /\ Owners' # {} /\ TerminalUser' = t
                   /\ TerminalKind' = KindOf(t)'
  /\ (\A t \in Threads : ~Owns(t)') =>
       Owners' = {} /\ TerminalUser' = NoThread /\ TerminalKind' = "none"
<1>1. (/\ DriverInv => \A t \in Threads :
            Owns(t) => /\ Owners # {} /\ TerminalUser = t
                       /\ TerminalKind = KindOf(t)
       /\ (\A t \in Threads : ~Owns(t)) =>
            Owners = {} /\ TerminalUser = NoThread /\ TerminalKind = "none")'
  BY Seen, PTL
<1>. QED  BY <1>1

\* A step between two places of the same call, with nothing put or handed out.
LEMMA StaysInCall ==
  ASSUME DriverInv, DriverInv', NEW p \in Threads, NEW there, Owns(p),
         stage' = [stage EXCEPT ![p] = there],
         \/ stage[p] \in ReadStages /\ there \in ReadStages
         \/ stage[p] \in WriteStages /\ there \in WriteStages
  PROVE  /\ Owns(p)' /\ TerminalUser' = TerminalUser /\ TerminalUser = p
         /\ Owners # {} /\ Owners' # {}
         /\ TerminalKind' = TerminalKind /\ TerminalKind = KindOf(p)
<1>1. stage'[p] = there
  BY DEF DriverInv, CallTypes
<1>2. Owns(p)' /\ KindOf(p)' = KindOf(p)
  BY <1>1 DEF Owns, KindOf, ReadStages, WriteStages
<1>. QED  BY <1>2, Seen, SeenNext

LEMMA TerminalStep ==
  ASSUME LooksLikeEOF = {}, DriverInv, DriverInv', CharsInOrder, [ConsoleNext]_systemVars
  PROVE  [AbstractTerminal!Next]_(AbstractTerminal!vars)
<1> DEFINE p == currentThread
<1> USE DEF AbstractTerminal!vars
<1>0. p \in Threads /\ CallTypes /\ KernelTypes /\ CallTypes'
  BY DEF DriverInv, KernelTypes
<1>1. CASE UNCHANGED <<stage, left, got>>
  BY <1>1 DEF Owners, TerminalUser, TerminalKind
<1>2. CASE \/ UNCHANGED systemVars \/ BadAddress \/ ExecOrExit \/ KernelStep \/ Preempt
           \/ CheckCharAvail \/ WriteDone
  BY <1>1, <1>2 DEF systemVars, callVars, consoleVars, BadAddress, ExecOrExit, KernelStep,
                    Preempt, CheckCharAvail, WriteDone
\* Nobody changes hands when p moves before it has the lock.
<1>3. ASSUME NEW there \in {"readLock", "writeLock"}, stage' = [stage EXCEPT ![p] = there],
             stage[p] \in {"user", "readLock", "writeLock"}, got' = got,
             \A t \in Threads \ {p} : left'[t] = left[t]
      PROVE  UNCHANGED AbstractTerminal!vars
  <2>1. \A t \in Threads : /\ Owns(t)' <=> Owns(t)
                           /\ Owns(t) => t # p /\ stage'[t] = stage[t]
    BY <1>0, <1>3 DEF Owns, CallTypes, ReadStages, WriteStages
  <2>2. CASE \E t \in Threads : Owns(t)
    <3>1. PICK t \in Threads : Owns(t)
      BY <2>2
    <3>2. Owns(t)' /\ left'[t] = left[t] /\ KindOf(t)' = KindOf(t)
      BY <2>1, <3>1, <1>3 DEF KindOf
    <3>. QED  BY <3>1, <3>2, <1>3, Seen, SeenNext
  <2>3. CASE \A t \in Threads : ~Owns(t)
    BY <2>1, <2>3, <1>3, Seen, SeenNext
  <2>. QED  BY <2>2, <2>3
<1>4. CASE Call
  <2>1. PICK there \in {"readLock", "writeLock"}, n \in Nat :
          /\ stage' = [stage EXCEPT ![p] = there]
          /\ left' = [left EXCEPT ![p] = n]
    BY <1>4, ConsoleAssumption DEF Call
  <2>2. stage[p] = "user" /\ got' = got
    BY <1>4 DEF Call, Is, consoleVars
  <2>. QED  BY <1>0, <1>3, <2>1, <2>2 DEF CallTypes
<1>5. CASE GetLock
  <2>0. stage[p] \in {"readLock", "writeLock"} /\ got' = got /\ left' = left
    BY <1>5 DEF GetLock, Is, GoesTo, consoleVars
  <2>1. CASE AcquireSleeps(consoleLock)
    <3>1. ~AcquireTakes(consoleLock)
      BY <2>1 DEF AcquireTakes, AcquireSleeps
    <3>2. PICK there \in {"readLock", "writeLock"} : stage' = [stage EXCEPT ![p] = there]
      BY <1>5, <3>1 DEF GetLock, GoesTo
    <3>. QED  BY <1>3, <2>0, <3>2
  <2>2. CASE AcquireTakes(consoleLock)
    <3>1. ~AcquireSleeps(consoleLock) /\ ~isHeldBySome[consoleLock] /\ p' = p
      BY <2>2 DEF AcquireTakes, AcquireSleeps
    <3>2. \A t \in Threads : ~Owns(t)
      BY <3>1 DEF DriverInv, OwnersHaveTheLock
    <3>3. \/ /\ stage[p] = "readLock"
             /\ \E there \in {"get", "readEnd"} : stage' = [stage EXCEPT ![p] = there]
          \/ stage[p] = "writeLock" /\ stage' = [stage EXCEPT ![p] = "put"]
      BY <1>5, <3>1 DEF GetLock, Is, GoesTo, Rounds
    <3>4. CASE stage[p] = "readLock"
      <4>1. stage'[p] \in {"get", "readEnd"}
        BY <1>0, <3>3, <3>4 DEF CallTypes
      <4>2. Owns(p)' /\ KindOf(p)' = "read"
        BY <3>1, <4>1 DEF Owns, KindOf, ReadStages
      <4>3. /\ TerminalUser = NoThread /\ TerminalUser' = p
            /\ Owners = {} /\ Owners' # {} /\ TerminalKind' = "read"
        BY <1>0, <3>1, <3>2, <4>2, Seen, SeenNext
      <4>4. left'[p] \in 0 .. MaxSize
        BY <1>0, <2>0, <3>4, ConsoleAssumption DEF CallTypes
      <4>5. AbstractTerminal!Open(p)
        BY <2>0, <3>1, <4>3, <4>4 DEF AbstractTerminal!Open
      <4>. QED  BY <1>0, <4>5 DEF AbstractTerminal!Next
    <3>5. CASE stage[p] = "writeLock"
      <4>1. stage'[p] = "put"
        BY <1>0, <3>3, <3>5 DEF CallTypes
      <4>2. Owns(p)' /\ KindOf(p)' = "write"
        BY <3>1, <4>1 DEF Owns, KindOf, ReadStages, WriteStages
      <4>3. /\ TerminalUser = NoThread /\ TerminalUser' = p
            /\ Owners = {} /\ Owners' # {} /\ TerminalKind' = "write"
        BY <1>0, <3>1, <3>2, <4>2, Seen, SeenNext
      <4>4. left'[p] - 1 \in 0 .. MaxSize /\ left'[p] = (left'[p] - 1) + 1
        BY <1>0, <2>0, <3>5, ConsoleAssumption DEF CallTypes
      <4>5. AbstractTerminal!Open(p)
        BY <2>0, <3>1, <4>3, <4>4 DEF AbstractTerminal!Open
      <4>. QED  BY <1>0, <4>5 DEF AbstractTerminal!Next
    <3>. QED  BY <2>0, <3>4, <3>5
  <2>. QED  BY <1>5, <2>1, <2>2 DEF GetLock
<1>6. CASE AwaitChar \/ StoreBuffer \/ AwaitDone
  <2>1. PICK there : /\ stage' = [stage EXCEPT ![p] = there]
                     /\ \/ stage[p] \in ReadStages /\ there \in ReadStages
                        \/ stage[p] \in WriteStages /\ there \in WriteStages
    BY <1>6 DEF AwaitChar, StoreBuffer, AwaitDone, Is, GoesTo, Rounds, ReadStages, WriteStages
  <2>2. left' = left /\ got' = got
    BY <1>6 DEF AwaitChar, StoreBuffer, AwaitDone, GoesTo, consoleVars
  <2>. QED  BY <1>0, <2>1, <2>2, StaysInCall DEF Owns
<1>7. CASE TakeChar
  <2>1. /\ stage[p] = "take" /\ left' = [left EXCEPT ![p] = @ - 1] /\ got' = incoming
    BY <1>7 DEF TakeChar, Is, Counts
  <2>2. PICK there \in {"get", "store"} : stage' = [stage EXCEPT ![p] = there]
    BY <1>7 DEF TakeChar, Counts, Rounds
  <2>3. incoming = got + 1 /\ got < MaxTyped
    BY <1>0, <2>1, ConsoleAssumption DEF CharsInOrder, UnitIsAChar, CallTypes
  <2>4. left[p] > 0 /\ left'[p] = left[p] - 1
    BY <1>0, <2>1 DEF CallTypes
  <2>5. /\ TerminalUser' = TerminalUser /\ TerminalUser = p
        /\ Owners # {} /\ Owners' # {}
        /\ TerminalKind' = TerminalKind /\ TerminalKind = "read"
    BY <1>0, <2>1, <2>2, StaysInCall DEF Owns, ReadStages, KindOf
  <2>6. AbstractTerminal!GetChar
    BY <2>1, <2>3, <2>4, <2>5 DEF AbstractTerminal!GetChar
  <2>. QED  BY <2>6 DEF AbstractTerminal!Next
<1>8. CASE PutChar
  <2>1. /\ stage[p] = "put" /\ left' = [left EXCEPT ![p] = @ - 1] /\ got' = got
        /\ stage' = [stage EXCEPT ![p] = "done"]
    BY <1>8 DEF PutChar, Is, Counts
  <2>2. left[p] > 0 /\ left'[p] = left[p] - 1
    BY <1>0, <2>1 DEF CallTypes
  <2>3. /\ TerminalUser' = TerminalUser /\ TerminalUser = p
        /\ Owners # {} /\ Owners' # {}
        /\ TerminalKind' = TerminalKind /\ TerminalKind = "write"
    BY <1>0, <2>1, StaysInCall DEF Owns, ReadStages, WriteStages, KindOf
  <2>4. AbstractTerminal!PutChar
    BY <2>1, <2>2, <2>3 DEF AbstractTerminal!PutChar
  <2>. QED  BY <2>4 DEF AbstractTerminal!Next
<1>9. CASE ReleaseLock
  <2>1. /\ stage[p] \in {"readEnd", "writeEnd"} /\ left' = left /\ got' = got
        /\ stage' = [stage EXCEPT ![p] = "user"]
    BY <1>9 DEF ReleaseLock, Is, GoesTo, consoleVars
  <2>2. Owns(p) /\ left[p] = 0
    BY <1>0, <2>1 DEF Owns, ReadStages, WriteStages, CallTypes
  <2>3. \A t \in Threads : ~Owns(t)'
    BY <1>0, <2>1, <2>2 DEF DriverInv, OwnersHaveTheLock, Owns, CallTypes, ReadStages, WriteStages
  <2>4. /\ TerminalUser = p /\ Owners # {} /\ TerminalUser' = NoThread
        /\ TerminalKind' = "none" /\ Owners' = {}
    BY <1>0, <2>2, <2>3, Seen, SeenNext
  <2>5. p # NoThread
    BY <1>0, KernelAssumption
  <2>6. AbstractTerminal!Close
    BY <2>1, <2>2, <2>4, <2>5 DEF AbstractTerminal!Close
  <2>. QED  BY <2>6 DEF AbstractTerminal!Next
<1>. QED  BY <1>2, <1>4, <1>5, <1>6, <1>7, <1>8, <1>9 DEF ConsoleNext, DriverStep

\* The system calls Read and Write implement the terminal: a call keeps it from
\* its first character to its last, and what is typed is handed out in order,
\* each character once, provided that none of them equals EOF.
THEOREM ConsoleIsATerminal ==
  ASSUME LooksLikeEOF = {}
  PROVE  ConsoleSpec => ImplementsTerminal
<1>1. ConsoleInit => CharsInOrder
  BY ConsoleAssumption, ConsoleConstants DEF ConsoleInit, Init, CharsInOrder, UnitIsAChar, EOF
<1>2. DriverInv /\ CharsInOrder /\ [ConsoleNext]_systemVars => CharsInOrder'
  BY CharsInOrderStep
<1>3. ConsoleInit => AbstractTerminal!Init
  <2> SUFFICES ASSUME ConsoleInit PROVE AbstractTerminal!Init
    OBVIOUS
  <2>1. \A t \in Threads : ~Owns(t)
    BY DEF ConsoleInit, Owns, ReadStages, WriteStages
  <2>. QED  BY <2>1, Seen DEF ConsoleInit, AbstractTerminal!Init
<1>4. DriverInv /\ DriverInv' /\ CharsInOrder /\ [ConsoleNext]_systemVars
        => [AbstractTerminal!Next]_(AbstractTerminal!vars)
  BY TerminalStep
<1>. QED  BY <1>1, <1>2, <1>3, <1>4, DriverStarts, DriverInvStep, PTL
          DEF ConsoleSpec, ImplementsTerminal, AbstractTerminal!Spec
=============================================================================
