----------------------- MODULE ProducerConsumerProofs -----------------------
(***************************************************************************)
(* Proofs about ProducerConsumer, for any numbers of producers and         *)
(* consumers, any table and with or without preemption.                    *)
(***************************************************************************)
EXTENDS ProducerConsumer, KernelProofs

-----------------------------------------------------------------------------
(***************************************************************************)
(* The program is a client of the kernel: a step of the program is a step  *)
(* of Kernel or leaves it alone.                                           *)
(***************************************************************************)
LEMMA StepOfKernel == [ProgramNext]_programVars => [Next]_vars
<1>. SUFFICES ASSUME [ProgramNext]_programVars
              PROVE  [Next]_vars
  OBVIOUS
<1>. USE DEF Next, ThreadStep, SemaphoreStep, LockStep, ConditionStep, DeviceStep
<1>1. /\ TableLock \in Locks
      /\ ProduceCondition \in Conditions /\ ConsumeCondition \in Conditions
      /\ "IntOn" \in Levels /\ "IntOff" \in Levels
  BY ProgramAssumption DEF Levels
<1>2. CASE ForkNext
  <2>1. PICK i \in DOMAIN ForkOrder : Fork(ForkOrder[i])
    BY <1>2 DEF ForkNext
  <2>2. ForkOrder[i] \in Threads
    BY ProgramAssumption DEF Range
  <2>. QED  BY <2>1, <2>2
<1>3. CASE MainFinishes
  BY <1>3 DEF MainFinishes
<1>4. CASE WorkerStep
  <2>1. CASE DisableInterrupts \/ EnableInterrupts
    BY <1>1, <2>1 DEF DisableInterrupts, EnableInterrupts
  <2>2. CASE TakeLock
    BY <1>1, <2>2 DEF TakeLock
  <2>3. CASE Blocks
    BY <1>1, <2>3 DEF Blocks
  <2>4. CASE GoesOn
    BY <2>4 DEF GoesOn
  <2>5. CASE PutItem \/ GetItem
    BY <1>1, <2>5 DEF PutItem, GetItem
  <2>6. CASE ReleaseLock
    BY <1>1, <2>6 DEF ReleaseLock
  <2>. QED  BY <1>4, <2>1, <2>2, <2>3, <2>4, <2>5, <2>6 DEF WorkerStep
<1>5. CASE KernelStep
  BY <1>5 DEF KernelStep, Preempt
<1>6. CASE UNCHANGED programVars
  BY <1>6 DEF programVars
<1>. QED  BY <1>2, <1>3, <1>4, <1>5, <1>6 DEF ProgramNext

\* Everything proved of the kernel for arbitrary programs holds of the
\* producers and consumers: ThreadTest only calls the kernel's operations.
THEOREM ProgramRunsOnKernel == ProgramSpec => Spec
<1>1. ProgramInit => Init
  BY DEF ProgramInit
<1>2. [ProgramNext]_programVars => [Next]_vars
  BY StepOfKernel
<1>. QED  BY <1>1, <1>2, PTL DEF ProgramSpec, Spec

-----------------------------------------------------------------------------
(***************************************************************************)
(* The sleepers of each condition are of its own kind.                     *)
(***************************************************************************)
RightSleepers ==
  /\ Sleepers(ConsumeCondition) \subseteq Consumers
  /\ Sleepers(ProduceCondition) \subseteq Producers

ProgramInv == IInv /\ RightSleepers /\ NobodyIsForgotten

\* Signal leaves out of the queue somebody who may have been in it, and
\* nobody comes in.
LEMMA SignalLemma ==
  ASSUME IInv, NEW c \in Conditions, Signal(c)
  PROVE  /\ Sleepers(c)' \subseteq Sleepers(c)
         /\ Sleepers(c) # {} => ~(Sleepers(c) \subseteq Sleepers(c)')
         /\ \A d \in Conditions \ {c} : Sleepers(d)' = Sleepers(d)
         /\ currentThread \in Threads
         /\ \A d \in Conditions : currentThread \notin Sleepers(d)
<1>1. /\ TypeOK /\ EachThreadInOnePlace /\ Busy
      /\ condQueue[c] \in Seq(Threads) /\ IsInjective(condQueue[c])
  BY DEF IInv, EachThreadInOnePlace, TypeOK, Signal, CallsWithLock, InProgram
<1>2. /\ condQueue'[c] = Rest(condQueue[c])
      /\ \A d \in Conditions \ {c} : condQueue'[d] = condQueue[d]
  BY <1>1 DEF Signal, TypeOK
<1>3. /\ Range(Rest(condQueue[c])) = Range(condQueue[c]) \ Range(First(condQueue[c]))
      /\ condQueue[c] # <<>> => Range(First(condQueue[c])) = {Head(condQueue[c])}
      /\ condQueue[c] # <<>> => Head(condQueue[c]) \in Range(condQueue[c])
      /\ condQueue[c] = <<>> => Range(condQueue[c]) = {}
  BY <1>1, FirstRest, TailQueue, NoWokenThreads
<1>4. currentThread \in Threads /\ \A d \in Conditions : currentThread \notin Sleepers(d)
  BY <1>1, RunningIsInNoQueue DEF Sleepers, TypeOK
<1>. QED  BY <1>2, <1>3, <1>4 DEF Sleepers

\* Wait adds the caller to the sleepers.
LEMMA WaitLemma ==
  ASSUME TypeOK, NEW c \in Conditions, Wait(c)
  PROVE  /\ Sleepers(c)' = Sleepers(c) \cup {currentThread}
         /\ \A d \in Conditions \ {c} : Sleepers(d)' = Sleepers(d)
<1>1. /\ condQueue[c] \in Seq(Threads) /\ currentThread \in Threads
      /\ condQueue \in [Conditions -> Seq(Threads)]
  BY DEF TypeOK
<1>2. /\ condQueue'[c] = Append(condQueue[c], currentThread)
      /\ \A d \in Conditions \ {c} : condQueue'[d] = condQueue[d]
  BY <1>1 DEF Wait
<1>. QED  BY <1>1, <1>2, AppendQueue DEF Sleepers

LEMMA ProgramInvStep ==
  ASSUME ProgramInv, [ProgramNext]_programVars
  PROVE  ProgramInv'
<1>1. IInv /\ TypeOK /\ IInv'
  BY StepOfKernel, NextInvariant DEF ProgramInv, IInv
<1>. SUFFICES RightSleepers' /\ NobodyIsForgotten'
  BY <1>1 DEF ProgramInv
<1>2. /\ ProduceCondition \in Conditions /\ ConsumeCondition \in Conditions
      /\ ProduceCondition # ConsumeCondition
      /\ Producers \cap Consumers = {} /\ Producers # {} /\ Consumers # {}
      /\ Capacity \in Nat \ {0}
  BY ProgramAssumption
<1>3. ASSUME UNCHANGED <<condQueue, buffer>>
      PROVE  RightSleepers' /\ NobodyIsForgotten'
  BY <1>3 DEF ProgramInv, RightSleepers, NobodyIsForgotten, Sleepers, IsFull
<1>4. CASE Blocks
  <2>1. PICK c \in {ProduceCondition, ConsumeCondition} :
           /\ Wait(c)
           /\ c = IF currentThread \in Producers THEN ProduceCondition ELSE ConsumeCondition
    BY <1>4 DEF Blocks
  <2>2. /\ Sleepers(c)' = Sleepers(c) \cup {currentThread}
        /\ \A d \in Conditions \ {c} : Sleepers(d)' = Sleepers(d)
    BY <1>1, <1>2, <2>1, WaitLemma
  <2>3. /\ buffer' = buffer
        /\ currentThread \in Producers => IsFull
        /\ currentThread \in Consumers => IsEmpty
        /\ currentThread \in Producers \cup Consumers
    BY <1>2, <1>4 DEF Blocks, IsBlocked, tableVars, Is, Workers
  <2>4. CASE currentThread \in Producers
    BY <1>2, <2>1, <2>2, <2>3, <2>4
       DEF ProgramInv, RightSleepers, NobodyIsForgotten, IsFull, Sleepers
  <2>5. CASE currentThread \in Consumers
    <3>1. buffer # <<>> => ~IsEmpty
      BY <1>2 DEF IsEmpty
    <3>. QED  BY <1>2, <2>1, <2>2, <2>3, <2>5, <3>1
              DEF ProgramInv, RightSleepers, NobodyIsForgotten, IsFull, Sleepers
  <2>. QED  BY <2>3, <2>4, <2>5
<1>5. CASE PutItem
  <2>1. Signal(ConsumeCondition) /\ currentThread \in Producers
    BY <1>5 DEF PutItem
  <2>2. /\ Sleepers(ConsumeCondition)' \subseteq Sleepers(ConsumeCondition)
        /\ Sleepers(ConsumeCondition) # {} =>
             ~(Sleepers(ConsumeCondition) \subseteq Sleepers(ConsumeCondition)')
        /\ Sleepers(ProduceCondition)' = Sleepers(ProduceCondition)
        /\ currentThread \notin Sleepers(ProduceCondition)
    BY <1>1, <1>2, <2>1, SignalLemma
  <2>3. RightSleepers'
    BY <2>2 DEF ProgramInv, RightSleepers, Sleepers
  <2>4. ~(Consumers \subseteq Sleepers(ConsumeCondition)')
    BY <1>2, <2>2 DEF ProgramInv, RightSleepers
  <2>5. ~(Producers \subseteq Sleepers(ProduceCondition)')
    BY <2>1, <2>2
  <2>. QED  BY <2>3, <2>4, <2>5 DEF NobodyIsForgotten, Sleepers
<1>6. CASE GetItem
  <2>1. Signal(ProduceCondition) /\ currentThread \in Consumers
    BY <1>6 DEF GetItem
  <2>2. /\ Sleepers(ProduceCondition)' \subseteq Sleepers(ProduceCondition)
        /\ Sleepers(ProduceCondition) # {} =>
             ~(Sleepers(ProduceCondition) \subseteq Sleepers(ProduceCondition)')
        /\ Sleepers(ConsumeCondition)' = Sleepers(ConsumeCondition)
        /\ currentThread \notin Sleepers(ConsumeCondition)
    BY <1>1, <1>2, <2>1, SignalLemma
  <2>3. RightSleepers'
    BY <2>2 DEF ProgramInv, RightSleepers, Sleepers
  <2>4. ~(Producers \subseteq Sleepers(ProduceCondition)')
    BY <1>2, <2>2 DEF ProgramInv, RightSleepers
  <2>5. ~(Consumers \subseteq Sleepers(ConsumeCondition)')
    BY <2>1, <2>2
  <2>. QED  BY <2>3, <2>4, <2>5 DEF NobodyIsForgotten, Sleepers
<1>7. CASE ForkNext \/ MainFinishes \/ KernelStep
  <2>1. UNCHANGED <<condQueue, buffer>>
    BY <1>7 DEF ForkNext, Fork, MainFinishes, Finish, KernelStep, Preempt, ThreadRoot, Yield,
                YieldReturns, Halt, tableVars
  <2>. QED  BY <1>3, <2>1
<1>8. CASE DisableInterrupts \/ EnableInterrupts \/ TakeLock \/ GoesOn \/ ReleaseLock
  <2>1. UNCHANGED <<condQueue, buffer>>
    BY <1>8 DEF DisableInterrupts, EnableInterrupts, SetLevel, TakeLock, AcquireTakes,
                AcquireSleeps, GoesOn, ReleaseLock, Release, tableVars, vars
  <2>. QED  BY <1>3, <2>1
<1>9. CASE UNCHANGED programVars
  BY <1>3, <1>9 DEF programVars, vars, tableVars
<1>. QED  BY <1>4, <1>5, <1>6, <1>7, <1>8, <1>9 DEF ProgramNext, WorkerStep

LEMMA ProgramInvStarts == ProgramInit => ProgramInv
<1>. SUFFICES ASSUME ProgramInit PROVE ProgramInv
  OBVIOUS
<1>1. IInv
  BY InitInvariant DEF ProgramInit
<1>2. /\ \A c \in Conditions : Sleepers(c) = {}
      /\ buffer = <<>>
  BY NoWokenThreads DEF ProgramInit, Init, Sleepers
<1>. QED  BY <1>1, <1>2, ProgramAssumption DEF ProgramInv, RightSleepers, NobodyIsForgotten

\* No wake-up is lost between the producers and the consumers: Signal in
\* PutItem and GetItem is enough although it wakes one thread at most and the
\* woken thread may find the table changed.
THEOREM NobodyForgotten == ProgramSpec => []NobodyIsForgotten
<1>1. ProgramInit => ProgramInv
  BY ProgramInvStarts
<1>2. ProgramInv /\ [ProgramNext]_programVars => ProgramInv'
  BY ProgramInvStep
<1>3. ProgramInv => NobodyIsForgotten
  BY DEF ProgramInv
<1>. QED  BY <1>1, <1>2, <1>3, PTL DEF ProgramSpec

-----------------------------------------------------------------------------
(***************************************************************************)
(* Where the workers are.  Only the worker with the CPU is in the middle   *)
(* of Produce or Consume, and it has interrupts off there; the others are  *)
(* before the first statement of their loop or asleep in Wait.  So nobody  *)
(* is switched out with the lock.                                          *)
(***************************************************************************)
OwnCondition(w) == IF w \in Producers THEN ProduceCondition ELSE ConsumeCondition

BeforeLoop(w) == stage[w] = "loop" => /\ continuation[w] \in {New, Root, User, Yields}
                                      /\ continuation[w] = User => level = "IntOn"
Working(w)    == stage[w] \in {"enter", "test", "act", "release", "restore"} =>
                   continuation[w] = User /\ level = "IntOff"
Waits(w)      == stage[w] = "waits" =>
                   continuation[w] = At("Wait", OwnCondition(w)) /\ oldLevel[w] = "IntOff"
CanAct(w)     == stage[w] = "act" => IF w \in Producers THEN ~IsFull ELSE ~IsEmpty

WorkerIsRight(w) == BeforeLoop(w) /\ Working(w) /\ Waits(w) /\ CanAct(w)

MainIsRight ==
  /\ continuation[Main] \in {User, Yields, Ends}
  /\ continuation[Main] = User => level = "IntOn"
  /\ continuation[Main] = Ends => \A w \in Workers : continuation[w] # New

YieldedOn(t) == continuation[t] = Yields => oldLevel[t] = "IntOn"

HolderWorks ==
  isHeldBySome[TableLock] => \E w \in Workers : stage[w] \in {"test", "act", "release"}

PlacesAreRight ==
  /\ stage \in [Workers -> Stages]
  /\ \A w \in Workers : WorkerIsRight(w)
  /\ MainIsRight
  /\ \A t \in Threads : YieldedOn(t)

WorkersInv == PlacesAreRight /\ HolderWorks /\ ProgramTypeOK /\ NeverHalts

SafeInv == ProgramInv /\ PlacesFit /\ WorkersInv

LEMMA PlacesAreConstant ==
  /\ User' = User /\ Root' = Root /\ Yields' = Yields /\ New' = New /\ Ends' = Ends
  /\ \A x, y : At(x, y)' = At(x, y)
  /\ \A w : OwnCondition(w)' = OwnCondition(w)
BY DEF User, Root, Yields, New, Ends, At, OwnCondition

LEMMA OnlyOneInUser ==
  ASSUME IInv, PlacesFit
  PROVE  \A t \in Threads : continuation[t] = User => t = currentThread /\ status[t] = "RUNNING"
BY OnePlaceParts DEF IInv, PlacesFit, OneRunning

\* A step of the running thread, which leaves the other threads where they are.
LEMMA RunningSteps ==
  ASSUME IInv, PlacesFit, PlacesAreRight, stage' \in [Workers -> Stages],
         NEW me \in Threads, currentThread = me,
         \A t \in Threads \ {me} : continuation'[t] = continuation[t] /\ oldLevel'[t] = oldLevel[t],
         \A w \in Workers \ {me} : stage'[w] = stage[w],
         continuation'[me] # New,
         me \in Workers => WorkerIsRight(me)',
         me = Main => MainIsRight',
         YieldedOn(me)'
  PROVE  PlacesAreRight'
<1>1. \A t \in Threads \ {me} : continuation[t] # User
  BY OnlyOneInUser
<1>2. Workers \subseteq Threads /\ Main \in Threads
  BY ProgramAssumption
<1>3. ASSUME NEW w \in Workers \ {me} PROVE WorkerIsRight(w)'
  <2>1. stage[w] \in {"loop", "waits"} /\ WorkerIsRight(w)
    BY <1>1, <1>2, <1>3 DEF PlacesAreRight, WorkerIsRight, Working, Stages
  <2>2. /\ stage'[w] = stage[w] /\ continuation'[w] = continuation[w] /\ oldLevel'[w] = oldLevel[w]
        /\ continuation[w] # User
    BY <1>1, <1>2, <1>3
  <2>. QED  BY <2>1, <2>2, PlacesAreConstant DEF WorkerIsRight, BeforeLoop, Working, Waits, CanAct
<1>4. ASSUME me # Main PROVE MainIsRight'
  <2>1. /\ continuation'[Main] = continuation[Main] /\ continuation[Main] # User
        /\ \A w \in Workers : continuation[w] # New => continuation'[w] # New
    BY <1>1, <1>2, <1>4
  <2>. QED  BY <2>1, PlacesAreConstant DEF PlacesAreRight, MainIsRight
<1>5. ASSUME NEW t \in Threads \ {me} PROVE YieldedOn(t)'
  BY <1>5, PlacesAreConstant DEF PlacesAreRight, YieldedOn
<1>. QED  BY <1>3, <1>4, <1>5 DEF PlacesAreRight

\* A step of Produce or Consume by the running worker.
LEMMA WorkerMoves ==
  ASSUME IInv, PlacesFit, PlacesAreRight, NEW here \in Stages, NEW there \in Stages,
         Is(here, there), NEW me \in Threads, me = currentThread,
         NEW place, continuation' = [continuation EXCEPT ![me] = place],
         place # New, place # Yields,
         \A t \in Threads \ {me} : oldLevel'[t] = oldLevel[t],
         there = "loop" => place \in {Root, User} /\ (place = User => level' = "IntOn"),
         there \in {"enter", "test", "act", "release", "restore"} => place = User /\ level' = "IntOff",
         there = "waits" => place = At("Wait", OwnCondition(me)) /\ oldLevel'[me] = "IntOff",
         there = "act" => CanAct(me)'
  PROVE  PlacesAreRight'
<1>1. /\ me \in Workers /\ me # Main /\ me \in Threads
      /\ stage' = [stage EXCEPT ![me] = there] /\ stage \in [Workers -> Stages]
      /\ continuation \in [Threads -> Places]
  BY ProgramAssumption DEF Is, IInv, TypeOK, PlacesAreRight
<1>2. /\ stage'[me] = there /\ continuation'[me] = place
      /\ \A w \in Workers \ {me} : stage'[w] = stage[w]
      /\ \A t \in Threads \ {me} : continuation'[t] = continuation[t]
      /\ stage' \in [Workers -> Stages]
  BY <1>1
<1>3. WorkerIsRight(me)'
  BY <1>2, PlacesAreConstant DEF WorkerIsRight, BeforeLoop, Working, Waits, CanAct
<1>4. YieldedOn(me)'
  BY <1>2, PlacesAreConstant DEF YieldedOn
<1>. QED  BY <1>1, <1>2, <1>3, <1>4, RunningSteps

\* Main or a worker before its loop moves by an operation of the kernel.
LEMMA OutsideMoves ==
  ASSUME IInv, PlacesFit, PlacesAreRight, UNCHANGED stage,
         NEW me \in Threads, me = currentThread, continuation[me] \in {Root, User, Yields},
         me \in Workers => stage[me] = "loop",
         NEW place \in {User, Yields}, continuation' = [continuation EXCEPT ![me] = place],
         \A t \in Threads \ {me} : oldLevel'[t] = oldLevel[t],
         place = User => level' = "IntOn",
         place = Yields => oldLevel'[me] = "IntOn"
  PROVE  PlacesAreRight'
<1>1. /\ me \in Workers \/ me = Main
      /\ stage \in [Workers -> Stages] /\ continuation \in [Threads -> Places]
  BY ProgramAssumption DEF IInv, TypeOK, PlacesAreRight
<1>2. /\ continuation'[me] = place
      /\ \A t \in Threads \ {me} : continuation'[t] = continuation[t]
  BY <1>1
<1>3. place # New /\ place # Ends /\ User # Yields
  BY PlaceFacts
<1>4. me \in Workers => WorkerIsRight(me)'
  BY <1>2, <1>3, PlacesAreConstant DEF WorkerIsRight, BeforeLoop, Working, Waits, CanAct
<1>5. me = Main => MainIsRight'
  BY <1>2, <1>3, PlacesAreConstant DEF MainIsRight
<1>6. YieldedOn(me)'
  BY <1>2, <1>3, PlacesAreConstant DEF YieldedOn
<1>. QED  BY <1>1, <1>2, <1>3, <1>4, <1>5, <1>6, RunningSteps

\* Nobody but the running thread has the lock.
LEMMA LockIsFreeHere ==
  ASSUME IInv, PlacesFit, PlacesAreRight, HolderWorks,
         currentThread \in Workers, stage[currentThread] \in {"enter", "waits"}
  PROVE  ~isHeldBySome[TableLock]
<1>1. SUFFICES ASSUME NEW w \in Workers, stage[w] \in {"test", "act", "release"} PROVE FALSE
  BY DEF HolderWorks
<1>2. continuation[w] = User /\ w \in Threads
  BY <1>1, ProgramAssumption DEF PlacesAreRight, WorkerIsRight, Working
<1>. QED  BY <1>1, <1>2, OnlyOneInUser

LEMMA PlacesStep ==
  ASSUME IInv, PlacesFit, PlacesAreRight, HolderWorks, [ProgramNext]_programVars
  PROVE  PlacesAreRight'
<1>m. PICK me \in Threads : me = currentThread
  BY DEF IInv, TypeOK
<1> USE <1>m
<1>0. /\ Workers \subseteq Threads /\ Main \in Threads
      /\ Main \notin Workers /\ Threads = Workers \cup {Main}
      /\ continuation \in [Threads -> Places] /\ oldLevel \in [Threads -> Levels]
      /\ stage \in [Workers -> Stages]
  BY ProgramAssumption DEF IInv, TypeOK, PlacesAreRight
<1>1. {"loop", "enter", "test", "act", "waits", "release", "restore"} = Stages
  BY DEF Stages
<1>2. /\ User \notin {New, Root, Yields, Ends} /\ Yields \notin {New, Root, Ends} /\ Ends # New
      /\ Root # New /\ Root # Ends
      /\ \A c : At("Wait", c) \notin {New, Root, User, Yields, Ends}
  BY PlaceFacts DEF Root, Yields, At
\* A worker that is in its program is in the stage its level says; one that
\* is not has not started its loop or waits.
<1>3. me \in Workers => WorkerIsRight(me) /\ stage[me] \in Stages
  BY <1>0 DEF PlacesAreRight
<1>4. CASE ForkNext
  <2>1. PICK i \in DOMAIN ForkOrder : Fork(ForkOrder[i])
    BY <1>4 DEF ForkNext
  <2>2. PICK w \in Workers : Fork(w)
    BY <2>1, ProgramAssumption DEF Range
  <2>3. /\ continuation[w] = New /\ oldLevel' = oldLevel /\ level' = level /\ stage' = stage
        /\ \A t \in Threads : continuation'[t] = IF t = w THEN Root ELSE continuation[t]
        /\ buffer' = buffer
    BY <1>0, <1>4, <2>2 DEF Fork, ForkNext, tableVars
  <2>4. stage[w] = "loop"
    BY <1>0, <1>1, <1>2, <2>3 DEF PlacesAreRight, WorkerIsRight, Working, Waits
  <2>5. ASSUME NEW v \in Workers PROVE WorkerIsRight(v)'
    <3>1. WorkerIsRight(v) /\ v \in Threads
      BY <1>0 DEF PlacesAreRight
    <3>2. CASE v = w
      BY <1>0, <1>2, <2>3, <2>4, <3>2, PlacesAreConstant
         DEF WorkerIsRight, BeforeLoop, Working, Waits, CanAct
    <3>3. CASE v # w
      BY <2>3, <3>1, <3>3, PlacesAreConstant
         DEF WorkerIsRight, BeforeLoop, Working, Waits, CanAct, IsFull, IsEmpty
    <3>. QED  BY <3>2, <3>3
  <2>6. MainIsRight'
    BY <1>0, <1>2, <2>3, PlacesAreConstant DEF PlacesAreRight, MainIsRight
  <2>7. \A t \in Threads : YieldedOn(t)'
    BY <1>2, <2>3, PlacesAreConstant DEF PlacesAreRight, YieldedOn
  <2>. QED  BY <1>0, <2>3, <2>5, <2>6, <2>7 DEF PlacesAreRight
<1>5. CASE MainFinishes
  <2>1. /\ me = Main /\ \A t \in Workers : continuation[t] # New
        /\ continuation' = [continuation EXCEPT ![me] = Ends]
        /\ oldLevel' = oldLevel /\ stage' = stage
    BY <1>5 DEF MainFinishes, Finish, Sleep
  <2>2. /\ continuation'[me] = Ends
        /\ \A t \in Threads \ {me} : continuation'[t] = continuation[t]
    BY <1>0, <2>1
  <2>3. MainIsRight' /\ YieldedOn(me)'
    BY <1>0, <1>2, <2>1, <2>2, PlacesAreConstant DEF MainIsRight, YieldedOn
  <2>. QED  BY <1>0, <1>2, <2>1, <2>2, <2>3, RunningSteps
<1>6. CASE KernelStep
  <2>0. stage' = stage
    BY <1>6 DEF KernelStep
  <2>1. CASE ThreadRoot
    <3>1. /\ continuation[me] = Root /\ level' = "IntOn" /\ oldLevel' = oldLevel
          /\ continuation' = [continuation EXCEPT ![me] = User]
      BY <2>1 DEF ThreadRoot, Return, BackIn, Root
    <3>2. me \in Workers => stage[me] = "loop"
      BY <1>1, <1>2, <1>3, <3>1 DEF WorkerIsRight, Working, Waits
    <3>. QED  BY <1>2, <2>0, <3>1, <3>2, OutsideMoves
  <2>2. CASE YieldReturns
    <3>1. /\ continuation[me] = Yields /\ level' = oldLevel[me] /\ oldLevel' = oldLevel
          /\ continuation' = [continuation EXCEPT ![me] = User]
      BY <2>2 DEF YieldReturns, Return, BackIn, Yields
    <3>2. me \in Workers => stage[me] = "loop"
      BY <1>1, <1>2, <1>3, <3>1 DEF WorkerIsRight, Working, Waits
    <3>3. level' = "IntOn"
      BY <1>0, <3>1 DEF PlacesAreRight, YieldedOn
    <3>. QED  BY <1>2, <2>0, <3>1, <3>2, <3>3, OutsideMoves
  <2>3. CASE Preempt
    <3>1. /\ continuation[me] = User /\ level = "IntOn"
          /\ oldLevel' = [oldLevel EXCEPT ![me] = level]
          /\ continuation' = [continuation EXCEPT ![me] = Yields]
      BY <2>3 DEF Preempt, Yield, InProgram
    <3>2. me \in Workers => stage[me] = "loop"
      BY <1>1, <1>2, <1>3, <3>1 DEF WorkerIsRight, Working, Waits
    <3>3. /\ oldLevel'[me] = "IntOn"
          /\ \A t \in Threads \ {me} : oldLevel'[t] = oldLevel[t]
      BY <1>0, <3>1
    <3>. QED  BY <1>2, <2>0, <3>1, <3>2, <3>3, OutsideMoves
  <2>4. CASE Halt
    <3>1. UNCHANGED <<continuation, oldLevel, level, stage, buffer>>
      BY <1>6, <2>4 DEF Halt, threadVars, KernelStep, tableVars
    <3>. QED  BY <3>1, PlacesAreConstant
              DEF PlacesAreRight, WorkerIsRight, BeforeLoop, Working, Waits, CanAct, MainIsRight,
                  YieldedOn, IsFull, IsEmpty
  <2>. QED  BY <1>6, <2>1, <2>2, <2>3, <2>4 DEF KernelStep
<1>7. CASE DisableInterrupts \/ EnableInterrupts
  <2>1. /\ InProgram /\ continuation[me] = User
        /\ continuation' = continuation /\ oldLevel' = oldLevel
        /\ \/ Is("loop", "enter") /\ level' = "IntOff"
           \/ Is("restore", "loop") /\ level' = "IntOn"
    BY <1>7 DEF DisableInterrupts, EnableInterrupts, SetLevel, threadVars, InProgram
  <2>2. continuation' = [continuation EXCEPT ![me] = User]
    BY <1>0, <2>1
  <2>. QED  BY <1>1, <1>2, <2>1, <2>2, WorkerMoves
<1>8. CASE TakeLock
  <2>1. me \in Workers /\ stage[me] \in {"enter", "waits"}
    BY <1>8 DEF TakeLock, Is
  <2>2. ~isHeldBySome[TableLock]
    BY <2>1, LockIsFreeHere
  <2>3. /\ AcquireTakes(TableLock)
        /\ Is("enter", "test") \/ Is("waits", "release")
    BY <1>8, <2>2 DEF TakeLock, AcquireSleeps
  <2>4. EntryLevel = "IntOff"
    BY <1>1, <1>2, <1>3, <2>1, <2>3
       DEF EntryLevel, InProgram, WorkerIsRight, Working, Waits, AcquireTakes, TestsLock, Tests, BackIn
  <2>5. /\ level' = "IntOff" /\ oldLevel' = oldLevel
        /\ continuation' = [continuation EXCEPT ![me] = User]
    BY <2>3, <2>4 DEF AcquireTakes, Return
  <2>. QED  BY <1>1, <1>2, <2>3, <2>5, WorkerMoves
<1>9. CASE Blocks
  <2>1. /\ Is("test", "waits") /\ me \in Workers /\ stage[me] = "test"
        /\ Wait(OwnCondition(me))
    BY <1>9 DEF Blocks, Is, OwnCondition
  <2>2. /\ level = "IntOff" /\ oldLevel' = [oldLevel EXCEPT ![me] = level]
        /\ continuation' = [continuation EXCEPT ![me] = At("Wait", OwnCondition(me))]
    BY <1>3, <2>1 DEF Wait, Sleep, WorkerIsRight, Working
  <2>3. oldLevel'[me] = "IntOff" /\ \A t \in Threads \ {me} : oldLevel'[t] = oldLevel[t]
    BY <1>0, <2>2
  <2>. QED  BY <1>1, <1>2, <2>1, <2>2, <2>3, WorkerMoves
<1>10. CASE GoesOn
  <2>1. /\ Is("test", "act") /\ me \in Workers /\ stage[me] = "test" /\ ~IsBlocked
        /\ UNCHANGED <<continuation, oldLevel, level, buffer, currentThread>>
    BY <1>10 DEF GoesOn, Is, vars, threadVars, tableVars
  <2>2. continuation[me] = User /\ level' = "IntOff"
    BY <1>3, <2>1 DEF WorkerIsRight, Working
  <2>3. continuation' = [continuation EXCEPT ![me] = User]
    BY <1>0, <2>1, <2>2
  <2>4. CanAct(me)'
    BY <2>1 DEF CanAct, IsBlocked, IsFull, IsEmpty
  <2>. QED  BY <1>1, <1>2, <2>1, <2>2, <2>3, <2>4, WorkerMoves
<1>11. CASE PutItem \/ GetItem \/ ReleaseLock
  <2>1. /\ me \in Workers /\ stage[me] \in {"act", "release"}
        /\ Is("act", "release") \/ Is("release", "restore")
        /\ UNCHANGED <<continuation, oldLevel, level>>
    BY <1>11 DEF PutItem, GetItem, ReleaseLock, Is, Signal, Release
  <2>2. continuation[me] = User /\ level' = "IntOff"
    BY <1>3, <2>1 DEF WorkerIsRight, Working
  <2>3. continuation' = [continuation EXCEPT ![me] = User]
    BY <1>0, <2>1, <2>2
  <2>. QED  BY <1>1, <1>2, <2>1, <2>2, <2>3, WorkerMoves
<1>12. CASE UNCHANGED programVars
  <2>1. UNCHANGED <<continuation, oldLevel, level, stage, buffer>>
    BY <1>12 DEF programVars, vars, threadVars, tableVars
  <2>. QED  BY <2>1, PlacesAreConstant
            DEF PlacesAreRight, WorkerIsRight, BeforeLoop, Working, Waits, CanAct, MainIsRight,
                YieldedOn, IsFull, IsEmpty
<1>. QED  BY <1>4, <1>5, <1>6, <1>7, <1>8, <1>9, <1>10, <1>11, <1>12 DEF ProgramNext, WorkerStep

LEMMA HolderStep ==
  ASSUME IInv, PlacesFit, PlacesAreRight, HolderWorks, [ProgramNext]_programVars
  PROVE  HolderWorks'
<1>1. /\ stage \in [Workers -> Stages] /\ isHeldBySome \in [Locks -> BOOLEAN]
      /\ TableLock \in Locks
  BY ProgramAssumption DEF PlacesAreRight, IInv, TypeOK
<1>2. ASSUME UNCHANGED isHeldBySome,
             \/ UNCHANGED stage
             \/ /\ Is("loop", "enter") \/ Is("restore", "loop") \/ Is("test", "act")
                                      \/ Is("act", "release")
      PROVE  HolderWorks'
  <2>1. \A w \in Workers : stage[w] \in {"test", "act", "release"} =>
          stage'[w] \in {"test", "act", "release"}
    BY <1>1, <1>2 DEF Is
  <2>. QED  BY <1>2, <2>1 DEF HolderWorks
<1>3. CASE ForkNext \/ MainFinishes \/ KernelStep \/ UNCHANGED programVars
  <2>1. UNCHANGED <<isHeldBySome, stage>>
    BY <1>3 DEF ForkNext, Fork, MainFinishes, Finish, KernelStep, ThreadRoot, Preempt, Yield,
                YieldReturns, Halt, lockVars, programVars, vars
  <2>. QED  BY <1>2, <2>1
<1>4. CASE DisableInterrupts \/ EnableInterrupts \/ GoesOn \/ PutItem \/ GetItem
  <2>1. /\ UNCHANGED isHeldBySome
        /\ \/ Is("loop", "enter") \/ Is("restore", "loop") \/ Is("test", "act")
           \/ Is("act", "release")
    BY <1>4 DEF DisableInterrupts, EnableInterrupts, SetLevel, GoesOn, PutItem, GetItem, Signal,
                lockVars, vars
  <2>. QED  BY <1>2, <2>1
<1>5. CASE TakeLock
  <2>1. ~isHeldBySome[TableLock]
    BY <1>5, LockIsFreeHere DEF TakeLock, Is
  <2>2. PICK w \in Workers : stage'[w] \in {"test", "release"}
    BY <1>1, <1>5, <2>1 DEF TakeLock, AcquireSleeps, Is
  <2>. QED  BY <2>2 DEF HolderWorks
<1>6. CASE Blocks \/ ReleaseLock
  <2>1. /\ \A c \in {ProduceCondition, ConsumeCondition} : ConditionLock[c] = TableLock
        /\ Blocks => \E c \in {ProduceCondition, ConsumeCondition} : Wait(c)
    BY ProgramAssumption DEF Blocks
  <2>2. isHeldBySome' = [isHeldBySome EXCEPT ![TableLock] = FALSE]
    BY <1>6, <2>1 DEF ReleaseLock, Release, Wait, FreeLock
  <2>. QED  BY <1>1, <2>2 DEF HolderWorks
<1>. QED  BY <1>3, <1>4, <1>5, <1>6 DEF ProgramNext, WorkerStep

LEMMA ProgramTypeStep ==
  ASSUME PlacesAreRight, PlacesAreRight', ProgramTypeOK, [ProgramNext]_programVars
  PROVE  ProgramTypeOK'
<1>1. /\ Capacity \in Nat \ {0} /\ Numbers \in Nat /\ Numbers > Capacity
      /\ Workers = Producers \cup Consumers /\ Producers \cap Consumers = {}
  BY ProgramAssumption DEF Workers
<1>2. stage' \in [Workers -> Stages]
  BY DEF PlacesAreRight
<1>3. CASE PutItem
  <2>1. Len(buffer) # Capacity /\ Len(buffer) <= Capacity
    BY <1>1, <1>3 DEF PutItem, Is, PlacesAreRight, WorkerIsRight, CanAct, IsFull, ProgramTypeOK
  <2>2. /\ buffer' = Append(buffer, foodNumber) /\ lastEaten' = lastEaten
        /\ foodNumber' = (foodNumber + 1) % Numbers
    BY <1>3 DEF PutItem
  <2>3. foodNumber' \in 0 .. (Numbers - 1)
    BY <1>1, <2>2 DEF ProgramTypeOK
  <2>4. /\ Append(buffer, foodNumber) \in Seq(0 .. (Numbers - 1))
        /\ Len(Append(buffer, foodNumber)) = Len(buffer) + 1 /\ Len(buffer) \in Nat
    BY AppendProperties, LenProperties DEF ProgramTypeOK
  <2>. QED  BY <1>1, <1>2, <2>1, <2>2, <2>3, <2>4 DEF ProgramTypeOK
<1>4. CASE GetItem
  <2>1. buffer # <<>>
    BY <1>1, <1>4 DEF GetItem, Is, PlacesAreRight, WorkerIsRight, CanAct, IsEmpty
  <2>2. buffer' = Tail(buffer) /\ lastEaten' = Head(buffer) /\ foodNumber' = foodNumber
    BY <1>4 DEF GetItem
  <2>3. /\ Tail(buffer) \in Seq(0 .. (Numbers - 1)) /\ Head(buffer) \in 0 .. (Numbers - 1)
        /\ Len(Tail(buffer)) = Len(buffer) - 1 /\ Len(buffer) \in Nat
    BY <2>1, HeadTailProperties, LenProperties DEF ProgramTypeOK
  <2>. QED  BY <1>1, <1>2, <2>2, <2>3 DEF ProgramTypeOK
<1>5. CASE ~PutItem /\ ~GetItem
  <2>1. UNCHANGED <<buffer, foodNumber, lastEaten>>
    BY <1>5 DEF ProgramNext, WorkerStep, ForkNext, MainFinishes, KernelStep, DisableInterrupts,
                TakeLock, Blocks, GoesOn, ReleaseLock, EnableInterrupts, tableVars, programVars
  <2>. QED  BY <1>2, <2>1 DEF ProgramTypeOK
<1>. QED  BY <1>3, <1>4, <1>5

\* The machine would halt with everybody asleep; but then every worker waits
\* on its condition, and somebody has been forgotten.
LEMMA HaltIsOff ==
  ASSUME ProgramInv, PlacesFit, PlacesAreRight
  PROVE  ~Halt
<1>. SUFFICES ASSUME Halt PROVE FALSE
  OBVIOUS
<1>1. /\ \A t \in Threads : status[t] \in {"JUST_CREATED", "BLOCKED"}
      /\ \A t \in Threads : status[t] = "JUST_CREATED" <=> continuation[t] = New
  <2>1. /\ Range(readyList) = {} /\ status[currentThread] # "RUNNING"
    BY NoWokenThreads DEF Halt, Idle
  <2>. QED  BY <2>1 DEF ProgramInv, IInv, TypeOK, EachThreadInOnePlace
<1>2. continuation[Main] = Ends
  BY <1>1, PlaceFacts, ProgramAssumption DEF PlacesAreRight, MainIsRight, PlacesFit
<1>3. ASSUME NEW w \in Workers
      PROVE  w \in Sleepers(OwnCondition(w))
  <2>1. w \in Threads /\ continuation[w] # New /\ status[w] = "BLOCKED"
    BY <1>1, <1>2, ProgramAssumption DEF PlacesAreRight, MainIsRight
  <2>2. continuation[w] \notin {New, Root, User, Yields}
    BY <2>1 DEF PlacesFit
  <2>3. stage[w] = "waits"
    BY <2>2 DEF PlacesAreRight, WorkerIsRight, BeforeLoop, Working, Stages
  <2>4. continuation[w] = At("Wait", OwnCondition(w))
    BY <2>3 DEF PlacesAreRight, WorkerIsRight, Waits
  <2>5. OwnCondition(w) \in Conditions
    BY ProgramAssumption DEF OwnCondition
  <2>. QED  BY <2>1, <2>4, <2>5 DEF ProgramInv, IInv, EachThreadInOnePlace, Asleep, Sleepers
<1>4. /\ Producers \subseteq Sleepers(ProduceCondition)
      /\ Consumers \subseteq Sleepers(ConsumeCondition)
  BY <1>3, ProgramAssumption DEF OwnCondition, Workers
<1>. QED  BY <1>4, ProgramAssumption DEF ProgramInv, NobodyIsForgotten, IsFull

LEMMA SafeInvStep ==
  ASSUME SafeInv, [ProgramNext]_programVars
  PROVE  SafeInv'
<1>1. ProgramInv' /\ IInv
  BY ProgramInvStep DEF SafeInv, ProgramInv
<1>2. PlacesFit'
  BY <1>1, StepOfKernel, PlacesFitStep DEF SafeInv
<1>3. PlacesAreRight'
  BY <1>1, PlacesStep DEF SafeInv, WorkersInv
<1>4. HolderWorks'
  BY <1>1, HolderStep DEF SafeInv, WorkersInv
<1>5. ProgramTypeOK'
  BY <1>3, ProgramTypeStep DEF SafeInv, WorkersInv
<1>6. NeverHalts'
  <2>1. ~Halt
    BY HaltIsOff DEF SafeInv, WorkersInv
  <2>2. halted' = halted
    <3>1. CASE ForkNext \/ MainFinishes \/ KernelStep \/ UNCHANGED programVars
      BY <2>1, <3>1 DEF ForkNext, Fork, MainFinishes, Finish, KernelStep, ThreadRoot, Preempt, Yield,
                  YieldReturns, deviceVars, programVars, vars
    <3>2. CASE WorkerStep
      BY <3>2 DEF WorkerStep, DisableInterrupts, EnableInterrupts, SetLevel, TakeLock, AcquireTakes,
                  AcquireSleeps, Blocks, Wait, GoesOn, PutItem, GetItem, Signal, ReleaseLock, Release,
                  deviceVars, vars
    <3>. QED  BY <3>1, <3>2 DEF ProgramNext
  <2>. QED  BY <2>2 DEF SafeInv, WorkersInv, NeverHalts
<1>. QED  BY <1>1, <1>2, <1>3, <1>4, <1>5, <1>6 DEF SafeInv, WorkersInv

LEMMA SafeInvStarts == ProgramInit => SafeInv
<1>. SUFFICES ASSUME ProgramInit PROVE SafeInv
  OBVIOUS
<1>1. ProgramInv /\ Init
  BY ProgramInvStarts DEF ProgramInit
<1>2. PlacesFit
  BY <1>1, PlacesFitStarts
<1>3. /\ \A t \in Threads : continuation[t] = IF t = Main THEN User ELSE New
      /\ level = "IntOn" /\ halted = FALSE /\ stage = [t \in Workers |-> "loop"]
      /\ \A l \in Locks : isHeldBySome[l] = FALSE
      /\ buffer = <<>> /\ foodNumber = 0 /\ lastEaten = Numbers - 1
  BY DEF ProgramInit, Init
<1>4. PlacesAreRight
  BY <1>3, PlaceFacts, ProgramAssumption
     DEF PlacesAreRight, WorkerIsRight, BeforeLoop, Working, Waits, CanAct, MainIsRight, YieldedOn, Stages
<1>5. HolderWorks
  BY <1>3, ProgramAssumption DEF HolderWorks
<1>6. ProgramTypeOK
  BY <1>3, <1>4, ProgramAssumption DEF ProgramTypeOK, PlacesAreRight
<1>. QED  BY <1>1, <1>2, <1>3, <1>4, <1>5, <1>6 DEF SafeInv, WorkersInv, NeverHalts

\* The table never holds more than it may, a worker never has to wait for the
\* lock, and Interrupt::Idle never halts the machine: there is always a
\* producer or a consumer that can go on.
THEOREM ProgramSafety == ProgramSpec => []ProgramIsSafe
<1>1. SafeInv => ProgramIsSafe
  BY LockIsFreeHere DEF SafeInv, WorkersInv, ProgramInv, ProgramIsSafe, LockIsFree
<1>2. SafeInv /\ [ProgramNext]_programVars => SafeInv'
  BY SafeInvStep
<1>. QED  BY <1>1, <1>2, SafeInvStarts, PTL DEF ProgramSpec

-----------------------------------------------------------------------------
(***************************************************************************)
(* The table keeps the promise of BoundedBuffer: the foods on it carry     *)
(* consecutive numbers, from the one after the food eaten last to the one  *)
(* before the food produced next.                                          *)
(***************************************************************************)
Wrap(x)   == x % Numbers
FirstFood == Table!Successor(lastEaten)

FoodInOrder ==
  /\ foodNumber = Wrap(FirstFood + Len(buffer))
  /\ \A i \in 1 .. Len(buffer) : buffer[i] = Wrap(FirstFood + (i - 1))

\* Counting modulo n, as far as the table needs it.
LEMMA Modulo ==
  ASSUME NEW n \in Nat, n > 0
  PROVE  /\ \A x \in Nat : x % n \in 0 .. (n - 1)
         /\ \A x \in 0 .. (n - 1) : x % n = x /\ (x + n) % n = x
         /\ n % n = 0
         /\ \A x \in 0 .. (n + n), k \in 0 .. n : ((x % n) + k) % n = (x + k) % n
         /\ \A x, k \in 0 .. (n - 1) : (((x + k) % n) + n - x) % n = k
<1> DEFINE m(x) == x % n
<1>1. \A x \in Nat : m(x) \in 0 .. (n - 1)
  OBVIOUS
<1>2. /\ \A x \in 0 .. (n - 1) : m(x) = x
      /\ \A x \in n .. (n + n - 1) : m(x) = x - n
      /\ \A x \in (n + n) .. (n + n + n - 1) : m(x) = x - n - n
      /\ m(n + n + n) = 0
  OBVIOUS
<1> HIDE DEF m
<1>3. ASSUME NEW x \in 0 .. (n + n), NEW k \in 0 .. n PROVE m(m(x) + k) = m(x + k)
  BY <1>2
<1>4. ASSUME NEW x \in 0 .. (n - 1), NEW k \in 0 .. (n - 1) PROVE m(m(x + k) + n - x) = k
  BY <1>2
<1>5. m(n) = 0 /\ \A x \in 0 .. (n - 1) : m(x) = x /\ m(x + n) = x
  BY <1>2
<1>. QED  BY <1>1, <1>3, <1>4, <1>5 DEF m

LEMMA WrapLaws ==
  /\ \A x \in Nat : Wrap(x) \in 0 .. (Numbers - 1)
  /\ \A x \in 0 .. (Numbers - 1) : Wrap(x) = x
  /\ \A x \in 0 .. (Numbers + Numbers), k \in 0 .. Numbers : Wrap(Wrap(x) + k) = Wrap(x + k)
  /\ \A x, k \in 0 .. (Numbers - 1) : Wrap(Wrap(x + k) + Numbers - x) = k
  /\ Wrap(Numbers) = 0
  /\ \A x : Table!Successor(x) = Wrap(x + 1)
<1>1. Numbers \in Nat /\ Numbers > 0
  BY ProgramAssumption
<1>. QED  BY <1>1, Modulo DEF Wrap, Table!Successor

LEMMA FoodInOrderStep ==
  ASSUME ProgramTypeOK, ProgramTypeOK', PlacesAreRight, FoodInOrder, [ProgramNext]_programVars
  PROVE  FoodInOrder' /\ [Table!Produce \/ Table!Consume]_(Table!vars)
<1> USE DEF Table!vars
<1>1. /\ Capacity \in Nat \ {0} /\ Numbers \in Nat /\ Numbers > Capacity
      /\ Workers = Producers \cup Consumers /\ Producers \cap Consumers = {}
  BY ProgramAssumption DEF Workers
<1>2. /\ foodNumber \in 0 .. (Numbers - 1) /\ lastEaten \in 0 .. (Numbers - 1)
      /\ buffer \in Seq(0 .. (Numbers - 1)) /\ Len(buffer) \in 0 .. (Numbers - 1)
      /\ Len(buffer) <= Capacity
      /\ FirstFood \in 0 .. (Numbers - 1)
  <2>1. /\ foodNumber \in 0 .. (Numbers - 1) /\ lastEaten \in 0 .. (Numbers - 1)
        /\ buffer \in Seq(0 .. (Numbers - 1)) /\ Len(buffer) <= Capacity
    BY DEF ProgramTypeOK
  <2>2. Len(buffer) \in 0 .. (Numbers - 1)
    BY <1>1, <2>1, LenProperties
  <2>3. lastEaten + 1 \in Nat /\ FirstFood = Wrap(lastEaten + 1)
    BY <1>1, <2>1, WrapLaws DEF FirstFood
  <2>. QED  BY <2>1, <2>2, <2>3, WrapLaws
<1>3. Table!OnTheTable = Len(buffer)
  <2>1. Table!OnTheTable = Wrap(foodNumber + Numbers - FirstFood)
    BY DEF Table!OnTheTable, FirstFood, Wrap
  <2>. QED  BY <1>2, <2>1, WrapLaws DEF FoodInOrder
<1>4. CASE PutItem
  <2>1. Len(buffer) < Capacity
    BY <1>1, <1>2, <1>4 DEF PutItem, Is, PlacesAreRight, WorkerIsRight, CanAct, IsFull
  <2>2. /\ buffer' = Append(buffer, foodNumber) /\ lastEaten' = lastEaten
        /\ foodNumber' = Wrap(foodNumber + 1)
    BY <1>4 DEF PutItem, Wrap
  <2>3. FirstFood' = FirstFood
    BY <2>2 DEF FirstFood, Table!Successor
  <2>4. /\ Len(buffer') = Len(buffer) + 1
        /\ buffer'[Len(buffer) + 1] = foodNumber
        /\ \A i \in 1 .. Len(buffer) : buffer'[i] = buffer[i]
    BY <1>2, <2>2, AppendProperties
  <2>5. foodNumber' = Wrap(FirstFood + Len(buffer'))
    <3>1. Wrap(Wrap(FirstFood + Len(buffer)) + 1) = Wrap((FirstFood + Len(buffer)) + 1)
      <4>1. FirstFood + Len(buffer) \in 0 .. (Numbers + Numbers) /\ 1 \in 0 .. Numbers
        BY <1>1, <1>2
      <4>. QED  BY <4>1, WrapLaws
    <3>. QED  BY <1>2, <2>2, <2>4, <3>1 DEF FoodInOrder
  <2>6. ASSUME NEW i \in 1 .. Len(buffer')
        PROVE  buffer'[i] = Wrap(FirstFood + (i - 1))
    <3>1. i \in 1 .. Len(buffer) \/ (i = Len(buffer) + 1 /\ i - 1 = Len(buffer))
      BY <1>2, <2>4, <2>6
    <3>. QED  BY <2>4, <3>1 DEF FoodInOrder
  <2>7. Table!Produce
    BY <1>3, <2>1, <2>2, WrapLaws DEF Table!Produce
  <2>. QED  BY <2>3, <2>5, <2>6, <2>7 DEF FoodInOrder, Wrap
<1>5. CASE GetItem
  <2>1. buffer # <<>> /\ Len(buffer) > 0
    BY <1>1, <1>2, <1>5 DEF GetItem, Is, PlacesAreRight, WorkerIsRight, CanAct, IsEmpty
  <2>2. buffer' = Tail(buffer) /\ lastEaten' = Head(buffer) /\ foodNumber' = foodNumber
    BY <1>5 DEF GetItem
  <2>3. /\ Len(buffer') = Len(buffer) - 1 /\ Head(buffer) = buffer[1]
        /\ \A i \in 1 .. Len(buffer') : buffer'[i] = buffer[i + 1]
    BY <1>2, <2>1, <2>2, HeadTailProperties
  <2>4. lastEaten' = FirstFood
    <3>1. buffer[1] = Wrap(FirstFood + (1 - 1))
      BY <1>2, <2>1 DEF FoodInOrder
    <3>2. FirstFood + (1 - 1) = FirstFood
      BY <1>1, <1>2
    <3>. QED  BY <1>2, <2>2, <2>3, <3>1, <3>2, WrapLaws
  <2>5. FirstFood' = Wrap(FirstFood + 1)
    BY <2>4, WrapLaws DEF FirstFood, Wrap, Table!Successor
  <2>6. ASSUME NEW k \in 0 .. (Numbers - 1)
        PROVE  Wrap(FirstFood' + k) = Wrap(FirstFood + (k + 1))
    <3>1. FirstFood + 1 \in 0 .. (Numbers + Numbers) /\ k \in 0 .. Numbers
      BY <1>1, <1>2
    <3>2. Wrap(Wrap(FirstFood + 1) + k) = Wrap((FirstFood + 1) + k)
      BY <3>1, WrapLaws
    <3>3. (FirstFood + 1) + k = FirstFood + (k + 1)
      BY <1>1, <1>2
    <3>. QED  BY <2>5, <3>2, <3>3
  <2>7. FoodInOrder'
    <3>1. /\ Len(buffer') \in 0 .. (Numbers - 1) /\ Len(buffer') + 1 = Len(buffer)
          /\ foodNumber' = Wrap(FirstFood + Len(buffer))
      BY <1>1, <1>2, <2>1, <2>2, <2>3 DEF FoodInOrder
    <3>2. foodNumber' = Wrap(FirstFood' + Len(buffer'))
      BY <2>6, <3>1
    <3>3. ASSUME NEW i \in 1 .. Len(buffer')
          PROVE  buffer'[i] = Wrap(FirstFood' + (i - 1))
      <4>1. /\ i + 1 \in 1 .. Len(buffer) /\ i - 1 \in 0 .. (Numbers - 1)
            /\ (i + 1) - 1 = i /\ (i - 1) + 1 = i
        BY <1>1, <1>2, <3>1, <3>3
      <4>2. buffer'[i] = Wrap(FirstFood + i)
        BY <2>3, <4>1 DEF FoodInOrder
      <4>. QED  BY <2>6, <4>1, <4>2
    <3>. QED  BY <3>2, <3>3 DEF FoodInOrder, Wrap
  <2>8. Table!Consume
    BY <1>3, <2>1, <2>2, <2>4 DEF Table!Consume, FirstFood
  <2>. QED  BY <2>7, <2>8
<1>6. CASE ~PutItem /\ ~GetItem
  <2>1. UNCHANGED <<buffer, foodNumber, lastEaten>>
    BY <1>6 DEF ProgramNext, WorkerStep, ForkNext, MainFinishes, KernelStep, DisableInterrupts,
                TakeLock, Blocks, GoesOn, ReleaseLock, EnableInterrupts, tableVars, programVars
  <2>. QED  BY <2>1 DEF FoodInOrder, FirstFood, Table!Successor, Wrap
<1>. QED  BY <1>4, <1>5, <1>6

\* The consumers eat the foods in the order in which they were produced, each
\* of them once, and PutItem never finds more than Capacity on the table.
THEOREM ProgramImplementsBuffer == ProgramSpec => ImplementsBuffer
<1>1. ProgramInit => FoodInOrder /\ Table!Init
  <2>1. /\ Numbers \in Nat \ {0} /\ Numbers - 1 + 1 = Numbers
        /\ Numbers % Numbers = 0 /\ 0 % Numbers = 0
    BY ProgramAssumption
  <2>. QED  BY <2>1 DEF ProgramInit, FoodInOrder, FirstFood, Table!Successor, Table!Init, Wrap
<1>2. SafeInv => ProgramTypeOK /\ PlacesAreRight
  BY DEF SafeInv, WorkersInv
<1>3. SafeInv /\ SafeInv' /\ FoodInOrder /\ [ProgramNext]_programVars
        => FoodInOrder' /\ [Table!Produce \/ Table!Consume]_(Table!vars)
  <2>1. SafeInv' => ProgramTypeOK'
    BY DEF SafeInv, WorkersInv
  <2>. QED  BY <1>2, <2>1, FoodInOrderStep
<1>4. SafeInv /\ [ProgramNext]_programVars => SafeInv'
  BY SafeInvStep
<1>. QED  BY <1>1, <1>3, <1>4, SafeInvStarts, PTL DEF ProgramSpec, ImplementsBuffer, Table!Spec
=============================================================================
