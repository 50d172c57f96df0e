-------------------------- MODULE ProducerConsumer --------------------------
(***************************************************************************)
(* The program of the "threads" kernel: main forks producers and consumers *)
(* that share a table of food (threads/threadtest.cc, producer.cc,         *)
(* consumer.cc, sharedBuffer.cc).  It runs on Kernel: each action here is  *)
(* the kernel operation the program calls at that place, together with     *)
(* what the program itself does.  "stage" is where a worker is in Produce  *)
(* or Consume; a call that sleeps leaves it in the middle of the operation.*)
(***************************************************************************)
EXTENDS Kernel

CONSTANTS Producers, Consumers,
          ForkOrder,          \* the workers in the order ThreadTest forks them
          TableLock, ProduceCondition, ConsumeCondition,
          Capacity,           \* SharedBuffer::capacity
          Numbers,            \* bound: foodNumber is counted modulo Numbers
          Preemptive          \* nachos -rs or -p: a worker may be made to yield

Workers == Producers \cup Consumers

ASSUME ProgramAssumption ==
  /\ Threads = Workers \cup {Main}
  /\ Main \notin Workers /\ Producers \cap Consumers = {}
  /\ Producers # {} /\ Consumers # {}
  /\ ForkOrder \in Seq(Workers) /\ IsInjective(ForkOrder) /\ Range(ForkOrder) = Workers
  /\ {ProduceCondition, ConsumeCondition} \subseteq Conditions
  /\ ProduceCondition # ConsumeCondition
  /\ TableLock \in Locks
  /\ \A c \in {ProduceCondition, ConsumeCondition} : ConditionLock[c] = TableLock
  /\ Capacity \in Nat \ {0} /\ Numbers \in Nat /\ Numbers > Capacity
  /\ Preemptive \in BOOLEAN

VARIABLES stage,        \* where each worker is in its loop
          buffer,       \* SharedBuffer::buffer
          foodNumber,   \* Producer::foodNumber, shared by all producers
          lastEaten     \* history: the food consumed last

tableVars   == <<buffer, foodNumber, lastEaten>>
programVars == <<vars, stage, tableVars>>

Stages == {"loop", "enter", "test", "act", "waits", "release", "restore"}

ProgramInit ==
  /\ Init
  /\ stage = [t \in Workers |-> "loop"]
  /\ buffer = <<>>
  /\ foodNumber = 0
  /\ lastEaten = Numbers - 1

-----------------------------------------------------------------------------
(***************************************************************************)
(* main: ThreadTest forks everybody, then main() calls Finish.             *)
(***************************************************************************)
ForkNext ==
  /\ currentThread = Main
  /\ \E i \in DOMAIN ForkOrder :
       /\ \A j \in 1 .. (i - 1) : continuation[ForkOrder[j]] # New
       /\ Fork(ForkOrder[i])
  /\ UNCHANGED <<stage, tableVars>>

MainFinishes ==
  /\ currentThread = Main
  /\ \A t \in Workers : continuation[t] # New
  /\ Finish
  /\ UNCHANGED <<stage, tableVars>>

-----------------------------------------------------------------------------
(***************************************************************************)
(* Producer::Produce and Consumer::Consume.  Both run with interrupts off  *)
(* from their first statement to SetLevel(oldLevel), which enables them    *)
(* again: a worker starts its loop with interrupts on.                     *)
(***************************************************************************)
Is(here, where) == currentThread \in Workers /\ stage[currentThread] = here
                     /\ stage' = [stage EXCEPT ![currentThread] = where]

IsFull  == Len(buffer) = Capacity
IsEmpty == Len(buffer) = 0

\* The table does not let the running worker do its work.
IsBlocked == IF currentThread \in Producers THEN IsFull ELSE IsEmpty

\* Mutant of DisableInterrupts: Produce and Consume start with interrupts on.
KeepsInterruptsOn ==
  /\ Is("loop", "enter")
  /\ InProgram
  /\ UNCHANGED <<vars, tableVars>>

DisableInterrupts ==
  /\ Is("loop", "enter")
  /\ SetLevel("IntOff")
  /\ UNCHANGED tableVars

\* Mutant of TakeLock: a producer back from Wait puts its food at once.
TakesLockAndActs ==
  /\ \/ Is("enter", "test")
     \/ Is("waits", IF currentThread \in Producers THEN "act" ELSE "release")
  /\ AcquireTakes(TableLock)
  /\ UNCHANGED tableVars

\* The lock of the table; the worker would sleep if it were held.
TakeLock ==
  /\ \/ Is("enter", "test") /\ AcquireTakes(TableLock)
     \/ Is("enter", "enter") /\ AcquireSleeps(TableLock)
     \/ Is("waits", "release") /\ AcquireTakes(TableLock)
  /\ UNCHANGED tableVars

Blocks ==
  /\ Is("test", "waits")
  /\ IsBlocked
  /\ Wait(IF currentThread \in Producers THEN ProduceCondition ELSE ConsumeCondition)
  /\ UNCHANGED tableVars

GoesOn ==
  /\ Is("test", "act")
  /\ ~IsBlocked
  /\ UNCHANGED <<vars, tableVars>>

\* Mutant of PutItem: the wrong condition is signalled.
PutItemSignalsProducers ==
  /\ Is("act", "release")
  /\ currentThread \in Producers
  /\ buffer' = Append(buffer, foodNumber)
  /\ Signal(ProduceCondition)
  /\ foodNumber' = (foodNumber + 1) % Numbers
  /\ UNCHANGED lastEaten

PutItem ==
  /\ Is("act", "release")
  /\ currentThread \in Producers
  /\ buffer' = Append(buffer, foodNumber)
  /\ Signal(ConsumeCondition)
  /\ foodNumber' = (foodNumber + 1) % Numbers
  /\ UNCHANGED lastEaten

\* Mutant of GetItem: the wrong condition is signalled.
GetItemSignalsConsumers ==
  /\ Is("act", "release")
  /\ currentThread \in Consumers
  /\ buffer' = Tail(buffer)
  /\ lastEaten' = Head(buffer)
  /\ Signal(ConsumeCondition)
  /\ UNCHANGED foodNumber

GetItem ==
  /\ Is("act", "release")
  /\ currentThread \in Consumers
  /\ buffer' = Tail(buffer)
  /\ lastEaten' = Head(buffer)
  /\ Signal(ProduceCondition)
  /\ UNCHANGED foodNumber

ReleaseLock ==
  /\ Is("release", "restore")
  /\ Release(TableLock)
  /\ UNCHANGED tableVars

EnableInterrupts ==
  /\ Is("restore", "loop")
  /\ SetLevel("IntOn")
  /\ UNCHANGED tableVars

-----------------------------------------------------------------------------
\* What the kernel does by itself.
Preempt == Preemptive /\ level = "IntOn" /\ Yield

KernelStep ==
  /\ ThreadRoot \/ Preempt \/ YieldReturns \/ Halt
  /\ UNCHANGED <<stage, tableVars>>

WorkerStep ==
  \/ DisableInterrupts \/ TakeLock \/ Blocks \/ GoesOn \/ PutItem \/ GetItem
  \/ ReleaseLock \/ EnableInterrupts

ProgramNext == ForkNext \/ MainFinishes \/ WorkerStep \/ KernelStep

ProgramSpec == ProgramInit /\ [][ProgramNext]_programVars

-----------------------------------------------------------------------------
ProgramTypeOK ==
  /\ stage \in [Workers -> Stages]
  /\ buffer \in Seq(0 .. (Numbers - 1)) /\ Len(buffer) <= Capacity
  /\ foodNumber \in 0 .. (Numbers - 1)
  /\ lastEaten \in 0 .. (Numbers - 1)

\* Signal wakes one sleeper and forgets a signal nobody waits for, and the
\* sleeper looks at the table again only in its next round.  Still the workers
\* of one kind never all miss their signals: while there is food some consumer
\* is not waiting, while there is room some producer is not.
Sleepers(c) == Range(condQueue[c])

NobodyIsForgotten ==
  /\ buffer # <<>> => ~(Consumers \subseteq Sleepers(ConsumeCondition))
  /\ ~IsFull => ~(Producers \subseteq Sleepers(ProduceCondition))

\* Interrupt::Idle never "assumes the program completed": some thread can
\* always run.
NeverHalts == ~halted

\* A worker asks for the lock with interrupts off, and nobody is switched out
\* while it holds it: Acquire never has to wait, and a worker sleeps in Wait
\* only.
LockIsFree ==
  Busy /\ currentThread \in Workers /\ stage[currentThread] \in {"enter", "waits"}
    => ~isHeldBySome[TableLock]

\* The table never holds more than it may, no worker is switched out with the
\* lock, and the machine never takes workers that wait for each other for a
\* program that is done.
ProgramIsSafe == ProgramTypeOK /\ NeverHalts /\ LockIsFree

-----------------------------------------------------------------------------
Table == INSTANCE BoundedBuffer WITH next <- foodNumber, last <- lastEaten

\* The foods are consumed in the order of their numbers, each of them once, and
\* never more than Capacity of them wait on the table.
ImplementsBuffer == Table!Spec

(***************************************************************************)
(* Fairness: the machine does not stop, and a worker that keeps getting    *)
(* the CPU is not preempted each time before it takes a step: the next     *)
(* timer interrupt is at a random distance.                                *)
(***************************************************************************)
ProgramFairness ==
  /\ WF_programVars(ProgramNext)
  /\ \A t \in Threads :
       SF_programVars(currentThread = t /\ (WorkerStep \/ ForkNext \/ MainFinishes))

FairProgram == ProgramSpec /\ ProgramFairness

\* Every food that is put on the table is eaten.
FoodIsEaten ==
  \A n \in 0 .. (Numbers - 1) : n \in Range(buffer) ~> n \notin Range(buffer)
=============================================================================
