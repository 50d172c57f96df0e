------------------------------- MODULE Kernel -------------------------------
(***************************************************************************)
(* The Nachos kernel on its single simulated CPU: threads and their life   *)
(* cycle (threads/thread.cc), the ready list (threads/scheduler.cc),       *)
(* semaphores, locks and condition variables (threads/synch.cc), and the   *)
(* part of the interrupt simulation they depend on (machine/interrupt.cc). *)
(*                                                                         *)
(* The code between two points at which the CPU may pass to another thread *)
(* is one action.  Those points are Thread::Sleep, Thread::Yield and every *)
(* moment at which interrupts are enabled, so an operation bracketed by    *)
(* SetLevel(IntOff) ... SetLevel(oldLevel) is a single action as long as   *)
(* it does not sleep; when it sleeps, "continuation" says where the thread *)
(* goes on after SWITCH brings it back.  The threads' own programs are     *)
(* left open: Next lets the running thread call any operation.             *)
(***************************************************************************)
EXTENDS Naturals, Sequences, FiniteSets, Functions

CONSTANTS Threads,         \* every Thread object that can ever exist
          Main,            \* the thread Initialize() finds itself running in
          NoThread,        \* the NULL of Thread pointers
          Semaphores, Locks, Conditions,
          ConditionLock,   \* Condition::conditionLock
          InitialValue,    \* the initialValue each semaphore is built with
          MaxValue         \* bound: V and device requests stop there

ASSUME KernelAssumption ==
  /\ Main \in Threads
  /\ NoThread \notin Threads
  /\ ConditionLock \in [Conditions -> Locks]
  /\ InitialValue \in [Semaphores -> Nat]
  /\ MaxValue \in Nat

VARIABLES
  currentThread,        \* the thread on the CPU
  status,               \* Thread::status
  readyList,            \* Scheduler::readyList
  continuation,         \* where a thread goes on when it has the CPU
  threadToBeDestroyed,  \* the finished thread whose object is still allocated
  destroyed,            \* the threads whose destructor has run
  level,                \* Interrupt::level, a flag of the CPU
  oldLevel,             \* the oldLevel local of the operation a thread is in
  value, semQueue,                        \* Semaphore
  isHeldBySome, currentHolder, lockQueue, \* Lock
  condQueue,                              \* Condition
  pending,              \* device interrupts still to fire, per semaphore
  halted,               \* Interrupt::Halt has been called
  holding               \* history: the locks each thread's program counts on

threadVars == <<currentThread, status, readyList, continuation,
                threadToBeDestroyed, destroyed>>
semVars    == <<value, semQueue>>
lockVars   == <<isHeldBySome, currentHolder, lockQueue>>
deviceVars == <<pending, halted>>
vars == <<threadVars, level, oldLevel, semVars, lockVars, condQueue,
          deviceVars, holding>>

(***************************************************************************)
(* Where a thread can be: not forked yet, forked but never run, in its own *)
(* program, in Thread::Yield, finished, or asleep in a waiting operation.  *)
(***************************************************************************)
At(place, object) == [at |-> place, on |-> object]

New    == At("New", NoThread)
Root   == At("ThreadRoot", NoThread)
User   == At("User", NoThread)
Yields == At("Yield", NoThread)
Ends   == At("Finish", NoThread)

Places == {New, Root, User, Yields, Ends}
            \cup [at : {"P"}, on : Semaphores]
            \cup [at : {"Acquire"}, on : Locks]
            \cup [at : {"Wait"}, on : Conditions]

Levels == {"IntOn", "IntOff"}

\* currentThread has the CPU for itself; otherwise it is in the loop of
\* Thread::Sleep because nobody was ready, and the machine idles.  An
\* interrupt may then make READY another thread, or currentThread itself.
Busy == ~halted /\ status[currentThread] = "RUNNING"
Idle == ~halted /\ status[currentThread] # "RUNNING"

\* The running thread is executing its own program, or is back from SWITCH
\* in the middle of the operation "place" on "object".
InProgram            == Busy /\ continuation[currentThread] = User
BackIn(place, object) == Busy /\ continuation[currentThread] = At(place, object)

-----------------------------------------------------------------------------
(***************************************************************************)
(* Scheduler                                                               *)
(***************************************************************************)

\* Mutant of Run: threadToBeDestroyed is not set to NULL after the delete.
RunKeepsCarcass(next, st, dead) ==
  /\ currentThread' = next
  /\ status' = [st EXCEPT ![next] = "RUNNING"]
  /\ threadToBeDestroyed' = dead
  /\ destroyed' = IF continuation[next] = Root THEN destroyed
                  ELSE destroyed \cup ({dead} \ {NoThread})

\* Scheduler::Run, with the carcass "dead" waiting in threadToBeDestroyed.
\* A thread that resumes after its own SWITCH deletes it; a thread that runs
\* for the first time starts in ThreadRoot instead and leaves it there.
Run(next, st, dead) ==
  /\ currentThread' = next
  /\ status' = [st EXCEPT ![next] = "RUNNING"]
  /\ IF continuation[next] = Root
       THEN /\ threadToBeDestroyed' = dead
            /\ UNCHANGED destroyed
       ELSE /\ threadToBeDestroyed' = NoThread
            /\ destroyed' = destroyed \cup ({dead} \ {NoThread})

\* The statuses once every thread of the sequence "woken" is made READY.
MadeReady(woken) ==
  [t \in Threads |-> IF t \in Range(woken) THEN "READY" ELSE status[t]]

\* Scheduler::ReadyToRun for each thread of "woken", in order.
ReadyToRun(woken) ==
  /\ status' = MadeReady(woken)
  /\ readyList' = readyList \o woken

\* Thread::Sleep at "place", after ReadyToRun of "woken": the first ready
\* thread gets the CPU, or the machine idles.
Sleep(place, woken, dead) ==
  LET asleep == [MadeReady(woken) EXCEPT ![currentThread] = "BLOCKED"]
      queue  == readyList \o woken IN
  /\ level' = "IntOff"
  /\ continuation' = [continuation EXCEPT ![currentThread] = place]
  /\ IF queue = <<>>
       THEN /\ status' = asleep
            /\ readyList' = queue
            /\ threadToBeDestroyed' = dead
            /\ UNCHANGED <<currentThread, destroyed>>
       ELSE /\ readyList' = Tail(queue)
            /\ Run(Head(queue), asleep, dead)

\* SetLevel(oldLevel) and back to the program that called.
Return(was) ==
  /\ level' = was
  /\ continuation' = [continuation EXCEPT ![currentThread] = User]

\* Mutants of First and Rest: nobody is taken, or the head is left in the list.
TakesNobody(queue) == <<>>
KeepsHead(queue)   == queue

\* What List::Remove takes from a list that may be empty, as a sequence.
First(queue) == IF queue = <<>> THEN <<>> ELSE <<Head(queue)>>

\* What it leaves.
Rest(queue) == IF queue = <<>> THEN queue ELSE Tail(queue)

-----------------------------------------------------------------------------
(***************************************************************************)
(* Initialize(): only main exists, and interrupts are on.                  *)
(***************************************************************************)
Init ==
  /\ currentThread = Main
  /\ status = [t \in Threads |-> IF t = Main THEN "RUNNING" ELSE "JUST_CREATED"]
  /\ readyList = <<>>
  /\ continuation = [t \in Threads |-> IF t = Main THEN User ELSE New]
  /\ threadToBeDestroyed = NoThread
  /\ destroyed = {}
  /\ level = "IntOn"
  /\ oldLevel = [t \in Threads |-> "IntOn"]
  /\ value = InitialValue
  /\ semQueue = [s \in Semaphores |-> <<>>]
  /\ isHeldBySome = [l \in Locks |-> FALSE]
  /\ currentHolder = [l \in Locks |-> NoThread]
  /\ lockQueue = [l \in Locks |-> <<>>]
  /\ condQueue = [c \in Conditions |-> <<>>]
  /\ pending = [s \in Semaphores |-> 0]
  /\ halted = FALSE
  /\ holding = [t \in Threads |-> {}]

-----------------------------------------------------------------------------
(***************************************************************************)
(* Threads                                                                 *)
(***************************************************************************)

\* new Thread(...) and Thread::Fork by the running thread.
Fork(t) ==
  /\ InProgram
  /\ continuation[t] = New
  /\ continuation' = [continuation EXCEPT ![t] = Root]
  /\ status' = [status EXCEPT ![t] = "READY"]
  /\ readyList' = Append(readyList, t)
  /\ UNCHANGED <<currentThread, threadToBeDestroyed, destroyed, level, oldLevel,
                 semVars, lockVars, condQueue, deviceVars, holding>>

\* ThreadRoot of a forked thread: InterruptEnable, then its function.
ThreadRoot ==
  /\ BackIn("ThreadRoot", NoThread)
  /\ Return("IntOn")
  /\ UNCHANGED <<currentThread, status, readyList, threadToBeDestroyed, destroyed,
                 oldLevel, semVars, lockVars, condQueue, deviceVars, holding>>

\* Mutant of Yield: the yielding thread goes to the front of the ready list.
YieldPrepends ==
  /\ InProgram
  /\ readyList # <<>>
  /\ oldLevel' = [oldLevel EXCEPT ![currentThread] = level]
  /\ level' = "IntOff"
  /\ continuation' = [continuation EXCEPT ![currentThread] = Yields]
  /\ readyList' = <<currentThread>> \o Tail(readyList)
  /\ Run(Head(readyList), [status EXCEPT ![currentThread] = "READY"],
         threadToBeDestroyed)
  /\ UNCHANGED <<semVars, lockVars, condQueue, deviceVars, holding>>

\* Thread::Yield, called by the program or by OneTick after a timer
\* interrupt; it has no effect when nobody else is ready.
Yield ==
  /\ InProgram
  /\ readyList # <<>>
  /\ oldLevel' = [oldLevel EXCEPT ![currentThread] = level]
  /\ level' = "IntOff"
  /\ continuation' = [continuation EXCEPT ![currentThread] = Yields]
  /\ readyList' = Append(Tail(readyList), currentThread)
  /\ Run(Head(readyList), [status EXCEPT ![currentThread] = "READY"],
         threadToBeDestroyed)
  /\ UNCHANGED <<semVars, lockVars, condQueue, deviceVars, holding>>

\* The end of Thread::Yield, once the thread has the CPU again.
YieldReturns ==
  /\ BackIn("Yield", NoThread)
  /\ Return(oldLevel[currentThread])
  /\ UNCHANGED <<currentThread, status, readyList, threadToBeDestroyed, destroyed,
                 oldLevel, semVars, lockVars, condQueue, deviceVars, holding>>

\* Thread::Finish: it overwrites threadToBeDestroyed, whatever is there.
Finish ==
  /\ InProgram
  /\ Sleep(Ends, <<>>, currentThread)
  /\ UNCHANGED <<oldLevel, semVars, lockVars, condQueue, deviceVars, holding>>

\* The program brackets a section of its own with SetLevel(IntOff) and
\* SetLevel(IntOn), as Producer::Produce does.
SetLevel(now) ==
  /\ InProgram
  /\ level # now
  /\ level' = now
  /\ UNCHANGED <<threadVars, oldLevel, semVars, lockVars, condQueue,
                 deviceVars, holding>>

-----------------------------------------------------------------------------
(***************************************************************************)
(* Semaphores.  P is entered from the program, or goes round its while     *)
(* loop when the thread that slept in it is scheduled again.               *)
(***************************************************************************)

\* The thread is about to test the condition of a waiting operation.
Tests(place, object) == InProgram \/ BackIn(place, object)

\* oldLevel of the operation being entered or continued.
EntryLevel == IF InProgram THEN level ELSE oldLevel[currentThread]

\* Mutant of PTakes: an if in place of the while loop around the Sleep.
PDoesNotRetest(s) ==
  /\ Tests("P", s)
  /\ InProgram => value[s] > 0
  /\ value' = [value EXCEPT ![s] = @ - 1]
  /\ Return(EntryLevel)
  /\ UNCHANGED <<currentThread, status, readyList, threadToBeDestroyed, destroyed,
                 oldLevel, semQueue, lockVars, condQueue, deviceVars, holding>>

PTakes(s) ==
  /\ Tests("P", s)
  /\ value[s] > 0
  /\ value' = [value EXCEPT ![s] = @ - 1]
  /\ Return(EntryLevel)
  /\ UNCHANGED <<currentThread, status, readyList, threadToBeDestroyed, destroyed,
                 oldLevel, semQueue, lockVars, condQueue, deviceVars, holding>>

PSleeps(s) ==
  /\ Tests("P", s)
  /\ value[s] = 0
  /\ semQueue' = [semQueue EXCEPT ![s] = Append(@, currentThread)]
  /\ oldLevel' = [oldLevel EXCEPT ![currentThread] = EntryLevel]
  /\ Sleep(At("P", s), <<>>, threadToBeDestroyed)
  /\ UNCHANGED <<value, lockVars, condQueue, deviceVars, holding>>

\* Mutant of DoV: a waiter is woken only when the value was zero.
VWakesAtZero(s) ==
  LET wakes == value[s] = 0 IN
  /\ ReadyToRun(IF wakes THEN First(semQueue[s]) ELSE <<>>)
  /\ semQueue' = [semQueue EXCEPT ![s] = IF wakes THEN Rest(@) ELSE @]
  /\ value' = [value EXCEPT ![s] = @ + 1]
  /\ UNCHANGED <<currentThread, continuation, threadToBeDestroyed, destroyed,
                 level, oldLevel, lockVars, condQueue, halted, holding>>

\* The body of Semaphore::V: the waiter it wakes tests value again later.
DoV(s) ==
  /\ ReadyToRun(First(semQueue[s]))
  /\ semQueue' = [semQueue EXCEPT ![s] = Rest(@)]
  /\ value' = [value EXCEPT ![s] = @ + 1]
  /\ UNCHANGED <<currentThread, continuation, threadToBeDestroyed, destroyed,
                 level, oldLevel, lockVars, condQueue, halted, holding>>

V(s) ==
  /\ InProgram
  /\ value[s] + pending[s] < MaxValue
  /\ DoV(s)
  /\ UNCHANGED pending

-----------------------------------------------------------------------------
(***************************************************************************)
(* Locks                                                                   *)
(***************************************************************************)

\* The thread is about to test isHeldBySome: in Acquire, or back from the
\* Sleep of Condition::Wait, which ends by calling Acquire.
TestsLock(l) ==
  \/ Tests("Acquire", l)
  \/ \E c \in Conditions : ConditionLock[c] = l /\ BackIn("Wait", c)

\* Mutant of AcquireTakes: an if in place of the while loop around the Sleep.
AcquireDoesNotRetest(l) ==
  /\ TestsLock(l)
  /\ InProgram => ~isHeldBySome[l]
  /\ isHeldBySome' = [isHeldBySome EXCEPT ![l] = TRUE]
  /\ currentHolder' = [currentHolder EXCEPT ![l] = currentThread]
  /\ holding' = [holding EXCEPT ![currentThread] = @ \cup {l}]
  /\ Return(EntryLevel)
  /\ UNCHANGED <<currentThread, status, readyList, threadToBeDestroyed, destroyed,
                 oldLevel, semVars, lockQueue, condQueue, deviceVars>>

AcquireTakes(l) ==
  /\ TestsLock(l)
  /\ ~isHeldBySome[l]
  /\ isHeldBySome' = [isHeldBySome EXCEPT ![l] = TRUE]
  /\ currentHolder' = [currentHolder EXCEPT ![l] = currentThread]
  /\ holding' = [holding EXCEPT ![currentThread] = @ \cup {l}]
  /\ Return(EntryLevel)
  /\ UNCHANGED <<currentThread, status, readyList, threadToBeDestroyed, destroyed,
                 oldLevel, semVars, lockQueue, condQueue, deviceVars>>

AcquireSleeps(l) ==
  /\ TestsLock(l)
  /\ isHeldBySome[l]
  /\ lockQueue' = [lockQueue EXCEPT ![l] = Append(@, currentThread)]
  /\ oldLevel' = [oldLevel EXCEPT ![currentThread] = EntryLevel]
  /\ Sleep(At("Acquire", l), <<>>, threadToBeDestroyed)
  /\ UNCHANGED <<isHeldBySome, currentHolder, semVars, condQueue, deviceVars, holding>>

\* What Lock::Release does to the lock itself.
FreeLock(l) ==
  /\ lockQueue' = [lockQueue EXCEPT ![l] = Rest(@)]
  /\ isHeldBySome' = [isHeldBySome EXCEPT ![l] = FALSE]
  /\ currentHolder' = [currentHolder EXCEPT ![l] = NoThread]
  /\ holding' = [holding EXCEPT ![currentThread] = @ \ {l}]

\* Lock::Release, called by a program that counts on holding the lock; the
\* ASSERT of the code is the invariant HolderIsRight.
Release(l) ==
  /\ InProgram
  /\ l \in holding[currentThread]
  /\ ReadyToRun(First(lockQueue[l]))
  /\ FreeLock(l)
  /\ UNCHANGED <<currentThread, continuation, threadToBeDestroyed, destroyed,
                 level, oldLevel, semVars, condQueue, deviceVars>>

-----------------------------------------------------------------------------
(***************************************************************************)
(* Conditions, called by a program that counts on holding conditionLock.   *)
(***************************************************************************)
CallsWithLock(c) == InProgram /\ ConditionLock[c] \in holding[currentThread]

\* Mutant of Wait: the lock is not released before the Sleep.
WaitKeepsLock(c) ==
  /\ CallsWithLock(c)
  /\ condQueue' = [condQueue EXCEPT ![c] = Append(@, currentThread)]
  /\ oldLevel' = [oldLevel EXCEPT ![currentThread] = level]
  /\ Sleep(At("Wait", c), <<>>, threadToBeDestroyed)
  /\ UNCHANGED <<semVars, lockVars, deviceVars, holding>>

\* Condition::Wait up to its SWITCH: queue, release the lock, sleep.
Wait(c) ==
  LET l == ConditionLock[c] IN
  /\ CallsWithLock(c)
  /\ condQueue' = [condQueue EXCEPT ![c] = Append(@, currentThread)]
  /\ oldLevel' = [oldLevel EXCEPT ![currentThread] = level]
  /\ FreeLock(l)
  /\ Sleep(At("Wait", c), First(lockQueue[l]), threadToBeDestroyed)
  /\ UNCHANGED <<semVars, deviceVars>>

Signal(c) ==
  /\ CallsWithLock(c)
  /\ ReadyToRun(First(condQueue[c]))
  /\ condQueue' = [condQueue EXCEPT ![c] = Rest(@)]
  /\ UNCHANGED <<currentThread, continuation, threadToBeDestroyed, destroyed,
                 level, oldLevel, semVars, lockVars, deviceVars, holding>>

Broadcast(c) ==
  /\ CallsWithLock(c)
  /\ ReadyToRun(condQueue[c])
  /\ condQueue' = [condQueue EXCEPT ![c] = <<>>]
  /\ UNCHANGED <<currentThread, continuation, threadToBeDestroyed, destroyed,
                 level, oldLevel, semVars, lockVars, deviceVars, holding>>

-----------------------------------------------------------------------------
(***************************************************************************)
(* Devices and the idle machine                                            *)
(***************************************************************************)

\* A driver asks a device for something; Interrupt::Schedule queues the
\* interrupt whose handler will do V(s), as the disk and the console do.
Schedule(s) ==
  /\ InProgram
  /\ value[s] + pending[s] < MaxValue
  /\ pending' = [pending EXCEPT ![s] = @ + 1]
  /\ UNCHANGED <<threadVars, level, oldLevel, semVars, lockVars, condQueue,
                 halted, holding>>

\* Interrupt::CheckIfDue runs one handler: from OneTick when interrupts are
\* on, or from Idle when no thread can run.
CheckIfDue(s) ==
  /\ Idle \/ (InProgram /\ level = "IntOn")
  /\ pending[s] > 0
  /\ pending' = [pending EXCEPT ![s] = @ - 1]
  /\ DoV(s)

\* The loop of Thread::Sleep finds a ready thread after Interrupt::Idle.
WakeFromIdle ==
  /\ Idle
  /\ readyList # <<>>
  /\ readyList' = Tail(readyList)
  /\ Run(Head(readyList), status, threadToBeDestroyed)
  /\ UNCHANGED <<continuation, level, oldLevel, semVars, lockVars, condQueue,
                 deviceVars, holding>>

\* Interrupt::Idle with nothing pending ends in Interrupt::Halt.
Halt ==
  /\ Idle
  /\ readyList = <<>>
  /\ \A s \in Semaphores : pending[s] = 0
  /\ halted' = TRUE
  /\ UNCHANGED <<threadVars, level, oldLevel, semVars, lockVars, condQueue,
                 pending, holding>>

-----------------------------------------------------------------------------
ThreadStep ==
  \/ \E t \in Threads : Fork(t)
  \/ ThreadRoot \/ Yield \/ YieldReturns \/ Finish
  \/ \E now \in Levels : SetLevel(now)

SemaphoreStep == \E s \in Semaphores : PTakes(s) \/ PSleeps(s) \/ V(s)

LockStep == \E l \in Locks : AcquireTakes(l) \/ AcquireSleeps(l) \/ Release(l)

ConditionStep == \E c \in Conditions : Wait(c) \/ Signal(c) \/ Broadcast(c)

DeviceStep ==
  \/ \E s \in Semaphores : Schedule(s) \/ CheckIfDue(s)
  \/ WakeFromIdle \/ Halt

Next == ThreadStep \/ SemaphoreStep \/ LockStep \/ ConditionStep \/ DeviceStep

Spec == Init /\ [][Next]_vars

-----------------------------------------------------------------------------
TypeOK ==
  /\ currentThread \in Threads
  /\ status \in [Threads -> {"JUST_CREATED", "RUNNING", "READY", "BLOCKED"}]
  /\ readyList \in Seq(Threads)
  /\ continuation \in [Threads -> Places]
  /\ threadToBeDestroyed \in Threads \cup {NoThread}
  /\ destroyed \subseteq Threads
  /\ level \in Levels
  /\ oldLevel \in [Threads -> Levels]
  /\ value \in [Semaphores -> Nat]
  /\ semQueue \in [Semaphores -> Seq(Threads)]
  /\ isHeldBySome \in [Locks -> BOOLEAN]
  /\ currentHolder \in [Locks -> Threads \cup {NoThread}]
  /\ lockQueue \in [Locks -> Seq(Threads)]
  /\ condQueue \in [Conditions -> Seq(Threads)]
  /\ pending \in [Semaphores -> Nat]
  /\ halted \in BOOLEAN
  /\ holding \in [Threads -> SUBSET Locks]

\* The threads asleep at "place", in the queue of "object".
Asleep(place, object) ==
  {t \in Threads : status[t] = "BLOCKED" /\ continuation[t] = At(place, object)}

\* A thread is in one place.  It is on the ready list exactly when its status
\* says READY, in the queue of a semaphore, lock or condition exactly when it
\* sleeps in the operation that put it there, never twice in a queue, and
\* only currentThread can be RUNNING (Scheduler::Run, Thread::Sleep, List).
EachThreadInOnePlace ==
  /\ IsInjective(readyList)
  /\ Range(readyList) = {t \in Threads : status[t] = "READY"}
  /\ \A s \in Semaphores : IsInjective(semQueue[s]) /\ Range(semQueue[s]) = Asleep("P", s)
  /\ \A l \in Locks : IsInjective(lockQueue[l]) /\ Range(lockQueue[l]) = Asleep("Acquire", l)
  /\ \A c \in Conditions : IsInjective(condQueue[c]) /\ Range(condQueue[c]) = Asleep("Wait", c)
  /\ \A t \in Threads : status[t] = "RUNNING" => t = currentThread
  /\ \A t \in Threads : status[t] = "JUST_CREATED" <=> continuation[t] = New

\* No V is lost.  V wakes one waiter and only then makes the value positive,
\* and a thread that never slept may take that value first; still, while
\* threads sleep in P every unit of the value has a woken thread coming for it.
Retrying(place, object) ==
  {t \in Threads : status[t] # "BLOCKED" /\ continuation[t] = At(place, object)}

EveryUnitHasATaker ==
  \A s \in Semaphores :
    semQueue[s] # <<>> => value[s] <= Cardinality(Retrying("P", s))

\* No Release is lost.  A lock that is free while threads sleep in Acquire has
\* at least one woken thread on its way to take it.
FreeLockHasATaker ==
  \A l \in Locks :
    lockQueue[l] # <<>> /\ ~isHeldBySome[l] => Retrying("Acquire", l) # {}

\* The lock agrees with the programs: a thread counts on holding l exactly
\* when l is held and names it as the holder.  So two threads never both do,
\* and ASSERT(IsHeldByCurrentThread()) cannot fail in Release, Wait, Signal
\* or Broadcast.
HolderIsRight ==
  \A l \in Locks :
    /\ \A t \in Threads : l \in holding[t] <=> isHeldBySome[l] /\ currentHolder[l] = t
    /\ isHeldBySome[l] <=> currentHolder[l] # NoThread

\* A finished thread is never scheduled again, so Scheduler::Run deletes its
\* object safely: nobody is running on its stack (the ASSERT of ~Thread), no
\* queue names it, and it is not deleted twice.
CarcassIsSafe ==
  /\ \A t \in Threads : continuation[t] = Ends => status[t] = "BLOCKED"
  /\ threadToBeDestroyed # NoThread =>
       continuation[threadToBeDestroyed] = Ends /\ threadToBeDestroyed \notin destroyed
  /\ \A t \in destroyed : continuation[t] = Ends /\ t # currentThread

\* Thread::Finish's comment: "Instead, we set threadToBeDestroyed, so that
\* Scheduler::Run() will call the destructor, once we're running in the
\* context of a different thread".  A finished thread is the one that is
\* about to be destroyed, until it has been.
FinishedIsDestroyed ==
  \A t \in Threads :
    continuation[t] = Ends => t = threadToBeDestroyed \/ t \in destroyed

-----------------------------------------------------------------------------
(***************************************************************************)
(* Fairness.  The CPU never stops while something can run; with the timer  *)
(* on (nachos -rs) or with nachos -p a thread that keeps running with      *)
(* interrupts on is made to yield; and a program that turned interrupts    *)
(* off turns them on again, or sleeps.                                     *)
(***************************************************************************)
TimeSlice == level = "IntOn" /\ Yield

Fairness ==
  /\ WF_vars(Next)
  /\ SF_vars(TimeSlice)
  /\ SF_vars(SetLevel("IntOn"))

FairSpec == Spec /\ Fairness

\* A ready thread gets the CPU, whatever the other threads do with it: the
\* ready list is FIFO and Yield goes to its end.
ReadyThreadRuns ==
  \A t \in Threads : status[t] = "READY" ~> status[t] = "RUNNING"

-----------------------------------------------------------------------------
Abstract == INSTANCE Monitor WITH
  tokens  <- value,
  waiters <- [c \in Conditions |-> Range(condQueue[c])]

\* synch.cc implements the monitor: P, V, Acquire, Release, Wait, Signal and
\* Broadcast have the effect the monitor gives them, and nothing else the
\* kernel does touches the programs' synchronization.
ImplementsMonitor == Abstract!Spec
=============================================================================
