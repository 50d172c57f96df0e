----------------------------- MODULE SynchDisk ------------------------------
(***************************************************************************)
(* The synchronous disk (filesys/synchdisk.cc) over the disk device, which *)
(* takes one request at a time and interrupts when it is done              *)
(* (machine/disk.cc; Machine has its timing).  It runs on Kernel: any      *)
(* thread may read or write any sector at any time.                        *)
(***************************************************************************)
EXTENDS Kernel

CONSTANTS diskLock, diskDone,  \* SynchDisk::lock and SynchDisk::semaphore
          Sectors, Contents,   \* what threads put in a sector
          NoCall,              \* the call of a thread that is in none
          Preemptive           \* nachos -rs: a thread may be made to yield

ASSUME SynchDiskAssumption ==
  /\ diskLock \in Locks
  /\ diskDone \in Semaphores /\ InitialValue[diskDone] = 0
  /\ NoCall \notin [op : {"read", "write"}, sector : Sectors, data : Contents \cup {NoCall}]
  /\ Preemptive \in BOOLEAN

VARIABLES
  stage,      \* where a thread is in ReadSector or WriteSector
  call,       \* its arguments: [op, sector, data]
  buffer,     \* the sector it has read
  disk,       \* the UNIX file behind the disk
  active,     \* Disk::active
  requester   \* history: whose request the disk is busy with

callVars  == <<stage, call>>
diskVars  == <<buffer, disk, active, requester>>
synchVars == <<vars, callVars, diskVars>>

Reads(sector)        == [op |-> "read", sector |-> sector, data |-> NoCall]
Writes(sector, data) == [op |-> "write", sector |-> sector, data |-> data]

\* The lock is the thread's in these stages.
OwnerStages == {"request", "await", "release"}

SynchDiskInit ==
  /\ Init
  /\ stage = [t \in Threads |-> "user"]
  /\ call = [t \in Threads |-> NoCall]
  /\ buffer = [t \in Threads |-> NoCall]
  /\ active = FALSE
  /\ requester = NoThread

-----------------------------------------------------------------------------
Is(here) == stage[currentThread] = here

GoesTo(there) ==
  /\ stage' = [stage EXCEPT ![currentThread] = there]
  /\ UNCHANGED call

\* ReadSector or WriteSector is called.
CallSector(arguments) ==
  /\ InProgram
  /\ Is("user")
  /\ stage' = [stage EXCEPT ![currentThread] = "lock"]
  /\ call' = [call EXCEPT ![currentThread] = arguments]
  /\ UNCHANGED <<vars, diskVars>>

\* lock->Acquire().
GetDisk ==
  /\ Is("lock")
  /\ \/ AcquireTakes(diskLock) /\ GoesTo("request")
     \/ AcquireSleeps(diskLock) /\ GoesTo("lock")
  /\ UNCHANGED diskVars

\* Disk::ReadRequest or WriteRequest, which asserts that the disk is not active:
\* the data is moved at once, the interrupt comes later.
MakeRequest ==
  LET mine == call[currentThread] IN
  /\ Is("request") /\ InProgram
  /\ active' = TRUE
  /\ requester' = currentThread
  /\ IF mine.op = "write"
       THEN disk' = [disk EXCEPT ![mine.sector] = mine.data] /\ UNCHANGED buffer
       ELSE buffer' = [buffer EXCEPT ![currentThread] = disk[mine.sector]] /\ UNCHANGED disk
  /\ pending' = [pending EXCEPT ![diskDone] = @ + 1]
  /\ GoesTo("await")
  /\ UNCHANGED <<threadVars, level, oldLevel, semVars, lockVars, condQueue, halted, holding>>

\* Mutant of AwaitRequest: the thread does not wait for the interrupt.
DoesNotAwait ==
  /\ Is("await") /\ InProgram
  /\ GoesTo("release")
  /\ UNCHANGED <<vars, diskVars>>

\* semaphore->P().
AwaitRequest ==
  /\ Is("await")
  /\ \/ PTakes(diskDone) /\ GoesTo("release")
     \/ PSleeps(diskDone) /\ GoesTo("await")
  /\ UNCHANGED diskVars

\* lock->Release(), and the return with the sector that was read.
ReleaseDisk ==
  /\ Is("release")
  /\ Release(diskLock)
  /\ stage' = [stage EXCEPT ![currentThread] = "user"]
  /\ call' = [call EXCEPT ![currentThread] = NoCall]
  /\ buffer' = [buffer EXCEPT ![currentThread] = NoCall]
  /\ UNCHANGED <<disk, active, requester>>

\* Disk::HandleInterrupt and SynchDisk::RequestDone, which does semaphore->V().
RequestDone ==
  /\ CheckIfDue(diskDone)
  /\ active' = FALSE
  /\ requester' = NoThread
  /\ UNCHANGED <<callVars, buffer, disk>>

DiskStep == GetDisk \/ MakeRequest \/ AwaitRequest \/ ReleaseDisk

\* The time slice.
Preempt ==
  /\ Preemptive /\ level = "IntOn"
  /\ Yield
  /\ UNCHANGED <<callVars, diskVars>>

\* What the kernel does by itself, and what a thread does outside the disk.
KernelStep ==
  /\ ThreadRoot \/ YieldReturns \/ WakeFromIdle
  /\ UNCHANGED <<callVars, diskVars>>

ForkOrFinish ==
  /\ Is("user")
  /\ Finish \/ \E t \in Threads : Fork(t)
  /\ UNCHANGED <<callVars, diskVars>>

MachineHalts == Halt /\ UNCHANGED <<callVars, diskVars>>

\* The machine dies at any moment, or is halted, and nachos is started again:
\* of all that was going on only the UNIX file is left.
Restart ==
  /\ currentThread' = Main
  /\ status' = [t \in Threads |-> IF t = Main THEN "RUNNING" ELSE "JUST_CREATED"]
  /\ continuation' = [t \in Threads |-> IF t = Main THEN User ELSE New]
  /\ readyList' = <<>> /\ threadToBeDestroyed' = NoThread /\ destroyed' = {}
  /\ level' = "IntOn" /\ oldLevel' = [t \in Threads |-> "IntOn"]
  /\ value' = InitialValue /\ semQueue' = [s \in Semaphores |-> <<>>]
  /\ isHeldBySome' = [l \in Locks |-> FALSE] /\ lockQueue' = [l \in Locks |-> <<>>]
  /\ currentHolder' = [l \in Locks |-> NoThread] /\ holding' = [t \in Threads |-> {}]
  /\ condQueue' = [c \in Conditions |-> <<>>]
  /\ pending' = [s \in Semaphores |-> 0] /\ halted' = FALSE
  /\ stage' = [t \in Threads |-> "user"]
  /\ call' = [t \in Threads |-> NoCall] /\ buffer' = [t \in Threads |-> NoCall]
  /\ active' = FALSE /\ requester' = NoThread
  /\ UNCHANGED disk

\* What goes on whatever the threads ask the disk for.
DriverNext == DiskStep \/ RequestDone \/ Preempt \/ KernelStep

SynchDiskNext ==
  \/ DriverNext \/ ForkOrFinish \/ MachineHalts \/ Restart
  \/ \E sector \in Sectors :
       CallSector(Reads(sector)) \/ \E data \in Contents : CallSector(Writes(sector, data))

SynchDiskSpec ==
  SynchDiskInit /\ disk \in [Sectors -> Contents] /\ [][SynchDiskNext]_synchVars

-----------------------------------------------------------------------------
(***************************************************************************)
(* Properties                                                              *)
(***************************************************************************)

\* "Only one disk I/O at a time" (synchdisk.cc), ASSERT(!active) (disk.cc): who
\* is about to make a request finds the disk at rest, with no interrupt and no
\* unit of the semaphore left over from the request before.
DiskIsAtRest ==
  \A t \in Threads :
    stage[t] = "request" => ~active /\ pending[diskDone] = 0 /\ value[diskDone] = 0

\* The interrupt finds the thread whose request is done: while a thread waits
\* either its own request is in progress, with the one interrupt that will end
\* it, or it is over, with the one unit of the semaphore that will let it go.
EachRequestIsAnswered ==
  \A t \in Threads :
    stage[t] = "await" =>
      IF active THEN requester = t /\ pending[diskDone] = 1 /\ value[diskDone] = 0
      ELSE pending[diskDone] = 0 /\ value[diskDone] = 1

\* Requests do not overlap, and each interrupt is for the one that waits.
OneRequestAtATime == DiskIsAtRest /\ EachRequestIsAnswered

Store == INSTANCE SectorStore WITH
  asked  <- call,
  busy   <- requester,
  served <- {t \in Threads : stage[t] \in {"await", "release"} /\ requester # t}

\* Each thread gets its own transfer: no thread returns on the interrupt of
\* another one's request, and what it read is what the sector held then.
ImplementsSectorStore == Store!Spec
=============================================================================
