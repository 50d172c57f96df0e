--------------------------- MODULE SynchDiskProofs ----------------------------
(***************************************************************************)
(* SynchDisk and FileSystem for any number of threads, sectors, entries    *)
(* and names.  First the driver: requests do not overlap, each interrupt   *)
(* is for the thread that waits, and SectorStore is implemented.  Then the *)
(* files: a crash harms at most the file that is being created or removed, *)
(* Files is implemented, and reads and writes are of the bytes they ask    *)
(* for.                                                                    *)
(***************************************************************************)
EXTENDS FileSystem, KernelProofs

Stages == {"user", "lock"} \cup OwnerStages

\* A thread is between GetDisk and ReleaseDisk only with the lock.
OwnersHaveTheLock ==
  \A t \in Threads :
    stage[t] \in OwnerStages => isHeldBySome[diskLock] /\ currentHolder[diskLock] = t

\* A request is an interrupt to come, or a unit to take, of the one thread that
\* waits for it.
RequestIsAwaited ==
  /\ active <=> pending[diskDone] # 0
  /\ pending[diskDone] + value[diskDone] =
       IF \E t \in Threads : stage[t] = "await" THEN 1 ELSE 0
  /\ IF active THEN requester \in Threads /\ stage[requester] = "await"
     ELSE requester = NoThread

DiskInv ==
  /\ KernelTypes
  /\ stage \in [Threads -> Stages]
  /\ OwnersHaveTheLock
  /\ RequestIsAwaited

LEMMA DiskConstants == diskLock \in Locks /\ diskDone \in Semaphores
BY SynchDiskAssumption

\* Only one thread can be inside.
LEMMA OnlyOwner ==
  ASSUME DiskInv, NEW t \in Threads, NEW u \in Threads,
         stage[t] \in OwnerStages, stage[u] \in OwnerStages
  PROVE  t = u
BY DEF DiskInv, OwnersHaveTheLock

\* A step of the kernel that the calls do not notice.
LEMMA OutsideStep ==
  ASSUME DiskInv, KernelTypes', UNCHANGED <<Shared, stage, active, requester>>
  PROVE  DiskInv'
BY DEF DiskInv, OwnersHaveTheLock, RequestIsAwaited, Shared

\* A thread that goes on in its call, away from the disk.
LEMMA SameRequest ==
  ASSUME DiskInv, UNCHANGED <<active, requester, pending, value>>,
         NEW p \in Threads, NEW there, stage' = [stage EXCEPT ![p] = there],
         stage[p] # "await", there # "await"
  PROVE  RequestIsAwaited'
<1>1. \A t \in Threads : stage'[t] = "await" <=> stage[t] = "await"
  BY DEF DiskInv
<1>. QED  BY <1>1 DEF DiskInv, RequestIsAwaited

-----------------------------------------------------------------------------
LEMMA DiskStarts == SynchDiskInit => DiskInv
<1> SUFFICES ASSUME SynchDiskInit PROVE DiskInv
  OBVIOUS
<1> USE DEF SynchDiskInit
<1>1. KernelTypes
  BY KernelStarts
<1>2. OwnersHaveTheLock
  BY DEF OwnersHaveTheLock, OwnerStages
<1>3. RequestIsAwaited
  BY SynchDiskAssumption, DiskConstants DEF RequestIsAwaited, Init
<1>. QED  BY <1>1, <1>2, <1>3 DEF DiskInv, Stages

\* The machine starts again.
LEMMA RestartInv ==
  ASSUME Restart  PROVE DiskInv'
<1> USE DEF Restart
<1>1. KernelTypes'
  BY KernelAssumption DEF KernelTypes
<1>2. stage' = [t \in Threads |-> "user"] /\ OwnersHaveTheLock'
  BY DEF OwnersHaveTheLock, OwnerStages
<1>3. RequestIsAwaited'
  BY SynchDiskAssumption, DiskConstants DEF RequestIsAwaited
<1>. QED  BY <1>1, <1>2, <1>3 DEF DiskInv, Stages

LEMMA CallInv ==
  ASSUME DiskInv, NEW arguments, CallSector(arguments)  PROVE DiskInv'
<1> DEFINE p == currentThread
<1>1. /\ p \in Threads /\ stage[p] = "user" /\ stage' = [stage EXCEPT ![p] = "lock"]
      /\ UNCHANGED vars /\ UNCHANGED diskVars
  BY DEF CallSector, Is, DiskInv, KernelTypes
<1>2. KernelTypes' /\ UNCHANGED Shared
  BY <1>1, KernelStutters DEF DiskInv
<1>3. stage' \in [Threads -> Stages]
  BY <1>1 DEF DiskInv, Stages
<1>4. OwnersHaveTheLock'
  BY <1>1, <1>2 DEF DiskInv, OwnersHaveTheLock, OwnerStages, Shared
<1>5. RequestIsAwaited'
  BY <1>1, <1>2, SameRequest DEF Shared, diskVars
<1>. QED  BY <1>2, <1>3, <1>4, <1>5 DEF DiskInv

LEMMA GetDiskInv ==
  ASSUME DiskInv, GetDisk  PROVE DiskInv'
<1> DEFINE p == currentThread
<1> USE DiskConstants
<1>0. p \in Threads /\ stage[p] = "lock" /\ UNCHANGED diskVars
  BY DEF GetDisk, Is, DiskInv, KernelTypes
<1>1. CASE AcquireTakes(diskLock) /\ GoesTo("request")
  <2>1. /\ KernelTypes' /\ ~isHeldBySome[diskLock] /\ UNCHANGED <<value, pending>>
        /\ isHeldBySome' = [isHeldBySome EXCEPT ![diskLock] = TRUE]
        /\ currentHolder' = [currentHolder EXCEPT ![diskLock] = p]
    BY <1>1, AcquireTakesStep DEF DiskInv
  <2>2. stage' = [stage EXCEPT ![p] = "request"]
    BY <1>1 DEF GoesTo
  <2>3. OwnersHaveTheLock'
    <3>1. \A t \in Threads : stage[t] \notin OwnerStages
      BY <2>1 DEF DiskInv, OwnersHaveTheLock
    <3>2. isHeldBySome'[diskLock] /\ currentHolder'[diskLock] = p
      BY <2>1 DEF DiskInv, KernelTypes
    <3>. QED  BY <1>0, <2>2, <3>1, <3>2 DEF OwnersHaveTheLock, DiskInv
  <2>4. RequestIsAwaited'
    BY <1>0, <2>1, <2>2, SameRequest DEF diskVars
  <2>5. stage' \in [Threads -> Stages]
    BY <2>2 DEF DiskInv, Stages, OwnerStages
  <2>. QED  BY <2>1, <2>3, <2>4, <2>5 DEF DiskInv
<1>2. CASE AcquireSleeps(diskLock) /\ GoesTo("lock")
  <2>1. KernelTypes' /\ UNCHANGED Shared
    BY <1>2, QuietSteps DEF DiskInv
  <2>2. stage' = stage
    BY <1>0, <1>2 DEF GoesTo, DiskInv
  <2>. QED  BY <1>0, <2>1, <2>2, OutsideStep DEF diskVars
<1>. QED  BY <1>1, <1>2 DEF GetDisk

LEMMA MakeRequestInv ==
  ASSUME DiskInv, MakeRequest  PROVE DiskInv'
<1> DEFINE p == currentThread
<1> USE DiskConstants
<1>0. /\ p \in Threads /\ stage[p] = "request" /\ KernelTypes
      /\ UNCHANGED <<currentThread, readyList, semQueue, lockQueue, condQueue, value,
                     isHeldBySome, currentHolder>>
  BY DEF MakeRequest, Is, DiskInv, KernelTypes, threadVars, semVars, lockVars
<1>1. /\ stage' = [stage EXCEPT ![p] = "await"] /\ active' = TRUE /\ requester' = p
      /\ pending' = [pending EXCEPT ![diskDone] = @ + 1]
  BY DEF MakeRequest, GoesTo
<1>2. KernelTypes'
  BY <1>0, <1>1 DEF KernelTypes
<1>3. stage' \in [Threads -> Stages]
  BY <1>1 DEF DiskInv, Stages, OwnerStages
<1>4. OwnersHaveTheLock'
  BY <1>0, <1>1 DEF DiskInv, OwnersHaveTheLock, OwnerStages
<1>5. RequestIsAwaited'
  <2>1. ~ \E t \in Threads : stage[t] = "await"
    BY <1>0, OnlyOwner DEF OwnerStages
  <2>2. pending[diskDone] = 0 /\ value[diskDone] = 0
    BY <1>0, <2>1 DEF DiskInv, RequestIsAwaited, KernelTypes
  <2>3. pending'[diskDone] = 1 /\ value'[diskDone] = 0
    BY <1>0, <1>1, <2>2 DEF KernelTypes
  <2>4. stage'[p] = "await"
    BY <1>0, <1>1 DEF DiskInv
  <2>5. pending'[diskDone] + value'[diskDone] = 1 /\ pending'[diskDone] # 0
    BY <2>3
  <2>. QED  BY <1>0, <1>1, <2>4, <2>5 DEF RequestIsAwaited
<1>. QED  BY <1>2, <1>3, <1>4, <1>5 DEF DiskInv

LEMMA AwaitRequestInv ==
  ASSUME DiskInv, AwaitRequest  PROVE DiskInv'
<1> DEFINE p == currentThread
<1> USE DiskConstants
<1>0. p \in Threads /\ stage[p] = "await" /\ UNCHANGED diskVars /\ KernelTypes
  BY DEF AwaitRequest, Is, DiskInv, KernelTypes
<1>1. CASE PTakes(diskDone) /\ GoesTo("release")
  <2>1. /\ KernelTypes' /\ UNCHANGED <<pending, isHeldBySome, currentHolder>>
        /\ value[diskDone] > 0 /\ value' = [value EXCEPT ![diskDone] = @ - 1]
    BY <1>0, <1>1, PTakesStep
  <2>2. stage' = [stage EXCEPT ![p] = "release"]
    BY <1>1 DEF GoesTo
  <2>3. stage' \in [Threads -> Stages]
    BY <2>2 DEF DiskInv, Stages, OwnerStages
  <2>4. OwnersHaveTheLock'
    BY <1>0, <2>1, <2>2 DEF DiskInv, OwnersHaveTheLock, OwnerStages
  <2>5. RequestIsAwaited'
    <3>1. pending[diskDone] = 0 /\ value[diskDone] = 1
      BY <1>0, <2>1 DEF DiskInv, RequestIsAwaited, KernelTypes
    <3>2. ~active /\ requester = NoThread
      BY <3>1 DEF DiskInv, RequestIsAwaited
    <3>3. \A t \in Threads : stage'[t] # "await"
      BY <1>0, <2>2, OnlyOwner DEF DiskInv, OwnerStages
    <3>4. pending'[diskDone] = 0 /\ value'[diskDone] = 0
      BY <1>0, <2>1, <3>1 DEF KernelTypes
    <3>. QED  BY <1>0, <3>2, <3>3, <3>4 DEF RequestIsAwaited, diskVars
  <2>. QED  BY <2>1, <2>3, <2>4, <2>5 DEF DiskInv
<1>2. CASE PSleeps(diskDone) /\ GoesTo("await")
  <2>1. KernelTypes' /\ UNCHANGED Shared
    BY <1>0, <1>2, QuietSteps
  <2>2. stage' = stage
    BY <1>0, <1>2 DEF GoesTo, DiskInv
  <2>. QED  BY <1>0, <2>1, <2>2, OutsideStep DEF diskVars
<1>. QED  BY <1>1, <1>2 DEF AwaitRequest

LEMMA ReleaseDiskInv ==
  ASSUME DiskInv, ReleaseDisk  PROVE DiskInv'
<1> DEFINE p == currentThread
<1> USE DiskConstants
<1>0. /\ p \in Threads /\ stage[p] = "release" /\ UNCHANGED <<active, requester>>
      /\ stage' = [stage EXCEPT ![p] = "user"]
  BY DEF ReleaseDisk, Is, DiskInv, KernelTypes
<1>1. KernelTypes' /\ Freed(diskLock)
  BY ReleaseStep DEF DiskInv, ReleaseDisk
<1>2. stage' \in [Threads -> Stages]
  BY <1>0 DEF DiskInv, Stages
<1>3. OwnersHaveTheLock'
  <2>1. \A t \in Threads : stage'[t] \notin OwnerStages
    BY <1>0, OnlyOwner DEF DiskInv, OwnerStages
  <2>. QED  BY <2>1 DEF OwnersHaveTheLock
<1>4. RequestIsAwaited'
  BY <1>0, <1>1, SameRequest DEF Freed
<1>. QED  BY <1>1, <1>2, <1>3, <1>4 DEF DiskInv

LEMMA RequestDoneInv ==
  ASSUME DiskInv, RequestDone  PROVE DiskInv'
<1> USE DiskConstants
<1>1. /\ KernelTypes' /\ UNCHANGED <<isHeldBySome, currentHolder>>
      /\ pending[diskDone] > 0 /\ pending' = [pending EXCEPT ![diskDone] = @ - 1]
      /\ value' = [value EXCEPT ![diskDone] = @ + 1]
  BY CheckIfDueStep DEF DiskInv, RequestDone
<1>2. stage' = stage /\ active' = FALSE /\ requester' = NoThread
  BY DEF RequestDone, callVars
<1>3. pending[diskDone] = 1 /\ value[diskDone] = 0
  BY <1>1 DEF DiskInv, RequestIsAwaited, KernelTypes
<1>4. pending'[diskDone] = 0 /\ value'[diskDone] = 1
  BY <1>1, <1>3 DEF DiskInv, KernelTypes
<1>5. \E t \in Threads : stage'[t] = "await"
  BY <1>2, <1>3 DEF DiskInv, RequestIsAwaited
<1>6. RequestIsAwaited'
  BY <1>2, <1>4, <1>5 DEF RequestIsAwaited
<1>. QED  BY <1>1, <1>2, <1>6 DEF DiskInv, OwnersHaveTheLock

LEMMA DriverInvStep ==
  ASSUME DiskInv, DriverNext \/ ForkOrFinish \/ MachineHalts  PROVE DiskInv'
<1>1. CASE DiskStep
  BY <1>1, GetDiskInv, MakeRequestInv, AwaitRequestInv, ReleaseDiskInv DEF DiskStep
<1>2. CASE Preempt \/ KernelStep \/ ForkOrFinish \/ MachineHalts
  <2>1. KernelTypes' /\ UNCHANGED Shared
    BY <1>2, QuietSteps DEF DiskInv, Preempt, KernelStep, ForkOrFinish, MachineHalts
  <2>2. UNCHANGED <<stage, active, requester>>
    BY <1>2 DEF Preempt, KernelStep, ForkOrFinish, MachineHalts, callVars, diskVars
  <2>. QED  BY <2>1, <2>2, OutsideStep
<1>. QED  BY <1>1, <1>2, RequestDoneInv DEF DriverNext

LEMMA DiskStutters ==
  ASSUME DiskInv, UNCHANGED synchVars  PROVE DiskInv'
<1>1. KernelTypes' /\ UNCHANGED Shared
  BY KernelStutters DEF DiskInv, synchVars
<1>. QED  BY <1>1, OutsideStep DEF synchVars, callVars, diskVars

LEMMA DiskInvStep ==
  ASSUME DiskInv, [SynchDiskNext]_synchVars  PROVE DiskInv'
<1>1. CASE \E sector \in Sectors :
             CallSector(Reads(sector)) \/ \E data \in Contents : CallSector(Writes(sector, data))
  BY <1>1, CallInv
<1>. QED  BY <1>1, DriverInvStep, DiskStutters, RestartInv DEF SynchDiskNext

LEMMA DiskInvSuffices == DiskInv => OneRequestAtATime
<1> SUFFICES ASSUME DiskInv PROVE OneRequestAtATime
  OBVIOUS
<1> USE DiskConstants
<1>1. ASSUME NEW t \in Threads, stage[t] = "request"
      PROVE  ~active /\ pending[diskDone] = 0 /\ value[diskDone] = 0
  <2>1. ~ \E u \in Threads : stage[u] = "await"
    BY <1>1, OnlyOwner DEF OwnerStages
  <2>. QED  BY <2>1 DEF DiskInv, RequestIsAwaited, KernelTypes
<1>2. ASSUME NEW t \in Threads, stage[t] = "await"
      PROVE  IF active THEN requester = t /\ pending[diskDone] = 1 /\ value[diskDone] = 0
             ELSE pending[diskDone] = 0 /\ value[diskDone] = 1
  <2>1. pending[diskDone] + value[diskDone] = 1
    BY <1>2 DEF DiskInv, RequestIsAwaited
  <2>2. active => requester = t
    BY <1>2, OnlyOwner DEF DiskInv, RequestIsAwaited, OwnerStages
  <2>. QED  BY <2>1, <2>2 DEF DiskInv, RequestIsAwaited, KernelTypes
<1>. QED  BY <1>1, <1>2 DEF OneRequestAtATime, DiskIsAtRest, EachRequestIsAnswered

\* The ASSERT(!active) of the disk cannot fail, and no thread returns on the
\* interrupt of another one's request, whatever the threads ask for.
THEOREM RequestsDoNotOverlap == SynchDiskSpec => []OneRequestAtATime
BY DiskStarts, DiskInvStep, DiskInvSuffices, PTL DEF SynchDiskSpec

-----------------------------------------------------------------------------
(***************************************************************************)
(* The driver implements SectorStore.                                      *)
(***************************************************************************)
Requests == [op : {"read", "write"}, sector : Sectors, data : Contents \cup {NoCall}]

\* A thread has arguments exactly while it is in a call.
CallsHaveArguments ==
  /\ call \in [Threads -> Requests \cup {NoCall}]
  /\ \A t \in Threads : stage[t] = "user" <=> call[t] = NoCall

\* SectorStore's served: the transfer is over, and the thread has still to return.
Served == {t \in Threads : stage[t] \in {"await", "release"} /\ requester # t}

LEMMA CallsStart == SynchDiskInit => CallsHaveArguments
BY DEF SynchDiskInit, CallsHaveArguments

LEMMA CallSectorAsks ==
  ASSUME DiskInv, CallsHaveArguments, NEW arguments \in Requests, CallSector(arguments)
  PROVE  CallsHaveArguments' /\ \E t \in Threads : Store!Ask(t)
<1> DEFINE p == currentThread
<1>1. /\ p \in Threads /\ stage[p] = "user" /\ stage' = [stage EXCEPT ![p] = "lock"]
      /\ call' = [call EXCEPT ![p] = arguments]
      /\ UNCHANGED <<buffer, disk, requester>>
  BY DEF CallSector, Is, DiskInv, KernelTypes, diskVars
<1>2. call'[p] = arguments /\ arguments # NoCall /\ call[p] = NoCall
  BY <1>1, SynchDiskAssumption DEF CallsHaveArguments, Requests
<1>3. CallsHaveArguments'
  <2>1. call' \in [Threads -> Requests \cup {NoCall}]
    BY <1>1 DEF CallsHaveArguments
  <2>2. \A t \in Threads : stage'[t] = "user" <=> call'[t] = NoCall
    BY <1>1, <1>2 DEF CallsHaveArguments, DiskInv
  <2>. QED  BY <2>1, <2>2 DEF CallsHaveArguments
<1>4. Served' = Served
  BY <1>1 DEF Served, DiskInv
<1>5. Store!Ask(p)
  BY <1>1, <1>2, <1>4 DEF Store!Ask, Served
<1>. QED  BY <1>1, <1>3, <1>5

LEMMA MakeRequestStarts ==
  ASSUME DiskInv, CallsHaveArguments, MakeRequest
  PROVE  CallsHaveArguments' /\ \E t \in Threads : Store!Start(t)
<1> DEFINE p == currentThread
<1>1. /\ p \in Threads /\ stage[p] = "request" /\ stage' = [stage EXCEPT ![p] = "await"]
      /\ call' = call /\ requester' = p
  BY DEF MakeRequest, Is, GoesTo, DiskInv, KernelTypes
<1>2. CallsHaveArguments'
  BY <1>1 DEF CallsHaveArguments, DiskInv
<1>3. call[p] # NoCall
  BY <1>1 DEF CallsHaveArguments
<1>4. requester = NoThread
  <2>1. \A t \in Threads : stage[t] # "await"
    BY <1>1, OnlyOwner DEF OwnerStages
  <2>. QED  BY <2>1 DEF DiskInv, RequestIsAwaited
<1>5. Served = {} /\ Served' = {}
  <2>1. \A t \in Threads : t # p => stage[t] \notin {"await", "release"}
    BY <1>1, OnlyOwner DEF OwnerStages
  <2>. QED  BY <1>1, <2>1 DEF Served, DiskInv
<1>6. Store!Start(p)
  BY <1>1, <1>3, <1>4, <1>5 DEF Store!Start, Served, MakeRequest
<1>. QED  BY <1>1, <1>2, <1>6

LEMMA ReleaseDiskReturns ==
  ASSUME DiskInv, CallsHaveArguments, ReleaseDisk
  PROVE  CallsHaveArguments' /\ \E t \in Threads : Store!Answer(t)
<1>0. PICK p \in Threads : p = currentThread
  BY DEF DiskInv, KernelTypes
<1>1. /\ stage[p] = "release" /\ stage' = [stage EXCEPT ![p] = "user"]
      /\ call' = [call EXCEPT ![p] = NoCall] /\ buffer' = [buffer EXCEPT ![p] = NoCall]
      /\ UNCHANGED <<disk, requester>>
  BY <1>0 DEF ReleaseDisk, Is
<1>2. CallsHaveArguments'
  BY <1>1 DEF CallsHaveArguments, DiskInv
<1>3. p # requester
  <2>1. CASE active
    BY <1>1, <2>1 DEF DiskInv, RequestIsAwaited
  <2>2. CASE ~active
    BY <1>1, <2>2, KernelAssumption DEF DiskInv, RequestIsAwaited
  <2>. QED  BY <2>1, <2>2
<1>4. p \in Served /\ Served' = Served \ {p}
  BY <1>1, <1>3 DEF Served, DiskInv
<1>5. Store!Answer(p)
  BY <1>1, <1>4 DEF Store!Answer, Served
<1>. QED  BY <1>2, <1>5

LEMMA RequestDoneServes ==
  ASSUME DiskInv, CallsHaveArguments, RequestDone
  PROVE  CallsHaveArguments' /\ Store!Done
<1> USE DiskConstants
<1>1. /\ pending[diskDone] > 0 /\ requester' = NoThread
      /\ UNCHANGED <<stage, call, buffer, disk>>
  BY CheckIfDueStep DEF DiskInv, RequestDone, callVars
<1>2. active
  BY <1>1 DEF DiskInv, RequestIsAwaited, KernelTypes
<1>3. requester \in Threads /\ stage[requester] = "await" /\ requester # NoThread
  BY <1>2, KernelAssumption DEF DiskInv, RequestIsAwaited
<1>4. \A t \in Threads : stage[t] \in {"await", "release"} => t = requester
  BY <1>3, OnlyOwner DEF OwnerStages
<1>5. Served = {} /\ Served' = {requester}
  BY <1>1, <1>3, <1>4, KernelAssumption DEF Served
<1>6. Store!Done
  BY <1>1, <1>3, <1>5 DEF Store!Done, Served
<1>. QED  BY <1>1, <1>6 DEF CallsHaveArguments

\* The other steps of the driver and of the kernel.
LEMMA TheRestStutters ==
  ASSUME DiskInv, CallsHaveArguments,
         \/ GetDisk \/ AwaitRequest \/ Preempt \/ KernelStep \/ ForkOrFinish \/ MachineHalts
         \/ UNCHANGED synchVars
  PROVE  CallsHaveArguments' /\ UNCHANGED Store!storeVars
<1> DEFINE p == currentThread
<1> USE DiskConstants
<1>1. p \in Threads
  BY DEF DiskInv, KernelTypes
<1>2. CASE GetDisk
  <2>1. PICK there \in {"lock", "request"} : stage' = [stage EXCEPT ![p] = there]
    BY <1>2 DEF GetDisk, GoesTo
  <2>2. stage[p] = "lock" /\ call' = call /\ UNCHANGED diskVars
    BY <1>2 DEF GetDisk, GoesTo, Is
  <2>3. CallsHaveArguments'
    BY <1>1, <2>1, <2>2 DEF CallsHaveArguments, DiskInv
  <2>4. Served' = Served
    BY <1>1, <2>1, <2>2 DEF Served, DiskInv, diskVars
  <2>. QED  BY <2>2, <2>3, <2>4 DEF Store!storeVars, Served, diskVars
<1>3. CASE AwaitRequest
  <2>1. PICK there \in {"await", "release"} :
          stage' = [stage EXCEPT ![p] = there]
    BY <1>3 DEF AwaitRequest, GoesTo
  <2>2. stage[p] = "await" /\ call' = call /\ UNCHANGED diskVars
    BY <1>3 DEF AwaitRequest, GoesTo, Is
  <2>3. CallsHaveArguments'
    BY <1>1, <2>1, <2>2 DEF CallsHaveArguments, DiskInv
  <2>4. Served' = Served
    BY <1>1, <2>1, <2>2 DEF Served, DiskInv, diskVars
  <2>. QED  BY <2>2, <2>3, <2>4 DEF Store!storeVars, Served, diskVars
<1>4. CASE UNCHANGED <<callVars, diskVars>>
  <2>1. UNCHANGED <<stage, call, buffer, disk, requester>>
    BY <1>4 DEF callVars, diskVars
  <2>. QED  BY <2>1 DEF CallsHaveArguments, Store!storeVars
<1>. QED  BY <1>2, <1>3, <1>4 DEF Preempt, KernelStep, ForkOrFinish, MachineHalts, synchVars

LEMMA RestartForgets ==
  ASSUME Restart  PROVE CallsHaveArguments' /\ Store!Crash
<1>1. Served' = {}
  BY DEF Restart, Served
<1>. QED  BY <1>1 DEF Restart, CallsHaveArguments, Store!Crash, Served

LEMMA StoreStep ==
  ASSUME DiskInv, CallsHaveArguments, [SynchDiskNext]_synchVars
  PROVE  CallsHaveArguments' /\ [Store!Next]_Store!storeVars
<1>1. ASSUME NEW sector \in Sectors,
             CallSector(Reads(sector)) \/ \E data \in Contents : CallSector(Writes(sector, data))
      PROVE  CallsHaveArguments' /\ \E t \in Threads : Store!Ask(t)
  <2>1. Reads(sector) \in Requests
    BY DEF Reads, Requests
  <2>2. \A data \in Contents : Writes(sector, data) \in Requests
    BY DEF Writes, Requests
  <2>. QED  BY <1>1, <2>1, <2>2, CallSectorAsks
<1>2. CASE MakeRequest \/ ReleaseDisk \/ RequestDone
  BY <1>2, MakeRequestStarts, ReleaseDiskReturns, RequestDoneServes DEF Store!Next
<1>3. CASE Restart
  BY <1>3, RestartForgets DEF Store!Next
<1>. QED  BY <1>1, <1>2, <1>3, TheRestStutters DEF SynchDiskNext, DriverNext, DiskStep, Store!Next

LEMMA StoreStarts ==
  ASSUME SynchDiskInit  PROVE Store!Init
<1>1. {t \in Threads : stage[t] \in {"await", "release"} /\ requester # t} = {}
  BY DEF SynchDiskInit
<1>. QED  BY <1>1 DEF SynchDiskInit, Store!Init

\* No thread returns on the interrupt of another one's request, and what it read
\* is what its sector held then, for any number of threads.
THEOREM DriverImplementsStore == SynchDiskSpec => ImplementsSectorStore
<1>1. DiskInv /\ CallsHaveArguments /\ [SynchDiskNext]_synchVars
        => (DiskInv /\ CallsHaveArguments)' /\ [Store!Next]_Store!storeVars
  BY DiskInvStep, StoreStep
<1>. QED  BY <1>1, DiskStarts, CallsStart, StoreStarts, PTL
          DEF SynchDiskSpec, ImplementsSectorStore, Store!Spec

-----------------------------------------------------------------------------
(***************************************************************************)
(* The file system, whose every step on the disk is one of the driver's.   *)
(***************************************************************************)
LEMMA FileSystemStep ==
  ASSUME DiskInv, [FileSystemNext]_fileVars  PROVE DiskInv'
<1>1. CASE BeginOperation \/ Close \/ LookUp \/ DecideCreate \/ DecideOpen \/ DecideRemove \/ Flushed
  <2>1. UNCHANGED synchVars
    BY <1>1 DEF BeginOperation, Begins, Close, LookUp, DecideCreate, DecideOpen,
                DecideRemove, Flushed, GoesOn, Ended
  <2>. QED  BY <2>1, DiskStutters
<1>2. CASE NextSector \/ ReadBlock
  BY <1>2, CallInv DEF NextSector, ReadBlock
<1>3. CASE ForkReader
  <2>1. ForkOrFinish
    BY <1>3 DEF ForkReader, MainRuns, ForkOrFinish
  <2>. QED  BY <2>1, DriverInvStep
<1>4. CASE DriverNext
  BY <1>4, DriverInvStep
<1>5. CASE UNCHANGED fileVars
  BY <1>5, DiskStutters DEF fileVars
<1>6. CASE Reboot
  BY <1>6, RestartInv DEF Reboot
<1>. QED  BY <1>1, <1>2, <1>3, <1>4, <1>5, <1>6 DEF FileSystemNext, MainStep

\* However the file system's readers and its one writer use the disk, requests
\* do not overlap and each interrupt is for the thread that waits.
THEOREM FileSystemIsServed == FileSystemSpec => []OneRequestAtATime
BY DiskStarts, FileSystemStep, DiskInvSuffices, PTL DEF FileSystemSpec, FileSystemInit

-----------------------------------------------------------------------------
(***************************************************************************)
(* The disk's own lemmas: numbers, tuples, and what blocks hold.           *)
(***************************************************************************)
LEMMA LeastIsThere ==
  ASSUME NEW S \in SUBSET Nat, S # {}
  PROVE  Min(S) \in S
<1>1. PICK x \in S : \A y \in S : ~(<<y, x>> \in OpToRel(<, Nat))
  BY WFMin, NatLessThanWellFounded
<1>2. \A y \in Nat, z \in Nat : y < z => <<y, z>> \in OpToRel(<, Nat)
  BY DEF OpToRel
<1>3. \A y \in S : x <= y
  <2> TAKE y \in S
  <2>1. ~(y < x)
    BY <1>1, <1>2
  <2>. QED  BY <2>1
<1>. QED  BY <1>3 DEF Min

\* The elements of a finite set of numbers, in order.
Rank(S, x) == Cardinality({y \in S : y < x})

LEMMA RankGrows ==
  ASSUME NEW S \in SUBSET Nat, IsFiniteSet(S), NEW x \in S, NEW y \in S, x < y
  PROVE  Rank(S, x) < Rank(S, y)
<1> DEFINE X == {z \in S : z < x}
           Y == {z \in S : z < y}
<1>1. X \in SUBSET Y /\ Y \in SUBSET S /\ x \in Y /\ x \notin X
  <2>1. ~(x < x) /\ \A z \in S : z < x => z < y
    OBVIOUS
  <2>. QED  BY <2>1
<1>2. IsFiniteSet(Y) /\ IsFiniteSet(X)
  BY <1>1, FS_Subset
<1>3. Cardinality(X) <= Cardinality(Y) /\ Cardinality(X) # Cardinality(Y)
  BY <1>1, <1>2, FS_Subset
<1>4. Cardinality(X) \in Nat /\ Cardinality(Y) \in Nat
  BY <1>2, FS_CardinalityType
<1>. QED  BY <1>3, <1>4 DEF Rank

LEMMA RankIsThere ==
  ASSUME NEW S \in SUBSET Nat, IsFiniteSet(S), NEW n \in 1 .. Cardinality(S)
  PROVE  \E x \in S : Rank(S, x) = n - 1
<1> DEFINE N == Cardinality(S)
           T == 0 .. (N - 1)
           rank == [x \in S |-> Rank(S, x)]
<1>0. N \in Nat
  BY FS_CardinalityType
<1>1. IsFiniteSet(T) /\ Cardinality(T) = N
  <2> HIDE DEF N
  <2>1. 0 \in Int /\ N - 1 \in Int /\ (0 > N - 1 => N = 0)
    BY <1>0
  <2>. QED  BY <1>0, <2>1, FS_Interval
<1>2. \A x \in S : Rank(S, x) \in T
  <2> TAKE x \in S
  <2> DEFINE X == {y \in S : y < x}
  <2>1. X \in SUBSET S /\ X # S
    OBVIOUS
  <2>2. IsFiniteSet(X) /\ Cardinality(X) <= N /\ Cardinality(X) # N
    BY <2>1, FS_Subset
  <2>3. Cardinality(X) \in Nat
    BY <2>2, FS_CardinalityType
  <2>. QED  BY <1>0, <2>2, <2>3 DEF Rank
<1>3. \A x, y \in S : Rank(S, x) = Rank(S, y) => x = y
  BY <1>0, <1>2, RankGrows
<1>4. rank \in Injection(S, T)
  BY <1>2, <1>3 DEF Injection, IsInjective
<1>5. rank \in Surjection(S, T)
  BY <1>1, <1>4, FS_Injection
<1>6. n - 1 \in T
  BY <1>0
<1>7. PICK x \in S : rank[x] = n - 1
  BY <1>5, <1>6 DEF Surjection
<1>. QED  BY <1>7

Free == Sectors \ disk[MapBlock]

\* BitMap::Find hands out free sectors, and none of them twice.
LEMMA FindIsFresh ==
  /\ Free \in SUBSET Nat /\ IsFiniteSet(Free)
  /\ FreeSectors \in Seq(Free) /\ IsInjective(FreeSectors)
  /\ Free # {} => FreeSectors # <<>>
<1>1. Free \in SUBSET Nat /\ IsFiniteSet(Free)
  BY FileSystemAssumption, FS_Subset DEF Free
<1> DEFINE N == Cardinality(Free)
<1>2. N \in Nat /\ (Free # {} => N # 0)
  BY <1>1, FS_CardinalityType, FS_EmptySet
<1>3. FreeSectors = [n \in 1 .. N |-> CHOOSE s \in Free : Rank(Free, s) = n - 1]
  BY DEF FreeSectors, Free, Rank
<1>4. \A n \in 1 .. N : FreeSectors[n] \in Free /\ Rank(Free, FreeSectors[n]) = n - 1
  BY <1>1, <1>3, RankIsThere
<1>5. FreeSectors \in Seq(Free)
  BY <1>2, <1>3, <1>4
<1>6. DOMAIN FreeSectors = 1 .. N
  BY <1>3
<1>7. IsInjective(FreeSectors)
  <2> SUFFICES ASSUME NEW m \in 1 .. N, NEW n \in 1 .. N, FreeSectors[m] = FreeSectors[n]
               PROVE  m = n
    BY <1>6 DEF IsInjective
  <2>. QED  BY <1>2, <1>4
<1>8. Free # {} => FreeSectors # <<>>
  BY <1>2, <1>6
<1>. QED  BY <1>1, <1>5, <1>7, <1>8

-----------------------------------------------------------------------------
D1 == DirBlocks[1]
D2 == DirBlocks[2]

LEMMA SystemSectors ==
  /\ DirBlocks = <<D1, D2>> /\ Range(DirBlocks) = {D1, D2}
  /\ System = {FreeMapSector, DirectorySector, MapBlock, D1, D2}
  /\ D1 # D2 /\ MapBlock \notin {D1, D2}
  /\ {MapBlock, D1, D2} \cap {FreeMapSector, DirectorySector} = {}
  /\ System \subseteq Sectors
  /\ FlagsAt \in [Entries -> {D1, D2}] /\ NamesAt \in [Entries -> {D1, D2}]
<1>1. DirBlocks = <<D1, D2>>
  BY FileSystemAssumption DEF D1, D2
<1>2. Range(DirBlocks) = {D1, D2}
  <2>1. DOMAIN DirBlocks = {1, 2}
    BY <1>1
  <2>. QED  BY <2>1 DEF Range, D1, D2
<1>3. /\ D1 # D2 /\ MapBlock \notin {D1, D2}
      /\ {MapBlock, D1, D2} \cap {FreeMapSector, DirectorySector} = {}
  <2> DEFINE f == <<FreeMapSector, DirectorySector, MapBlock, D1, D2>>
  <2>1. IsInjective(f)
    BY FileSystemAssumption DEF D1, D2
  <2>2. /\ DOMAIN f = 1 .. 5 /\ f[1] = FreeMapSector /\ f[2] = DirectorySector
        /\ f[3] = MapBlock /\ f[4] = D1 /\ f[5] = D2
    OBVIOUS
  <2>. HIDE DEF f
  <2>. QED  BY <2>1, <2>2 DEF IsInjective
<1>. QED  BY <1>1, <1>2, <1>3, FileSystemAssumption DEF System

\* What is left of a sequence of calls when its first one is made.
LEMMA TupleTails ==
  ASSUME NEW a, NEW b, NEW c, NEW d, NEW e
  PROVE  /\ <<a>> # <<>> /\ Head(<<a>>) = a /\ Tail(<<a>>) = <<>>
         /\ <<a, b>> # <<>> /\ Head(<<a, b>>) = a /\ Tail(<<a, b>>) = <<b>>
         /\ <<a, b, c>> # <<>> /\ Head(<<a, b, c>>) = a /\ Tail(<<a, b, c>>) = <<b, c>>
         /\ <<a, b, c, d>> # <<>> /\ Head(<<a, b, c, d>>) = a /\ Tail(<<a, b, c, d>>) = <<b, c, d>>
         /\ <<a, b, c, d, e>> # <<>> /\ Head(<<a, b, c, d, e>>) = a
         /\ Tail(<<a, b, c, d, e>>) = <<b, c, d, e>>
OBVIOUS

LEMMA TuplesJoin ==
  ASSUME NEW a, NEW b, NEW c, NEW d, NEW e
  PROVE  /\ <<a>> \o <<b, c, d>> \o <<e>> = <<a, b, c, d, e>>
         /\ <<a>> \o <<b, c, d>> = <<a, b, c, d>>
<1> DEFINE S == {a, b, c, d, e}
           x == <<a>>
           y == <<b, c, d>>
           z == <<e>>
           xy == <<a, b, c, d>>
           w == <<a, b, c, d, e>>
<1>1. x \in Seq(S) /\ y \in Seq(S) /\ z \in Seq(S) /\ xy \in Seq(S) /\ w \in Seq(S)
  OBVIOUS
<1>2. x \o y = xy
  <2>1. /\ x \o y \in Seq(S) /\ Len(x \o y) = Len(x) + Len(y)
        /\ \A i \in 1 .. Len(x) + Len(y) : (x \o y)[i] = IF i <= Len(x) THEN x[i] ELSE y[i - Len(x)]
    BY <1>1, ConcatProperties
  <2>2. Len(x) = 1 /\ Len(y) = 3 /\ Len(xy) = 4
    OBVIOUS
  <2>3. \A i \in 1 .. 4 : (x \o y)[i] = xy[i]
    <3> TAKE i \in 1 .. 4
    <3>1. i = 1 \/ i = 2 \/ i = 3 \/ i = 4
      OBVIOUS
    <3>. QED  BY <2>1, <2>2, <3>1
  <2>. HIDE DEF x, y, z, w, xy, S
  <2>4. Len(x \o y) = Len(xy) /\ \A i \in 1 .. Len(x \o y) : (x \o y)[i] = xy[i]
    BY <2>1, <2>2, <2>3
  <2>. QED  BY <1>1, <2>1, <2>4, SeqEqual
<1>3. xy \o z = w
  <2>1. /\ xy \o z \in Seq(S) /\ Len(xy \o z) = Len(xy) + Len(z)
        /\ \A i \in 1 .. Len(xy) + Len(z) : (xy \o z)[i] = IF i <= Len(xy) THEN xy[i] ELSE z[i - Len(xy)]
    BY <1>1, ConcatProperties
  <2>2. Len(xy) = 4 /\ Len(z) = 1 /\ Len(w) = 5
    OBVIOUS
  <2>3. \A i \in 1 .. 5 : (xy \o z)[i] = w[i]
    <3> TAKE i \in 1 .. 5
    <3>1. i = 1 \/ i = 2 \/ i = 3 \/ i = 4 \/ i = 5
      OBVIOUS
    <3>. QED  BY <2>1, <2>2, <3>1
  <2>. HIDE DEF x, y, z, w, xy, S
  <2>4. Len(xy \o z) = Len(w) /\ \A i \in 1 .. Len(xy \o z) : (xy \o z)[i] = w[i]
    BY <2>1, <2>2, <2>3
  <2>. QED  BY <1>1, <2>1, <2>4, SeqEqual
<1>. QED  BY <1>2, <1>3

-----------------------------------------------------------------------------
(***************************************************************************)
(* The invariant of the file system.                                       *)
(***************************************************************************)
Blocks == SeqOf(Sectors \ System, MaxSize)
Data   == Contents \cup {Blank} \cup {Header(blocks) : blocks \in Blocks}

Others(k) == InUse \ {k}

\* All entries but k are files, with their sectors to themselves, which the map has.
Attached(k) ==
  /\ \A e \in Others(k) :
       /\ Directory[e].name \in Names
       /\ Directory[e].sector \in Sectors \ System
       /\ BlocksOf(e) \in Blocks
       /\ disk[Directory[e].sector] = Header(BlocksOf(e))
       /\ Directory[e].sector \notin Range(BlocksOf(e)) /\ IsInjective(BlocksOf(e))
  /\ \A e, f \in Others(k) :
       e # f => SectorsOf(e) \cap SectorsOf(f) = {} /\ Directory[e].name # Directory[f].name
  /\ disk[MapBlock] = System \cup UNION {SectorsOf(e) : e \in Others(k)}

\* Entry k, as far as it is on the disk, is a file whose sectors the map has free.
Detached(k, s, blocks) ==
  /\ s \in Free /\ blocks \in Blocks
  /\ Range(blocks) \subseteq Free /\ s \notin Range(blocks) /\ IsInjective(blocks)
  /\ k \in InUse => Directory[k].sector = s /\ disk[s] = Header(blocks)

\* An open file is one of them.
Handles(k) ==
  \A name \in Names : handle[name] # NotOpen =>
    \E e \in Others(k) : Directory[e].name = name /\ handle[name] = BlocksOf(e)

\* "dir" is the directory on disk but for entry k, of which block b has been written.
AgreesBut(dir, k) == \A e \in Entries \ {k} : dir[e] = Directory[e]

Written(dir, k, b) ==
  /\ FlagsAt[k] = b => Directory[k].inUse = dir[k].inUse /\ Directory[k].sector = dir[k].sector
  /\ NamesAt[k] = b => Directory[k].name = dir[k].name

\* What Main has yet to ask the disk for.
Remaining(calls) ==
  IF stage[Main] \in {"lock", "request"}
    THEN calls # <<>> /\ call[Main] = Head(calls) /\ todo = Tail(calls)
    ELSE todo = calls

OnlyReads(calls) ==
  \/ calls = <<>>
  \/ \E a \in Sectors : calls = <<Reads(a)>>
  \/ \E a, b \in Sectors : calls = <<Reads(a), Reads(b)>>

AtRest(calls) ==
  /\ operation = None /\ phase = "idle" /\ calls = <<>>
  /\ Attached(0) /\ Handles(0)

Looking(calls) ==
  /\ operation.kind \in {"create", "open", "remove"} /\ operation.name \in Names
  /\ operation.size \in 0 .. MaxSize
  /\ phase \in {"find", "decide"} /\ OnlyReads(calls)
  /\ operation.kind # "create" => handle[operation.name] = NotOpen
  /\ phase = "decide" => (operation.kind = "create" <=> FindIndex(operation.name) = {})
  /\ Attached(0) /\ Handles(0)

CreateCalls(dir, s, blocks) ==
  <<Writes(s, Header(blocks)), Reads(D2), Writes(D1, DirectoryBlock(dir, D1)),
    Writes(D2, DirectoryBlock(dir, D2)),
    Writes(MapBlock, disk[MapBlock] \cup {s} \cup Range(blocks))>>

Creating(calls, k, dir, s, blocks) ==
  /\ operation.kind = "create" /\ operation.name \in Names /\ phase = "flush"
  /\ AgreesBut(dir, k)
  /\ dir[k] = [inUse |-> TRUE, sector |-> s, name |-> operation.name]
  /\ \A e \in Others(k) : Directory[e].name # operation.name
  /\ Attached(k) /\ Detached(k, s, blocks) /\ Handles(k)
  /\ LET all == CreateCalls(dir, s, blocks) IN
     \/ calls = all /\ k \notin InUse
     \/ calls = <<all[2], all[3], all[4], all[5]>> /\ k \notin InUse /\ disk[s] = Header(blocks)
     \/ calls = <<all[3], all[4], all[5]>> /\ k \notin InUse /\ disk[s] = Header(blocks)
     \/ calls = <<all[4], all[5]>> /\ disk[s] = Header(blocks) /\ Written(dir, k, D1)
     \/ /\ calls = <<all[5]>> /\ disk[s] = Header(blocks)
        /\ Written(dir, k, D1) /\ Written(dir, k, D2)

RemoveCalls(dir, s, blocks) ==
  <<Writes(MapBlock, disk[MapBlock] \ (Range(blocks) \cup {s})), Reads(D2),
    Writes(D1, DirectoryBlock(dir, D1)), Writes(D2, DirectoryBlock(dir, D2))>>

Removing(calls, k, dir, s, blocks) ==
  /\ operation.kind = "remove" /\ operation.name \in Names /\ phase = "flush"
  /\ AgreesBut(dir, k)
  /\ dir[k] = [inUse |-> FALSE, sector |-> s, name |-> operation.name]
  /\ k \in InUse => Directory[k].name = operation.name
  /\ \A e \in Others(k) : Directory[e].name # operation.name
  /\ Handles(k)
  /\ LET all == RemoveCalls(dir, s, blocks) IN
     \/ /\ calls = all
        /\ k \in InUse /\ Directory[k].sector = s /\ blocks = BlocksOf(k)
        /\ Attached(0)
     \/ /\ calls \in {<<all[2], all[3], all[4]>>, <<all[3], all[4]>>}
        /\ Attached(k) /\ Detached(k, s, blocks)
     \/ /\ calls = <<all[4]>> /\ Written(dir, k, D1)
        /\ Attached(k) /\ Detached(k, s, blocks)

Writing(calls) ==
  /\ operation.kind = "write" /\ operation.name \in Names /\ phase = "flush"
  /\ handle[operation.name] # NotOpen
  /\ \E i \in DOMAIN handle[operation.name], block \in Contents :
       calls = <<Writes(handle[operation.name][i], block)>>
  /\ Attached(0) /\ Handles(0)

AllDone(calls) ==
  /\ operation.kind \in {"create", "remove", "write"} /\ operation.name \in Names
  /\ phase = "flush" /\ calls = <<>>
  /\ Attached(0) /\ Handles(0)

InProgressOrNot(calls) ==
  \/ AtRest(calls) \/ Looking(calls) \/ Writing(calls) \/ AllDone(calls)
  \/ \E dir : \E k \in Entries, s \in Sectors, blocks \in Blocks :
       Creating(calls, k, dir, s, blocks) \/ Removing(calls, k, dir, s, blocks)

\* Other threads only read; Main's calls are of sectors.
ReadersRead ==
  \A t \in Threads \ {Main} : stage[t] \in {"lock", "request"} => call[t].op = "read"

FileInv ==
  /\ DiskInv /\ active \in BOOLEAN
  /\ call = [t \in Threads |-> call[t]]
  /\ disk = [s \in Sectors |-> disk[s]]
  /\ handle = [name \in Names |-> handle[name]]
  /\ \A s \in Sectors \ System : disk[s] \in Data
  /\ ReadersRead
  /\ \E calls : Remaining(calls) /\ InProgressOrNot(calls)

-----------------------------------------------------------------------------
(***************************************************************************)
(* What a write does to the directory, and to the files.                   *)
(***************************************************************************)
LEMMA DirectoryStays ==
  ASSUME disk = [s \in Sectors |-> disk[s]], NEW x, x \notin {D1, D2}, NEW y,
         disk' = [disk EXCEPT ![x] = y]
  PROVE  Directory' = Directory /\ InUse' = InUse
<1>1. \A e \in Entries : disk'[FlagsAt[e]] = disk[FlagsAt[e]] /\ disk'[NamesAt[e]] = disk[NamesAt[e]]
  BY SystemSectors
<1>2. Directory' = Directory
  BY <1>1 DEF Directory
<1>. QED  BY <1>2 DEF InUse

LEMMA DirectoryWritten ==
  ASSUME disk = [s \in Sectors |-> disk[s]], NEW dir, NEW b \in {D1, D2}, NEW e \in Entries,
         disk' = [disk EXCEPT ![b] = DirectoryBlock(dir, b)]
  PROVE  Directory'[e] =
           [inUse  |-> IF FlagsAt[e] = b THEN dir[e].inUse ELSE Directory[e].inUse,
            sector |-> IF FlagsAt[e] = b THEN dir[e].sector ELSE Directory[e].sector,
            name   |-> IF NamesAt[e] = b THEN dir[e].name ELSE Directory[e].name]
<1>1. disk'[b] = DirectoryBlock(dir, b) /\ \A s \in Sectors \ {b} : disk'[s] = disk[s]
  BY SystemSectors
<1>2. FlagsAt[e] = b => disk'[FlagsAt[e]].flags[e] = [use |-> dir[e].inUse, at |-> dir[e].sector]
  BY <1>1 DEF DirectoryBlock
<1>3. NamesAt[e] = b => disk'[NamesAt[e]].names[e] = dir[e].name
  BY <1>1 DEF DirectoryBlock
<1>4. FlagsAt[e] # b => disk'[FlagsAt[e]] = disk[FlagsAt[e]]
  BY <1>1, SystemSectors
<1>5. NamesAt[e] # b => disk'[NamesAt[e]] = disk[NamesAt[e]]
  BY <1>1, SystemSectors
<1>6. Directory'[e] = [inUse  |-> disk'[FlagsAt[e]].flags[e].use,
                       sector |-> disk'[FlagsAt[e]].flags[e].at,
                       name   |-> disk'[NamesAt[e]].names[e]]
  BY DEF Directory
<1>7. /\ Directory[e].inUse = disk[FlagsAt[e]].flags[e].use
      /\ Directory[e].sector = disk[FlagsAt[e]].flags[e].at
      /\ Directory[e].name = disk[NamesAt[e]].names[e]
  BY DEF Directory
<1>8. disk'[FlagsAt[e]].flags[e].use = IF FlagsAt[e] = b THEN dir[e].inUse ELSE Directory[e].inUse
  BY <1>2, <1>4, <1>7
<1>9. disk'[FlagsAt[e]].flags[e].at = IF FlagsAt[e] = b THEN dir[e].sector ELSE Directory[e].sector
  BY <1>2, <1>4, <1>7
<1>10. disk'[NamesAt[e]].names[e] = IF NamesAt[e] = b THEN dir[e].name ELSE Directory[e].name
  BY <1>3, <1>5, <1>7
<1>. QED  BY <1>6, <1>8, <1>9, <1>10

\* One block of a directory that differs in entry k alone.
LEMMA EntryWritten ==
  ASSUME disk = [s \in Sectors |-> disk[s]], NEW dir, NEW b \in {D1, D2}, NEW k \in Entries,
         AgreesBut(dir, k), disk' = [disk EXCEPT ![b] = DirectoryBlock(dir, b)]
  PROVE  /\ \A e \in Entries \ {k} : Directory'[e] = Directory[e]
         /\ Others(k)' = Others(k)
         /\ AgreesBut(dir, k)'
         /\ Written(dir, k, b)'
         /\ \A c \in {D1, D2} : Written(dir, k, c) => Written(dir, k, c)'
         /\ Directory'[k].inUse = (IF FlagsAt[k] = b THEN dir[k].inUse ELSE Directory[k].inUse)
         /\ Directory'[k].sector = (IF FlagsAt[k] = b THEN dir[k].sector ELSE Directory[k].sector)
         /\ Directory'[k].name = (IF NamesAt[k] = b THEN dir[k].name ELSE Directory[k].name)
<1>1. /\ Directory'[k].inUse = (IF FlagsAt[k] = b THEN dir[k].inUse ELSE Directory[k].inUse)
      /\ Directory'[k].sector = (IF FlagsAt[k] = b THEN dir[k].sector ELSE Directory[k].sector)
      /\ Directory'[k].name = (IF NamesAt[k] = b THEN dir[k].name ELSE Directory[k].name)
  <2>1. Directory'[k] =
           [inUse  |-> IF FlagsAt[k] = b THEN dir[k].inUse ELSE Directory[k].inUse,
            sector |-> IF FlagsAt[k] = b THEN dir[k].sector ELSE Directory[k].sector,
            name   |-> IF NamesAt[k] = b THEN dir[k].name ELSE Directory[k].name]
    BY DirectoryWritten
  <2>. QED  BY <2>1
<1>2. \A e \in Entries \ {k} : Directory'[e] = Directory[e]
  <2> TAKE e \in Entries \ {k}
  <2>1. Directory'[e] = [inUse |-> Directory[e].inUse, sector |-> Directory[e].sector,
                         name |-> Directory[e].name]
    BY DirectoryWritten DEF AgreesBut
  <2>. QED  BY <2>1 DEF Directory
<1>3. Others(k)' = Others(k)
  BY <1>2 DEF Others, InUse
<1>4. AgreesBut(dir, k)'
  BY <1>2 DEF AgreesBut
<1>5. Written(dir, k, b)' /\ \A c \in {D1, D2} : Written(dir, k, c) => Written(dir, k, c)'
  BY <1>1 DEF Written
<1>. QED  BY <1>1, <1>2, <1>3, <1>4, <1>5

\* Files stay what they are when neither their headers nor the map are written.
LEMMA FilesStay ==
  ASSUME NEW k, Attached(k), disk'[MapBlock] = disk[MapBlock], Others(k)' = Others(k),
         \A e \in Others(k) : /\ Directory'[e] = Directory[e]
                              /\ disk'[Directory[e].sector] = disk[Directory[e].sector]
  PROVE  Attached(k)' /\ (Handles(k) /\ handle' = handle => Handles(k)')
<1>1. \A e \in Others(k) : BlocksOf(e)' = BlocksOf(e) /\ SectorsOf(e)' = SectorsOf(e)
  BY DEF BlocksOf, SectorsOf
<1>2. (UNION {SectorsOf(e) : e \in Others(k)})' = UNION {SectorsOf(e) : e \in Others(k)}
  BY <1>1
<1>3. Attached(k)'
  BY <1>1, <1>2 DEF Attached
<1>. QED  BY <1>1, <1>3 DEF Handles

\* A file appears, and a file goes, when the map is written.
LEMMA FileAppears ==
  ASSUME NEW k \in InUse, NEW s, NEW blocks, Attached(k), Detached(k, s, blocks),
         Directory[k].name \in Names,
         \A e \in Others(k) : Directory[e].name # Directory[k].name,
         disk = [x \in Sectors |-> disk[x]],
         disk' = [disk EXCEPT ![MapBlock] = disk[MapBlock] \cup {s} \cup Range(blocks)]
  PROVE  Attached(0)' /\ (Handles(k) /\ handle' = handle => Handles(0)')
<1>1. Directory' = Directory /\ InUse' = InUse
  BY DirectoryStays, SystemSectors
<1>2. s \in Sectors \ System /\ Range(blocks) \subseteq Sectors \ System
  BY DEF Detached, Attached, Free
<1>3. \A x \in Sectors \ System : disk'[x] = disk[x]
  BY SystemSectors
<1>4. k \in Entries /\ Others(0) = InUse /\ Others(0)' = InUse /\ InUse = Others(k) \cup {k}
  BY <1>1, FileSystemAssumption DEF InUse, Entries, Others
<1>5. BlocksOf(k) = blocks /\ SectorsOf(k) = {s} \cup Range(blocks) /\ Directory[k].sector = s
  BY DEF Detached, BlocksOf, SectorsOf, Header
<1>6. \A e \in InUse : BlocksOf(e)' = BlocksOf(e) /\ SectorsOf(e)' = SectorsOf(e)
  BY <1>1, <1>2, <1>3, <1>4, <1>5 DEF BlocksOf, SectorsOf, Attached
<1>7. \A e \in Others(k) : SectorsOf(e) \subseteq disk[MapBlock] /\ SectorsOf(e) \cap SectorsOf(k) = {}
  BY <1>5 DEF Attached, Detached, Free
<1>8. disk'[MapBlock] = disk[MapBlock] \cup SectorsOf(k)
  BY <1>5, SystemSectors
<1>9. disk'[MapBlock] = System \cup UNION {SectorsOf(e) : e \in InUse}
  BY <1>4, <1>8 DEF Attached
<1>10. Attached(0)'
  <2>1. (UNION {SectorsOf(e) : e \in Others(0)})' = UNION {SectorsOf(e) : e \in InUse}
    BY <1>4, <1>6
  <2>2. \A e, f \in InUse : e # f => SectorsOf(e) \cap SectorsOf(f) = {} /\ Directory[e].name # Directory[f].name
    BY <1>4, <1>7 DEF Attached
  <2>3. \A e \in InUse : /\ Directory[e].name \in Names
                          /\ Directory[e].sector \in Sectors \ System
                          /\ BlocksOf(e) \in Blocks
                          /\ disk[Directory[e].sector] = Header(BlocksOf(e))
                          /\ Directory[e].sector \notin Range(BlocksOf(e)) /\ IsInjective(BlocksOf(e))
    BY <1>2, <1>4, <1>5 DEF Attached, Detached
  <2>4. \A e \in InUse : /\ Directory'[e].name \in Names
                          /\ Directory'[e].sector \in Sectors \ System
                          /\ BlocksOf(e)' \in Blocks
                          /\ disk'[Directory'[e].sector] = Header(BlocksOf(e)')
                          /\ Directory'[e].sector \notin Range(BlocksOf(e)') /\ IsInjective(BlocksOf(e)')
    BY <1>1, <1>3, <1>6, <2>3
  <2>5. \A e, f \in InUse : e # f => /\ SectorsOf(e)' \cap SectorsOf(f)' = {}
                                      /\ Directory'[e].name # Directory'[f].name
    BY <1>1, <1>6, <2>2
  <2>. QED  BY <1>4, <1>9, <2>1, <2>4, <2>5 DEF Attached
<1>11. Handles(k) /\ handle' = handle => Handles(0)'
  BY <1>1, <1>4, <1>6 DEF Handles
<1>. QED  BY <1>10, <1>11

LEMMA FileGoes ==
  ASSUME NEW k \in InUse, NEW s, NEW blocks, Attached(0),
         Directory[k].sector = s, blocks = BlocksOf(k),
         disk = [x \in Sectors |-> disk[x]],
         disk' = [disk EXCEPT ![MapBlock] = disk[MapBlock] \ (Range(blocks) \cup {s})]
  PROVE  Attached(k)' /\ Detached(k, s, blocks)' /\ (Handles(k) /\ handle' = handle => Handles(k)')
<1>1. Directory' = Directory /\ InUse' = InUse
  BY DirectoryStays, SystemSectors
<1>2. \A x \in Sectors \ System : disk'[x] = disk[x]
  BY SystemSectors
<1>3. /\ k \in Entries /\ Others(0) = InUse /\ Others(k)' = Others(k)
      /\ InUse = Others(k) \cup {k} /\ k \notin Others(k)
  BY <1>1, FileSystemAssumption DEF InUse, Entries, Others
<1>4. \A e \in InUse : BlocksOf(e)' = BlocksOf(e) /\ SectorsOf(e)' = SectorsOf(e)
  BY <1>1, <1>2, <1>3 DEF BlocksOf, SectorsOf, Attached
<1>5. SectorsOf(k) = {s} \cup Range(blocks) /\ SectorsOf(k) \subseteq Sectors \ System
  <2>1. blocks \in Blocks /\ s \in Sectors \ System
    BY <1>3 DEF Attached
  <2>2. Range(blocks) \subseteq Sectors \ System
    BY <2>1, FileSystemAssumption DEF Blocks, SeqOf, Range
  <2>. QED  BY <2>1, <2>2 DEF SectorsOf
<1>6. disk'[MapBlock] = disk[MapBlock] \ SectorsOf(k)
  BY <1>5, SystemSectors
<1>7. disk'[MapBlock] = System \cup UNION {SectorsOf(e) : e \in Others(k)}
  <2>1. \A e \in Others(k) : SectorsOf(e) \cap SectorsOf(k) = {}
    BY <1>3 DEF Attached
  <2>2. disk[MapBlock] = System \cup (UNION {SectorsOf(e) : e \in Others(k)}) \cup SectorsOf(k)
    BY <1>3 DEF Attached
  <2>. QED  BY <1>5, <1>6, <2>1, <2>2
<1>8. Attached(k)'
  <2>1. (UNION {SectorsOf(e) : e \in Others(k)})' = UNION {SectorsOf(e) : e \in Others(k)}
    BY <1>3, <1>4
  <2>2. \A e \in Others(k) : /\ Directory'[e].name \in Names
                             /\ Directory'[e].sector \in Sectors \ System
                             /\ BlocksOf(e)' \in Blocks
                             /\ disk'[Directory'[e].sector] = Header(BlocksOf(e)')
                             /\ Directory'[e].sector \notin Range(BlocksOf(e)') /\ IsInjective(BlocksOf(e)')
    <3>1. \A e \in Others(k) : /\ Directory[e].name \in Names
                               /\ Directory[e].sector \in Sectors \ System
                               /\ BlocksOf(e) \in Blocks
                               /\ disk[Directory[e].sector] = Header(BlocksOf(e))
                               /\ Directory[e].sector \notin Range(BlocksOf(e)) /\ IsInjective(BlocksOf(e))
      BY <1>3 DEF Attached
    <3>2. \A e \in Others(k) : BlocksOf(e)' = BlocksOf(e)
      BY <1>3, <1>4
    <3>. QED  BY <1>1, <1>2, <3>1, <3>2
  <2>3. \A e, f \in Others(k) : e # f => /\ SectorsOf(e)' \cap SectorsOf(f)' = {}
                                         /\ Directory'[e].name # Directory'[f].name
    BY <1>1, <1>3, <1>4 DEF Attached
  <2>. QED  BY <1>3, <1>7, <2>1, <2>2, <2>3 DEF Attached
<1>9. Detached(k, s, blocks)'
  <2>1. Range(blocks) \cup {s} \subseteq Free'
    BY <1>5, <1>6 DEF Free
  <2>2. blocks \in Blocks /\ s \notin Range(blocks) /\ IsInjective(blocks) /\ disk[s] = Header(blocks)
    BY <1>3 DEF Attached
  <2>. QED  BY <1>1, <1>2, <1>5, <2>1, <2>2 DEF Detached
<1>10. Handles(k) /\ handle' = handle => Handles(k)'
  BY <1>1, <1>3, <1>4 DEF Handles
<1>. QED  BY <1>8, <1>9, <1>10

LEMMA NothingWritten ==
  ASSUME UNCHANGED disk
  PROVE  /\ UNCHANGED <<Directory, InUse, Free>>
         /\ \A k : Others(k)' = Others(k) /\ (Attached(k)' <=> Attached(k))
         /\ \A e : BlocksOf(e)' = BlocksOf(e)
         /\ \A name : FindIndex(name)' = FindIndex(name)
         /\ \A k, s, blocks : Detached(k, s, blocks)' <=> Detached(k, s, blocks)
         /\ \A dir, k : AgreesBut(dir, k)' <=> AgreesBut(dir, k)
         /\ \A dir, k, b : Written(dir, k, b)' <=> Written(dir, k, b)
         /\ \A dir, s, blocks : /\ CreateCalls(dir, s, blocks)' = CreateCalls(dir, s, blocks)
                               /\ RemoveCalls(dir, s, blocks)' = RemoveCalls(dir, s, blocks)
<1>1. UNCHANGED <<Directory, InUse, Free>>
  BY DEF Directory, InUse, Free
<1>2. \A k : Others(k)' = Others(k)
  BY <1>1 DEF Others
<1>3. \A e : BlocksOf(e)' = BlocksOf(e) /\ SectorsOf(e)' = SectorsOf(e)
  BY <1>1 DEF BlocksOf, SectorsOf
<1>4. \A k : Attached(k)' <=> Attached(k)
  BY <1>1, <1>2, <1>3 DEF Attached
<1>5. \A name : FindIndex(name)' = FindIndex(name)
  BY <1>1 DEF FindIndex
<1>6. \A k, s, blocks : Detached(k, s, blocks)' <=> Detached(k, s, blocks)
  BY <1>1 DEF Detached
<1>7. /\ \A dir, k : AgreesBut(dir, k)' <=> AgreesBut(dir, k)
      /\ \A dir, k, b : Written(dir, k, b)' <=> Written(dir, k, b)
  BY <1>1 DEF AgreesBut, Written
<1>8. \A dir, s, blocks : /\ CreateCalls(dir, s, blocks)' = CreateCalls(dir, s, blocks)
                          /\ RemoveCalls(dir, s, blocks)' = RemoveCalls(dir, s, blocks)
  BY DEF CreateCalls, RemoveCalls
<1>. QED  BY <1>1, <1>2, <1>3, <1>4, <1>5, <1>6, <1>7, <1>8

LEMMA NothingHappens ==
  ASSUME UNCHANGED <<disk, operation, phase, handle>>, NEW calls, InProgressOrNot(calls)
  PROVE  InProgressOrNot(calls)'
<1> USE NothingWritten
<1>1. \A k : Handles(k)' <=> Handles(k)
  BY DEF Handles
<1>2. CASE AtRest(calls)
  BY <1>1, <1>2 DEF AtRest, InProgressOrNot
<1>3. CASE Looking(calls)
  BY <1>1, <1>3 DEF Looking, InProgressOrNot
<1>4. CASE Writing(calls)
  BY <1>1, <1>4 DEF Writing, InProgressOrNot
<1>5. CASE AllDone(calls)
  BY <1>1, <1>5 DEF AllDone, InProgressOrNot
<1>6. ASSUME NEW k \in Entries, NEW dir, NEW s \in Sectors, NEW blocks \in Blocks,
             Creating(calls, k, dir, s, blocks)
      PROVE  Creating(calls, k, dir, s, blocks)'
  BY <1>1, <1>6 DEF Creating
<1>7. ASSUME NEW k \in Entries, NEW dir, NEW s \in Sectors, NEW blocks \in Blocks,
             Removing(calls, k, dir, s, blocks)
      PROVE  Removing(calls, k, dir, s, blocks)'
  BY <1>1, <1>7 DEF Removing
<1>. QED  BY <1>2, <1>3, <1>4, <1>5, <1>6, <1>7 DEF InProgressOrNot

-----------------------------------------------------------------------------
(***************************************************************************)
(* What a step does to the files by their names.                           *)
(***************************************************************************)
Found(name) == {e \in InUse : NameOf(e) = name}
Doing       == <<operation.kind, operation.name>>

\* What a call that Main makes does to them.
FilesGoOn ==
  \/ UNCHANGED NamedFiles
  \/ /\ operation.name \in Names
     /\ \/ AbstractFiles!Create(operation.name) \/ AbstractFiles!Remove(operation.name)
        \/ AbstractFiles!Put(operation.name)

LEMMA LeastOfOne ==
  ASSUME NEW e \in Nat, NEW T, T = {e}
  PROVE  Min(T) = e
BY LeastIsThere

LEMMA FileNamed ==
  ASSUME NEW name \in Names
  PROVE  /\ NamedFiles[name] = IF Found(name) = {} THEN NotOpen ELSE DataOf(Min(Found(name)))
         /\ NamedFiles'[name] = IF Found(name)' = {} THEN NotOpen ELSE DataOf(Min(Found(name)))'
BY DEF NamedFiles, Found

LEMMA SameFile ==
  ASSUME NEW name \in Names, Found(name)' = Found(name),
         \A e \in Found(name) : DataOf(e)' = DataOf(e)
  PROVE  NamedFiles'[name] = NamedFiles[name]
<1>1. Found(name) \in SUBSET Nat
  BY FileSystemAssumption DEF Found, InUse, Entries
<1>2. PICK x : x = Min(Found(name))
  OBVIOUS
<1>3. Found(name) # {} => DataOf(x)' = DataOf(x)
  BY <1>1, <1>2, LeastIsThere
<1>4. Min(Found(name))' = x
  BY <1>2
<1>5. Found(name) # {} => DataOf(Min(Found(name)))' = DataOf(Min(Found(name)))
  BY <1>2, <1>3, <1>4 DEF DataOf, BlocksOf
<1>. QED  BY <1>5, FileNamed

\* What is there when the entries stay, when one appears, when one goes, and
\* when a block of one is written.
LEMMA FilesUnchanged ==
  ASSUME InUse' = InUse, \A e \in InUse : NameOf(e)' = NameOf(e) /\ DataOf(e)' = DataOf(e)
  PROVE  NamedFiles' = NamedFiles
<1> SUFFICES ASSUME NEW name \in Names  PROVE NamedFiles'[name] = NamedFiles[name]
  BY DEF NamedFiles
<1>1. Found(name)' = Found(name) /\ Found(name) \subseteq InUse
  BY DEF Found
<1>. QED  BY <1>1, SameFile

LEMMA FileIsCreated ==
  ASSUME NEW k \in Entries, InUse' = InUse \cup {k}, k \notin InUse,
         NEW name \in Names, Doing = <<"create", name>>, Doing' = Doing,
         \A e \in InUse : /\ NameOf(e)' = NameOf(e) /\ DataOf(e)' = DataOf(e)
                         /\ NameOf(e) # name,
         NameOf(k)' = name, DataOf(k)' # NotOpen
  PROVE  AbstractFiles!Create(name)
<1>1. Found(name) = {} /\ Found(name)' = {k}
  BY DEF Found
<1>2. NamedFiles[name] = NotOpen
  BY <1>1, FileNamed
<1>3. NamedFiles'[name] = DataOf(k)'
  <2>1. Min(Found(name)') = k
    BY <1>1, FileSystemAssumption, LeastOfOne DEF Entries
  <2>2. DataOf(Min(Found(name)))' = DataOf(k)'
    BY <2>1 DEF DataOf, BlocksOf
  <2>. QED  BY <1>1, <2>2, FileNamed
<1>4. \A n \in Names \ {name} : NamedFiles'[n] = NamedFiles[n]
  <2> TAKE n \in Names \ {name}
  <2>1. Found(n)' = Found(n) /\ Found(n) \subseteq InUse
    BY DEF Found
  <2>. QED  BY <2>1, SameFile
<1>5. NamedFiles' = [NamedFiles EXCEPT ![name] = NamedFiles'[name]]
  BY <1>4 DEF NamedFiles
<1>. QED  BY <1>2, <1>3, <1>5 DEF AbstractFiles!Create, Doing

LEMMA FileIsRemoved ==
  ASSUME NEW k \in Entries, InUse' = InUse \ {k}, k \in InUse,
         NEW name \in Names, Doing = <<"remove", name>>, Doing' = Doing,
         \A e \in InUse \ {k} : /\ NameOf(e)' = NameOf(e) /\ DataOf(e)' = DataOf(e)
                               /\ NameOf(e) # name,
         NameOf(k) = name, DataOf(k) # NotOpen
  PROVE  AbstractFiles!Remove(name)
<1>1. Found(name)' = {} /\ Found(name) = {k}
  BY DEF Found
<1>2. NamedFiles'[name] = NotOpen
  BY <1>1, FileNamed
<1>3. NamedFiles[name] = DataOf(k)
  <2>1. Min(Found(name)) = k
    BY <1>1, FileSystemAssumption, LeastOfOne DEF Entries
  <2>. QED  BY <1>1, <2>1, FileNamed
<1>4. \A n \in Names \ {name} : NamedFiles'[n] = NamedFiles[n]
  <2> TAKE n \in Names \ {name}
  <2>1. Found(n)' = Found(n) /\ Found(n) \subseteq InUse \ {k}
    BY DEF Found
  <2>. QED  BY <2>1, SameFile
<1>5. NamedFiles' = [NamedFiles EXCEPT ![name] = NotOpen]
  BY <1>2, <1>4 DEF NamedFiles
<1>. QED  BY <1>3, <1>5 DEF AbstractFiles!Remove, Doing

LEMMA BlockIsPut ==
  ASSUME NEW k \in InUse, InUse' = InUse,
         NEW name \in Names, Doing = <<"write", name>>, Doing' = Doing,
         \A e \in InUse \ {k} : DataOf(e)' = DataOf(e) /\ NameOf(e) # name,
         \A e \in InUse : NameOf(e)' = NameOf(e),
         NameOf(k) = name, DataOf(k) # NotOpen,
         NEW i \in DOMAIN DataOf(k), NEW block \in Contents,
         DataOf(k)' = [DataOf(k) EXCEPT ![i] = block]
  PROVE  AbstractFiles!Put(name)
<1>1. Found(name)' = {k} /\ Found(name) = {k}
  BY DEF Found
<1>2. Min(Found(name)) = k /\ Min(Found(name)') = k
  <2>1. k \in Nat
    BY FileSystemAssumption DEF Entries, InUse
  <2>. QED  BY <1>1, <2>1, LeastOfOne
<1>3. DataOf(Min(Found(name)))' = DataOf(k)'
  BY <1>2 DEF DataOf, BlocksOf
<1>4. NamedFiles[name] = DataOf(k) /\ NamedFiles'[name] = [DataOf(k) EXCEPT ![i] = block]
  BY <1>1, <1>2, <1>3, FileNamed
<1>5. \A n \in Names \ {name} : NamedFiles'[n] = NamedFiles[n]
  <2> TAKE n \in Names \ {name}
  <2>1. Found(n)' = Found(n) /\ Found(n) \subseteq InUse \ {k}
    BY DEF Found
  <2>. QED  BY <2>1, SameFile
<1>6. NamedFiles' = [NamedFiles EXCEPT ![name][i] = block]
  <2>1. NamedFiles = [n \in Names |-> NamedFiles[n]] /\ NamedFiles' = [n \in Names |-> NamedFiles'[n]]
    BY DEF NamedFiles
  <2>. QED  BY <1>4, <1>5, <2>1
<1>7. NamedFiles[name] # NotOpen /\ i \in DOMAIN NamedFiles[name]
  BY <1>4
<1>. QED  BY <1>6, <1>7 DEF AbstractFiles!Put, Doing

-----------------------------------------------------------------------------
\* What a file holds is never taken for no file.
LEMMA DataIsNotNothing ==
  ASSUME NEW blocks \in Blocks, NEW d, \A s \in Sectors \ System : d[s] \in Data
  PROVE  [i \in DOMAIN blocks |-> d[blocks[i]]] # NotOpen
<1>1. PICK n \in 0 .. MaxSize : blocks \in [1 .. n -> Sectors \ System]
  BY DEF Blocks, SeqOf
<1> DEFINE All == Contents \cup {Blank} \cup {Header(x) : x \in SeqOf(Sectors, MaxSize)}
           f == [i \in DOMAIN blocks |-> d[blocks[i]]]
<1>2. Data \subseteq All
  <2>1. Blocks \subseteq SeqOf(Sectors, MaxSize)
    BY DEF Blocks, SeqOf
  <2>. QED  BY <2>1 DEF Data
<1>3. f \in [1 .. n -> All]
  BY <1>1, <1>2
<1>4. f \in SeqOf(All, MaxSize)
  BY <1>3 DEF SeqOf
<1>. QED  BY <1>4, FileSystemAssumption

LEMMA MapIsOfSectors ==
  ASSUME NEW k, Attached(k)
  PROVE  disk[MapBlock] \subseteq Sectors
<1>1. \A blocks \in Blocks : Range(blocks) \subseteq Sectors
  BY FileSystemAssumption DEF Blocks, SeqOf, Range
<1>2. \A e \in Others(k) : SectorsOf(e) \subseteq Sectors
  BY <1>1 DEF Attached, SectorsOf
<1>. QED  BY <1>2, SystemSectors DEF Attached

\* The files whose sectors the map has, when none of these is written.
LEMMA OthersUnseen ==
  ASSUME NEW k, Attached(k), UNCHANGED operation,
         operation.kind = "create" => disk[MapBlock] \subseteq disk'[MapBlock],
         \A e \in Others(k) : Directory'[e] = Directory[e],
         \A x \in disk[MapBlock] \ System : disk'[x] = disk[x]
  PROVE  \A e \in Others(k) : /\ NameOf(e) = Directory[e].name /\ NameOf(e)' = NameOf(e)
                              /\ DataOf(e)' = DataOf(e)
<1> TAKE e \in Others(k)
<1> DEFINE s == Directory[e].sector
<1>1. /\ s \in Sectors \ System /\ s \in disk[MapBlock]
      /\ BlocksOf(e) \in Blocks /\ Range(BlocksOf(e)) \subseteq disk[MapBlock]
  BY DEF Attached, SectorsOf
<1>2. NameOf(e) = Directory[e].name /\ NameOf(e)' = NameOf(e)
  BY <1>1 DEF NameOf
<1>3. BlocksOf(e)' = BlocksOf(e)
  BY <1>1 DEF BlocksOf
<1>4. \A i \in DOMAIN BlocksOf(e) : BlocksOf(e)[i] \in disk[MapBlock] \ System
  BY <1>1, FileSystemAssumption DEF Blocks, SeqOf, Range
<1>5. DataOf(e)' = DataOf(e)
  BY <1>3, <1>4 DEF DataOf
<1>. QED  BY <1>2, <1>5

LEMMA NothingSeen ==
  ASSUME UNCHANGED <<disk, operation>>
  PROVE  UNCHANGED NamedFiles
<1>1. \A e \in InUse : NameOf(e)' = NameOf(e) /\ DataOf(e)' = DataOf(e)
  BY NothingWritten DEF NameOf, DataOf
<1>. QED  BY <1>1, NothingWritten, FilesUnchanged

\* What the detached entry shows.
LEMMA DetachedSeen ==
  ASSUME NEW k \in InUse, NEW s, NEW blocks, Attached(k), Detached(k, s, blocks)
  PROVE  /\ NameOf(k) = IF operation.kind = "create" THEN operation.name ELSE Directory[k].name
         /\ BlocksOf(k) = blocks /\ DataOf(k) = [i \in DOMAIN blocks |-> disk[blocks[i]]]
<1>1. Directory[k].sector = s /\ disk[s] = Header(blocks) /\ s \notin disk[MapBlock]
  BY DEF Detached, Free
<1>. QED  BY <1>1 DEF NameOf, BlocksOf, DataOf, Header

LEMMA DetachedSeenNext ==
  ASSUME NEW k, k \in InUse', NEW s, NEW blocks, Attached(k)', Detached(k, s, blocks)'
  PROVE  /\ NameOf(k)' = IF operation'.kind = "create" THEN operation'.name ELSE Directory'[k].name
         /\ BlocksOf(k)' = blocks /\ DataOf(k)' = [i \in DOMAIN blocks |-> disk'[blocks[i]]]
<1>1. Directory'[k].sector = s /\ disk'[s] = Header(blocks) /\ s \notin disk'[MapBlock]
  BY DEF Detached, Free
<1>. QED  BY <1>1 DEF NameOf, BlocksOf, DataOf, Header

\* What a write of a block of the directory shows: nothing yet or no more, or
\* the entry that comes or goes.
LEMMA EntrySeen ==
  ASSUME disk = [x \in Sectors |-> disk[x]], NEW k \in Entries, NEW dir, NEW s, NEW blocks \in Blocks,
         NEW b \in {D1, D2}, disk' = [disk EXCEPT ![b] = DirectoryBlock(dir, b)],
         \A x \in Sectors \ System : disk[x] \in Data,
         UNCHANGED operation, operation.name \in Names,
         Attached(k), Detached(k, s, blocks), Attached(k)', Detached(k, s, blocks)',
         Others(k)' = Others(k), \A e \in Others(k) : Directory'[e] = Directory[e],
         disk'[MapBlock] = disk[MapBlock],
         \A e \in Others(k) : Directory[e].name # operation.name,
         \/ operation.kind = "create" /\ (k \in InUse => k \in InUse')
         \/ /\ operation.kind = "remove" /\ (k \in InUse' => k \in InUse)
            /\ k \in InUse => Directory[k].name = operation.name
            /\ k \in InUse' => Directory'[k].name = operation.name
  PROVE  FilesGoOn
<1> DEFINE name == operation.name
<1>1. \A x \in Sectors \ System : disk'[x] = disk[x]
  BY SystemSectors
<1>2. \A e \in Others(k) : /\ NameOf(e) = Directory[e].name /\ NameOf(e)' = NameOf(e)
                           /\ DataOf(e)' = DataOf(e) /\ NameOf(e) # name
  <2>1. disk[MapBlock] \subseteq Sectors
    BY MapIsOfSectors
  <2>2. \A x \in disk[MapBlock] \ System : disk'[x] = disk[x]
    BY <1>1, <2>1
  <2>. QED  BY <2>2, OthersUnseen
<1>3. Others(k) = InUse \ {k} /\ Others(k) = InUse' \ {k}
  BY DEF Others
<1>4. k \in InUse => NameOf(k) = name /\ DataOf(k) = [i \in DOMAIN blocks |-> disk[blocks[i]]]
  BY DetachedSeen
<1>5. k \in InUse' => NameOf(k)' = name /\ DataOf(k)' = [i \in DOMAIN blocks |-> disk'[blocks[i]]]
  BY DetachedSeenNext
<1>6. \A i \in DOMAIN blocks : disk'[blocks[i]] = disk[blocks[i]]
  BY <1>1, FileSystemAssumption DEF Blocks, SeqOf
<1>7. CASE k \in InUse <=> k \in InUse'
  <2>1. InUse' = InUse
    <3>1. \A e : e \in InUse' <=> e \in InUse
      BY <1>3, <1>7
    <3>. QED  BY <3>1
  <2>2. \A e \in InUse : NameOf(e)' = NameOf(e) /\ DataOf(e)' = DataOf(e)
    BY <1>2, <1>3, <1>4, <1>5, <1>6, <2>1
  <2>. QED  BY <2>1, <2>2, FilesUnchanged DEF FilesGoOn
<1>8. CASE k \notin InUse /\ k \in InUse'
  <2>1. InUse' = InUse \cup {k} /\ InUse = Others(k) /\ Doing = <<"create", name>> /\ Doing' = Doing
    BY <1>3, <1>8 DEF Doing
  <2>2. DataOf(k)' # NotOpen
    <3>2. PICK d : d = disk'
      OBVIOUS
    <3>1. \A x \in Sectors \ System : d[x] \in Data
      BY <1>1, <3>2
    <3>3. [i \in DOMAIN blocks |-> d[blocks[i]]] # NotOpen
      BY <3>1, DataIsNotNothing
    <3>. QED  BY <1>5, <1>8, <3>2, <3>3
  <2>. QED  BY <1>2, <1>5, <1>8, <2>1, <2>2, FileIsCreated DEF FilesGoOn
<1>9. CASE k \in InUse /\ k \notin InUse'
  <2>1. InUse' = InUse \ {k} /\ InUse \ {k} = Others(k) /\ Doing = <<"remove", name>> /\ Doing' = Doing
    BY <1>3, <1>9 DEF Doing
  <2>2. DataOf(k) # NotOpen
    BY <1>4, <1>9, DataIsNotNothing
  <2>. QED  BY <1>2, <1>4, <1>9, <2>1, <2>2, FileIsRemoved DEF FilesGoOn
<1>. QED  BY <1>7, <1>8, <1>9

-----------------------------------------------------------------------------
(***************************************************************************)
(* The first of the calls that are left is made.                           *)
(***************************************************************************)
Made(mine) ==
  /\ IF mine.op = "write" THEN disk' = [disk EXCEPT ![mine.sector] = mine.data] ELSE UNCHANGED disk
  /\ UNCHANGED <<operation, phase, handle>>

LEMMA ReadMade ==
  ASSUME NEW x, Made(Reads(x))
  PROVE  UNCHANGED <<disk, operation, phase, handle>>
BY DEF Made, Reads

LEMMA WriteMade ==
  ASSUME NEW x, NEW y, Made(Writes(x, y))
  PROVE  disk' = [disk EXCEPT ![x] = y] /\ UNCHANGED <<operation, phase, handle>>
BY DEF Made, Writes

LEMMA LookingGoesOn ==
  ASSUME NEW calls, Looking(calls), calls # <<>>, Made(Head(calls))
  PROVE  Looking(Tail(calls))'
<1>1. PICK x : Head(calls) = Reads(x)
  BY TupleTails DEF Looking, OnlyReads
<1>2. UNCHANGED <<disk, operation, phase, handle>>
  BY <1>1, ReadMade
<1>3. OnlyReads(Tail(calls))
  <2>1. CASE \E a \in Sectors : calls = <<Reads(a)>>
    BY <2>1, TupleTails DEF OnlyReads
  <2>2. CASE \E a, b \in Sectors : calls = <<Reads(a), Reads(b)>>
    <3>1. PICK a \in Sectors, b \in Sectors : calls = <<Reads(a), Reads(b)>>
      BY <2>2
    <3>2. Tail(calls) = <<Reads(b)>>
      BY <3>1, TupleTails
    <3>. QED  BY <3>2 DEF OnlyReads
  <2>. QED  BY <2>1, <2>2 DEF Looking, OnlyReads
<1>4. \A k : Handles(k)' <=> Handles(k)
  BY <1>2, NothingWritten DEF Handles
<1>. QED  BY <1>2, <1>3, <1>4, NothingWritten DEF Looking, OnlyReads

\* A block of an open file is a block of a file.
LEMMA OpenBlock ==
  ASSUME Attached(0), Handles(0), NEW name \in Names, handle[name] # NotOpen,
         NEW i \in DOMAIN handle[name]
  PROVE  /\ handle[name][i] \in Sectors \ System
         /\ \A e \in InUse : Directory[e].sector # handle[name][i]
         /\ \E e \in InUse : /\ Directory[e].name = name /\ handle[name] = BlocksOf(e)
                            /\ handle[name][i] \in SectorsOf(e)
<1>1. Others(0) = InUse
  BY FileSystemAssumption DEF Others, InUse, Entries
<1>2. PICK e \in InUse : Directory[e].name = name /\ handle[name] = BlocksOf(e)
  BY <1>1 DEF Handles
<1>3. handle[name][i] \in Range(BlocksOf(e)) /\ BlocksOf(e) \in Blocks
  BY <1>1, <1>2 DEF Range, Attached
<1>4. handle[name][i] \in Sectors \ System
  BY <1>2, <1>3, FileSystemAssumption DEF Blocks, SeqOf
<1>5. \A f \in InUse : Directory[f].sector # handle[name][i]
  BY <1>1, <1>2, <1>3 DEF Attached, SectorsOf
<1>. QED  BY <1>2, <1>3, <1>4, <1>5 DEF SectorsOf

LEMMA WritingEnds ==
  ASSUME disk = [s \in Sectors |-> disk[s]], \A s \in Sectors \ System : disk[s] \in Data,
         NEW calls, Writing(calls), Made(Head(calls))
  PROVE  AllDone(Tail(calls))' /\ FilesGoOn
<1> DEFINE name == operation.name
<1>1. PICK i \in DOMAIN handle[name], block \in Contents : calls = <<Writes(handle[name][i], block)>>
  BY DEF Writing
<1> DEFINE x == handle[name][i]
<1>2. x \in Sectors \ System /\ \A e \in InUse : Directory[e].sector # x
  BY OpenBlock DEF Writing
<1>3. disk' = [disk EXCEPT ![x] = block] /\ UNCHANGED <<operation, phase, handle>> /\ Tail(calls) = <<>>
  BY <1>1, TupleTails, WriteMade
<1>4. Directory' = Directory /\ InUse' = InUse
  BY <1>2, <1>3, DirectoryStays, SystemSectors
<1>5. Others(0) \subseteq InUse /\ Others(0)' = Others(0)
  BY <1>4 DEF Others
<1>6. \A y \in Sectors \ {x} : disk'[y] = disk[y]
  BY <1>3
<1>7. disk'[MapBlock] = disk[MapBlock]
  BY <1>2, <1>6, SystemSectors
<1>8. \A e \in Others(0) : Directory'[e] = Directory[e] /\ disk'[Directory[e].sector] = disk[Directory[e].sector]
  BY <1>2, <1>4, <1>5, <1>6 DEF Writing, Attached
<1>9. Attached(0)' /\ Handles(0)'
  BY <1>3, <1>5, <1>7, <1>8, FilesStay DEF Writing
<1>10. AbstractFiles!Put(name)
  <2>1. PICK e \in InUse : Directory[e].name = name /\ handle[name] = BlocksOf(e) /\ x \in SectorsOf(e)
    BY OpenBlock DEF Writing
  <2>2. Others(0) = InUse /\ name \in Names /\ operation.kind = "write" /\ Attached(0)
    BY FileSystemAssumption DEF Others, InUse, Entries, Writing
  <2>3. \A f \in InUse : NameOf(f) = Directory[f].name /\ NameOf(f)' = NameOf(f)
    BY <1>3, <1>4, <2>2 DEF NameOf
  <2>4. \A f \in InUse : /\ BlocksOf(f)' = BlocksOf(f)
                         /\ \A j \in DOMAIN BlocksOf(f) : BlocksOf(f)[j] \in Sectors
    <3> TAKE f \in InUse
    <3>1. BlocksOf(f)' = BlocksOf(f)
      BY <1>4, <1>8, <2>2 DEF BlocksOf
    <3>2. BlocksOf(f) \in Blocks
      BY <2>2 DEF Attached
    <3>3. \A j \in DOMAIN BlocksOf(f) : BlocksOf(f)[j] \in Sectors
      BY <3>2 DEF Blocks, SeqOf
    <3>. QED  BY <3>1, <3>3
  <2>5. \A f \in InUse \ {e} : DataOf(f)' = DataOf(f) /\ NameOf(f) # name
    <3> TAKE f \in InUse \ {e}
    <3>1. x \notin SectorsOf(f) /\ Directory[f].name # name
      BY <2>1, <2>2 DEF Attached
    <3>2. \A j \in DOMAIN BlocksOf(f) : BlocksOf(f)[j] \in Sectors \ {x}
      BY <2>4, <3>1 DEF SectorsOf, Range
    <3>. QED  BY <1>6, <2>3, <2>4, <3>1, <3>2 DEF DataOf
  <2>6. DataOf(e)' = [DataOf(e) EXCEPT ![i] = block]
    <3>1. i \in DOMAIN BlocksOf(e) /\ BlocksOf(e)[i] = x /\ BlocksOf(e)' = BlocksOf(e)
      BY <1>1, <2>1, <2>4
    <3>2. disk'[x] = block
      BY <1>2, <1>3
    <3>3. \A j \in DOMAIN BlocksOf(e) \ {i} : disk'[BlocksOf(e)[j]] = disk[BlocksOf(e)[j]]
      <4> TAKE j \in DOMAIN BlocksOf(e) \ {i}
      <4>1. BlocksOf(e)[j] # x
        BY <2>1, <2>2, <3>1 DEF Attached, IsInjective
      <4>. QED  BY <1>6, <2>4, <4>1
    <3>. QED  BY <3>1, <3>2, <3>3 DEF DataOf
  <2>7. DataOf(e) # NotOpen /\ DOMAIN DataOf(e) = DOMAIN BlocksOf(e)
    BY <2>2, DataIsNotNothing DEF DataOf, Attached
  <2>. QED  BY <1>1, <1>3, <1>4, <2>1, <2>2, <2>3, <2>5, <2>6, <2>7, BlockIsPut DEF Doing
<1>. QED  BY <1>3, <1>9, <1>10 DEF Writing, AllDone, FilesGoOn

\* A block of the directory is written, while entry k comes or goes.
LEMMA DirectoryGoesOn ==
  ASSUME disk = [x \in Sectors |-> disk[x]], NEW k \in Entries, NEW dir, NEW s, NEW blocks,
         NEW b \in {D1, D2}, disk' = [disk EXCEPT ![b] = DirectoryBlock(dir, b)],
         AgreesBut(dir, k), dir[k].sector = s, dir[k].inUse => disk[s] = Header(blocks),
         Attached(k), Detached(k, s, blocks), Handles(k), UNCHANGED handle
  PROVE  /\ AgreesBut(dir, k)' /\ Attached(k)' /\ Detached(k, s, blocks)' /\ Handles(k)'
         /\ disk'[MapBlock] = disk[MapBlock] /\ disk'[s] = disk[s]
         /\ Others(k)' = Others(k) /\ \A e \in Others(k) : Directory'[e] = Directory[e]
         /\ Written(dir, k, b)' /\ \A c \in {D1, D2} : Written(dir, k, c) => Written(dir, k, c)'
         /\ Directory'[k].inUse = (IF FlagsAt[k] = b THEN dir[k].inUse ELSE Directory[k].inUse)
         /\ Directory'[k].name = (IF NamesAt[k] = b THEN dir[k].name ELSE Directory[k].name)
<1>1. /\ \A e \in Entries \ {k} : Directory'[e] = Directory[e]
      /\ Others(k)' = Others(k)
      /\ AgreesBut(dir, k)'
      /\ Written(dir, k, b)'
      /\ \A c \in {D1, D2} : Written(dir, k, c) => Written(dir, k, c)'
      /\ Directory'[k].inUse = (IF FlagsAt[k] = b THEN dir[k].inUse ELSE Directory[k].inUse)
      /\ Directory'[k].sector = (IF FlagsAt[k] = b THEN dir[k].sector ELSE Directory[k].sector)
      /\ Directory'[k].name = (IF NamesAt[k] = b THEN dir[k].name ELSE Directory[k].name)
  BY EntryWritten
<1>2. \A e \in Others(k) : e \in Entries \ {k}
  BY DEF Others, InUse
<1>3. \A x \in Sectors \ {b} : disk'[x] = disk[x]
  OBVIOUS
<1>4. System \subseteq disk[MapBlock] /\ b \in System /\ MapBlock \in Sectors \ {b}
  BY SystemSectors DEF Attached
<1>5. disk'[MapBlock] = disk[MapBlock] /\ disk'[s] = disk[s] /\ Free' = Free
  BY <1>3, <1>4 DEF Detached, Free
<1>6. \A e \in Others(k) : disk'[Directory[e].sector] = disk[Directory[e].sector]
  BY <1>3, <1>4 DEF Attached
<1>7. Attached(k)' /\ Handles(k)'
  BY <1>1, <1>2, <1>5, <1>6, FilesStay
<1>8. Detached(k, s, blocks)'
  BY <1>1, <1>5 DEF Detached, InUse
<1>. QED  BY <1>1, <1>2, <1>5, <1>7, <1>8

LEMMA CreatingGoesOn ==
  ASSUME disk = [x \in Sectors |-> disk[x]], \A x \in Sectors \ System : disk[x] \in Data,
         NEW calls, NEW k \in Entries, NEW dir, NEW s,
         NEW blocks, Creating(calls, k, dir, s, blocks), Made(Head(calls))
  PROVE  /\ Creating(Tail(calls), k, dir, s, blocks)' \/ AllDone(Tail(calls))'
         /\ FilesGoOn
<1> DEFINE a == Writes(s, Header(blocks))
           b == Reads(D2)
           c == Writes(D1, DirectoryBlock(dir, D1))
           d == Writes(D2, DirectoryBlock(dir, D2))
           e == Writes(MapBlock, disk[MapBlock] \cup {s} \cup Range(blocks))
           Same == CreateCalls(dir, s, blocks)' = CreateCalls(dir, s, blocks)
<1>1. CreateCalls(dir, s, blocks) = <<a, b, c, d, e>>
  BY DEF CreateCalls
<1>2. disk'[MapBlock] = disk[MapBlock] => Same
  BY DEF CreateCalls
<1>3. /\ operation.kind = "create" /\ operation.name \in Names /\ phase = "flush"
      /\ AgreesBut(dir, k)
      /\ dir[k] = [inUse |-> TRUE, sector |-> s, name |-> operation.name]
      /\ \A f \in Others(k) : Directory[f].name # operation.name
      /\ Attached(k) /\ Detached(k, s, blocks) /\ Handles(k)
      /\ UNCHANGED <<operation, phase, handle>>
  BY DEF Creating, Made
<1>30. dir[k].inUse = TRUE /\ dir[k].sector = s /\ dir[k].name = operation.name
  BY <1>3
<1>4. CASE calls = <<a, b, c, d, e>> /\ k \notin InUse
  <2>1. disk' = [disk EXCEPT ![s] = Header(blocks)] /\ Tail(calls) = <<b, c, d, e>>
    <3>1. Head(calls) = Writes(s, Header(blocks)) /\ Tail(calls) = <<b, c, d, e>>
      BY <1>4, TupleTails
    <3>. QED  BY <3>1, WriteMade
  <2>2. s \in Sectors \ System /\ \A f \in Others(k) : Directory[f].sector # s
    BY <1>3 DEF Attached, Detached, Free, SectorsOf
  <2>3. Directory' = Directory /\ InUse' = InUse /\ Others(k)' = Others(k)
    BY <2>1, <2>2, DirectoryStays, SystemSectors DEF Others
  <2>4. disk'[s] = Header(blocks) /\ \A x \in Sectors \ {s} : disk'[x] = disk[x]
    BY <2>1, <2>2
  <2>5. disk'[MapBlock] = disk[MapBlock] /\ Free' = Free
    BY <2>2, <2>4, SystemSectors DEF Free
  <2>6. Attached(k)' /\ Handles(k)'
    BY <1>3, <2>2, <2>3, <2>4, <2>5, FilesStay DEF Attached
  <2>7. Detached(k, s, blocks)' /\ AgreesBut(dir, k)'
    BY <1>3, <1>4, <2>3, <2>5 DEF Detached, AgreesBut
  <2>8. FilesGoOn
    <3>1. Others(k) = InUse /\ disk[MapBlock] \subseteq Sectors /\ s \notin disk[MapBlock]
      BY <1>3, <1>4, MapIsOfSectors DEF Others, Detached, Free
    <3>2. \A f \in InUse : NameOf(f)' = NameOf(f) /\ DataOf(f)' = DataOf(f)
      BY <1>3, <2>3, <2>4, <2>5, <3>1, OthersUnseen
    <3>. QED  BY <2>3, <3>2, FilesUnchanged DEF FilesGoOn
  <2>. QED  BY <1>1, <1>2, <1>3, <1>4, <2>1, <2>3, <2>4, <2>5, <2>6, <2>7, <2>8 DEF Creating
<1>5. CASE calls = <<b, c, d, e>> /\ k \notin InUse /\ disk[s] = Header(blocks)
  <2>1. UNCHANGED disk /\ Tail(calls) = <<c, d, e>>
    BY <1>5, TupleTails, ReadMade
  <2>2. Handles(k)'
    BY <1>3, <2>1, NothingWritten DEF Handles
  <2>3. FilesGoOn
    BY <1>3, <2>1, NothingSeen DEF FilesGoOn
  <2>. QED  BY <1>1, <1>3, <1>5, <2>1, <2>2, <2>3, NothingWritten DEF Creating
<1>6. CASE calls = <<c, d, e>> /\ k \notin InUse /\ disk[s] = Header(blocks)
  <2>0. disk[s] = Header(blocks) /\ dir[k].sector = s
    BY <1>6, <1>30
  <2>1. disk' = [disk EXCEPT ![D1] = DirectoryBlock(dir, D1)] /\ Tail(calls) = <<d, e>>
    BY <1>6, TupleTails, WriteMade
  <2>2. /\ AgreesBut(dir, k)' /\ Attached(k)' /\ Detached(k, s, blocks)' /\ Handles(k)'
        /\ disk'[MapBlock] = disk[MapBlock] /\ disk'[s] = disk[s] /\ Written(dir, k, D1)'
    BY <1>3, <2>0, <2>1, DirectoryGoesOn
  <2>3. Others(k)' = Others(k) /\ \A f \in Others(k) : Directory'[f] = Directory[f]
    BY <1>3, <2>0, <2>1, DirectoryGoesOn
  <2>4. FilesGoOn
    <3>1. k \in InUse => k \in InUse'
      BY <1>3, <1>30, <2>0, <2>1, DirectoryGoesOn DEF InUse
    <3>2. blocks \in Blocks
      BY <1>3 DEF Detached
    <3>. QED  BY <1>3, <2>1, <2>2, <2>3, <3>1, <3>2, EntrySeen
  <2>. QED  BY <1>1, <1>2, <1>3, <1>6, <2>1, <2>2, <2>3, <2>4 DEF Creating
<1>7. CASE calls = <<d, e>> /\ disk[s] = Header(blocks) /\ Written(dir, k, D1)
  <2>0. disk[s] = Header(blocks) /\ dir[k].sector = s /\ Written(dir, k, D1)
    BY <1>7, <1>30
  <2>1. disk' = [disk EXCEPT ![D2] = DirectoryBlock(dir, D2)] /\ Tail(calls) = <<e>>
    <3>1. Head(calls) = Writes(D2, DirectoryBlock(dir, D2)) /\ Tail(calls) = <<e>>
      BY <1>7, TupleTails
    <3>. QED  BY <3>1, WriteMade
  <2>2. /\ AgreesBut(dir, k)' /\ Attached(k)' /\ Detached(k, s, blocks)' /\ Handles(k)'
        /\ disk'[MapBlock] = disk[MapBlock] /\ disk'[s] = disk[s]
        /\ Written(dir, k, D1)' /\ Written(dir, k, D2)'
    BY <1>3, <2>0, <2>1, DirectoryGoesOn
  <2>3. Others(k)' = Others(k) /\ \A f \in Others(k) : Directory'[f] = Directory[f]
    BY <1>3, <2>0, <2>1, DirectoryGoesOn
  <2>4. FilesGoOn
    <3>1. k \in InUse => k \in InUse'
      BY <1>3, <1>30, <2>0, <2>1, DirectoryGoesOn DEF InUse
    <3>2. blocks \in Blocks
      BY <1>3 DEF Detached
    <3>. QED  BY <1>3, <2>1, <2>2, <2>3, <3>1, <3>2, EntrySeen
  <2>. QED  BY <1>1, <1>2, <1>3, <1>7, <2>1, <2>2, <2>3, <2>4 DEF Creating
<1>8. CASE calls = <<e>> /\ Written(dir, k, D1) /\ Written(dir, k, D2)
  <2>1. /\ disk' = [disk EXCEPT ![MapBlock] = disk[MapBlock] \cup {s} \cup Range(blocks)]
        /\ Tail(calls) = <<>>
    BY <1>8, TupleTails, WriteMade
  <2>2. k \in InUse /\ Directory[k].name = operation.name
    BY <1>30, <1>8, SystemSectors DEF Written, InUse
  <2>3. Attached(0)' /\ Handles(0)'
    BY <1>3, <2>1, <2>2, FileAppears DEF Creating
  <2>4. FilesGoOn
    <3>1. Directory' = Directory /\ InUse' = InUse /\ Others(k) = InUse \ {k}
      BY <2>1, DirectoryStays, SystemSectors DEF Others
    <3>2. disk'[MapBlock] = disk[MapBlock] \cup {s} \cup Range(blocks)
      BY <2>1, SystemSectors
    <3>3. \A x \in Sectors \ System : disk'[x] = disk[x]
      BY <2>1, SystemSectors
    <3>4. \A f \in Others(k) : NameOf(f)' = NameOf(f) /\ DataOf(f)' = DataOf(f)
      BY <1>3, <3>1, <3>2, <3>3, MapIsOfSectors, OthersUnseen
    <3>5. /\ NameOf(k) = operation.name /\ BlocksOf(k) = blocks
          /\ DataOf(k) = [i \in DOMAIN blocks |-> disk[blocks[i]]]
      BY <1>3, <2>2, DetachedSeen
    <3>6. Directory[k].sector = s /\ s \in Sectors \ System /\ disk[s] = Header(blocks)
      BY <1>3, <2>2 DEF Detached, Free, Attached
    <3>7. NameOf(k)' = operation.name
      BY <2>2, <3>1, <3>2, <3>6 DEF NameOf
    <3>8. BlocksOf(k)' = blocks
      BY <3>1, <3>3, <3>6 DEF BlocksOf, Header
    <3>9. \A i \in DOMAIN blocks : disk'[blocks[i]] = disk[blocks[i]]
      BY <1>3, <3>3, FileSystemAssumption DEF Detached, Blocks, SeqOf
    <3>10. DataOf(k)' = DataOf(k)
      BY <3>5, <3>8, <3>9 DEF DataOf
    <3>. QED  BY <3>1, <3>4, <3>5, <3>7, <3>10, FilesUnchanged DEF FilesGoOn
  <2>. QED  BY <1>3, <2>1, <2>3, <2>4 DEF AllDone
<1>9. \/ calls = <<a, b, c, d, e>> /\ k \notin InUse
      \/ calls = <<b, c, d, e>> /\ k \notin InUse /\ disk[s] = Header(blocks)
      \/ calls = <<c, d, e>> /\ k \notin InUse /\ disk[s] = Header(blocks)
      \/ calls = <<d, e>> /\ disk[s] = Header(blocks) /\ Written(dir, k, D1)
      \/ calls = <<e>> /\ Written(dir, k, D1) /\ Written(dir, k, D2)
  BY <1>1 DEF Creating
<1>. QED  BY <1>4, <1>5, <1>6, <1>7, <1>8, <1>9

LEMMA RemovingGoesOn ==
  ASSUME disk = [x \in Sectors |-> disk[x]], \A x \in Sectors \ System : disk[x] \in Data,
         NEW calls, NEW k \in Entries, NEW dir, NEW s,
         NEW blocks, Removing(calls, k, dir, s, blocks), Made(Head(calls))
  PROVE  /\ Removing(Tail(calls), k, dir, s, blocks)' \/ AllDone(Tail(calls))'
         /\ FilesGoOn
<1> DEFINE a == Writes(MapBlock, disk[MapBlock] \ (Range(blocks) \cup {s}))
           b == Reads(D2)
           c == Writes(D1, DirectoryBlock(dir, D1))
           d == Writes(D2, DirectoryBlock(dir, D2))
           na == Writes(MapBlock, disk'[MapBlock] \ (Range(blocks) \cup {s}))
<1>1. /\ RemoveCalls(dir, s, blocks) = <<a, b, c, d>>
      /\ RemoveCalls(dir, s, blocks)' = <<na, b, c, d>>
  BY DEF RemoveCalls
<1>3. /\ operation.kind = "remove" /\ operation.name \in Names /\ phase = "flush"
      /\ AgreesBut(dir, k)
      /\ dir[k] = [inUse |-> FALSE, sector |-> s, name |-> operation.name]
      /\ k \in InUse => Directory[k].name = operation.name
      /\ \A e \in Others(k) : Directory[e].name # operation.name
      /\ Handles(k)
      /\ UNCHANGED <<operation, phase, handle>>
  BY DEF Removing, Made
<1>30. dir[k].inUse = FALSE /\ dir[k].sector = s /\ dir[k].name = operation.name
  BY <1>3
<1>4. CASE /\ calls = <<a, b, c, d>> /\ k \in InUse /\ Directory[k].sector = s
           /\ blocks = BlocksOf(k) /\ Attached(0)
  <2>1. /\ disk' = [disk EXCEPT ![MapBlock] = disk[MapBlock] \ (Range(blocks) \cup {s})]
        /\ Tail(calls) = <<b, c, d>>
    BY <1>4, TupleTails, WriteMade
  <2>2. Attached(k)' /\ Detached(k, s, blocks)' /\ Handles(k)'
    BY <1>3, <1>4, <2>1, FileGoes
  <2>3. Directory' = Directory /\ InUse' = InUse
    BY <2>1, DirectoryStays, SystemSectors
  <2>4. AgreesBut(dir, k)' /\ Others(k)' = Others(k)
    BY <1>3, <2>3 DEF AgreesBut, Others
  <2>5. FilesGoOn
    <3>1. Others(0) = InUse /\ disk[MapBlock] \subseteq Sectors
      BY <1>4, MapIsOfSectors, FileSystemAssumption DEF Others, InUse, Entries
    <3>2. \A x \in Sectors \ System : disk'[x] = disk[x]
      BY <2>1, SystemSectors
    <3>3. \A e \in InUse : NameOf(e)' = NameOf(e) /\ DataOf(e)' = DataOf(e)
      BY <1>3, <1>4, <2>3, <3>1, <3>2, OthersUnseen
    <3>. QED  BY <2>3, <3>3, FilesUnchanged DEF FilesGoOn
  <2>. QED  BY <1>1, <1>3, <2>1, <2>2, <2>3, <2>4, <2>5 DEF Removing
<1>5. CASE calls = <<b, c, d>> /\ Attached(k) /\ Detached(k, s, blocks)
  <2>1. UNCHANGED disk /\ Tail(calls) = <<c, d>>
    BY <1>5, TupleTails, ReadMade
  <2>2. Handles(k)'
    BY <1>3, <2>1, NothingWritten DEF Handles
  <2>3. FilesGoOn
    BY <1>3, <2>1, NothingSeen DEF FilesGoOn
  <2>. QED  BY <1>1, <1>3, <1>5, <2>1, <2>2, <2>3, NothingWritten DEF Removing
<1>6. CASE calls = <<c, d>> /\ Attached(k) /\ Detached(k, s, blocks)
  <2>1. disk' = [disk EXCEPT ![D1] = DirectoryBlock(dir, D1)] /\ Tail(calls) = <<d>>
    BY <1>6, TupleTails, WriteMade
  <2>2. /\ AgreesBut(dir, k)' /\ Attached(k)' /\ Detached(k, s, blocks)' /\ Handles(k)'
        /\ Written(dir, k, D1)'
        /\ Directory'[k].inUse = (IF FlagsAt[k] = D1 THEN dir[k].inUse ELSE Directory[k].inUse)
        /\ Directory'[k].name = (IF NamesAt[k] = D1 THEN dir[k].name ELSE Directory[k].name)
    BY <1>3, <1>6, <1>30, <2>1, DirectoryGoesOn
  <2>3. k \in InUse' => Directory'[k].name = operation.name
    BY <1>3, <1>30, <2>2 DEF InUse
  <2>4. Others(k)' = Others(k) /\ \A e \in Others(k) : Directory'[e] = Directory[e]
    BY <1>3, <1>6, <1>30, <2>1, DirectoryGoesOn
  <2>5. FilesGoOn
    <3>1. k \in InUse' => k \in InUse
      BY <1>30, <2>2 DEF InUse
    <3>2. blocks \in Blocks /\ disk'[MapBlock] = disk[MapBlock]
      BY <1>3, <1>6, <1>30, <2>1, DirectoryGoesOn DEF Detached
    <3>. QED  BY <1>3, <1>6, <2>1, <2>2, <2>3, <2>4, <3>1, <3>2, EntrySeen
  <2>. QED  BY <1>1, <1>3, <2>1, <2>2, <2>3, <2>4, <2>5 DEF Removing
<1>7. CASE /\ calls = <<d>> /\ Written(dir, k, D1)
           /\ Attached(k) /\ Detached(k, s, blocks)
  <2>1. disk' = [disk EXCEPT ![D2] = DirectoryBlock(dir, D2)] /\ Tail(calls) = <<>>
    BY <1>7, TupleTails, WriteMade
  <2>2. /\ Attached(k)' /\ Handles(k)' /\ Written(dir, k, D1)' /\ Written(dir, k, D2)'
    BY <1>3, <1>7, <1>30, <2>1, DirectoryGoesOn
  <2>3. k \notin InUse'
    BY <1>30, <2>2, SystemSectors DEF Written, InUse
  <2>4. Attached(0)' /\ Handles(0)'
    <3>1. Others(k)' = Others(0)'
      BY <2>3, FileSystemAssumption DEF Others, InUse, Entries
    <3>. QED  BY <2>2, <3>1 DEF Attached, Handles
  <2>5. FilesGoOn
    <3>1. disk'[MapBlock] = disk[MapBlock] /\ Detached(k, s, blocks)'
      BY <1>3, <1>7, <1>30, <2>1, DirectoryGoesOn
    <3>3. blocks \in Blocks
      BY <1>7 DEF Detached
    <3>2. Others(k)' = Others(k) /\ \A e \in Others(k) : Directory'[e] = Directory[e]
      BY <1>3, <1>7, <1>30, <2>1, DirectoryGoesOn
    <3>. QED  BY <1>3, <1>7, <2>1, <2>2, <2>3, <3>1, <3>2, <3>3, EntrySeen
  <2>. QED  BY <1>3, <2>1, <2>4, <2>5 DEF AllDone
<1>8. \/ /\ calls = <<a, b, c, d>> /\ k \in InUse /\ Directory[k].sector = s
         /\ blocks = BlocksOf(k) /\ Attached(0)
      \/ calls = <<b, c, d>> /\ Attached(k) /\ Detached(k, s, blocks)
      \/ calls = <<c, d>> /\ Attached(k) /\ Detached(k, s, blocks)
      \/ calls = <<d>> /\ Written(dir, k, D1) /\ Attached(k) /\ Detached(k, s, blocks)
  BY <1>1 DEF Removing
<1>. QED  BY <1>4, <1>5, <1>6, <1>7, <1>8

LEMMA NextCallMade ==
  ASSUME disk = [x \in Sectors |-> disk[x]], \A x \in Sectors \ System : disk[x] \in Data,
         NEW calls, calls # <<>>, InProgressOrNot(calls), Made(Head(calls))
  PROVE  InProgressOrNot(Tail(calls))' /\ FilesGoOn
<1>1. CASE Looking(calls)
  <2>1. UNCHANGED disk /\ UNCHANGED operation
    BY <1>1, ReadMade, TupleTails DEF Looking, OnlyReads
  <2>. QED  BY <1>1, <2>1, LookingGoesOn, NothingSeen DEF InProgressOrNot, FilesGoOn
<1>2. CASE Writing(calls)
  BY <1>2, WritingEnds DEF InProgressOrNot
<1>3. ASSUME NEW k \in Entries, NEW dir, NEW s \in Sectors, NEW blocks \in Blocks,
             Creating(calls, k, dir, s, blocks)
      PROVE  InProgressOrNot(Tail(calls))' /\ FilesGoOn
  <2>1. (Creating(Tail(calls), k, dir, s, blocks)' \/ AllDone(Tail(calls))') /\ FilesGoOn
    BY <1>3, CreatingGoesOn
  <2>. QED  BY <2>1 DEF InProgressOrNot
<1>4. ASSUME NEW k \in Entries, NEW dir, NEW s \in Sectors, NEW blocks \in Blocks,
             Removing(calls, k, dir, s, blocks)
      PROVE  InProgressOrNot(Tail(calls))' /\ FilesGoOn
  <2>1. (Removing(Tail(calls), k, dir, s, blocks)' \/ AllDone(Tail(calls))') /\ FilesGoOn
    BY <1>4, RemovingGoesOn
  <2>. QED  BY <2>1 DEF InProgressOrNot
<1>. QED  BY <1>1, <1>2, <1>3, <1>4 DEF InProgressOrNot, AtRest, AllDone

\* The calls are of sectors of the disk, and put data where files have theirs.
GoodCall(mine) ==
  /\ mine.sector \in Sectors
  /\ mine.op = "write" /\ mine.sector \notin System => mine.data \in Data

GoodCalls(calls) ==
  \E a, b, c, d, e :
    /\ GoodCall(a) /\ GoodCall(b) /\ GoodCall(c) /\ GoodCall(d) /\ GoodCall(e)
    /\ calls \in {<<>>, <<e>>, <<d, e>>, <<c, d, e>>, <<b, c, d, e>>, <<a, b, c, d, e>>}

LEMMA GoodSectors ==
  ASSUME NEW calls, GoodCalls(calls)
  PROVE  /\ calls # <<>> => GoodCall(Head(calls)) /\ GoodCalls(Tail(calls))
         /\ \A i \in DOMAIN calls : calls[i].sector \in Sectors
<1>1. PICK a, b, c, d, e :
        /\ GoodCall(a) /\ GoodCall(b) /\ GoodCall(c) /\ GoodCall(d) /\ GoodCall(e)
        /\ calls \in {<<>>, <<e>>, <<d, e>>, <<c, d, e>>, <<b, c, d, e>>, <<a, b, c, d, e>>}
  BY DEF GoodCalls
<1>2. calls # <<>> => GoodCall(Head(calls)) /\ GoodCalls(Tail(calls))
  <2>1. CASE calls = <<e>>
    BY <1>1, <2>1, TupleTails DEF GoodCalls
  <2>2. CASE calls = <<d, e>>
    BY <1>1, <2>2, TupleTails DEF GoodCalls
  <2>3. CASE calls = <<c, d, e>>
    BY <1>1, <2>3, TupleTails DEF GoodCalls
  <2>4. CASE calls = <<b, c, d, e>>
    BY <1>1, <2>4, TupleTails DEF GoodCalls
  <2>5. CASE calls = <<a, b, c, d, e>>
    BY <1>1, <2>5, TupleTails DEF GoodCalls
  <2>. QED  BY <1>1, <2>1, <2>2, <2>3, <2>4, <2>5
<1>3. \A i \in DOMAIN calls : calls[i] \in {a, b, c, d, e}
  BY <1>1
<1>. QED  BY <1>1, <1>2, <1>3 DEF GoodCall

LEMMA CallsAreGood ==
  ASSUME NEW calls, InProgressOrNot(calls)
  PROVE  GoodCalls(calls)
<1>1. /\ \A x \in Sectors : GoodCall(Reads(x))
      /\ \A x \in System : \A y : GoodCall(Writes(x, y))
      /\ \A x \in Sectors, y \in Data : GoodCall(Writes(x, y))
  BY SystemSectors DEF GoodCall, Reads, Writes
<1>2. D1 \in System /\ D2 \in System /\ MapBlock \in System /\ GoodCall(Reads(MapBlock))
  BY <1>1, SystemSectors
<1>3. CASE calls = <<>>
  BY <1>2, <1>3 DEF GoodCalls
<1>4. CASE Looking(calls)
  <2>1. CASE \E a \in Sectors : calls = <<Reads(a)>>
    BY <1>1, <2>1 DEF GoodCalls
  <2>2. CASE \E a, b \in Sectors : calls = <<Reads(a), Reads(b)>>
    BY <1>1, <2>2 DEF GoodCalls
  <2>. QED  BY <1>3, <1>4, <2>1, <2>2 DEF Looking, OnlyReads
<1>5. CASE Writing(calls)
  <2>1. PICK i \in DOMAIN handle[operation.name], block \in Contents :
          calls = <<Writes(handle[operation.name][i], block)>>
    BY <1>5 DEF Writing
  <2>2. handle[operation.name][i] \in Sectors
    BY <1>5, OpenBlock DEF Writing
  <2>. QED  BY <1>1, <2>1, <2>2 DEF GoodCalls, Data
<1>6. ASSUME NEW k \in Entries, NEW dir, NEW s \in Sectors, NEW blocks \in Blocks,
             Creating(calls, k, dir, s, blocks)
      PROVE  GoodCalls(calls)
  <2> DEFINE a == Writes(s, Header(blocks))
             b == Reads(D2)
             c == Writes(D1, DirectoryBlock(dir, D1))
             d == Writes(D2, DirectoryBlock(dir, D2))
             e == Writes(MapBlock, disk[MapBlock] \cup {s} \cup Range(blocks))
  <2>1. GoodCall(a) /\ GoodCall(b) /\ GoodCall(c) /\ GoodCall(d) /\ GoodCall(e)
    BY <1>1, <1>2, SystemSectors DEF Data
  <2>2. CreateCalls(dir, s, blocks) = <<a, b, c, d, e>>
    BY DEF CreateCalls
  <2>3. calls \in {<<>>, <<e>>, <<d, e>>, <<c, d, e>>, <<b, c, d, e>>, <<a, b, c, d, e>>}
    BY <1>6, <2>2 DEF Creating
  <2>. HIDE DEF a, b, c, d, e
  <2>. QED  BY <2>1, <2>3 DEF GoodCalls
<1>7. ASSUME NEW k \in Entries, NEW dir, NEW s \in Sectors, NEW blocks \in Blocks,
             Removing(calls, k, dir, s, blocks)
      PROVE  GoodCalls(calls)
  <2> DEFINE b == Writes(MapBlock, disk[MapBlock] \ (Range(blocks) \cup {s}))
             c == Reads(D2)
             d == Writes(D1, DirectoryBlock(dir, D1))
             e == Writes(D2, DirectoryBlock(dir, D2))
  <2>1. GoodCall(b) /\ GoodCall(c) /\ GoodCall(d) /\ GoodCall(e)
    BY <1>1, <1>2, SystemSectors
  <2>2. RemoveCalls(dir, s, blocks) = <<b, c, d, e>>
    BY DEF RemoveCalls
  <2>3. calls \in {<<>>, <<e>>, <<d, e>>, <<c, d, e>>, <<b, c, d, e>>}
    BY <1>7, <2>2 DEF Removing
  <2>. HIDE DEF b, c, d, e
  <2>. QED  BY <2>1, <2>3 DEF GoodCalls
<1>. QED  BY <1>3, <1>4, <1>5, <1>6, <1>7 DEF InProgressOrNot, AtRest, AllDone

-----------------------------------------------------------------------------
(***************************************************************************)
(* Every step keeps the invariant.                                         *)
(***************************************************************************)

\* A thread goes on in its call, or makes one, and the disk is not written.
LEMMA StillRemaining ==
  ASSUME FileInv, DiskInv', active' \in BOOLEAN, UNCHANGED <<disk, operationVars, handle>>,
         NEW p \in Threads, NEW there, stage' = [stage EXCEPT ![p] = there],
         stage[p] \in {"lock", "request"} <=> there \in {"lock", "request"},
         NEW mine, call' = [call EXCEPT ![p] = mine],
         stage[p] \in {"lock", "request"} => mine = call[p]
  PROVE  FileInv'
<1>1. /\ call' = [t \in Threads |-> call'[t]] /\ disk' = [s \in Sectors |-> disk'[s]]
      /\ handle' = [name \in Names |-> handle'[name]]
      /\ \A s \in Sectors \ System : disk'[s] \in Data
      /\ UNCHANGED <<disk, operation, phase, handle, todo>>
  BY DEF FileInv, operationVars
<1>2. \A t \in Threads : stage'[t] \in {"lock", "request"} <=> stage[t] \in {"lock", "request"}
  BY DEF FileInv, DiskInv
<1>3. \A t \in Threads : stage[t] \in {"lock", "request"} => call'[t] = call[t]
  BY DEF FileInv
<1>4. ReadersRead'
  BY <1>2, <1>3 DEF FileInv, ReadersRead
<1>5. PICK calls : Remaining(calls) /\ InProgressOrNot(calls)
  BY DEF FileInv
<1>6. Remaining(calls)'
  BY <1>1, <1>2, <1>3, <1>5, KernelAssumption DEF Remaining
<1>7. InProgressOrNot(calls)'
  BY <1>1, <1>5, NothingHappens
<1>. QED  BY <1>1, <1>4, <1>6, <1>7 DEF FileInv

\* The kernel does something by itself.
LEMMA StillTheSame ==
  ASSUME FileInv, DiskInv', active' \in BOOLEAN, UNCHANGED <<callVars, disk, operationVars, handle>>
  PROVE  FileInv'
<1>1. /\ stage' = [stage EXCEPT ![Main] = stage[Main]] /\ call' = [call EXCEPT ![Main] = call[Main]]
  BY DEF FileInv, DiskInv, callVars
<1>. QED  BY <1>1, StillRemaining, KernelAssumption

LEMMA RequestKeeps ==
  ASSUME FileInv, DiskInv', MakeRequest, UNCHANGED <<operationVars, handle>>
  PROVE  FileInv'
<1> DEFINE p == currentThread
<1>1. /\ p \in Threads /\ stage[p] = "request" /\ stage' = [stage EXCEPT ![p] = "await"]
      /\ UNCHANGED call /\ active' \in BOOLEAN
      /\ IF call[p].op = "write" THEN disk' = [disk EXCEPT ![call[p].sector] = call[p].data]
         ELSE UNCHANGED disk
      /\ UNCHANGED <<operation, phase, handle, todo>>
  BY DEF MakeRequest, GoesTo, Is, FileInv, DiskInv, KernelTypes, operationVars
<1>2. PICK calls : Remaining(calls) /\ InProgressOrNot(calls)
  BY DEF FileInv
<1>3. ReadersRead'
  BY <1>1 DEF FileInv, DiskInv, ReadersRead
<1>4. CASE p # Main
  <2>1. UNCHANGED disk
    BY <1>1, <1>4 DEF FileInv, ReadersRead
  <2>2. Remaining(calls)'
    BY <1>1, <1>2, <1>4, KernelAssumption DEF Remaining, FileInv, DiskInv
  <2>3. InProgressOrNot(calls)'
    BY <1>1, <1>2, <2>1, NothingHappens
  <2>. QED  BY <1>1, <1>3, <2>1, <2>2, <2>3 DEF FileInv
<1>5. CASE p = Main
  <2>1. calls # <<>> /\ call[p] = Head(calls) /\ todo = Tail(calls)
    BY <1>1, <1>2, <1>5 DEF Remaining
  <2>2. Made(Head(calls))
    BY <1>1, <2>1 DEF Made
  <2>3. InProgressOrNot(Tail(calls))'
    BY <1>2, <2>1, <2>2, NextCallMade DEF FileInv
  <2>4. Remaining(Tail(calls))'
    BY <1>1, <1>5, <2>1 DEF Remaining, FileInv, DiskInv
  <2>5. GoodCall(call[p])
    BY <1>2, <2>1, CallsAreGood, GoodSectors
  <2>6. /\ disk' = [s \in Sectors |-> disk'[s]]
        /\ \A s \in Sectors \ System : disk'[s] \in Data
    <3>1. CASE call[p].op = "write"
      <4>1. disk' = [disk EXCEPT ![call[p].sector] = call[p].data]
        BY <1>1, <3>1
      <4>. QED  BY <2>5, <3>1, <4>1 DEF GoodCall, FileInv
    <3>2. CASE call[p].op # "write"
      BY <1>1, <3>2 DEF FileInv
    <3>. QED  BY <3>1, <3>2
  <2>. QED  BY <1>1, <1>3, <2>3, <2>4, <2>6 DEF FileInv
<1>. QED  BY <1>4, <1>5

LEMMA DriverKeeps ==
  ASSUME FileInv, DriverNext, UNCHANGED <<operationVars, handle>>
  PROVE  FileInv'
<1> DEFINE p == currentThread
<1>1. DiskInv' /\ p \in Threads
  BY DriverInvStep DEF FileInv, DiskInv, KernelTypes
<1>2. CASE GetDisk \/ AwaitRequest
  <2>1. /\ stage[p] \in {"lock", "await"}
        /\ \E there \in Stages : /\ stage' = [stage EXCEPT ![p] = there]
                                 /\ stage[p] = "lock" <=> there \in {"lock", "request"}
        /\ call' = [call EXCEPT ![p] = call[p]] /\ UNCHANGED <<disk, active>>
    BY <1>1, <1>2 DEF GetDisk, AwaitRequest, Is, GoesTo, diskVars, FileInv, DiskInv, Stages, OwnerStages
  <2>. QED  BY <1>1, <2>1, StillRemaining DEF FileInv
<1>3. CASE MakeRequest
  BY <1>1, <1>3, RequestKeeps
<1>4. CASE ReleaseDisk
  <2>1. /\ stage[p] = "release" /\ stage' = [stage EXCEPT ![p] = "user"]
        /\ call' = [call EXCEPT ![p] = NoCall] /\ UNCHANGED <<disk, active>>
    BY <1>4 DEF ReleaseDisk, Is
  <2>. QED  BY <1>1, <2>1, StillRemaining DEF FileInv
<1>5. CASE RequestDone
  BY <1>1, <1>5, StillTheSame DEF RequestDone
<1>6. CASE Preempt \/ KernelStep
  BY <1>1, <1>6, StillTheSame DEF Preempt, KernelStep, FileInv, diskVars
<1>. QED  BY <1>2, <1>3, <1>4, <1>5, <1>6 DEF DriverNext, DiskStep

\* Main goes on to other calls, without one.
LEMMA MainGoesOn ==
  ASSUME FileInv, UNCHANGED synchVars, stage[Main] = "user",
         handle' = [name \in Names |-> handle'[name]],
         NEW calls, todo' = calls, InProgressOrNot(calls)'
  PROVE  FileInv'
<1>1. UNCHANGED <<stage, call, disk, active>>
  BY DEF synchVars, callVars, diskVars
<1>2. DiskInv'
  BY DiskStutters DEF FileInv
<1>3. Remaining(calls)'
  BY <1>1 DEF Remaining
<1>4. ReadersRead'
  BY <1>1 DEF FileInv, ReadersRead
<1>. QED  BY <1>1, <1>2, <1>3, <1>4 DEF FileInv

\* What Main knows between its calls.
LEMMA MainKnows ==
  ASSUME FileInv, stage[Main] = "user"
  PROVE  InProgressOrNot(todo)
BY DEF FileInv, Remaining

LEMMA MainRests ==
  ASSUME FileInv, MainRuns, operation = None
  PROVE  todo = <<>> /\ AtRest(todo) /\ stage[Main] = "user"
<1>1. stage[Main] = "user" /\ operation.kind = "none"
  BY DEF MainRuns, Is, None
<1>2. InProgressOrNot(todo)
  BY <1>1, MainKnows
<1>. QED  BY <1>1, <1>2 DEF InProgressOrNot, AtRest, Looking, Writing, AllDone, Creating, Removing

LEMMA MainHas ==
  ASSUME FileInv, NEW kind, NEW here, Has(kind, here)
  PROVE  /\ stage[Main] = "user" /\ todo = <<>> /\ operation.kind = kind /\ phase = here
         /\ kind \in {"create", "open", "remove"} /\ here \in {"find", "decide"} => Looking(todo)
         /\ here = "flush" => AllDone(todo)
<1>1. stage[Main] = "user" /\ todo = <<>> /\ operation.kind = kind /\ phase = here
  BY DEF Has, MainRuns, Is
<1>2. InProgressOrNot(todo)
  BY <1>1, MainKnows
<1>3. \A k, dir, s, blocks : ~Creating(todo, k, dir, s, blocks)
  <2> SUFFICES ASSUME NEW k, NEW dir, NEW s, NEW blocks, Creating(<<>>, k, dir, s, blocks)
               PROVE  FALSE
    BY <1>1
  <2>. QED  BY TupleTails DEF Creating, CreateCalls
<1>4. \A k, dir, s, blocks : ~Removing(todo, k, dir, s, blocks)
  <2> SUFFICES ASSUME NEW k, NEW dir, NEW s, NEW blocks, Removing(<<>>, k, dir, s, blocks)
               PROVE  FALSE
    BY <1>1
  <2>. QED  BY TupleTails DEF Removing, RemoveCalls
<1>5. ~Writing(todo)
  BY <1>1, TupleTails DEF Writing
<1>6. AtRest(todo) \/ Looking(todo) \/ AllDone(todo)
  BY <1>2, <1>3, <1>4, <1>5 DEF InProgressOrNot
<1>. QED  BY <1>1, <1>6 DEF AtRest, Looking, AllDone, None

\* An operation that ends leaves things as they are.
LEMMA EndedRests ==
  ASSUME FileInv, stage[Main] = "user", Ended, UNCHANGED handle, todo = <<>>,
         Attached(0), Handles(0)
  PROVE  FileInv'
<1>1. UNCHANGED synchVars /\ UNCHANGED disk /\ todo' = <<>> /\ operation' = None /\ phase' = "idle"
  BY DEF Ended, synchVars, diskVars
<1>2. Attached(0)' /\ Handles(0)'
  BY <1>1, NothingWritten DEF Handles
<1>3. InProgressOrNot(<<>>)'
  BY <1>1, <1>2 DEF AtRest, InProgressOrNot
<1>4. handle' = [name \in Names |-> handle'[name]]
  BY DEF FileInv
<1>. QED  BY <1>1, <1>3, <1>4, MainGoesOn

LEMMA ReadsAreReads ==
  /\ ReadsDirectory = <<Reads(D1), Reads(D2)>> /\ OnlyReads(ReadsDirectory)
  /\ \A x \in Sectors : OnlyReads(<<Reads(x)>>) /\ OnlyReads(<<Reads(x), Reads(MapBlock)>>)
  /\ OnlyReads(<<Reads(MapBlock)>>)
BY SystemSectors DEF ReadsDirectory, OnlyReads, D1, D2

LEMMA BeginKeeps ==
  ASSUME FileInv, BeginOperation  PROVE FileInv'
<1>1. todo = <<>> /\ AtRest(todo) /\ stage[Main] = "user"
  BY MainRests DEF BeginOperation
<1>2. PICK calls : calls = todo'
  OBVIOUS
<1>3. PICK name \in Names :
        \/ \E size \in 0 .. MaxSize : Begins("create", name, size, ReadsDirectory, "find")
        \/ handle[name] = NotOpen /\ Begins("open", name, 0, ReadsDirectory, "find")
        \/ handle[name] = NotOpen /\ Begins("remove", name, 0, ReadsDirectory, "find")
        \/ /\ handle[name] # NotOpen
           /\ \E i \in DOMAIN handle[name], block \in Contents :
                Begins("write", name, 0, <<Writes(handle[name][i], block)>>, "flush")
  BY DEF BeginOperation
<1>4. UNCHANGED synchVars /\ UNCHANGED <<disk, handle>>
  BY <1>3 DEF Begins, synchVars, diskVars
<1>5. Attached(0)' /\ Handles(0)'
  BY <1>1, <1>4, NothingWritten DEF AtRest, Handles
<1>6. 0 \in 0 .. MaxSize
  BY FileSystemAssumption
<1>7. InProgressOrNot(calls)'
  <2>1. CASE \E size \in 0 .. MaxSize : Begins("create", name, size, ReadsDirectory, "find")
    <3>1. Looking(calls)'
      BY <1>2, <1>5, <2>1, ReadsAreReads DEF Begins, Looking, OnlyReads
    <3>. QED  BY <3>1 DEF InProgressOrNot
  <2>2. CASE handle[name] = NotOpen /\ Begins("open", name, 0, ReadsDirectory, "find")
    <3>1. Looking(calls)'
      BY <1>2, <1>4, <1>5, <1>6, <2>2, ReadsAreReads DEF Begins, Looking, OnlyReads
    <3>. QED  BY <3>1 DEF InProgressOrNot
  <2>3. CASE handle[name] = NotOpen /\ Begins("remove", name, 0, ReadsDirectory, "find")
    <3>1. Looking(calls)'
      BY <1>2, <1>4, <1>5, <1>6, <2>3, ReadsAreReads DEF Begins, Looking, OnlyReads
    <3>. QED  BY <3>1 DEF InProgressOrNot
  <2>4. CASE /\ handle[name] # NotOpen
             /\ \E i \in DOMAIN handle[name], block \in Contents :
                  Begins("write", name, 0, <<Writes(handle[name][i], block)>>, "flush")
    <3>1. Writing(calls)'
      BY <1>2, <1>4, <1>5, <2>4 DEF Begins, Writing, Writes
    <3>. QED  BY <3>1 DEF InProgressOrNot
  <2>. QED  BY <1>3, <2>1, <2>2, <2>3, <2>4
<1>8. handle' = [n \in Names |-> handle'[n]]
  BY <1>4 DEF FileInv
<1>. QED  BY <1>1, <1>2, <1>4, <1>7, <1>8, MainGoesOn

LEMMA CloseKeeps ==
  ASSUME FileInv, Close  PROVE FileInv'
<1>1. todo = <<>> /\ AtRest(todo) /\ stage[Main] = "user"
  BY MainRests DEF Close
<1>2. UNCHANGED synchVars /\ UNCHANGED <<disk, operation, phase, todo>>
  BY DEF Close, operationVars, synchVars, diskVars
<1>3. PICK name \in Names : handle' = [handle EXCEPT ![name] = NotOpen]
  BY DEF Close
<1>4. handle' = [n \in Names |-> handle'[n]] /\ \A n \in Names : handle'[n] # NotOpen => handle'[n] = handle[n]
  BY <1>3 DEF FileInv
<1>5. Attached(0)' /\ Handles(0)'
  BY <1>1, <1>2, <1>4, NothingWritten DEF AtRest, Handles
<1>6. InProgressOrNot(<<>>)'
  BY <1>1, <1>2, <1>5 DEF AtRest, InProgressOrNot
<1>. QED  BY <1>1, <1>2, <1>4, <1>6, MainGoesOn

\* The entry that Directory::Find finds.
LEMMA FoundEntry ==
  ASSUME Attached(0), NEW name, FindIndex(name) # {}
  PROVE  LET k == Min(FindIndex(name)) IN
         /\ k \in InUse /\ k \in Others(0) /\ Directory[k].name = name /\ Find(name) = Directory[k].sector
         /\ Find(name) \in Sectors \ System
         /\ disk[Find(name)].dataSectors = BlocksOf(k)
<1> DEFINE k == Min(FindIndex(name))
<1>1. FindIndex(name) \in SUBSET Nat
  BY FileSystemAssumption DEF FindIndex, Entries
<1>2. k \in FindIndex(name)
  BY <1>1, LeastIsThere
<1>3. k \in InUse /\ k \in Others(0) /\ Directory[k].name = name
  BY <1>2, FileSystemAssumption DEF FindIndex, InUse, Others, Entries
<1>4. Find(name) = Directory[k].sector
  BY DEF Find
<1>. QED  BY <1>3, <1>4 DEF Attached, BlocksOf

LEMMA LookUpKeeps ==
  ASSUME FileInv, LookUp  PROVE FileInv'
<1> DEFINE name == operation.name
<1>0. PICK calls : calls = todo'
  OBVIOUS
<1>1. stage[Main] = "user" /\ todo = <<>> /\ Looking(todo)
  BY MainHas DEF LookUp
<1>2. CASE Ended /\ UNCHANGED handle
  BY <1>1, <1>2, EndedRests DEF Looking
<1>3. CASE /\ GoesOn(todo', "decide") /\ OnlyReads(todo')
           /\ operation.kind = "create" <=> FindIndex(name) = {}
  <2>1. UNCHANGED synchVars /\ UNCHANGED <<disk, operation, handle>> /\ phase' = "decide"
    BY <1>3 DEF GoesOn, synchVars, diskVars
  <2>2. Attached(0)' /\ Handles(0)'
    BY <1>1, <2>1, NothingWritten DEF Looking, Handles
  <2>3. Looking(calls)'
    BY <1>0, <1>1, <1>3, <2>1, <2>2, NothingWritten DEF Looking, OnlyReads
  <2>4. InProgressOrNot(calls)'
    BY <2>3 DEF InProgressOrNot
  <2>5. handle' = [n \in Names |-> handle'[n]]
    BY <2>1 DEF FileInv
  <2>. QED  BY <1>0, <1>1, <2>1, <2>4, <2>5, MainGoesOn
<1>4. CASE Has("create", "find")
  BY <1>2, <1>3, <1>4, ReadsAreReads DEF LookUp, Has, GoesOn
<1>5. CASE Has("open", "find") \/ Has("remove", "find")
  <2>1. FindIndex(name) # {} => Find(name) \in Sectors
    BY <1>1, FoundEntry DEF Looking
  <2>2. operation.kind # "create"
    BY <1>5 DEF Has
  <2>. QED  BY <1>2, <1>3, <1>5, <2>1, <2>2, ReadsAreReads DEF LookUp, Has, GoesOn
<1>. QED  BY <1>4, <1>5 DEF LookUp

\* What FileHeader::Allocate takes: sectors that are free, each of them once.
LEMMA Allocated ==
  ASSUME Attached(0), FreeSectors # <<>>, NEW size \in 0 .. MaxSize, ~(Len(FreeSectors) - 1 < size)
  PROVE  LET s == Head(FreeSectors)
             blocks == SubSeq(FreeSectors, 2, size + 1) IN
         /\ s \in Free /\ s \in Sectors /\ blocks \in Blocks
         /\ Range(blocks) \subseteq Free /\ s \notin Range(blocks) /\ IsInjective(blocks)
<1> DEFINE s == Head(FreeSectors)
           blocks == SubSeq(FreeSectors, 2, size + 1)
<1>1. FreeSectors \in Seq(Free) /\ IsInjective(FreeSectors)
  BY FindIsFresh
<1>2. /\ Len(FreeSectors) \in Nat /\ DOMAIN FreeSectors = 1 .. Len(FreeSectors)
      /\ size \in Nat /\ size + 1 <= Len(FreeSectors) /\ size <= MaxSize /\ MaxSize \in Nat
  BY <1>1, LenProperties, FileSystemAssumption
<1>3. s = FreeSectors[1] /\ s \in Free
  BY <1>1, <1>2
<1>4. \A i \in 2 .. size + 1 : FreeSectors[i] \in Free
  BY <1>1, <1>2
<1>5. /\ blocks \in Seq(Free) /\ Len(blocks) = size
      /\ \A i \in 1 .. size : blocks[i] = FreeSectors[i + 1]
  <2>1. /\ blocks \in Seq(Free)
        /\ Len(blocks) = IF 2 <= size + 1 THEN (size + 1) - 2 + 1 ELSE 0
        /\ \A i \in 1 .. (size + 1) - 2 + 1 : blocks[i] = FreeSectors[2 + i - 1]
    <3>1. 2 \in Int /\ size + 1 \in Int
      BY <1>2
    <3>. QED  BY <1>4, <3>1, SubSeqProperties
  <2>2. (size + 1) - 2 + 1 = size /\ \A i \in 1 .. size : 2 + i - 1 = i + 1
    BY <1>2
  <2>3. Len(blocks) = size
    BY <1>2, <2>1
  <2>. QED  BY <2>1, <2>2, <2>3
<1>. HIDE DEF blocks, s
<1>6. blocks \in [1 .. size -> Free] /\ DOMAIN blocks = 1 .. size
  BY <1>5, LenProperties
<1>7. Free \subseteq Sectors \ System
  BY DEF Free, Attached
<1>8. blocks \in Blocks
  <2>1. blocks \in [1 .. size -> Sectors \ System]
    BY <1>6, <1>7
  <2>. QED  BY <2>1 DEF Blocks, SeqOf
<1>9. Range(blocks) \subseteq Free
  BY <1>6 DEF Range
<1>10. s \notin Range(blocks)
  <2> SUFFICES ASSUME NEW i \in 1 .. size, blocks[i] = s  PROVE FALSE
    BY <1>6 DEF Range
  <2>1. FreeSectors[i + 1] = FreeSectors[1] /\ i + 1 \in DOMAIN FreeSectors /\ 1 \in DOMAIN FreeSectors
    BY <1>2, <1>3, <1>5
  <2>. QED  BY <1>1, <1>2, <2>1 DEF IsInjective
<1>11. IsInjective(blocks)
  <2> SUFFICES ASSUME NEW i \in 1 .. size, NEW j \in 1 .. size, blocks[i] = blocks[j]  PROVE i = j
    BY <1>6 DEF IsInjective
  <2>1. /\ FreeSectors[i + 1] = FreeSectors[j + 1]
        /\ i + 1 \in DOMAIN FreeSectors /\ j + 1 \in DOMAIN FreeSectors
    BY <1>2, <1>5
  <2>2. i + 1 = j + 1
    BY <1>1, <2>1 DEF IsInjective
  <2>. QED  BY <2>2
<1>. QED  BY <1>3, <1>7, <1>8, <1>9, <1>10, <1>11 DEF s, blocks

LEMMA CreateKeeps ==
  ASSUME FileInv, DecideCreate  PROVE FileInv'
<1> DEFINE name   == operation.name
           free   == FreeSectors
           entry  == {e \in Entries : ~Directory[e].inUse}
           s      == Head(free)
           blocks == SubSeq(free, 2, operation.size + 1)
           k      == Min(entry)
           new    == [inUse |-> TRUE, sector |-> s, name |-> name]
           dir    == [Directory EXCEPT ![k] = new]
<1>1. stage[Main] = "user" /\ todo = <<>> /\ Looking(todo) /\ operation.kind = "create" /\ phase = "decide"
  BY MainHas DEF DecideCreate
<1>2. CASE Ended /\ UNCHANGED handle
  BY <1>1, <1>2, EndedRests DEF Looking
<1>3. CASE ~(free = <<>> \/ entry = {} \/ Len(free) - 1 < operation.size)
  <2>1. /\ todo' = <<Writes(s, Header(blocks))>> \o WritesDirectory(dir)
                     \o <<Writes(MapBlock, disk[MapBlock] \cup {s} \cup Range(blocks))>>
        /\ phase' = "flush" /\ UNCHANGED <<operation, handle>> /\ UNCHANGED synchVars
    BY <1>3 DEF DecideCreate, GoesOn
  <2>2. todo' = CreateCalls(dir, s, blocks)
    BY <2>1, TuplesJoin DEF WritesDirectory, CreateCalls, D1, D2
  <2>3. /\ s \in Free /\ s \in Sectors /\ blocks \in Blocks
        /\ Range(blocks) \subseteq Free /\ s \notin Range(blocks) /\ IsInjective(blocks)
    BY <1>1, <1>3, Allocated DEF Looking
  <2>4. k \in Entries /\ k \notin InUse
    <3>1. entry \in SUBSET Nat
      BY FileSystemAssumption DEF Entries
    <3>2. k \in entry
      BY <1>3, <3>1, LeastIsThere
    <3>. QED  BY <3>2 DEF InUse
  <2>5. dir[k] = new /\ AgreesBut(dir, k)
    BY <2>4 DEF Directory, AgreesBut
  <2>6. \A e \in Others(k) : Directory[e].name # name
    BY <1>1 DEF Looking, FindIndex, Others, InUse
  <2>7. Others(k) = Others(0)
    <3>1. \A j \in Entries \ InUse : Others(j) = Others(0)
      BY FileSystemAssumption DEF Others, InUse, Entries
    <3>. QED  BY <2>4, <3>1
  <2>8. Attached(k) /\ Handles(k) /\ Detached(k, s, blocks)
    BY <1>1, <2>3, <2>4, <2>7 DEF Looking, Attached, Handles, Detached
  <2>9. UNCHANGED disk
    BY <2>1 DEF synchVars, diskVars
  <2>. HIDE DEF s, blocks, k, dir
  <2>10. PICK cs, cb, ck, cd, calls : cs = s /\ cb = blocks /\ ck = k /\ cd = dir /\ calls = todo'
    OBVIOUS
  <2>11. Handles(ck)'
    BY <2>1, <2>8, <2>9, <2>10, NothingWritten DEF Handles
  <2>12. Creating(calls, ck, cd, cs, cb)'
    <3>1. /\ AgreesBut(cd, ck)' /\ Attached(ck)' /\ Detached(ck, cs, cb)' /\ Others(ck)' = Others(ck)
          /\ CreateCalls(cd, cs, cb)' = CreateCalls(cd, cs, cb) /\ UNCHANGED <<Directory, InUse>>
      BY <2>5, <2>8, <2>9, <2>10, NothingWritten
    <3>2. calls = CreateCalls(cd, cs, cb) /\ ck \notin InUse /\ cd[ck] = new
      BY <2>2, <2>4, <2>5, <2>10
    <3>3. \A e \in Others(ck) : Directory[e].name # name
      BY <2>6, <2>10
    <3>4. operation'.kind = "create" /\ operation'.name \in Names /\ phase' = "flush" /\ operation'.name = name
      BY <1>1, <2>1 DEF Looking
    <3>5. cd[ck] = [inUse |-> TRUE, sector |-> cs, name |-> operation'.name]
      BY <2>10, <3>2, <3>4
    <3>. QED  BY <2>11, <3>1, <3>2, <3>3, <3>4, <3>5 DEF Creating
  <2>13. InProgressOrNot(calls)'
    BY <2>3, <2>4, <2>10, <2>12 DEF InProgressOrNot
  <2>14. handle' = [n \in Names |-> handle'[n]]
    BY <2>1 DEF FileInv
  <2>. QED  BY <1>1, <2>1, <2>10, <2>13, <2>14, MainGoesOn
<1>. QED  BY <1>2, <1>3 DEF DecideCreate

LEMMA OpenKeeps ==
  ASSUME FileInv, DecideOpen  PROVE FileInv'
<1> DEFINE name == operation.name
           k    == Min(FindIndex(name))
<1>1. stage[Main] = "user" /\ todo = <<>> /\ Looking(todo) /\ operation.kind = "open" /\ phase = "decide"
  BY MainHas DEF DecideOpen
<1>2. k \in Others(0) /\ Directory[k].name = name /\ disk[Find(name)].dataSectors = BlocksOf(k)
  BY <1>1, FoundEntry DEF Looking
<1>3. /\ handle' = [handle EXCEPT ![name] = BlocksOf(k)]
      /\ UNCHANGED synchVars /\ UNCHANGED disk /\ todo' = <<>> /\ operation' = None /\ phase' = "idle"
  BY <1>1, <1>2 DEF DecideOpen, Ended, synchVars, diskVars
<1>4. /\ handle' = [n \in Names |-> handle'[n]] /\ name \in Names /\ handle'[name] = BlocksOf(k)
      /\ \A n \in Names \ {name} : handle'[n] = handle[n]
  BY <1>1, <1>3 DEF FileInv, Looking
<1>5. Attached(0)' /\ Handles(0)'
  <2>1. \A n \in Names : handle'[n] # NotOpen =>
          \E e \in Others(0) : Directory[e].name = n /\ handle'[n] = BlocksOf(e)
    BY <1>1, <1>2, <1>4 DEF Looking, Handles
  <2>. QED  BY <1>1, <1>3, <2>1, NothingWritten DEF Looking, Handles
<1>6. InProgressOrNot(<<>>)'
  BY <1>3, <1>5 DEF AtRest, InProgressOrNot
<1>. QED  BY <1>1, <1>3, <1>4, <1>6, MainGoesOn

LEMMA RemoveKeeps ==
  ASSUME FileInv, DecideRemove  PROVE FileInv'
<1> DEFINE name   == operation.name
           k      == Min(FindIndex(name))
           s      == Find(name)
           blocks == disk[s].dataSectors
           dir    == [Directory EXCEPT ![k].inUse = FALSE]
<1>1. stage[Main] = "user" /\ todo = <<>> /\ Looking(todo) /\ operation.kind = "remove" /\ phase = "decide"
  BY MainHas DEF DecideRemove
<1>2. /\ k \in InUse /\ k \in Others(0) /\ Directory[k].name = name /\ s = Directory[k].sector
      /\ s \in Sectors /\ blocks = BlocksOf(k)
  BY <1>1, FoundEntry DEF Looking
<1>3. /\ todo' = <<Writes(MapBlock, disk[MapBlock] \ (Range(blocks) \cup {s}))>> \o WritesDirectory(dir)
      /\ phase' = "flush" /\ UNCHANGED <<operation, handle>> /\ UNCHANGED synchVars
  BY DEF DecideRemove, GoesOn
<1>4. todo' = RemoveCalls(dir, s, blocks)
  BY <1>3, TuplesJoin DEF WritesDirectory, RemoveCalls, D1, D2
<1>5. k \in Entries /\ blocks \in Blocks
  BY <1>1, <1>2 DEF Looking, Attached, InUse
<1>6. dir[k] = [inUse |-> FALSE, sector |-> s, name |-> name] /\ AgreesBut(dir, k)
  <2>1. \A j \in Entries : [Directory EXCEPT ![j].inUse = FALSE][j] =
          [inUse |-> FALSE, sector |-> Directory[j].sector, name |-> Directory[j].name]
    BY DEF Directory
  <2>2. dir[k] = [inUse |-> FALSE, sector |-> s, name |-> name]
    BY <1>2, <1>5, <2>1
  <2>3. \A e \in Entries \ {k} : dir[e] = Directory[e]
    BY DEF Directory
  <2>. QED  BY <2>2, <2>3 DEF AgreesBut
<1>7. Handles(k)
  <2> SUFFICES ASSUME NEW n \in Names, handle[n] # NotOpen
               PROVE  \E e \in Others(k) : Directory[e].name = n /\ handle[n] = BlocksOf(e)
    BY DEF Handles
  <2>1. PICK e \in Others(0) : Directory[e].name = n /\ handle[n] = BlocksOf(e)
    BY <1>1 DEF Looking, Handles
  <2>2. n # name
    BY <1>1 DEF Looking
  <2>. QED  BY <1>2, <2>1, <2>2 DEF Others
<1>8. UNCHANGED disk
  BY <1>3 DEF synchVars, diskVars
<1>9. \A e \in Others(k) : Directory[e].name # name
  <2>1. \A e, f \in Others(0) : e # f => Directory[e].name # Directory[f].name
    BY <1>1 DEF Looking, Attached
  <2>2. \A e \in Others(k) : e \in Others(0) /\ e # k
    BY FileSystemAssumption DEF Others, InUse, Entries
  <2>. QED  BY <1>2, <2>1, <2>2
<1>. HIDE DEF s, blocks, k, dir
<1>10. PICK cs, cb, ck, cd, calls : cs = s /\ cb = blocks /\ ck = k /\ cd = dir /\ calls = todo'
  OBVIOUS
<1>11. Handles(ck)'
  BY <1>3, <1>7, <1>8, <1>10, NothingWritten DEF Handles
<1>12. Removing(calls, ck, cd, cs, cb)'
  <2>1. /\ AgreesBut(cd, ck)' /\ Attached(0)' /\ BlocksOf(ck)' = BlocksOf(ck) /\ Others(ck)' = Others(ck)
        /\ RemoveCalls(cd, cs, cb)' = RemoveCalls(cd, cs, cb) /\ UNCHANGED <<Directory, InUse>>
    BY <1>1, <1>6, <1>8, <1>10, NothingWritten DEF Looking
  <2>2. /\ calls = RemoveCalls(cd, cs, cb) /\ ck \in InUse /\ Directory[ck].name = name
        /\ Directory[ck].sector = cs /\ cb = BlocksOf(ck)
        /\ \A e \in Others(ck) : Directory[e].name # name
    BY <1>2, <1>4, <1>9, <1>10
  <2>3. operation'.kind = "remove" /\ operation'.name \in Names /\ phase' = "flush" /\ operation'.name = name
    BY <1>1, <1>3 DEF Looking
  <2>4. cd[ck] = [inUse |-> FALSE, sector |-> cs, name |-> operation'.name]
    BY <1>6, <1>10, <2>3
  <2>. QED  BY <1>11, <2>1, <2>2, <2>3, <2>4 DEF Removing
<1>13. InProgressOrNot(calls)'
  BY <1>2, <1>5, <1>10, <1>12 DEF InProgressOrNot
<1>14. handle' = [n \in Names |-> handle'[n]]
  BY <1>3 DEF FileInv
<1>. QED  BY <1>1, <1>3, <1>10, <1>13, <1>14, MainGoesOn

LEMMA FlushedKeeps ==
  ASSUME FileInv, Flushed  PROVE FileInv'
<1>1. stage[Main] = "user" /\ todo = <<>> /\ AllDone(todo)
  BY MainHas DEF Flushed
<1>. QED  BY <1>1, EndedRests DEF AllDone, Flushed

\* A call is made.
LEMMA CallKeeps ==
  ASSUME FileInv, NextSector \/ ReadBlock  PROVE FileInv'
<1> DEFINE p == currentThread
<1>1. PICK mine : CallSector(mine)
  BY DEF NextSector, ReadBlock
<1>2. DiskInv' /\ p \in Threads
  BY <1>1, CallInv DEF FileInv, DiskInv, KernelTypes
<1>3. /\ stage[p] = "user" /\ stage' = [stage EXCEPT ![p] = "lock"]
      /\ UNCHANGED <<disk, active, handle, operation, phase>>
  BY DEF NextSector, ReadBlock, CallSector, Is, diskVars, operationVars
<1>4. PICK calls : Remaining(calls) /\ InProgressOrNot(calls)
  BY DEF FileInv
<1>5. InProgressOrNot(calls)'
  BY <1>3, <1>4, NothingHappens
<1>6. CASE NextSector
  <2>1. p = Main /\ todo # <<>> /\ call' = [call EXCEPT ![Main] = Head(todo)] /\ todo' = Tail(todo)
    BY <1>6 DEF NextSector, CallSector
  <2>2. todo = calls
    BY <1>3, <1>4, <2>1 DEF Remaining
  <2>3. Remaining(calls)'
    BY <1>2, <1>3, <2>1, <2>2 DEF Remaining, FileInv, DiskInv
  <2>4. ReadersRead'
    BY <1>3, <2>1 DEF ReadersRead, FileInv, DiskInv
  <2>5. call' = [t \in Threads |-> call'[t]]
    BY <2>1 DEF FileInv
  <2>. QED  BY <1>2, <1>3, <1>5, <2>3, <2>4, <2>5 DEF FileInv
<1>7. CASE ReadBlock
  <2>1. p # Main /\ todo' = todo
    BY <1>7 DEF ReadBlock, operationVars
  <2>2. PICK x : call' = [call EXCEPT ![p] = Reads(x)]
    BY <1>7 DEF ReadBlock, CallSector
  <2>3. Remaining(calls)'
    BY <1>2, <1>3, <1>4, <2>1, <2>2, KernelAssumption DEF Remaining, FileInv, DiskInv
  <2>4. ReadersRead'
    BY <1>2, <1>3, <2>2 DEF ReadersRead, FileInv, DiskInv, Reads
  <2>5. call' = [t \in Threads |-> call'[t]]
    BY <2>2 DEF FileInv
  <2>. QED  BY <1>2, <1>3, <1>5, <2>3, <2>4, <2>5 DEF FileInv
<1>. QED  BY <1>6, <1>7

\* There is one entry at most that the map does not agree with, that of the file
\* that is being created or removed.
LEMMA OneIsDetached ==
  ASSUME NEW calls, InProgressOrNot(calls)
  PROVE  \/ Attached(0) /\ Handles(0)
         \/ \E k \in Entries, s \in Sectors, blocks \in Blocks :
              /\ Attached(k) /\ Detached(k, s, blocks) /\ Handles(k)
              /\ operation.kind \in {"create", "remove"} /\ phase = "flush"
              /\ operation.kind = "remove" /\ k \in InUse => Directory[k].name = operation.name
<1>1. CASE AtRest(calls) \/ Looking(calls) \/ Writing(calls) \/ AllDone(calls)
  BY <1>1 DEF AtRest, Looking, Writing, AllDone
<1>2. ASSUME NEW k \in Entries, NEW dir, NEW s \in Sectors, NEW blocks \in Blocks,
             Creating(calls, k, dir, s, blocks) \/ Removing(calls, k, dir, s, blocks)
      PROVE  \/ Attached(0) /\ Handles(0)
             \/ /\ Attached(k) /\ Detached(k, s, blocks) /\ Handles(k)
                /\ operation.kind \in {"create", "remove"} /\ phase = "flush"
                /\ operation.kind = "remove" /\ k \in InUse => Directory[k].name = operation.name
  <2>1. Handles(k) => Handles(0)
    BY DEF Handles, Others, InUse, Entries
  <2>2. CASE Creating(calls, k, dir, s, blocks)
    <3>1. operation.kind = "create" /\ phase = "flush" /\ Attached(k) /\ Detached(k, s, blocks) /\ Handles(k)
      BY <2>2 DEF Creating
    <3>. QED  BY <3>1
  <2>3. CASE Removing(calls, k, dir, s, blocks)
    <3>1. /\ operation.kind = "remove" /\ phase = "flush" /\ Handles(k)
          /\ k \in InUse => Directory[k].name = operation.name
          /\ Attached(0) \/ (Attached(k) /\ Detached(k, s, blocks))
      BY <2>3 DEF Removing
    <3>. QED  BY <2>1, <3>1
  <2>. QED  BY <1>2, <2>2, <2>3
<1>. QED  BY <1>1, <1>2 DEF InProgressOrNot

\* When the map agrees with all entries, nobody is harmed; the one entry that it
\* does not agree with is the one that is.
LEMMA NobodyIsHarmed ==
  ASSUME Attached(0)  PROVE Harmed = {}
<1>1. Others(0) = InUse
  BY FileSystemAssumption DEF Others, InUse, Entries
<1>. QED  BY <1>1 DEF Harmed, Attached, SectorsOf

LEMMA DetachedIsHarmed ==
  ASSUME NEW k \in Entries, NEW s, NEW blocks, Attached(k), Detached(k, s, blocks)
  PROVE  /\ Harmed = InUse \cap {k} /\ InUse \ Harmed = Others(k)
         /\ k \in InUse => SectorsOf(k) = {s} \cup Range(blocks)
         /\ ({s} \cup Range(blocks)) \cap disk[MapBlock] = {}
<1>1. \A e \in Others(k) : Directory[e].sector \in disk[MapBlock]
  BY DEF Attached, SectorsOf
<1>2. k \in InUse => Directory[k].sector = s /\ SectorsOf(k) = {s} \cup Range(blocks)
  BY DEF Detached, SectorsOf, BlocksOf, Header
<1>3. ({s} \cup Range(blocks)) \cap disk[MapBlock] = {}
  BY DEF Detached, Free
<1>4. Harmed = InUse \cap {k}
  BY <1>1, <1>2, <1>3 DEF Harmed, Others
<1>. QED  BY <1>2, <1>3, <1>4 DEF Others

\* The machine starts again on a disk without a harmed file, on which the map
\* agrees with all entries.
LEMMA NobodyHarmedIsDetached ==
  ASSUME FileInv, Harmed = {}  PROVE Attached(0)
<1>1. PICK calls : InProgressOrNot(calls)
  BY DEF FileInv
<1>2. ASSUME NEW k \in Entries, NEW s, NEW blocks, Attached(k), Detached(k, s, blocks)
      PROVE  Attached(0)
  <2>1. InUse = Others(k)
    BY <1>2, DetachedIsHarmed
  <2>2. Others(0) = Others(k)
    BY <2>1, FileSystemAssumption DEF Others, InUse, Entries
  <2>. QED  BY <1>2, <2>2 DEF Attached
<1>. QED  BY <1>1, <1>2, OneIsDetached

LEMMA RebootKeeps ==
  ASSUME FileInv, Reboot  PROVE FileInv'
<1>1. DiskInv' /\ UNCHANGED disk
  BY RestartInv DEF Reboot, Restart
<1>2. /\ stage' = [t \in Threads |-> "user"] /\ active' = FALSE
      /\ call' = [t \in Threads |-> NoCall]
      /\ handle' = [name \in Names |-> NotOpen]
      /\ todo' = <<>> /\ operation' = None /\ phase' = "idle"
  BY DEF Reboot, Restart
<1>3. Attached(0)' /\ Handles(0)'
  BY <1>1, <1>2, NobodyHarmedIsDetached, NothingWritten DEF Reboot, Handles
<1>4. InProgressOrNot(<<>>)'
  BY <1>2, <1>3 DEF AtRest, InProgressOrNot
<1>5. Remaining(<<>>)' /\ ReadersRead'
  BY <1>2, KernelAssumption DEF Remaining, ReadersRead
<1>6. call' = [t \in Threads |-> call'[t]] /\ handle' = [name \in Names |-> handle'[name]]
  BY <1>2
<1>. QED  BY <1>1, <1>2, <1>4, <1>5, <1>6 DEF FileInv

LEMMA FileInvStep ==
  ASSUME FileInv, [FileSystemNext]_fileVars  PROVE FileInv'
<1>1. CASE BeginOperation \/ Close \/ LookUp
  BY <1>1, BeginKeeps, CloseKeeps, LookUpKeeps
<1>2. CASE DecideCreate \/ DecideOpen \/ DecideRemove \/ Flushed
  BY <1>2, CreateKeeps, OpenKeeps, RemoveKeeps, FlushedKeeps
<1>3. CASE NextSector \/ ReadBlock
  BY <1>3, CallKeeps
<1>4. CASE ForkReader \/ UNCHANGED fileVars
  <2>1. DiskInv'
    BY <1>4, FileSystemStep DEF FileInv, FileSystemNext
  <2>. QED  BY <1>4, <2>1, StillTheSame DEF ForkReader, FileInv, fileVars, synchVars, diskVars
<1>5. CASE DriverNext /\ UNCHANGED <<operationVars, handle>>
  BY <1>5, DriverKeeps
<1>6. CASE Reboot
  BY <1>6, RebootKeeps
<1>. QED  BY <1>1, <1>2, <1>3, <1>4, <1>5, <1>6 DEF FileSystemNext, MainStep

LEMMA FileInvStarts == FileSystemInit => FileInv
<1> SUFFICES ASSUME FileSystemInit  PROVE FileInv
  OBVIOUS
<1>1. DiskInv /\ active \in BOOLEAN /\ call = [t \in Threads |-> call[t]]
  BY DiskStarts DEF FileSystemInit, SynchDiskInit
<1>2. disk = Formatted /\ disk = [s \in Sectors |-> disk[s]]
  BY DEF FileSystemInit, Formatted
<1>3. /\ disk[MapBlock] = System
      /\ \A b \in {D1, D2} : disk[b] = DirectoryBlock([e \in Entries |-> EmptyEntry], b)
      /\ \A s \in Sectors \ System : disk[s] = Blank
  BY <1>2, SystemSectors DEF Formatted
<1>4. InUse = {}
  <2> SUFFICES ASSUME NEW e \in Entries  PROVE ~Directory[e].inUse
    BY DEF InUse
  <2>1. disk[FlagsAt[e]] = DirectoryBlock([x \in Entries |-> EmptyEntry], FlagsAt[e])
    BY <1>3, SystemSectors
  <2>2. disk[FlagsAt[e]].flags[e].use = FALSE
    BY <2>1 DEF DirectoryBlock, EmptyEntry
  <2>. QED  BY <2>2 DEF Directory
<1>5. Others(0) = {}
  BY <1>4 DEF Others
<1>6. Attached(0)
  BY <1>3, <1>5 DEF Attached
<1>7. AtRest(<<>>)
  BY <1>6 DEF AtRest, Handles, FileSystemInit
<1>8. Remaining(<<>>)
  BY KernelAssumption DEF Remaining, FileSystemInit, SynchDiskInit
<1>9. ReadersRead
  BY DEF ReadersRead, FileSystemInit, SynchDiskInit
<1>10. handle = [name \in Names |-> handle[name]]
  BY DEF FileSystemInit
<1>. QED  BY <1>1, <1>2, <1>3, <1>7, <1>8, <1>9, <1>10 DEF FileInv, InProgressOrNot, Data

\* What the files and the map are when one entry at most is detached.
LEMMA FilesAndMap ==
  ASSUME NEW calls, InProgressOrNot(calls)
  PROVE  /\ \A e \in InUse :
              /\ BlocksOf(e) \in Blocks /\ disk[Directory[e].sector] = Header(BlocksOf(e))
              /\ SectorsOf(e) \subseteq Sectors \ System
         /\ \A e, f \in InUse : e # f => SectorsOf(e) \cap SectorsOf(f) = {}
         /\ disk[MapBlock] \subseteq System \cup UNION {SectorsOf(e) : e \in InUse}
         /\ \A name \in Names : handle[name] # NotOpen => Range(handle[name]) \subseteq Sectors \ System
<1>1. \A blocks \in Blocks : Range(blocks) \subseteq Sectors \ System
  BY FileSystemAssumption DEF Blocks, SeqOf, Range
<1>2. ASSUME NEW k, Attached(k), Handles(k)
      PROVE  /\ \A e \in Others(k) :
                  /\ BlocksOf(e) \in Blocks /\ disk[Directory[e].sector] = Header(BlocksOf(e))
                  /\ SectorsOf(e) \subseteq Sectors \ System
                  /\ SectorsOf(e) \subseteq disk[MapBlock]
             /\ \A e, f \in Others(k) : e # f => SectorsOf(e) \cap SectorsOf(f) = {}
             /\ disk[MapBlock] \subseteq System \cup UNION {SectorsOf(e) : e \in Others(k)}
             /\ \A name \in Names : handle[name] # NotOpen => Range(handle[name]) \subseteq Sectors \ System
  <2>1. \A e \in Others(k) :
          /\ BlocksOf(e) \in Blocks /\ disk[Directory[e].sector] = Header(BlocksOf(e))
          /\ SectorsOf(e) \subseteq Sectors \ System /\ SectorsOf(e) \subseteq disk[MapBlock]
    BY <1>1, <1>2 DEF Attached, SectorsOf
  <2>2. \A name \in Names : handle[name] # NotOpen => Range(handle[name]) \subseteq Sectors \ System
    BY <1>1, <1>2, <2>1 DEF Handles
  <2>. QED  BY <1>2, <2>1, <2>2 DEF Attached
<1>3. CASE Attached(0) /\ Handles(0)
  <2>1. Others(0) = InUse
    BY FileSystemAssumption DEF Others, InUse, Entries
  <2>. QED  BY <1>2, <1>3, <2>1
<1>4. ASSUME NEW k \in Entries, NEW s \in Sectors, NEW blocks \in Blocks,
             Attached(k), Detached(k, s, blocks), Handles(k)
      PROVE  /\ \A e \in InUse :
                  /\ BlocksOf(e) \in Blocks /\ disk[Directory[e].sector] = Header(BlocksOf(e))
                  /\ SectorsOf(e) \subseteq Sectors \ System
             /\ \A e, f \in InUse : e # f => SectorsOf(e) \cap SectorsOf(f) = {}
             /\ disk[MapBlock] \subseteq System \cup UNION {SectorsOf(e) : e \in InUse}
             /\ \A name \in Names : handle[name] # NotOpen => Range(handle[name]) \subseteq Sectors \ System
  <2>1. InUse \ {k} = Others(k)
    BY DEF Others
  <2>2. k \in InUse =>
          /\ BlocksOf(k) = blocks /\ disk[Directory[k].sector] = Header(BlocksOf(k))
          /\ SectorsOf(k) \subseteq Free
    BY <1>4 DEF Detached, BlocksOf, SectorsOf, Header
  <2>3. Free \subseteq Sectors \ System /\ Free \cap disk[MapBlock] = {}
    BY <1>4 DEF Free, Attached
  <2>. QED  BY <1>2, <1>4, <2>1, <2>2, <2>3
<1>. QED  BY <1>3, <1>4, OneIsDetached

LEMMA FileInvSuffices == FileInv => CrashesAreContained
<1> SUFFICES ASSUME FileInv  PROVE CrashesAreContained
  OBVIOUS
<1>1. PICK calls : Remaining(calls) /\ InProgressOrNot(calls)
  BY DEF FileInv
<1>2. FileTypeOK
  <2>1. stage \in [Threads -> {"user", "lock"} \cup OwnerStages]
    BY DEF FileInv, DiskInv, Stages
  <2>2. active \in BOOLEAN /\ requester \in Threads \cup {NoThread}
    BY DEF FileInv, DiskInv, RequestIsAwaited
  <2>3. /\ operation.kind \in {"none", "create", "open", "remove", "write"}
        /\ phase \in {"idle", "find", "decide", "flush"}
    <3>1. CASE AtRest(calls)
      BY <3>1 DEF AtRest, None
    <3>2. CASE Looking(calls) \/ Writing(calls) \/ AllDone(calls)
      BY <3>2 DEF Looking, Writing, AllDone
    <3>3. ASSUME NEW k, NEW dir, NEW s, NEW blocks,
                 Creating(calls, k, dir, s, blocks) \/ Removing(calls, k, dir, s, blocks)
          PROVE  operation.kind \in {"create", "remove"} /\ phase = "flush"
      BY <3>3 DEF Creating, Removing
    <3>. QED  BY <1>1, <3>1, <3>2, <3>3 DEF InProgressOrNot
  <2>4. \A i \in DOMAIN todo : todo[i].sector \in Sectors
    <3>1. GoodCalls(calls) /\ (calls # <<>> => GoodCalls(Tail(calls)))
      BY <1>1, CallsAreGood, GoodSectors
    <3>2. GoodCalls(todo)
      BY <1>1, <3>1 DEF Remaining
    <3>. QED  BY <3>2, GoodSectors
  <2>5. disk[MapBlock] \subseteq Sectors
    BY <1>1, FilesAndMap, SystemSectors
  <2>. QED  BY <1>1, <2>1, <2>2, <2>3, <2>4, <2>5, FilesAndMap DEF FileTypeOK
<1>3. CrashLeavesFiles
  <2>1. \A blocks \in Blocks : Header(blocks) \notin Contents \cup {Blank}
    <3>1. Blocks \subseteq SeqOf(Sectors, MaxSize)
      BY DEF Blocks, SeqOf
    <3>. QED  BY <3>1, FileSystemAssumption
  <2>. QED  BY <1>1, <2>1, FilesAndMap DEF CrashLeavesFiles
<1>4. CASE Attached(0)
  <2>1. Harmed = {} /\ Others(0) = InUse
    BY <1>4, NobodyIsHarmed, FileSystemAssumption DEF Others, InUse, Entries
  <2>2. CrashHarmsOneFile
    BY <1>4, <2>1 DEF CrashHarmsOneFile, Attached
  <2>. QED  BY <1>2, <1>3, <2>1, <2>2 DEF CrashesAreContained, NobodyIsHarmedAtRest
<1>5. ASSUME NEW k \in Entries, NEW s, NEW blocks, Attached(k), Detached(k, s, blocks),
             operation.kind \in {"create", "remove"}, phase = "flush",
             operation.kind = "remove" /\ k \in InUse => Directory[k].name = operation.name
      PROVE  CrashHarmsOneFile /\ operation # None
  <2>1. /\ Harmed = InUse \cap {k} /\ InUse \ Harmed = Others(k)
        /\ k \in InUse => SectorsOf(k) \cap disk[MapBlock] = {}
    BY <1>5, DetachedIsHarmed
  <2>2. \A e \in Harmed : /\ operation.kind = "remove" => Directory[e].name = operation.name
                          /\ SectorsOf(e) \cap disk[MapBlock] = {}
    BY <1>5, <2>1
  <2>3. /\ \A e \in Others(k) : Directory[e].name \in Names
        /\ \A e, f \in Others(k) : Directory[e].name = Directory[f].name => e = f
        /\ disk[MapBlock] = System \cup UNION {SectorsOf(e) : e \in Others(k)}
    BY <1>5 DEF Attached
  <2>4. \A e, f \in Harmed : e = f
    BY <2>1
  <2>. QED  BY <1>5, <2>1, <2>2, <2>3, <2>4 DEF CrashHarmsOneFile, None
<1>. QED  BY <1>1, <1>2, <1>3, <1>4, <1>5, OneIsDetached DEF CrashesAreContained, NobodyIsHarmedAtRest

\* For any numbers of sectors, entries, names and readers, and however often the
\* machine has died and started again: a crash harms no file but the one that is
\* being created or removed, and between two operations none.  The starts are
\* from disks without a harmed file.
THEOREM CrashesStayContained == FileSystemSpec => []CrashesAreContained
BY FileInvStarts, FileInvStep, FileInvSuffices, PTL DEF FileSystemSpec

-----------------------------------------------------------------------------
(***************************************************************************)
(* Every step is one of Files, or none.                                    *)
(***************************************************************************)
LEMMA RequestSeen ==
  ASSUME FileInv, MakeRequest, UNCHANGED <<operationVars, handle>>
  PROVE  FilesGoOn
<1> DEFINE p == currentThread
<1>1. /\ p \in Threads /\ stage[p] = "request"
      /\ IF call[p].op = "write" THEN disk' = [disk EXCEPT ![call[p].sector] = call[p].data]
         ELSE UNCHANGED disk
      /\ UNCHANGED <<operation, phase, handle, todo>>
  BY DEF MakeRequest, Is, FileInv, DiskInv, KernelTypes, operationVars
<1>2. PICK calls : Remaining(calls) /\ InProgressOrNot(calls)
  BY DEF FileInv
<1>3. CASE p # Main
  <2>1. UNCHANGED disk
    BY <1>1, <1>3 DEF FileInv, ReadersRead
  <2>. QED  BY <1>1, <2>1, NothingSeen DEF FilesGoOn
<1>4. CASE p = Main
  <2>1. calls # <<>> /\ call[p] = Head(calls)
    BY <1>1, <1>2, <1>4 DEF Remaining
  <2>2. Made(Head(calls))
    BY <1>1, <2>1 DEF Made
  <2>. QED  BY <1>2, <2>1, <2>2, NextCallMade DEF FileInv
<1>. QED  BY <1>3, <1>4

\* Whether there is an operation makes no difference to files that the map has.
LEMMA RestSeen ==
  ASSUME Attached(0), UNCHANGED disk
  PROVE  UNCHANGED NamedFiles
<1>1. Others(0) = InUse
  BY FileSystemAssumption DEF Others, InUse, Entries
<1>2. \A e \in InUse : Directory[e].sector \in disk[MapBlock]
  BY <1>1 DEF Attached, SectorsOf
<1>3. \A e \in InUse : NameOf(e)' = NameOf(e) /\ DataOf(e)' = DataOf(e)
  BY <1>2, NothingWritten DEF NameOf, DataOf
<1>. QED  BY <1>3, NothingWritten, FilesUnchanged

LEMMA MainSeen ==
  ASSUME FileInv, BeginOperation \/ LookUp \/ DecideCreate \/ DecideOpen \/ DecideRemove \/ Flushed
  PROVE  UNCHANGED NamedFiles /\ (operation = None \/ operation' = None \/ UNCHANGED operation)
<1>1. UNCHANGED disk /\ (operation = None \/ operation' = None \/ UNCHANGED operation)
  BY DEF BeginOperation, Begins, LookUp, DecideCreate, DecideOpen, DecideRemove, Flushed,
         GoesOn, Ended, synchVars, diskVars
<1>2. Attached(0)
  <2>1. CASE BeginOperation
    BY <2>1, MainRests DEF BeginOperation, AtRest
  <2>2. CASE LookUp
    BY <2>2, MainHas DEF LookUp, Looking
  <2>3. CASE DecideCreate \/ DecideOpen \/ DecideRemove
    BY <2>3, MainHas DEF DecideCreate, DecideOpen, DecideRemove, Looking
  <2>4. CASE Flushed
    BY <2>4, MainHas DEF Flushed, AllDone
  <2>. QED  BY <2>1, <2>2, <2>3, <2>4
<1>. QED  BY <1>1, <1>2, RestSeen

LEMMA FilesStep ==
  ASSUME FileInv, [FileSystemNext]_fileVars
  PROVE  [AbstractFiles!Next]_<<NamedFiles, Doing>>
<1>1. CASE BeginOperation \/ LookUp \/ DecideCreate \/ DecideOpen \/ DecideRemove \/ Flushed
  BY <1>1, MainSeen DEF AbstractFiles!Next, AbstractFiles!BeginOrEnd, AbstractFiles!Nothing, Doing, None
<1>2. CASE Close \/ NextSector \/ ReadBlock \/ ForkReader \/ UNCHANGED fileVars
  <2>1. UNCHANGED disk /\ UNCHANGED operation
    BY <1>2 DEF Close, NextSector, ReadBlock, ForkReader, CallSector, fileVars, synchVars, diskVars,
                operationVars
  <2>. QED  BY <2>1, NothingSeen DEF Doing
<1>3. CASE DriverNext /\ UNCHANGED <<operationVars, handle>>
  <2>1. CASE MakeRequest
    <3>1. FilesGoOn /\ UNCHANGED operation
      BY <1>3, <2>1, RequestSeen DEF operationVars
    <3>. QED  BY <3>1 DEF FilesGoOn, AbstractFiles!Next, Doing
  <2>2. CASE ~MakeRequest
    <3>1. UNCHANGED disk /\ UNCHANGED operation
      BY <1>3, <2>2 DEF DriverNext, DiskStep, GetDisk, AwaitRequest, ReleaseDisk, RequestDone,
                        Preempt, KernelStep, diskVars, operationVars
    <3>. QED  BY <3>1, NothingSeen DEF Doing
  <2>. QED  BY <2>1, <2>2
<1>4. CASE Reboot
  <2>1. UNCHANGED disk /\ operation' = None
    BY <1>4 DEF Reboot, Restart
  <2>2. UNCHANGED NamedFiles
    BY <1>4, <2>1, NobodyHarmedIsDetached, RestSeen DEF Reboot
  <2>. QED  BY <2>1, <2>2 DEF AbstractFiles!Next, AbstractFiles!BeginOrEnd, AbstractFiles!Nothing, Doing, None
<1>. QED  BY <1>1, <1>2, <1>3, <1>4 DEF FileSystemNext, MainStep

LEMMA FilesStart == FileSystemInit => AbstractFiles!Init
<1> SUFFICES ASSUME FileSystemInit  PROVE AbstractFiles!Init
  OBVIOUS
<1>1. InUse = {}
  <2> SUFFICES ASSUME NEW e \in Entries  PROVE ~Directory[e].inUse
    BY DEF InUse
  <2>1. disk[FlagsAt[e]] = DirectoryBlock([x \in Entries |-> EmptyEntry], FlagsAt[e])
    BY SystemSectors DEF FileSystemInit, Formatted
  <2>. QED  BY <2>1 DEF DirectoryBlock, EmptyEntry, Directory
<1>2. NamedFiles = [name \in Names |-> NotOpen]
  BY <1>1 DEF NamedFiles
<1>. QED  BY <1>2 DEF AbstractFiles!Init, AbstractFiles!Nothing, FileSystemInit, None

\* Create, Remove and WriteAt change the file they name and no other, whatever
\* the numbers of sectors, entries, names and readers, and the moment.
THEOREM FileSystemImplementsFiles == FileSystemSpec => ImplementsFiles
<1>1. FileInv /\ [FileSystemNext]_fileVars => [AbstractFiles!Next]_<<NamedFiles, <<operation.kind, operation.name>>>>
  BY FilesStep DEF Doing
<1>. QED  BY <1>1, FileInvStarts, FileInvStep, FilesStart, PTL DEF FileSystemSpec, ImplementsFiles, AbstractFiles!Spec

-----------------------------------------------------------------------------
(***************************************************************************)
(* The bytes of open files.                                                *)
(***************************************************************************)
LEMMA Divided ==
  ASSUME NEW a \in Nat, NEW n \in Nat \ {0}
  PROVE  \E q \in Nat, r \in 0 .. (n - 1) : q = a \div n /\ r = a % n /\ a = n * q + r
<1>1. a \div n \in Nat /\ a % n \in 0 .. (n - 1) /\ a = n * (a \div n) + (a % n)
  OBVIOUS
<1>. QED  BY <1>1

LEMMA Times ==
  ASSUME NEW n \in Nat \ {0}, NEW a \in Int, NEW b \in Int
  PROVE  /\ n * a \in Int /\ a * n = n * a /\ n * (a + b) = n * a + n * b /\ n * (a - b) = n * a - n * b
         /\ n * (a + 1) = n * a + n
         /\ n * a < n * b => a < b
         /\ a < b => n * a + n <= n * b
<1>1. n * a \in Int /\ a * n = n * a
  OBVIOUS
<1>2. n * (a + b) = n * a + n * b /\ n * (a - b) = n * a - n * b /\ n * (a + 1) = n * a + n
  OBVIOUS
<1>3. ASSUME NEW x \in Int, NEW y \in Int, x < y  PROVE n * x + n <= n * y
  <2>1. PICK d \in Nat : y = x + 1 + d
    <3>1. y - x - 1 \in Nat /\ y = x + 1 + (y - x - 1)
      BY <1>3
    <3>. QED  BY <3>1
  <2>2. n * y = n * x + n + n * d /\ n * d \in Nat
    BY <2>1
  <2>. QED  BY <2>2
<1>4. n * a < n * b => a < b
  <2> SUFFICES ASSUME n * a < n * b, b <= a  PROVE FALSE
    OBVIOUS
  <2>1. b < a => n * b + n <= n * a
    BY <1>3
  <2>2. n * a \in Int /\ n * b \in Int /\ (b = a => n * a = n * b)
    OBVIOUS
  <2>. QED  BY <2>1, <2>2
<1>. QED  BY <1>1, <1>2, <1>3, <1>4

LEMMA ByteOfFile ==
  ASSUME NEW size \in Nat \ {0}, NEW length \in Nat, NEW s \in Nat, NEW b \in 0 .. (size - 1),
         size * s + b < length
  PROVE  /\ 1 + s \in DOMAIN FileOf(length, size)
         /\ FileOf(length, size)[1 + s][1 + b] = OldByte(size * s + b)
<1> DEFINE k == (length + size - 1) \div size
<1>0. PICK x \in Nat : x = length + size - 1
  <2>1. length + size - 1 \in Nat
    OBVIOUS
  <2>. QED  BY <2>1
<1>1. PICK r \in 0 .. (size - 1) : k \in Nat /\ x = size * k + r
  <2>1. PICK q \in Nat, r \in 0 .. (size - 1) : q = x \div size /\ x = size * q + r
    BY <1>0, Divided
  <2>. QED  BY <1>0, <2>1
<1>. HIDE DEF k
<1>2. PICK z \in Int, q \in Int : z = size * s /\ q = size * k
  BY <1>1, Times
<1>3. size * (s + 1) = z + size /\ size * (k + 1) = q + size /\ s * size = z
  BY <1>1, <1>2, Times
<1>4. z + size < q + size
  BY <1>0, <1>1, <1>2
<1>5. s + 1 < k + 1
  <2>1. size * (s + 1) < size * (k + 1)
    BY <1>3, <1>4
  <2>2. s + 1 \in Int /\ k + 1 \in Int
    BY <1>1
  <2>. QED  BY <2>1, <2>2, Times
<1>6. 1 + s \in 1 .. k /\ 1 + b \in 1 .. size
  BY <1>1, <1>5
<1>7. (1 + s - 1) * size + (1 + b) - 1 = size * s + b
  BY <1>2, <1>3
<1>8. DOMAIN FileOf(length, size) = 1 .. k
  BY DEF FileOf, k
<1>9. FileOf(length, size)[1 + s][1 + b] = OldByte((1 + s - 1) * size + (1 + b) - 1)
  BY <1>6 DEF FileOf, k
<1>. QED  BY <1>6, <1>7, <1>8, <1>9

\* A request that lies in the file, in part at least.
LEMMA CutRequest ==
  ASSUME NEW length \in Nat, NEW position \in Nat, NEW n \in Nat \ {0}, position < length
  PROVE  LET m == Cut(n, position, length) IN
         /\ m \in Nat \ {0} /\ m <= n /\ position + m <= length
         /\ m = n \/ position + m = length
BY DEF Cut

\* The first and the last sector of a request.
LEMMA SectorsOfRequest ==
  ASSUME NEW size \in Nat \ {0}, NEW position \in Nat, NEW m \in Nat \ {0}
  PROVE  LET first == FirstSector(position, size)
             last  == LastSector(m, position, size) IN
         /\ first \in Nat /\ last \in Nat /\ first <= last
         /\ size * first \in Nat /\ size * last \in Nat
         /\ size * first <= position /\ position < size * first + size
         /\ size * last <= position + m - 1 /\ position + m - 1 < size * last + size
         /\ (1 + last - first) * size = size * last - size * first + size
         /\ (last - first) * size = size * last - size * first
         /\ first * size = size * first /\ (last + 1) * size = size * last + size
<1> DEFINE first == FirstSector(position, size)
           last  == LastSector(m, position, size)
<1>1. PICK r \in 0 .. (size - 1) : first \in Nat /\ position = size * first + r
  <2>1. PICK q \in Nat, r \in 0 .. (size - 1) : q = position \div size /\ position = size * q + r
    BY Divided
  <2>. QED  BY <2>1 DEF FirstSector
<1>2. PICK e \in 0 .. (size - 1) : last \in Nat /\ position + m - 1 = size * last + e
  <2>1. PICK x \in Nat : x = position + m - 1
    <3>1. position + m - 1 \in Nat
      OBVIOUS
    <3>. QED  BY <3>1
  <2>2. PICK q \in Nat, e \in 0 .. (size - 1) : q = x \div size /\ x = size * q + e
    BY Divided
  <2>. QED  BY <2>1, <2>2 DEF LastSector
<1>. HIDE DEF first, last
<1>3. PICK f \in Nat, l \in Nat : f = size * first /\ l = size * last
  <2>1. size * first \in Nat /\ size * last \in Nat
    BY <1>1, <1>2
  <2>. QED  BY <2>1
<1>4. f <= position /\ position < f + size /\ l <= position + m - 1 /\ position + m - 1 < l + size
  BY <1>1, <1>2, <1>3
<1>5. first <= last
  <2>1. size * first < size * (last + 1)
    BY <1>2, <1>3, <1>4, Times
  <2>. QED  BY <1>1, <1>2, <2>1, Times
<1>6. /\ (1 + last - first) * size = l - f + size
      /\ (last - first) * size = l - f /\ first * size = f /\ (last + 1) * size = l + size
  <2>1. /\ (last - first) * size = size * (last - first) /\ size * (last - first) = l - f
        /\ size * (last - first + 1) = size * (last - first) + size
    BY <1>1, <1>2, <1>3, Times
  <2>2. (1 + last - first) * size = size * (last - first + 1)
    BY <1>1, <1>2
  <2>3. first * size = f /\ (last + 1) * size = l + size
    BY <1>1, <1>2, <1>3, Times
  <2>. QED  BY <1>1, <1>2, <2>1, <2>2, <2>3
<1>. QED  BY <1>1, <1>2, <1>3, <1>4, <1>5, <1>6 DEF first, last

LEMMA ReadsBytes ==
  ASSUME NEW size \in Nat \ {0}, NEW length \in Nat, NEW position \in Nat, NEW n \in Nat \ {0},
         position < length
  PROVE  ReadAt(FileOf(length, size), length, n, position, size) =
           [i \in 1 .. Cut(n, position, length) |-> OldByte(position + i - 1)]
<1> DEFINE m     == Cut(n, position, length)
           first == FirstSector(position, size)
           last  == LastSector(m, position, size)
           file  == FileOf(length, size)
           buf   == [b \in 1 .. (1 + last - first) * size |->
                      file[1 + first + ((b - 1) \div size)][1 + ((b - 1) % size)]]
<1>1. m \in Nat \ {0} /\ m <= n /\ position + m <= length
  BY CutRequest
<1>. HIDE DEF m
<1>2. /\ first \in Nat /\ last \in Nat /\ size * first \in Nat /\ size * last \in Nat
      /\ size * first <= position /\ position + m - 1 < size * last + size
      /\ (1 + last - first) * size = size * last - size * first + size
      /\ first * size = size * first
  BY <1>1, SectorsOfRequest
<1>. HIDE DEF first, last, file
<1>3. PICK f \in Nat, l \in Nat : f = size * first /\ l = size * last
  BY <1>2
<1>4. \A i \in 1 .. m : buf[position - first * size + i] = OldByte(position + i - 1)
  <2> TAKE i \in 1 .. m
  <2> DEFINE b == position - f + i
             c == b - 1
  <2>1. b \in 1 .. (1 + last - first) * size /\ c \in Nat
    BY <1>1, <1>2, <1>3
  <2>2. buf[b] = file[1 + first + (c \div size)][1 + (c % size)]
    BY <2>1
  <2>. HIDE DEF c
  <2>4. PICK q \in Nat, r \in 0 .. (size - 1) : q = c \div size /\ r = c % size /\ c = size * q + r
    BY <2>1, Divided
  <2>5. size * (first + q) = f + size * q /\ size * q \in Nat
    BY <1>2, <1>3, <2>4, Times
  <2>6. size * (first + q) + r = position + i - 1
    <3>1. PICK y \in Nat : y = size * q
      BY <2>5
    <3>2. size * (first + q) = f + y /\ c = y + r /\ c = position - f + i - 1
      BY <2>4, <2>5, <3>1 DEF c
    <3>. HIDE DEF c
    <3>. QED  BY <2>4, <3>2
  <2>7. file[1 + (first + q)][1 + r] = OldByte(position + i - 1)
    <3>1. first + q \in Nat /\ size * (first + q) + r < length
      BY <1>1, <1>2, <2>4, <2>6
    <3>. QED  BY <2>4, <2>6, <3>1, ByteOfFile DEF file
  <2>8. 1 + first + q = 1 + (first + q)
    BY <1>2, <2>4
  <2>. QED  BY <1>2, <1>3, <2>2, <2>4, <2>7, <2>8
<1>. HIDE DEF buf
<1>5. Bytes(buf, position - first * size, m) = [i \in 1 .. m |-> OldByte(position + i - 1)]
  BY <1>4 DEF Bytes
<1>6. ReadAt(file, length, n, position, size) = Bytes(buf, position - first * size, m)
  BY DEF ReadAt, buf, m, first, last
<1>. QED  BY <1>5, <1>6 DEF m, file

LEMMA LesserAndGreater ==
  ASSUME NEW a \in Int, NEW b \in Int
  PROVE  /\ Min({a, b}) = (IF a <= b THEN a ELSE b)
         /\ Max({a, b}) = (IF a <= b THEN b ELSE a)
<1>1. CASE a <= b
  <2>1. Min({a, b}) = a
    <3>1. a \in {a, b} /\ \A y \in {a, b} : a <= y
      BY <1>1
    <3>2. \A x \in {a, b} : (\A y \in {a, b} : x <= y) => x = a
      BY <1>1
    <3>. QED  BY <3>1, <3>2 DEF Min
  <2>2. Max({a, b}) = b
    <3>1. b \in {a, b} /\ \A y \in {a, b} : b >= y
      BY <1>1
    <3>2. \A x \in {a, b} : (\A y \in {a, b} : x >= y) => x = b
      BY <1>1
    <3>. QED  BY <3>1, <3>2 DEF Max
  <2>. QED  BY <1>1, <2>1, <2>2
<1>2. CASE ~(a <= b)
  <2>1. Min({a, b}) = b
    <3>1. b \in {a, b} /\ \A y \in {a, b} : b <= y
      BY <1>2
    <3>2. \A x \in {a, b} : (\A y \in {a, b} : x <= y) => x = b
      BY <1>2
    <3>. QED  BY <3>1, <3>2 DEF Min
  <2>2. Max({a, b}) = a
    <3>1. a \in {a, b} /\ \A y \in {a, b} : a >= y
      BY <1>2
    <3>2. \A x \in {a, b} : (\A y \in {a, b} : x >= y) => x = a
      BY <1>2
    <3>. QED  BY <3>1, <3>2 DEF Max
  <2>. QED  BY <1>2, <2>1, <2>2
<1>. QED  BY <1>1, <1>2

LEMMA ReadAtIsExact ==
  ASSUME NEW size \in Nat \ {0}, NEW length \in Nat, NEW position \in Nat, NEW n \in Nat
  PROVE  ReadsExactly(size, length, position, n)
<1> DEFINE got  == ReadAt(FileOf(length, size), length, n, position, size)
           most == Max({0, Min({n, length - position})})
<1>1. most = IF n = 0 \/ position >= length THEN 0 ELSE Cut(n, position, length)
  <2>1. PICK x \in Int : x = length - position
    OBVIOUS
  <2>2. PICK y \in Int : y = Min({n, x}) /\ y = (IF n <= x THEN n ELSE x)
    BY LesserAndGreater
  <2>3. Max({0, y}) = IF 0 <= y THEN y ELSE 0
    BY LesserAndGreater
  <2>. QED  BY <2>1, <2>2, <2>3 DEF Cut
<1>. HIDE DEF most
<1>2. CASE n = 0 \/ position >= length
  <2>1. got = <<>>
    BY <1>2 DEF ReadAt
  <2>. QED  BY <1>1, <1>2, <2>1 DEF ReadsExactly, most
<1>3. CASE ~(n = 0 \/ position >= length)
  <2>1. got = [i \in 1 .. Cut(n, position, length) |-> OldByte(position + i - 1)]
    BY <1>3, ReadsBytes
  <2>2. Cut(n, position, length) \in Nat
    BY <1>3, CutRequest
  <2>. HIDE DEF got
  <2>3. Len(got) = Cut(n, position, length) /\ \A i \in DOMAIN got : got[i] = OldByte(position + i - 1)
    BY <2>1, <2>2
  <2>. QED  BY <1>1, <1>3, <2>3 DEF ReadsExactly, most, got
<1>. QED  BY <1>2, <1>3

\* Whichever sector WriteAt reads first, it is what the file has there.
LEMMA ReadsSector ==
  ASSUME NEW size \in Nat \ {0}, NEW length \in Nat, NEW s \in Nat, size * s < length
  PROVE  LET sector == ReadAt(FileOf(length, size), length, size, s * size, size) IN
         \A i \in Nat : /\ i + 1 \in DOMAIN sector <=> i < size /\ size * s + i < length
                        /\ i + 1 \in DOMAIN sector => sector[i + 1] = OldByte(size * s + i)
<1> DEFINE sector == ReadAt(FileOf(length, size), length, size, s * size, size)
<1>1. PICK z \in Nat : z = size * s /\ s * size = z
  <2>1. size * s \in Nat /\ s * size = size * s
    BY Times
  <2>. QED  BY <2>1
<1>2. sector = [i \in 1 .. Cut(size, z, length) |-> OldByte(z + i - 1)]
  <2>1. z < length
    BY <1>1
  <2>2. ReadAt(FileOf(length, size), length, size, z, size) =
          [i \in 1 .. Cut(size, z, length) |-> OldByte(z + i - 1)]
    BY <2>1, ReadsBytes
  <2>. QED  BY <1>1, <2>2
<1>3. Cut(size, z, length) = IF z + size > length THEN length - z ELSE size
  BY DEF Cut
<1>. HIDE DEF sector
<1>4. \A i \in Nat : i + 1 \in DOMAIN sector <=> i < size /\ z + i < length
  BY <1>1, <1>2, <1>3
<1>5. \A i \in Nat : i + 1 \in DOMAIN sector => sector[i + 1] = OldByte(z + i)
  <2> TAKE i \in Nat
  <2>1. z + (i + 1) - 1 = z + i
    OBVIOUS
  <2>. QED  BY <1>2, <2>1
<1>. QED  BY <1>1, <1>4, <1>5 DEF sector

LEMMA WriteAtIsExact ==
  ASSUME NEW size \in Nat \ {0}, NEW length \in Nat, NEW position \in Nat, NEW n \in Nat
  PROVE  WritesExactly(size, length, position, n)
<1> DEFINE file  == FileOf(length, size)
           from  == [i \in 1 .. n |-> NewByte(i)]
           unset == <<"unset", 0>>
           after == WriteAt(file, length, from, position, size, unset)
           Request == position .. (position + n - 1)
<1>0. Len(from) = n
  OBVIOUS
<1> SUFFICES ASSUME NEW i \in 0 .. (length - 1)
             PROVE  after[1 + (i \div size)][1 + (i % size)] =
                      IF i \in Request THEN NewByte(i - position + 1) ELSE OldByte(i)
  BY DEF WritesExactly
<1>1. PICK s \in Nat, b \in 0 .. (size - 1) : s = i \div size /\ b = i % size /\ i = size * s + b
  BY Divided
<1>2. 1 + s \in DOMAIN file /\ file[1 + s][1 + b] = OldByte(i)
  <2>1. size * s + b < length
    BY <1>1
  <2>. QED  BY <1>1, <2>1, ByteOfFile
<1>3. CASE n = 0 \/ position >= length
  <2>1. after = file
    BY <1>0, <1>3 DEF WriteAt
  <2>2. i \notin Request
    BY <1>3
  <2>. QED  BY <1>1, <1>2, <2>1, <2>2
<1>4. CASE n # 0 /\ position < length
  <2> DEFINE m     == Cut(n, position, length)
             first == FirstSector(position, size)
             last  == LastSector(m, position, size)
             firstAligned == position = first * size
             lastAligned  == position + m = (last + 1) * size
             SectorOf(j)  == ReadAt(file, length, size, j * size, size)
             new  == [j \in 1 .. (1 + last - first) * size |-> unset]
             buf1 == IF firstAligned THEN new ELSE Copy(SectorOf(first), new, 0)
             buf2 == IF ReadsLast(first, last, firstAligned, lastAligned)
                       THEN Copy(SectorOf(last), buf1, (last - first) * size) ELSE buf1
             buf  == Copy(Bytes(from, 0, m), buf2, position - first * size)
  <2>1. after = [j \in DOMAIN file |->
                   IF j - 1 \in first .. last THEN Bytes(buf, (j - 1 - first) * size, size) ELSE file[j]]
    BY <1>0, <1>4 DEF WriteAt
  <2>2. m \in Nat \ {0} /\ m <= n /\ position + m <= length /\ (m = n \/ position + m = length)
    BY <1>4, CutRequest
  <2>. HIDE DEF m, from, file, after, SectorOf
  <2>3. i \in Request <=> position <= i /\ i < position + m
    BY <2>2
  <2>4. /\ first \in Nat /\ last \in Nat /\ first <= last
        /\ size * first \in Nat /\ size * last \in Nat
        /\ size * first <= position /\ position < size * first + size
        /\ size * last <= position + m - 1 /\ position + m - 1 < size * last + size
        /\ (1 + last - first) * size = size * last - size * first + size
        /\ (last - first) * size = size * last - size * first
        /\ first * size = size * first /\ (last + 1) * size = size * last + size
    BY <2>2, SectorsOfRequest
  <2>. HIDE DEF first, last
  <2>5. PICK f \in Nat, l \in Nat : f = size * first /\ l = size * last
    BY <2>4
  <2>6. PICK z \in Nat : z = size * s /\ i = z + b
    <3>1. size * s \in Nat
      BY Times
    <3>. QED  BY <1>1, <3>1
  <2>7. CASE s \notin first .. last
    <3>1. after[1 + s] = file[1 + s]
      BY <1>2, <2>1, <2>7
    <3>2. i \notin Request
      <4>1. CASE s < first
        <5>1. z + size <= f
          BY <2>4, <2>5, <2>6, <4>1, Times
        <5>. QED  BY <2>3, <2>4, <2>5, <2>6, <5>1
      <4>2. CASE last < s
        <5>1. l + size <= z
          BY <2>4, <2>5, <2>6, <4>2, Times
        <5>. QED  BY <2>2, <2>3, <2>4, <2>5, <2>6, <5>1
      <4>. QED  BY <2>4, <2>7, <4>1, <4>2
    <3>. QED  BY <1>1, <1>2, <3>1, <3>2
  <2>8. CASE s \in first .. last
    <3> DEFINE k == i - f + 1
    <3>1. f <= z /\ z <= l
      <4>1. first < s => f + size <= z
        BY <2>4, <2>5, <2>6, Times
      <4>2. s < last => z + size <= l
        BY <2>4, <2>5, <2>6, Times
      <4>3. (s = first => z = f) /\ (s = last => z = l)
        BY <2>5, <2>6
      <4>4. (s = first \/ first < s) /\ (s = last \/ s < last)
        BY <2>4, <2>8
      <4>. QED  BY <4>1, <4>2, <4>3, <4>4
    <3>2. k \in 1 .. (l - f + size)
      BY <2>6, <3>1
    <3>3. after[1 + s][1 + b] = buf[k]
      <4>1. after[1 + s] = Bytes(buf, (s - first) * size, size)
        BY <1>2, <2>1, <2>8
      <4>2. (s - first) * size = z - f
        <5>1. (s - first) * size = size * (s - first) /\ size * (s - first) = size * s - size * first
          BY <2>4, Times
        <5>. QED  BY <2>5, <2>6, <5>1
      <4>3. z - f + (1 + b) = k
        BY <2>6
      <4>. HIDE DEF buf, k
      <4>4. Bytes(buf, z - f, size)[1 + b] = buf[z - f + (1 + b)]
        BY DEF Bytes
      <4>. QED  BY <4>1, <4>2, <4>3, <4>4
    <3>4. /\ DOMAIN new = 1 .. (l - f + size) /\ DOMAIN buf1 = DOMAIN new /\ DOMAIN buf2 = DOMAIN new
      BY <2>4, <2>5 DEF Copy
    <3>5. buf[k] = IF position <= i /\ i < position + m THEN NewByte(i - position + 1) ELSE buf2[k]
      <4>1. position - first * size = position - f /\ k - (position - f) = i - position + 1
        BY <2>4, <2>5
      <4>. HIDE DEF buf2, k
      <4>2. buf[k] = IF i - position + 1 \in 1 .. m THEN Bytes(from, 0, m)[i - position + 1] ELSE buf2[k]
        BY <3>2, <3>4, <4>1 DEF Copy, Bytes
      <4>3. \A j \in 1 .. m : Bytes(from, 0, m)[j] = NewByte(j)
        BY <2>2 DEF Bytes, from
      <4>4. i - position + 1 \in 1 .. m <=> position <= i /\ i < position + m
        BY <2>2
      <4>. QED  BY <4>2, <4>3, <4>4
    <3>6. \A j \in {first, last} : \A c \in Nat :
            /\ c + 1 \in DOMAIN SectorOf(j) <=> c < size /\ size * j + c < length
            /\ c + 1 \in DOMAIN SectorOf(j) => SectorOf(j)[c + 1] = OldByte(size * j + c)
      <4> TAKE j \in {first, last}
      <4>1. size * j < length /\ j \in Nat
        BY <2>2, <2>4
      <4>2. \A c \in Nat :
              LET sector == ReadAt(FileOf(length, size), length, size, j * size, size) IN
              /\ c + 1 \in DOMAIN sector <=> c < size /\ size * j + c < length
              /\ c + 1 \in DOMAIN sector => sector[c + 1] = OldByte(size * j + c)
        BY <4>1, ReadsSector, Zenon
      <4>. QED  BY <4>2, Zenon DEF SectorOf, file
    <3>7. ASSUME i < position  PROVE buf1[k] = OldByte(i)
      <4>1. ~firstAligned => buf1[k] = OldByte(i)
        <5>1. PICK c \in Nat : c = i - f /\ k = c + 1 /\ k - 0 = c + 1
          BY <2>6, <3>1
        <5>2. c < size /\ f + c = i
          BY <2>4, <2>5, <3>7, <5>1
        <5>3. c + 1 \in DOMAIN SectorOf(first) /\ SectorOf(first)[c + 1] = OldByte(i)
          BY <2>5, <3>6, <5>2
        <5>. HIDE DEF new, k
        <5>4. Copy(SectorOf(first), new, 0)[k] = SectorOf(first)[c + 1]
          BY <3>2, <3>4, <5>1, <5>3 DEF Copy
        <5>. QED  BY <5>3, <5>4
      <4>2. ~firstAligned
        BY <2>4, <2>5, <2>6, <3>1, <3>7
      <4>. QED  BY <4>1, <4>2
    <3>8. CASE ReadsLast(first, last, firstAligned, lastAligned)
      <4>1. k - (last - first) * size = i - l + 1
        BY <2>4, <2>5
      <4>. HIDE DEF buf1, k
      <4>2. buf2[k] = IF i - l + 1 \in DOMAIN SectorOf(last) THEN SectorOf(last)[i - l + 1] ELSE buf1[k]
        BY <3>2, <3>4, <3>8, <4>1 DEF Copy
      <4>3. CASE l <= i
        <5>1. PICK c \in Nat : c = i - l /\ c + 1 = i - l + 1
          BY <4>3
        <5>2. c < size /\ l + c = i
          BY <2>6, <3>1, <5>1
        <5>3. c + 1 \in DOMAIN SectorOf(last) /\ SectorOf(last)[c + 1] = OldByte(i)
          BY <2>5, <3>6, <5>2
        <5>. QED  BY <1>1, <2>3, <3>3, <3>5, <4>2, <5>1, <5>3
      <4>4. CASE i < l
        <5>1. i - l + 1 \notin DOMAIN SectorOf(last)
          <6>1. DOMAIN SectorOf(last) \subseteq Nat \ {0}
            <7>1. l < length /\ last * size = l
              BY <2>2, <2>4, <2>5, Times
            <7>2. SectorOf(last) = ReadAt(file, length, size, l, size)
              BY <7>1 DEF SectorOf
            <7>3. ReadAt(file, length, size, l, size) = [x \in 1 .. Cut(size, l, length) |-> OldByte(l + x - 1)]
              BY <7>1, ReadsBytes DEF file
            <7>. QED  BY <7>2, <7>3
          <6>. QED  BY <4>4, <6>1
        <5>3. i < position \/ i \in Request
          BY <2>2, <2>3, <2>4, <2>5, <4>4
        <5>. QED  BY <1>1, <2>3, <3>3, <3>5, <3>7, <4>2, <5>1, <5>3
      <4>. QED  BY <4>3, <4>4
    <3>9. CASE ~ReadsLast(first, last, firstAligned, lastAligned)
      <4>1. buf2[k] = buf1[k]
        BY <3>9
      <4>2. CASE i < position
        BY <1>1, <2>3, <3>3, <3>5, <3>7, <4>1, <4>2
      <4>3. CASE i \in Request
        BY <1>1, <2>3, <3>3, <3>5, <4>3
      <4>4. CASE position + m <= i
        <5>1. ~lastAligned
          BY <2>4, <2>5, <2>6, <3>1, <4>4
        <5>2. first = last /\ ~firstAligned
          BY <3>9, <5>1 DEF ReadsLast
        <5>3. l = f /\ z = f
          BY <2>5, <3>1, <5>2
        <5>4. PICK c \in Nat : c = i - f /\ k = c + 1 /\ k - 0 = c + 1 /\ c < size /\ f + c = i
          BY <2>6, <5>3
        <5>5. c + 1 \in DOMAIN SectorOf(first) /\ SectorOf(first)[c + 1] = OldByte(i)
          BY <2>5, <3>6, <5>4
        <5>6. buf1 = Copy(SectorOf(first), new, 0)
          BY <5>2
        <5>. HIDE DEF new, k, buf1, buf2
        <5>7. buf1[k] = OldByte(i)
          BY <3>2, <3>4, <5>4, <5>5, <5>6 DEF Copy
        <5>8. i \notin Request
          BY <2>2, <2>3, <4>4
        <5>. QED  BY <1>1, <2>3, <3>3, <3>5, <4>1, <5>7, <5>8
      <4>. QED  BY <2>2, <2>3, <4>2, <4>3, <4>4
    <3>. QED  BY <3>8, <3>9
  <2>. QED  BY <2>7, <2>8
<1>. QED  BY <1>3, <1>4

\* For sectors, files and requests of any size.
LEMMA EveryAccess == EveryAccessIsExact
<1> SUFFICES ASSUME NEW size \in SectorSizes, NEW length \in ByteCounts, NEW position \in ByteCounts,
                    NEW n \in ByteCounts
             PROVE  ReadsExactly(size, length, position, n) /\ WritesExactly(size, length, position, n)
  BY DEF EveryAccessIsExact
<1>1. size \in Nat \ {0} /\ length \in Nat /\ position \in Nat /\ n \in Nat
  BY FileAccessAssumption
<1>. QED  BY <1>1, ReadAtIsExact, WriteAtIsExact

\* Reads and writes of open files are of the bytes they ask for, whatever the
\* sizes of sectors, files and requests.
THEOREM AccessStaysExact == FileSystemSpec => []AccessIsExact
<1>1. AccessIsExact
  BY EveryAccess DEF AccessIsExact
<1>. QED  BY <1>1, PTL

=============================================================================
