# Verification of Nachos 3 in TLA+

The repository holds several students' copies of the Nachos teaching operating
system. The reference for this project is the most complete of them,
`src/NACHOS-master/NACHOS_3/code` (below: `code/`), a kernel with threads, monitors,
a bounded-buffer program, demand paging with swapping, processes, a console, a
file system and a network. The other trees are earlier assignments and other
students' variants of the same sources; they are listed under "Not modelled".

## Inventory

All of Nachos runs on one simulated CPU in one host process. A kernel thread is a
user-level thread; the CPU changes hands only in `Thread::Yield`, in
`Thread::Sleep`, and at the moments at which interrupts are enabled (`SetLevel`
from `IntOff` to `IntOn` calls `OneTick`, which runs the due interrupt handlers and
yields if the timer asked for it). With `nachos -p` a host timer makes the running thread yield at
any instruction at which interrupts are on.

| Component | State | Operations | Used by / calls | Hard behaviour | What makes it correct |
|---|---|---|---|---|---|
| Threads (`threads/thread.cc`) | `status`, stack, machine state, `currentThread`, `threadToBeDestroyed` | constructor, `Fork`, `Yield`, `Sleep`, `Finish`, destructor | scheduler, interrupts | a thread is freed by the next thread to run, not by itself | each thread is in one place; a deleted thread never runs again |
| Scheduler (`threads/scheduler.cc`) | `readyList` | `ReadyToRun`, `FindNextToRun`, `Run` | every blocking operation | the switch happens in the middle of an operation | FIFO; the ready list agrees with `status` |
| Synchronization (`threads/synch.cc`) | semaphore value, lock holder, queues | `P`, `V`, `Acquire`, `Release`, `Wait`, `Signal`, `Broadcast` | scheduler; used by everything above | Mesa semantics: a woken thread must test again, another may get in before it | no unit, no release and no signal is lost; mutual exclusion |
| Interrupts (`machine/interrupt.cc`) | `level`, `pending`, `yieldOnReturn`, status | `SetLevel`, `Schedule`, `OneTick`, `CheckIfDue`, `Idle`, `Halt` | devices schedule, handlers do `V` | handlers run between any two kernel operations | the machine halts only when nothing can ever happen again |
| Preemption (`threads/preemptive.cc`) | host signal mask and timer | `ContextSwitch`, `SetUp` | the host timer | preempts at any instruction | acts as `Yield` with interrupts on |
| Bounded buffer (`threads/producer.cc`, `consumer.cc`, `sharedBuffer.cc`, `threadtest.cc`) | a list of items, one lock, two conditions | `Produce`, `Consume` | locks and conditions | a woken worker gives up its turn, and each signal wakes one worker at most | capacity, FIFO, each item once, nobody stays asleep |
| Lists (`threads/list.h`, `synchlist.h`) | linked list; with a lock and a condition | `Append`, `Remove`, `SortedInsert`, ... | queues everywhere; the mail boxes | `Remove` waits for an item | FIFO, each item once |
| Frames (`userprog/memoryManager.cc`) | entries, `numberOfFreeFrames`, the processes' last accesses | `AllocateFrame`, `AllocateFrameByForce`, `FreeFrame` | address spaces | the victim page of a replacement may belong to another process | a frame holds one page; the count of free frames is exact |
| Address spaces and swap (`userprog/addrspace.cc`, `swap.cc`) | page table, swapped pages | `LoadPage`, `ForcedEvict`, `ReleaseMemory` | frames, translation | a page moves between file, memory and swap while its process runs | a page always has the contents its process last wrote |
| Processes (`userprog/processTable.cc`, `exception.cc`) | the process table, the number of processes | `Exec`, `Exit`, `PageFault`, `Read`, `Write` | all of the above | ends of processes race with starts and replacements | the machine halts when the last process ends; identifiers are not reused while alive |
| Console (`userprog/synchronizedConsole.cc`, `machine/console.cc`) | two semaphores, a lock; the buffered character | `GetChar`, `PutChar` | interrupts | a character arrives when it likes | characters are neither lost nor doubled |
| Translation and CPU (`machine/translate.cc`, `mipssim.cc`, `machine.cc`) | registers, TLB or page table | `Translate`, `ReadMem`, `WriteMem`, `Run` | raises exceptions | a fault in the middle of an instruction | the instruction is retried with its page in memory |
| Disk (`machine/disk.cc`, `filesys/synchdisk.cc`) | the active request, head position; a semaphore and a lock | `ReadRequest`, `WriteRequest`, `ReadSector`, `WriteSector` | interrupts | one request at a time, completed by an interrupt | the caller gets its own sector |
| File system (`filesys/*.cc`) | free-sector bit map, directory, headers, open files | `Create`, `Open`, `Remove`, `ReadAt`, `WriteAt` | the disk | two files of metadata written one after the other | sectors belong to one file |
| Network and mail (`machine/network.cc`, `network/post.cc`) | the packet in hand, mail boxes | `Send`, `Receive`, `PostalDelivery` | interrupts, sockets | packets may be lost; delivery is a thread of its own | a message goes to the box it names, in order |

## Plan

Ordered by how much of the system depends on the part. "Done" is in this
directory now; the rest is work still to do.

1. **Done. `Kernel`** (threads, scheduler, semaphores, locks, conditions, interrupts as
   far as they concern them), its promise **`Monitor`**, and `KernelProofs`.
2. **Done. `ProducerConsumer`** over `Kernel`, its promise **`BoundedBuffer`**, and
   `ProducerConsumerProofs`.
3. **Done. `Paging`** (frames, page tables, swap files, processes), its promise
   **`VirtualMemory`**, and `PagingProofs`.
4. **Done. `Console`** over `Kernel` (device, driver, `Read` and `Write`), its promise
   **`Terminal`**, and `ConsoleProofs`.
5. **Done. `Machine`** with **`DiskLatency`**: simulated time, the sorted list of pending
   interrupts, `OneTick`, `yieldOnReturn`, the timer, the polls and the disk's latency; and `MachineProofs`.
6. **Done. `SynchDisk`** over `Kernel`, its promise **`SectorStore`**, and `SynchDiskProofs`;
   **`FileSystem`** over `SynchDisk`, with crashes and restarts, and its promise **`Files`**; the byte arithmetic
   of open files (**`FileAccess`**).
7. **Done. `PostOffice`** over `Kernel`: the synchronized lists, the mail boxes and the postal worker over a
   network that loses packets, its promise **`MailService`**, and `PostOfficeProofs`.
8. **Done. `Mips`** and **`Cpu`**: the instructions, delayed loads, page faults, traps and
   switches between processes, with and without the timer, the promise **`Isolated`** of the latter, and `CpuProofs`.
9. **Left.** `Replacement`: the LRU policy and the times it uses. `Syscalls`: the copying of names
   and buffers across a page fault inside the kernel.
10. **Done. Proofs** of every safety property that a passing run checks, and of each refinement. Liveness stays with TLC.

A module that composes others with `EXTENDS Kernel` runs on the kernel's
variables, and its actions are conjunctions of a kernel operation and what the
program does there: `ProducerConsumer`, `Console`, `SynchDisk`, `FileSystem` (over `SynchDisk`) and
`PostOffice`. `Paging`, `Machine` and `Cpu` stand by themselves: see below.

## The modules

### Kernel

One action is the code between two points at which another thread may get the
CPU: `Thread::Sleep`, `Thread::Yield`, and every moment at which interrupts are on. An operation
between `SetLevel(IntOff)` and `SetLevel(oldLevel)` is therefore one action until it
sleeps. When it sleeps, `continuation` records in which operation on which object;
after `SWITCH` the thread takes up the operation there. So `P` is `PSleeps` any number of
times and then `PTakes`, with its `while` loop; `Acquire` likewise, and `Wait` sleeps once and
goes on as an `Acquire`.

| Code | Module |
|---|---|
| `currentThread`, `status`, `readyList`, `threadToBeDestroyed` | variables of these names |
| the program counter of a thread, as far as the kernel cares | `continuation` |
| `Interrupt::level`; the local `oldLevel` of each operation | `level`, `oldLevel` |
| `value`, `queue` of semaphores; `isHeldBySome`, `currentHolder`, `queue` of locks; `queue` of conditions | `value`, `semQueue`, `isHeldBySome`, `currentHolder`, `lockQueue`, `condQueue` |
| the pending interrupts whose handlers do `V(s)` | `pending[s]` |
| `Fork`, `ThreadRoot`, `Yield`, `Finish`, `Sleep` + `Run` | `Fork`, `ThreadRoot`, `Yield` and `YieldReturns`, `Finish`, `Sleep` and `Run` |
| `Interrupt::Schedule`, `CheckIfDue`, `Idle`, `Halt` | `Schedule`, `CheckIfDue`, `WakeFromIdle`, `Halt` |

`holding` is a history variable: the locks a thread's program counts on between
its `Acquire` and its `Release`. `Next` lets the running thread call anything the code would
let it call, so what is checked and proved of `Kernel` holds of every program. When an
interrupt comes from is left open (any time at which interrupts are on, or in `Idle`),
which includes every choice of the simulated times and of `nachos -p`.
`Halt` requires that nothing be pending, as `Idle` does. The bound `MaxValue` stops `V` and device
requests.

### ProducerConsumer

`stage` is where each worker is in `Produce` or `Consume`; every action conjoins the kernel
operation that the code calls there (`SetLevel`, `AcquireTakes`, `Wait`, `Signal`, `Release`) with what
happens to the table. A worker that comes back from `Wait` goes home without
producing, as the code does. Foods are numbered modulo `Numbers`, more than fit on
the table, so that two foods on it always differ. The delay loops and the output are
left out. `Preemptive` allows a `Yield` of the running thread whenever interrupts are on
(`nachos -rs`, `nachos -p`).

### Paging

A step ends where interrupts are enabled: at the end of a user instruction, and at
each `Acquire` and `Release` of `memoryLock` and `processTableLock`. The ends of the latter are the
ends of `Get`, `Alloc` and `Release` of the process table; those bodies are atomic here, since
nobody waits for anything while it holds `processTableLock`. `GetProcessCount` takes no lock. `Exec` is one step: the new
process is not visible to anybody before `Fork` except through the table, and has no
frame. With `Preemptive = FALSE` (plain `nachos`) a process keeps the CPU (`running`) until it
waits for the console or ends; with `TRUE` (`nachos -rs`) any process may take the next
step. Preemption at arbitrary host instructions (`-p`) is not modelled. Pages
have contents `<<owner, page, writes>>`: the file's contents are the page with no
writes. The stub file system is synchronous, so that an eviction or a load never waits.
`crashed` is set when the code would follow a `NULL` or a freed pointer.
`Lock` appears as a variable with no queue: `Lock::Acquire` tests again after it wakes, so
any waiter may be next (`Kernel` shows what the lock guarantees).

### Console

The device holds one incoming character, numbered as typed, and one outgoing
(`putBusy`, and the pending interrupt `pending[writeDone]`). `CheckCharAvail` is the poll that reschedules
itself forever, so it needs no counter and `Idle` never halts the machine. `stage` is
where a process is in `Read` or `Write`, `left` how many characters it has still to move; both
loops, the zero-length `Read` and the newline that `Write` adds are there. `BadAddress` is a process that
dies of an exception of `ReadMem` or `WriteMem` inside its call: `SysCallExitHandler` finishes it
(or halts the machine) with `consoleLock` still held. `LooksLikeEOF` are the typed
characters which, stored in a `char`, equal `EOF`; `got` is a history variable.

### Machine and DiskLatency

Here time is simulated as the code does it, on a program that is only what devices
see of it: threads that compute in user or system mode, trap, end, and wait for one disk
request. `pending` is the list as `SortedInsert` keeps it, with its times. `phase` is where the machine
is in `OneTick` (the advance, the loop over `CheckIfDue`, the yield) or `Idle`. `HeadIsDue`, `FireDue`,
`NothingFires` and `OnlyTheTimer` are the branches of `CheckIfDue`, which takes the head off the list
before it knows what to do with it. Any subset of the timer, the poll of a console or network and the disk is
attached, and a random timer draws any delay.
`resume` is the local variable `old` of the `OneTick` a thread is switched out of.
`DiskLatency` has `TimeToSeek`, `ModuloDiff`, `ComputeLatency` and `UpdateLast`. `SectorPassesUnderHead` compares their
result with the geometry (`Passes`: the times at which a sector begins to pass under the head),
which appears nowhere in the code.

### SynchDisk, FileSystem and FileAccess

`stage` is where a thread is in `ReadSector` or `WriteSector`; the device moves the data when it is asked, as
`ReadRequest` does, and interrupts later. `requester` is a history variable.

`FileSystem` does `Create`, `Open`, `Remove` and block writes as the sequences of sector calls (`todo`) that the code makes,
each one through the whole driver. `operation` and `phase` are where Main is: the name is looked up, the
decision is taken in memory, the writes follow in the code's order. The directory takes two
sectors, and the name of an entry may lie in another one than its flag, as in the code (an entry
is 20 bytes, a sector 128). A crash leaves exactly the variable `disk`, so that an invariant of `disk` in every
reachable state is a statement about every crash. "It may corrupt the disk" (`filesys.cc:38-40`), and it does: `Create` writes
the bit map after the directory, and `Remove` before it. A crash after the block with the flag and before the map (of
`Create`), or after the map and before the block with the flag (of `Remove`), leaves a file with a name whose sectors are
free. `Harmed` is the set of these files. `Reboot` starts Nachos again, without `-f`, on the disk of any other
crash or after a halt (`Restart` in `SynchDisk` is what happens to the driver and the threads). Restarts from a harmed disk
are left out, and nothing is claimed of what follows them: `Create` then hands out sectors of the harmed file again, `Remove` of
that file, if it has blocks, fails the `ASSERT` of `FileHeader::Deallocate`, and names may be there twice. `FileAccess` has the functions `ReadAt` and `WriteAt` on bytes.
Operations of several threads at once are excluded, as the code demands; other
threads read open files while Main changes others.

### PostOffice

`CheckPktAvail` is the poll (it reschedules itself forever), `SendDone` the interrupt of a send, `wire` the
socket. A packet is lost in `Send`, as in the code. The synchronized list, a
monitor of its own, is where a mail is put (`AppendMail`) and taken (`AwaitMail`, `WaitEnds`, `TakeMail`).

### Mips and Cpu

`Mips` has what `OneInstruction` computes, as operators on the record of registers
`[gpr, hi, lo, pc, nextPC, loadReg, loadValue]`: results, branches, both program counters, delayed
loads, `Mult` bit by bit as the code does it, parts of words, `&`, `|` and `^` by bits. The word size is a constant.
`Decode`, a constant too, gives the instruction of each word, so that memory holds words only and a program
may overwrite its own instructions.
`Cpu` runs them: `Translate` with the page table, exceptions, the handlers of `exception.cc` as far as
registers and pages go, interrupts between two instructions, and the switches with `SaveUserState` and
`RestoreUserState`. Where a page's contents are is the matter of `Paging`; here only
whether it is in memory counts, and any page may be evicted. A page fault is two steps, `PageFault` (`AllocateFrame`, which
releases `memoryLock` at its end) and `LoadPage` (the rest of `AddrSpace::LoadPage`).
`timer` is a variable that never changes: `FALSE` for plain `nachos`, `TRUE` for `nachos -rs`. With the timer a time slice may end
between these two steps, and two pages may then share a frame (finding 2). The CPU then finds, at any address,
either the process's own word or one of somebody else's (`Strays`, a constant that may be all words), evictions may take any
page or none, and there is no promise of isolation; that registers are settled still holds.
`NachosAborts` is what takes down all of Nachos: the `ASSERT`s of `LWL`, `LWR`, `SWL` and `SWR` for an address that is not a
multiple of four, and the trap of the host when `DIV` divides the least integer by -1 (`StopsNachos`).
System calls are abstracted to registers and pages: what `Read` writes into the process's memory, and page faults or an
exception while `Exec`, `Read` and `Write` copy a name or a buffer, are left out (see "Not modelled").

### The promises

`Monitor`, `BoundedBuffer`, `VirtualMemory`, `Terminal`, `SectorStore`, `Files`, `MailService` and `Isolated` are
the abstract specifications. They have no queues, no interrupts, no frames and no locks: `Isolated`, for instance, is a set of
programs each with a memory that is all there and registers nobody else touches, whatever its instructions do (it takes
them from `Cpu`, as constants), except that the instructions in `StopsNachos` of any process turn the machine off for all, and `Files` is a function from names to sequences of blocks. Each detailed module instantiates its promise with a
refinement mapping (the properties named `Implements...`). `SectorStore` allows a `Crash` at any time, which forgets the calls and keeps the
sectors. The promises of `VirtualMemory` and `Isolated` are made by plain `nachos` only, without the timer.

## The runs

| Run | Instance | What it shows |
|---|---|---|
| `kernel` | 3 threads, 1 semaphore, 1 lock, 1 condition, values up to 2 | every order of every operation, with interrupts: types, each thread in one place, no unit or release lost, holders right, carcasses safe, refinement of `Monitor`; every ready thread runs |
| `kernel_carcass` | the same, values up to 1 | **violated**: a finished thread is always destroyed (finding 1) |
| `producer_consumer` | 2 producers, 2 consumers, 2 places, preemptive | no wake-up lost, never halts, the lock is always free for whoever asks, refinement of `BoundedBuffer`, every food is eaten |
| `paging` | 3 processes of 2 pages, 2 frames, 2 slots, unpreempted | page tables, frames and the process table agree, no stale pointer is followed, the machine does not halt early, refinement of `VirtualMemory` |
| `paging_preempted` | 3 processes of 1 page, 2 frames, 3 slots, with the timer | free frames are counted, no early halt, `memoryLock` is released, the last process halts the machine |
| `paging_victim` | 2 processes, 1 frame, with the timer | **violated**: the victim may not be loaded yet (finding 2) |
| `console` | 3 processes, calls of 1 character (and the newline of `Write`), 2 typed | one `PutChar` at a time, units are characters, refinement of `Terminal`, a `Write` that has the lock ends |
| `console_eof` | 2 processes, the first typed character equals `EOF` | **violated**: the buffer is overwritten (finding 3) |
| `machine` | 2 threads, any devices, 2 tracks of 3 sectors, 16 ticks of program | nothing is overdue or forgotten, the status is the running thread's, the disk's latency is its geometry, the machine halts when and only when all is done |
| `file_system` | 8 sectors, 3 of them free, 2 names, 2 entries, a reader, crashes and restarts | no request overlaps another; whenever the machine dies, files can be read and do not overlap, one at most is harmed and all others are whole; refinement of `SectorStore` and of `Files`; byte arithmetic for all sectors of up to 3 bytes, files and requests of up to 8 |
| `mail` | 2 threads and the worker, 2 boxes, 3 mails | sends do not overlap, the packet buffer is announced once, no sleeper misses a mail, refinement of `MailService` |
| `cpu` | 2 processes, 8-bit words, any three instructions of a menu of 10, 3 pages of 16 bytes, 2 frames; with the timer 6 of these programs | registers are settled wherever they are kept, with and without the timer; multiplication, overflow and parts of words are exact for every pair of words; without the timer, refinement of `Isolated` |

Several of these properties are conjunctions of named parts (`PendingIsRight`, `CrashesAreContained`,
`ArithmeticIsExact`, `TablesAgree`, ...); each part is stated and explained where it is defined.

**Why the bounds suffice.** Three threads are the fewest for barging (a sleeper, its
waker, and a third that takes the unit first) and for two finished threads with a
third one to delete them. Two values let a second `V` come before the first is taken.
Two producers, two consumers and two places let each side sleep, be signalled, and
miss its turn with the table empty, full and in between; the liveness of food numbers needs
`Numbers` above the capacity. Two pages and two frames for three processes
force evictions of one's own and of others' pages, clean and dirty, first loads and
reloads; with two slots for three processes a slot is used again. In `paging` one page is written
(`DataPages`), once: that is enough for a page to be evicted dirty, reloaded, evicted clean and
reloaded, and for its contents to be confused with any other page's; the two processes that are only
started by others are interchangeable, so their symmetry is sound (no liveness in that run). Three processes on the
console are one that has the lock, one that waits, and one that is preempted; one character and a newline are
two rounds of the loop. The ticks of `machine` let each device fire several times, two devices fall due at
the same time, and the disk's track buffer be hit and missed. Three free sectors are a header and a block, and
a second file that finds room for its header only; two entries are filled, freed and used again. Three mails in two
boxes give two mails in a row for one box with a third between them. In 8-bit words
overflow, carries and all signs occur among all 65536 pairs; three instructions put each one of the menu into
the delay slot of each other one, with any third before or behind, and 2 frames for 2 programs of 3 pages each evict
between any two of them. The menu has loads into the register that is used next, into register 0 and at an address that stops Nachos,
a store beyond the address space, an addition that overflows, a branch that links, and a system call. The second program runs a loop
with a store in a load's delay slot and the system call in a branch's. With the timer the states are many more,
and one stray word (0, which is no instruction) and 6 programs (`TimerImages`) stand for the rest.

**Deadlock.** `CHECK_DEADLOCK FALSE` stands where the system really stops: the machine halts
(`Kernel`, `Paging`, `Console`, `Machine`, `Cpu`, `PostOffice`), a bound is used up (`MaxValue`, `MaxTyped`, `MaxMail`),
all threads of a run wait for typed characters or for mail, or a process died with `consoleLock`. The producers and
consumers never stop: their run checks for deadlock. That of the file system does too, but there it says little, as a restart is
possible in most states.

## Fairness

- `Kernel`: `WF(Next)`, since the simulation is a loop that goes on as long as something can;
  `SF(TimeSlice)`: with the timer or `-p` a thread that keeps running is made to
  yield; `SF(SetLevel("IntOn"))`: a program that disables interrupts enables them again. Without time
  slices a thread may keep the CPU forever and `ReadyThreadRuns` is false, as it is in the code.
- `ProducerConsumer`: `WF(ProgramNext)`, and `SF` of each thread's steps: timer interrupts
  come at random distances, so a worker is not preempted each time before its next step.
- `Paging`: `WF` of each process's kernel steps and of its `Acquire`. Not `SF`: nothing in `Lock`
  prevents a waiter from being overtaken again and again. What user programs do is not
  assumed.
- `Console`: `WF` of the kernel's own steps, `SF` of time slices, of the delivery of a due
  interrupt (each `OneTick` and `Idle` delivers what is due), and of each process's driver steps.
  Nothing is assumed of the keyboard, so a `Read` need not end, and a process that waits
  for the lock need not get it.
- `Machine`: `WF(Next)`: the host loop goes on as long as it can. Time advances with every tick.
- `FileSystem`, `PostOffice` and `Cpu` state none: their properties are safety. A mail may be lost, so that
  nothing need ever arrive; user programs need not end.

## Findings

1. **`kernel_carcass`** (`threads/thread.cc:155`). `Finish` stores the finished thread in
   `threadToBeDestroyed` for the next thread to delete, but only a thread that returns from its own
   `SWITCH` deletes it. A thread in its first slice starts in `ThreadRoot`; if it finishes
   there, it overwrites the variable and the first thread is never freed.
2. **`paging_victim`** (`userprog/memoryManager.cc:71`). `AllocateFrame` marks a frame occupied and releases
   `memoryLock` before `LoadPage` has filled it. With the timer, another process may choose it as
   its victim: the page it evicts does not exist yet, and afterwards two valid pages share the
   frame. This is why `TablesAgree`, `ProcessesAreSafe` and the refinements of `VirtualMemory` and of `Isolated` are checked and proved without the timer.
3. **`console_eof`** (`machine/console.cc:97`). A typed byte `0xFF` is `EOF` as a `char`: the buffer that holds
   it looks empty, and the next character is read over it although nobody has taken it.

## The proofs

Everything below holds for every value of the constants, from the named assumptions of the
modules only (`KernelAssumption`, `ProgramAssumption`, `PagingAssumption`, `ConsoleAssumption`,
`SynchDiskAssumption`, `FileSystemAssumption`, `PostOfficeAssumption`, `MachineAssumption`, `DiskAssumption`,
`FileAccessAssumption`, `MipsAssumption`, `DecodeAssumption`, `CpuAssumption`). Words have 4, 8, ... or 32 bits.
Sectors are numbers and finitely many; what files hold, a blank sector and a header are three different things, as is
the value that stands for no file: these are the parts of the data that the models keep apart.

- **`KernelProofs`**: `TypeCorrect`, `ThreadsAreInOnePlace`, `HoldersAreRight`, `FreeLocksAreTaken`, `CarcassesAreSafe`. None of the
  five is inductive alone: that a free lock has a taker needs to know that the thread
  taken from its queue was asleep there and is ready now; that the ready list and the statuses
  agree needs that a finished thread is in no queue; and that in turn is
  `CarcassIsSafe`. Their conjunction `IInv` is inductive. Lemmas about `Sleep`/`Run` and `ReadyToRun`
  state once what switching and waking do to the scheduler's part of `IInv`; each action
  then has a lemma of its own.
  `UnitsAreTaken` needs `IInv` and counts: `V` adds a unit and a taker together, and `P` takes one of each away, a barging
  `P` excepted, which leaves a taker with nothing to find and no unit too few. `KernelImplementsMonitor` is the refinement,
  action by action: only the operation that gives or takes is a step of `Monitor`, and all switching stutters.
  The last part of the module says, operation by operation, what the kernel does to
  values, pending interrupts and holders. The proofs about drivers rest on these lemmas, so
  that each of them looks at what its driver adds and not at queues and switches.
- **`ProducerConsumerProofs`**: `ProgramRunsOnKernel` (every behaviour of the program is one of `Kernel`, so the kernel's
  theorems hold of it), and `NobodyForgotten` from `IInv` and the fact that the sleepers of a condition
  are of its kind: each `PutItem` wakes a consumer if any sleeps, so
  that they cannot all sleep while there is food. `ProgramSafety` adds `SafeInv`: foods on the table are within its places
  and numbered in order, and some worker is always running, ready or about to be woken, which is why `Idle` never halts.
  `ProgramImplementsBuffer` follows with the arithmetic of the numbers, which wrap around.
- **`PagingProofs`**: `FreeFramesCounted` and `NobodyCutShort`, with and without preemption. `CountInv` adds that whoever is between `Acquire` and
  `Release` has the lock, that frame numbers in use are frames, and that nothing is free while
  a replacement is going on; the rest is counting with the finite-set theorems. `PagesExist` bounds the page
  numbers a process uses; `TableInv` relates the process table, its count and the places of the processes.
  `TablesAlwaysAgree`, `NobodyComesToHarm` and `PagingImplementsVirtualMemory` have the hypothesis `~Preemptive`, plain `nachos`, since
  finding 2 refutes them otherwise. Then only one process is inside the kernel's paging code, and `AgreeInv` says what
  is true in the middle of a fault: which frame is in hand, whose page has just left it, and that every other valid page
  has its frame to itself. `MemoryInv` adds that what is kept of a page, in memory or in swap, is one content and the
  last one written. Only `BaseInv` and these two together are inductive.
- **`ConsoleProofs`**: `PutsDoNotOverlap`, `UnitsAreChars`, `ConsoleIsATerminal` and `ConsoleTypesCorrect`. `DriverInv` says that only the
  process that `Lock` names as holder is inside a loop, that `putBusy`, the pending
  interrupt and the unit of `writeDone` are one token that belongs to the process that waits for
  it, and that a loop's count reaches zero where it ends. `CharsInOrder` says what the
  buffer holds, under `LooksLikeEOF = {}`, which finding 3 shows to be necessary. The refinement maps the owner of the
  lock to the user of the terminal; each step of the driver is a step of `Terminal` or a stutter.
- **`SynchDiskProofs`**, the driver: `RequestsDoNotOverlap`, `DriverImplementsStore` and `FileSystemIsServed`. `OneRequestAtATime` is not inductive:
  `DiskInv` adds that only the holder of the lock is between `Acquire` and `Release`, and that
  the active request, the pending interrupt and the unit of the semaphore are one token whose owner is
  the thread in `wait`. In the refinement a call takes effect when the device is asked, and the
  answer is given when the lock is released. `FileSystemIsServed` shows that each step of the file system is a step
  of the driver or leaves the driver's part of the state alone, so the invariant carries over.
  The files: `CrashesStayContained`, `FileSystemImplementsFiles` and `AccessStaysExact`. None of the parts of `CrashesAreContained`
  (files that can be read, one harmed at most, none at rest) is
  inductive, as what Main is about to write matters. `FileInv` says that one entry of the directory at most is not
  a file that the map has: all others are `Attached`, and entry `k` of a `Create` or `Remove` that is under way is `Detached`, its
  sectors free in the map on disk and written by nobody else; it is the one that a crash harms as long as its flag is set. The sector calls that are left (`todo`, with the one Main
  is in) are a suffix of those the operation set out with, and how long it is tells which of its blocks are on the disk (`Creating`,
  `Removing`, `Writing`). Each call that is made takes this from one suffix to the next. After a `Reboot` from a disk on which nobody
  is harmed all entries are `Attached` again, so that the invariant holds of any number of crashes. That `BitMap::Find` gives
  sectors that are free, each of them once, is a lemma on the ranks of numbers in a finite set (`FindIsFresh`).
  For the refinement the same lemmas say what each call shows: a file appears with the block that has the flag of its entry,
  goes with that block, changes with its own blocks, and shows nothing new at every other call.
  `AccessStaysExact` is arithmetic: where sectors begin in the buffer, and by cases which bytes of it `WriteAt` has
  read before, in the first sector, in the last one, or in the one that is both.
- **`PostOfficeProofs`**: `SendsDoNotOverlap`, `PacketsAreAnnounced`, `MailTypesCorrect`, `MailsHaveTakers` and
  `PostOfficeImplementsMailService`. `SendInv` is the token of
  `messageSent`. `PacketIsAnnounced` needs that the postal worker alone does `P(messageAvailable)`, and takes the
  packet before it comes back; `RoomForMail` bounds the number of mails. `TakersInv` says where the sleepers of a box are in
  `SynchList::Remove`, and that each mail beyond those on their way to be taken would find no sleeper. For the order of
  mails, `OrderInv` says that whatever is on the wire, in the device, in the worker's hands and in a box is, in this order,
  numbered downwards. The promise keeps a set of mails for each box, and its `Take` takes the oldest.
- **`MachineProofs`**: `StatusAccountsForThread`, `HaltsWhenAllHaveEnded`, `PendingStaysRight` and `LatencyIsGeometry`.
  `MachineInv` is the conjunction of the first two properties with
  types, `StatusIsKept` (the status that each thread will put back when its `OneTick` ends is its own: a switch
  takes place inside the tick), `DevicesLive` (a device that reschedules itself is on the list
  exactly if it is not the interrupt in hand), and `NobodyIsLost` (each thread runs, is ready, waits for an interrupt that is
  on the list, or has ended). The lemmas on `SortedInsert` say that it adds its interrupt, keeps all others
  wherever it lands, and keeps a sorted list sorted. `PendingInv` adds that what is due now is so only inside a tick (`DueInv`),
  with the one interrupt that `CheckIfDue` puts back when the timer is alone, and that the disk has an interrupt
  exactly while a request is active (`DiskInv`). `LatencyIsGeometry` rests on arithmetic only: lemmas on `\div` and `%` say
  when the head is over a sector, and that `ComputeLatency` lands there.
- **`CpuProofs`**: `ArithmeticIsAlwaysExact`, `RegistersStaySettled` and `CpuImplementsIsolated`. That `Mult` gives the whole
  product is an induction on its rounds (over a set of numbers, from the library's theorem on least elements): `MultInv` says
  that what has been summed, plus what is left of one factor times the shifted other one, is the product, and that the
  double word never overflows. The signs tell an overflow by cases, and parts of words stay apart because
  changing one digit of a number changes no other. For `RegistersAreSettled` each instruction has to leave words in the
  registers (`CompletedIsGood`), with any word that `Found` gives it, so that this theorem covers the timer. `CpuInv` adds that the CPU uses the page
  table of the current process; and without the timer `FramesInv`, that no more pages are in memory than there are frames, with one
  frame in hand while a page comes in, and `CallsInv`, that a process in a system call, asleep there perhaps, is still at its `SYSCALL`. The
  refinement `CpuImplementsIsolated` is without the timer and needs the last one. Only `OneInstruction`, system calls, ends of processes and `NachosAborts` are
  steps of `Isolated` besides `Settle`, the early arrival of a load, which `RaiseException` and `OneTick` are; the two halves of a page fault and switches stutter.

**Only model-checked**:

- the liveness properties (`ReadyThreadRuns`, `FoodIsEaten`, `MemoryLockIsReleased`, `LastOneHalts`, `WriteEnds`, `MachineStops`),
  since liveness under fairness is out of the prover's reach, as is `ENABLED`.

## Not modelled

- `machine/stats.cc`, `threads/utility.cc`: counters and debugging output, on which nothing depends.
- `threads/switch.s`, `machine/sysdep.cc`: assembly and host calls; `SWITCH` is `continuation`.
- `threads/preemptive.cc` on the host's level: its signal may come between any two host instructions, inside the device
  models too, which do not disable interrupts (line 150). In the models an interrupt comes at the end of an operation.
- The fields of encoded instructions (`Instruction::Decode`), for which `Mips` has any function of words, and the debugger.
- The LRU policy (`memoryManager.h`), which is not compiled in; victims are left open instead.
- The copying of names and buffers in system calls. It has several limits that no model states:
  `Exec` loses what it has read of a name when a fault comes in the middle (`exception.cc:188`), `Read` writes its
  zero behind the buffer (`exception.cc:271`), and a full process table gives `Exec` no answer (`exception.cc:211`).
- The layout of executables, `List`, `Print` and the seek position of open files; `Create` and `Remove` by several threads
  at once, which `filesys.cc` says it does not support.
- `bin/coff2noff.c` and `test/`: a host tool and user programs.
- The other trees under `src/NACHOS-master/NACHOS_1`, `NACHOS_2`, `src/Nachos 1`, `Nachos 2`, `Nachos 3`: earlier assignments and
  other students' variants of the same files. They are most of the repository's lines, a dozen copies of the
  same sources with other bodies here and there, so the modules describe the complete tree only.

Oddities of the code that the models either follow or leave out:

- Followed: `OP_OR` computes `rs | rs` (`mipssim.cc:376`) and `SRL` and `SRLV` shift a signed `int`, so that they copy the sign
  (`mipssim.cc:445`): both are bugs of the simulator, whose instructions do not do what the MIPS's do. `Result` in `Mips` has them
  as they are; no property states what these instructions should do, and `ArithmeticIsExact` is about others
  (multiplication, the overflow of additions and subtractions, parts of words).
  `Network` never sets `sendBusy` (`network.cc:107`); the `ASSERT`s of `LWL`, `LWR`, `SWL` and `SWR`, which a user program can fail
  (`mipssim.cc:286`), and the division of the least integer by -1, which traps on the host (`mipssim.cc:201`).
- Left out: `WriteMem` records no
  access time (`translate.cc:143`); `Create` accepts any size (`filehdr.cc:49`); `foodNumber` and `totalTicks` are ints
  that overflow after 2^31 steps (`producer.cc:33`, `interrupt.cc:267`); removing an open file leaves its `OpenFile`
  with a header of its own (`openfile.cc:30`; programs close a file before they remove it).
