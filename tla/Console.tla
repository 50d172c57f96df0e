------------------------------ MODULE Console -------------------------------
(***************************************************************************)
(* The console and the system calls Read and Write: the device, which      *)
(* holds one incoming and one outgoing character (machine/console.cc), the *)
(* driver with its lock and two semaphores                                 *)
(* (userprog/synchronizedConsole.cc), and the loops of SysCallReadHandler  *)
(* and SysCallWriteHandler (userprog/exception.cc).  It runs on Kernel:    *)
(* each action is a kernel operation that a process is in, with what the   *)
(* driver and the device do there.                                         *)
(***************************************************************************)
EXTENDS Kernel

CONSTANTS consoleLock, readAvail, writeDone,
          MaxSize,       \* bound: characters of a call
          MaxTyped,      \* bound: characters typed
          LooksLikeEOF,  \* the typed characters that equal EOF as a char, like 0xFF
          Preemptive     \* nachos -rs or -p: a process may be made to yield

ASSUME ConsoleAssumption ==
  /\ consoleLock \in Locks
  /\ {readAvail, writeDone} \subseteq Semaphores /\ readAvail # writeDone
  /\ InitialValue[readAvail] = 0 /\ InitialValue[writeDone] = 0
  /\ MaxSize \in Nat /\ MaxTyped \in Nat
  /\ LooksLikeEOF \subseteq 1 .. MaxTyped
  /\ Preemptive \in BOOLEAN

VARIABLES
  stage,     \* where a process is in its system call
  left,      \* characters it has still to get or to put
  incoming,  \* Console::incoming; characters are numbered as they are typed
  typed,     \* how many characters the device has read from the keyboard
  putBusy,   \* Console::putBusy
  got        \* history: the character that GetChar returned last

callVars    == <<stage, left>>
consoleVars == <<incoming, typed, putBusy, got>>
systemVars  == <<vars, callVars, consoleVars>>

EOF == 0

\* Asking for the lock, and what follows once the process has it.
ReadStages  == {"get", "take", "store", "readEnd"}
WriteStages == {"put", "done", "writeEnd"}

Stages == {"user", "readLock", "writeLock"} \cup ReadStages \cup WriteStages

ConsoleInit ==
  /\ Init
  /\ stage = [t \in Threads |-> "user"]
  /\ left = [t \in Threads |-> 0]
  /\ incoming = EOF
  /\ typed = 0
  /\ putBusy = FALSE
  /\ got = 0

-----------------------------------------------------------------------------
\* The running process is at "here" in its call and goes on to "there".
Is(here) == stage[currentThread] = here

GoesTo(there) ==
  /\ stage' = [stage EXCEPT ![currentThread] = there]
  /\ UNCHANGED left

Counts(there) ==
  /\ stage' = [stage EXCEPT ![currentThread] = there]
  /\ left' = [left EXCEPT ![currentThread] = @ - 1]

\* A loop that has n characters left goes round again, or is over.
Rounds(n, again, after) == IF n > 0 THEN again ELSE after

-----------------------------------------------------------------------------
(***************************************************************************)
(* The device                                                              *)
(***************************************************************************)

\* An interrupt comes from OneTick or from Idle.
Interrupts == Idle \/ (InProgram /\ level = "IntOn")

\* Mutant of CheckCharAvail: it does not look at the buffer.
CheckCharAvailBlindly ==
  /\ Interrupts
  /\ typed < MaxTyped
  /\ typed' = typed + 1
  /\ incoming' = typed + 1
  /\ DoV(readAvail)
  /\ UNCHANGED <<pending, callVars, putBusy, got>>

\* Console::CheckCharAvail, which polls the keyboard forever: a typed character
\* is taken when the buffer looks empty, and ReadAvail does readAvail->V().
CheckCharAvail ==
  /\ Interrupts
  /\ incoming = EOF
  /\ typed < MaxTyped
  /\ typed' = typed + 1
  /\ incoming' = IF typed + 1 \in LooksLikeEOF THEN EOF ELSE typed + 1
  /\ DoV(readAvail)
  /\ UNCHANGED <<pending, callVars, putBusy, got>>

\* Console::WriteDone: the handler does writeDone->V().
WriteDone ==
  /\ CheckIfDue(writeDone)
  /\ putBusy' = FALSE
  /\ UNCHANGED <<callVars, incoming, typed, got>>

-----------------------------------------------------------------------------
(***************************************************************************)
(* SysCallReadHandler                                                      *)
(***************************************************************************)

\* A process calls Read or Write, for n characters; Write adds the newline.
Call ==
  /\ InProgram
  /\ Is("user")
  /\ \E n \in 0 .. MaxSize :
       \/ /\ stage' = [stage EXCEPT ![currentThread] = "readLock"]
          /\ left' = [left EXCEPT ![currentThread] = n]
       \/ /\ stage' = [stage EXCEPT ![currentThread] = "writeLock"]
          /\ left' = [left EXCEPT ![currentThread] = n + 1]
  /\ UNCHANGED <<vars, consoleVars>>

\* Mutant of GetLock: Write goes on without the lock.
GetLockToRead ==
  /\ \/ /\ Is("readLock")
        /\ \/ AcquireTakes(consoleLock)
                /\ GoesTo(Rounds(left[currentThread], "get", "readEnd"))
           \/ AcquireSleeps(consoleLock) /\ GoesTo("readLock")
     \/ Is("writeLock") /\ InProgram /\ GoesTo("put") /\ UNCHANGED vars
  /\ UNCHANGED consoleVars

\* SynchronizedConsole::GetLock.
GetLock ==
  /\ \/ /\ AcquireTakes(consoleLock)
        /\ \/ Is("readLock") /\ GoesTo(Rounds(left[currentThread], "get", "readEnd"))
           \/ Is("writeLock") /\ GoesTo("put")
     \/ /\ AcquireSleeps(consoleLock)
        /\ \/ Is("readLock") /\ GoesTo("readLock")
           \/ Is("writeLock") /\ GoesTo("writeLock")
  /\ UNCHANGED consoleVars

\* SynchronizedConsole::GetChar: readAvail->P() ...
AwaitChar ==
  /\ Is("get")
  /\ \/ PTakes(readAvail) /\ GoesTo("take")
     \/ PSleeps(readAvail) /\ GoesTo("get")
  /\ UNCHANGED consoleVars

\* Mutant of TakeChar: Console::GetChar leaves the character in the buffer.
TakeCharLeavesIt ==
  /\ Is("take") /\ InProgram
  /\ got' = incoming
  /\ Counts(Rounds(left[currentThread] - 1, "get", "store"))
  /\ UNCHANGED <<vars, incoming, typed, putBusy>>

\* ... and Console::GetChar.
TakeChar ==
  /\ Is("take") /\ InProgram
  /\ got' = incoming
  /\ incoming' = EOF
  /\ Counts(Rounds(left[currentThread] - 1, "get", "store"))
  /\ UNCHANGED <<vars, typed, putBusy>>

\* The second loop writes the buffer to user memory.
StoreBuffer ==
  /\ Is("store") /\ InProgram
  /\ GoesTo("readEnd")
  /\ UNCHANGED <<vars, consoleVars>>

-----------------------------------------------------------------------------
(***************************************************************************)
(* SysCallWriteHandler                                                     *)
(***************************************************************************)

\* Mutant of PutChar: the interrupt of the end is not scheduled.
PutCharForgetsInterrupt ==
  /\ Is("put") /\ InProgram
  /\ putBusy' = TRUE
  /\ Counts("done")
  /\ UNCHANGED <<vars, incoming, typed, got>>

\* A round of the loop up to Console::PutChar, which asserts that putBusy is
\* false and schedules the interrupt of the end.
PutChar ==
  /\ Is("put") /\ InProgram
  /\ putBusy' = TRUE
  /\ pending' = [pending EXCEPT ![writeDone] = @ + 1]
  /\ Counts("done")
  /\ UNCHANGED <<threadVars, level, oldLevel, semVars, lockVars, condQueue, halted,
                 holding, incoming, typed, got>>

\* Mutant of AwaitDone: PutChar does not wait for its interrupt.
DoesNotAwait ==
  /\ Is("done") /\ InProgram
  /\ GoesTo(Rounds(left[currentThread], "put", "writeEnd"))
  /\ UNCHANGED <<vars, consoleVars>>

\* writeDone->P().
AwaitDone ==
  /\ Is("done")
  /\ \/ PTakes(writeDone) /\ GoesTo(Rounds(left[currentThread], "put", "writeEnd"))
     \/ PSleeps(writeDone) /\ GoesTo("done")
  /\ UNCHANGED consoleVars

\* SynchronizedConsole::ReleaseLock.
ReleaseLock ==
  /\ Is("readEnd") \/ Is("writeEnd")
  /\ Release(consoleLock)
  /\ GoesTo("user")
  /\ UNCHANGED consoleVars

-----------------------------------------------------------------------------
\* SysCallExitHandler: the last process halts the machine, another one ends.
SysCallExit ==
  IF \A t \in Threads \ {currentThread} : continuation[t] \in {New, Ends}
    THEN /\ InProgram
         /\ halted' = TRUE
         /\ UNCHANGED <<threadVars, level, oldLevel, semVars, lockVars, condQueue,
                        pending, holding>>
    ELSE Finish

\* ReadMem, in a round of Write, or WriteMem raises an exception that ends the
\* process inside its call, with the lock still held.
BadAddress ==
  /\ (Is("put") /\ left[currentThread] > 1) \/ Is("store")
  /\ SysCallExit
  /\ UNCHANGED <<callVars, consoleVars>>

\* Exec of another process, and Exit.
ExecOrExit ==
  /\ Is("user")
  /\ SysCallExit \/ \E t \in Threads : Fork(t)
  /\ UNCHANGED <<callVars, consoleVars>>

\* With nachos -rs or -p a running process is made to yield.
Preempt ==
  /\ Preemptive /\ level = "IntOn"
  /\ Yield
  /\ UNCHANGED <<callVars, consoleVars>>

\* What the kernel does by itself.
KernelStep ==
  /\ ThreadRoot \/ YieldReturns \/ WakeFromIdle
  /\ UNCHANGED <<callVars, consoleVars>>

DriverStep ==
  \/ GetLock \/ AwaitChar \/ TakeChar \/ StoreBuffer
  \/ PutChar \/ AwaitDone \/ ReleaseLock

\* Idle never ends in Interrupt::Halt here: the next poll is always pending.
ConsoleNext ==
  \/ Call \/ DriverStep \/ BadAddress \/ ExecOrExit \/ KernelStep \/ Preempt
  \/ CheckCharAvail \/ WriteDone

ConsoleSpec == ConsoleInit /\ [][ConsoleNext]_systemVars

\* The kernel never stops; a due interrupt is delivered by some OneTick or by
\* Idle; a time slice ends; and a process that is given the CPU again and again
\* inside the driver gets on with it.
ConsoleFairness ==
  /\ WF_systemVars(KernelStep)
  /\ SF_systemVars(Preempt)
  /\ SF_systemVars(WriteDone)
  /\ \A t \in Threads : SF_systemVars(currentThread = t /\ DriverStep)

ConsoleFairSpec == ConsoleSpec /\ ConsoleFairness

-----------------------------------------------------------------------------
(***************************************************************************)
(* Properties                                                              *)
(***************************************************************************)
ConsoleTypeOK ==
  /\ stage \in [Threads -> Stages]
  /\ left \in [Threads -> 0 .. (MaxSize + 1)]
  /\ incoming \in 0 .. MaxTyped
  /\ typed \in 0 .. MaxTyped
  /\ putBusy \in BOOLEAN
  /\ got \in 0 .. MaxTyped

\* "If so, you can't do another one!" (console.h): no PutChar begins while
\* another one is in progress, and no late writeDone->V() is left over for it,
\* whoever made the last call and however its process ended.
PutsOneAtATime ==
  \A t \in Threads :
    stage[t] = "put" => ~putBusy /\ pending[writeDone] = 0 /\ value[writeDone] = 0

\* A unit of readAvail is a character in the buffer: whoever has come through
\* readAvail->P() finds one there, and one character is never announced twice,
\* however the interrupts fall between the P and Console::GetChar.
UnitIsAChar ==
  /\ \A t \in Threads : stage[t] = "take" => incoming # EOF /\ value[readAvail] = 0
  /\ (\A t \in Threads : stage[t] # "take") =>
       value[readAvail] = (IF incoming = EOF THEN 0 ELSE 1)

\* "Only read it in if there is buffer space for it (if the previous character
\* has been grabbed out of the buffer by the Nachos kernel)" (console.cc): the
\* announced characters that nobody has taken fit in the buffer.
BufferHoldsOne == value[readAvail] <= 1

\* The Write that has the lock ends, unless its process dies of a bad address or
\* the machine halts: its writeDone interrupts are neither lost nor taken by
\* another process.  (Only one has the lock, and none has it between two.)
Writing ==
  \E t \in Threads : stage[t] \in WriteStages /\ continuation[t] # Ends

WriteEnds == Writing ~> ~Writing \/ halted

\* Whose call has the terminal, and which.
Owners == {t \in Threads : stage[t] \in ReadStages \cup WriteStages}

TerminalUser == IF Owners = {} THEN NoThread ELSE CHOOSE t \in Owners : TRUE

TerminalKind ==
  IF Owners = {} THEN "none"
  ELSE IF stage[TerminalUser] \in ReadStages THEN "read" ELSE "write"

AbstractTerminal == INSTANCE Terminal WITH
  Processes <- Threads,
  NoProcess <- NoThread,
  user      <- TerminalUser,
  kind      <- TerminalKind,
  left      <- IF Owners = {} THEN 0 ELSE left[TerminalUser],
  taken     <- got

\* Read and Write keep the terminal to themselves for the whole call, and hand
\* out what was typed in order, each character once (the lock around the loops
\* of exception.cc, and the semaphores of synchronizedConsole.cc).
ImplementsTerminal == AbstractTerminal!Spec
=============================================================================
