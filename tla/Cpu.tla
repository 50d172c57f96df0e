--------------------------------- MODULE Cpu --------------------------------
(***************************************************************************)
(* User programs on the simulated CPU: the loop of Machine::Run and        *)
(* OneInstruction (machine/mipssim.cc) with translation                    *)
(* (machine/translate.cc), exceptions (machine/machine.cc and              *)
(* userprog/exception.cc), interrupts (machine/interrupt.cc) and switches  *)
(* between processes (threads/scheduler.cc), which share the registers.    *)
(* Mips has the instructions; Paging has how pages get their contents, and *)
(* shows that with the timer they may be those of another process.         *)
(***************************************************************************)
EXTENDS Mips, FiniteSets

CONSTANTS Procs, First,   \* the processes, and the one nachos -x starts
          Images,         \* the programs they may run, as their first memory
          PageSize, NumPages, NumPhysPages,
          SC_Halt, SC_Exit, SC_Exec, SC_Read, SC_Write,
          Answers,        \* what a system call may leave in register 2
          Strays          \* bound: the words of others that a program may come upon

ASSUME CpuAssumption ==
  /\ First \in Procs
  /\ PageSize \in {4 * k : k \in 1 .. 32} /\ NumPages \in Nat \ {0}
  /\ PageSize * NumPages < 2 ^ (WordSize - 1)
  /\ NumPhysPages \in Nat \ {0}
  /\ Images \subseteq [Procs -> [0 .. (PageSize * NumPages) \div 4 - 1 -> Word]]
  /\ R31 >= 2
  /\ Answers \subseteq Word /\ Strays \subseteq Word

VARIABLES
  timer,          \* whether it is nachos -rs; it stays as it is
  registers,      \* Machine::registers
  userRegisters,  \* Thread::userRegisters
  currentThread,  \* whose registers they are
  pageTable,      \* Machine::pageTable: whose pages the CPU uses
  valid,          \* the pages of a process that are in main memory
  memory,         \* the words of its address space, wherever their pages are
  mode,           \* in its program, or in the kernel because of an exception
  halted          \* Interrupt::Halt has been called

cpuVars == <<timer, registers, userRegisters, currentThread, pageTable, valid, memory, mode, halted>>

Mode(where, page) == [at |-> where, page |-> page]

New    == Mode("New", 0)
Forked == Mode("Forked", 0)
User   == Mode("User", 0)
Ended  == Mode("Ended", 0)

AddressSpace == PageSize * NumPages

CpuInit ==
  /\ timer \in BOOLEAN
  /\ registers = InitRegisters
  /\ userRegisters = [p \in Procs |-> InitRegisters]
  /\ currentThread = First
  /\ pageTable = First
  /\ valid = [p \in Procs |-> {}]
  /\ memory \in Images
  /\ mode = [p \in Procs |-> IF p = First THEN User ELSE New]
  /\ halted = FALSE

-----------------------------------------------------------------------------
InUserMode == ~halted /\ mode[currentThread] = User

\* Machine::Translate, without the frame: no page is read-only, and frames are
\* always good ones.
Translate(address, size) ==
  LET page == Unsigned(address) \div PageSize IN
  IF address % size # 0 \/ page >= NumPages THEN "AddressError"
  ELSE IF page \notin valid[pageTable] THEN "PageFault"
  ELSE "None"

\* The word that the CPU finds at "at": its program's own.  With the timer a time
\* slice may end between AllocateFrame and the end of LoadPage, and two pages get
\* the same frame; the word is then any one of another process.
Found(at) == {memory[pageTable][at]} \cup (IF timer THEN Strays ELSE {})

\* What OneInstruction may fetch, and the address it uses.
Instructions == {Decode[word] : word \in Found(registers.pc \div 4)}

Operand(i) == Address(i, registers)

UsesMemory(i) == i.op \in Loads \cup Stores

\* What ends an instruction early, if anything, and for which address: nothing has
\* been changed before that.
Outcome(i) ==
  IF StopsNachos(i, registers) THEN [kind |-> "Abort", address |-> 0]
  ELSE IF Raises(i, registers) # "None" THEN [kind |-> Raises(i, registers), address |-> 0]
  ELSE IF UsesMemory(i) THEN [kind |-> Translate(Operand(i), Size(i.op)), address |-> Operand(i)]
  ELSE [kind |-> "None", address |-> 0]

Fetch == Translate(registers.pc, 4)

Exceptions ==
  IF Fetch # "None" THEN {[kind |-> Fetch, address |-> registers.pc]}
  ELSE {Outcome(i) : i \in Instructions} \ {[kind |-> "Abort", address |-> 0]}

\* Machine::OneInstruction when it comes to its end.
OneInstruction ==
  /\ InUserMode
  /\ Fetch = "None"
  /\ \E i \in Instructions :
       LET at == Unsigned(Operand(i)) \div 4 IN
       /\ Outcome(i).kind = "None"
       /\ \E word \in IF UsesMemory(i) THEN Found(at) ELSE {0} :
            /\ registers' = Completed(i, registers, word)
            /\ memory' = IF i.op \in Stores
                           THEN [memory EXCEPT ![pageTable][at] = Stored(i, registers, word)]
                           ELSE memory
  /\ UNCHANGED <<timer, userRegisters, currentThread, pageTable, valid, mode, halted>>

\* The ASSERTs of LWL, LWR, SWL and SWR, and the host's trap: Nachos is gone, with
\* all processes.
NachosAborts ==
  /\ InUserMode
  /\ Fetch = "None"
  /\ \E i \in Instructions : StopsNachos(i, registers)
  /\ halted' = TRUE
  /\ UNCHANGED <<timer, registers, userRegisters, currentThread, pageTable, valid, memory, mode>>

\* In the kernel because of an exception.
ModeFor(exception) ==
  Mode(exception.kind, IF exception.kind = "PageFault"
                         THEN Unsigned(exception.address) \div PageSize ELSE 0)

\* Mutant of RaiseException: the load on its way is left there.
RaiseExceptionKeepsLoad ==
  /\ InUserMode
  /\ \E exception \in Exceptions :
       /\ exception.kind # "None"
       /\ mode' = [mode EXCEPT ![currentThread] = ModeFor(exception)]
  /\ UNCHANGED <<timer, registers, userRegisters, currentThread, pageTable, valid, memory, halted>>

\* Machine::RaiseException: the load on its way is finished, then the kernel
\* takes over.
RaiseException ==
  /\ InUserMode
  /\ \E exception \in Exceptions :
       /\ exception.kind # "None"
       /\ mode' = [mode EXCEPT ![currentThread] = ModeFor(exception)]
  /\ registers' = Settled(registers)
  /\ UNCHANGED <<timer, userRegisters, currentThread, pageTable, valid, memory, halted>>

-----------------------------------------------------------------------------
(***************************************************************************)
(* ExceptionHandler                                                        *)
(***************************************************************************)
InKernel(kinds) == ~halted /\ mode[currentThread].at \in kinds

\* The pages in main memory, as pairs.
Resident == {pair \in Procs \X (0 .. NumPages - 1) : pair[2] \in valid[pair[1]]}

\* AllocateFrame, which PageFaultExceptionHandler calls: when no frame is free the
\* page in one of them, of any process, has to leave.  With the timer frames may
\* be shared, or given to pages that are not valid yet.
PageFault ==
  LET victims == {{pair} : pair \in Resident} IN
  /\ InKernel({"PageFault"})
  /\ \E out \in IF timer THEN victims \cup {{}}
               ELSE IF Cardinality(Resident) < NumPhysPages THEN {{}} ELSE victims :
       valid' = [p \in Procs |-> {page \in valid[p] : <<p, page>> \notin out}]
  /\ mode' = [mode EXCEPT ![currentThread] = Mode("LoadPage", mode[currentThread].page)]
  /\ UNCHANGED <<timer, registers, userRegisters, currentThread, pageTable, memory, halted>>

\* Mutant of LoadPage: the handler goes on behind the instruction.
LoadPageForwards ==
  /\ InKernel({"LoadPage"})
  /\ valid' = [valid EXCEPT ![currentThread] = @ \cup {mode[currentThread].page}]
  /\ registers' = ForwardPC(registers)
  /\ mode' = [mode EXCEPT ![currentThread] = User]
  /\ UNCHANGED <<timer, userRegisters, currentThread, pageTable, memory, halted>>

\* The rest of AddrSpace::LoadPage: the page is read into its frame, and valid.
LoadPage ==
  /\ InKernel({"LoadPage"})
  /\ valid' = [valid EXCEPT ![currentThread] = @ \cup {mode[currentThread].page}]
  /\ mode' = [mode EXCEPT ![currentThread] = User]
  /\ UNCHANGED <<timer, registers, userRegisters, currentThread, pageTable, memory, halted>>

\* SysCallExitHandler: the memory is released; the last one halts.
ExitProcess ==
  /\ mode' = [mode EXCEPT ![currentThread] = Ended]
  /\ valid' = [valid EXCEPT ![currentThread] = {}]
  /\ halted' = \A p \in Procs \ {currentThread} : mode[p] \in {New, Ended}

\* The exceptions that end a process.
Killed ==
  /\ InKernel({"AddressError", "Overflow", "IllegalInstr"})
  /\ ExitProcess
  /\ UNCHANGED <<timer, registers, userRegisters, currentThread, pageTable, memory>>

Called(number) == InKernel({"Syscall"}) /\ registers.gpr[2] = number

SysCallExit ==
  /\ Called(SC_Exit)
  /\ ExitProcess
  /\ UNCHANGED <<timer, registers, userRegisters, currentThread, pageTable, memory>>

SysCallHalt ==
  /\ Called(SC_Halt)
  /\ halted' = TRUE
  /\ UNCHANGED <<timer, registers, userRegisters, currentThread, pageTable, valid, memory, mode>>

\* SysCallExecHandler: no file, no room in the process table (and no answer), or
\* another process.
SysCallExec ==
  /\ Called(SC_Exec)
  /\ \/ /\ mode' = [mode EXCEPT ![currentThread] = User]
        /\ registers' \in {ForwardPC(registers), ForwardPC([registers EXCEPT !.gpr[2] = -1])}
     \/ \E p \in Procs, answer \in Answers :
          /\ mode[p] = New
          /\ mode' = [mode EXCEPT ![currentThread] = User, ![p] = Forked]
          /\ registers' = ForwardPC([registers EXCEPT !.gpr[2] = answer])
  /\ UNCHANGED <<timer, userRegisters, currentThread, pageTable, valid, memory, halted>>

\* Read answers the size; Write and the unknown calls answer nothing.  (What
\* Read writes into the process's memory is in Console.)
SysCallOther ==
  LET number == registers.gpr[2] IN
  /\ InKernel({"Syscall"})
  /\ number \notin {SC_Halt, SC_Exit, SC_Exec}
  /\ mode' = [mode EXCEPT ![currentThread] = User]
  /\ IF number = SC_Read
       THEN \E size \in Answers : registers' = ForwardPC([registers EXCEPT !.gpr[2] = size])
       ELSE registers' = ForwardPC(registers)
  /\ UNCHANGED <<timer, userRegisters, currentThread, pageTable, valid, memory, halted>>

-----------------------------------------------------------------------------
(***************************************************************************)
(* Interrupts and switches                                                 *)
(***************************************************************************)

\* Scheduler::Run: SaveUserState, and RestoreUserState and RestoreState of the
\* next process, or DummyForFork when it has not run yet.
SwitchTo(p, saved) ==
  /\ mode[p] \notin {New, Ended}
  /\ userRegisters' = [userRegisters EXCEPT ![currentThread] = saved]
  /\ currentThread' = p
  /\ registers' = IF mode[p] = Forked THEN InitRegisters ELSE userRegisters[p]
  /\ pageTable' = p
  /\ mode' = IF mode[p] = Forked THEN [mode EXCEPT ![p] = User] ELSE mode

\* Interrupt::OneTick between two instructions, when CheckIfDue runs a handler:
\* it finishes the load on its way, and the timer's makes the process yield.
OneTick ==
  /\ InUserMode
  /\ \/ /\ registers' = Settled(registers)
        /\ UNCHANGED <<userRegisters, currentThread, pageTable, mode>>
     \/ timer /\ \E p \in Procs \ {currentThread} : SwitchTo(p, Settled(registers))
  /\ UNCHANGED <<timer, valid, memory, halted>>

\* A process leaves the CPU in the kernel: at its end, when it waits for the
\* console, or anywhere when its time slice ends or another has a lock it needs.
Sleep ==
  /\ ~halted
  /\ \/ timer /\ mode[currentThread] # User
     \/ mode[currentThread] = Ended
     \/ mode[currentThread].at = "Syscall" /\ registers.gpr[2] \in {SC_Read, SC_Write}
  /\ \E p \in Procs \ {currentThread} : SwitchTo(p, registers)
  /\ UNCHANGED <<timer, valid, memory, halted>>

ExceptionHandler ==
  \/ PageFault \/ LoadPage \/ Killed \/ SysCallExit \/ SysCallHalt \/ SysCallExec
  \/ SysCallOther

CpuNext ==
  OneInstruction \/ NachosAborts \/ RaiseException \/ ExceptionHandler \/ OneTick \/ Sleep

CpuSpec == CpuInit /\ [][CpuNext]_cpuVars

-----------------------------------------------------------------------------
(***************************************************************************)
(* Properties                                                              *)
(***************************************************************************)

\* R0 is zero wherever the registers are kept.
CpuTypeOK ==
  /\ timer \in BOOLEAN
  /\ \A r \in {registers} \cup {userRegisters[p] : p \in Procs} :
       r \in Registers /\ r.gpr[0] = 0
  /\ currentThread \in Procs /\ pageTable \in Procs
  /\ valid \in [Procs -> SUBSET (0 .. NumPages - 1)]
  /\ ~timer => Cardinality(Resident) <= NumPhysPages
  /\ mode \in [Procs -> {New, Forked, User, Ended}
                          \cup {Mode(kind, 0) : kind \in {"AddressError", "Overflow",
                                                          "IllegalInstr", "Syscall"}}
                          \cup {Mode(kind, page) : kind \in {"PageFault", "LoadPage"},
                                                   page \in 0 .. NumPages - 1}]
  /\ memory \in [Procs -> [0 .. AddressSpace \div 4 - 1 -> Word]]
  /\ halted \in BOOLEAN

\* "any delayed load must get applied before we trap to the kernel" (mipssim.cc):
\* neither the kernel nor another process ever has the registers, or keeps them,
\* with a load on its way, which would then hit the register of an answer or of
\* another program.
NoLoadIsOnItsWay ==
  /\ mode[currentThread] # User => registers.loadReg = 0
  /\ \A p \in Procs \ {currentThread} : userRegisters[p].loadReg = 0

\* Wherever registers are kept they are complete, and register 0 is zero.
RegistersAreSettled == CpuTypeOK /\ NoLoadIsOnItsWay

\* Whatever the operands are of a multiplication, an addition or subtraction that
\* may overflow, or a load or store that a program is about to do, it does on bit
\* patterns what is meant on integers: Mult gives the whole product, the signs tell
\* every overflow, parts of words stay apart.
ArithmeticIsExact ==
  InUserMode /\ Fetch = "None" =>
    \A i \in Instructions :
      /\ i.op \in {"MULT", "MULTU"} => MultIsExact
      /\ i.op \in {"ADD", "ADDI", "SUB"} => OverflowIsExact
      /\ UsesMemory(i) => PartsAreSeparate

\* The registers a process has, or will have when it runs, ...
View ==
  [p \in Procs |-> IF mode[p] \in {New, Forked} THEN InitRegisters
                   ELSE IF p = currentThread THEN registers
                   ELSE userRegisters[p]]

\* ... and whether its program can still run.
LifeIn(m) ==
  CASE m = New -> "new"
    [] m.at \in {"Ended", "AddressError", "Overflow", "IllegalInstr"} -> "ended"
    [] OTHER -> "live"

Life == [p \in Procs |-> LifeIn(mode[p])]

Alone == INSTANCE Isolated WITH view <- View, life <- Life, off <- halted

\* Without the timer, each program runs as if it had the CPU and all its memory
\* for itself: a page fault in any instruction, one in a branch's or a load's delay
\* slot included, leaves nothing half done and the instruction is done again from
\* the start; interrupts, and switches in system calls, leave no trace; a system
\* call returns behind itself.  With the timer programs lose this: their pages may
\* share a frame.
ImplementsIsolated ==
  (~timer => Alone!Init) /\ [][~timer => Alone!Next]_<<View, memory, Life, halted>>
=============================================================================
