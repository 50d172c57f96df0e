------------------------------ MODULE Isolated ------------------------------
(***************************************************************************)
(* What the CPU and the kernel promise to user programs: each process has  *)
(* a CPU and a whole address space for itself, on which its program runs   *)
(* one instruction after the other.  There are no pages, no page faults,   *)
(* no interrupts and no other processes.  One liberty is left to the CPU,  *)
(* the one the MIPS takes: the register of a load may change at once       *)
(* or only after the next instruction.  One promise is not made: a few     *)
(* instructions, of any process, turn the machine off for all.             *)
(***************************************************************************)
EXTENDS Integers

CONSTANTS
  Procs, AddressSpace, Answers,
  Decode, Loads, Stores,                       \* the instructions,
  Address(_, _), Size(_), Unsigned(_),         \* the addresses they use,
  Raises(_, _), Completed(_, _, _), Stored(_, _, _),            \* what they do,
  StopsNachos(_, _),                           \* those that end everything,
  InitRegisters, Settled(_), ForwardPC(_)      \* and what is done between them

VARIABLES
  view,    \* each process's registers
  memory,  \* each process's words: instructions and data
  life,    \* "new", "live" or "ended"
  off      \* the machine has been halted

isolatedVars == <<view, memory, life, off>>

\* Memory starts with any programs.
Init ==
  /\ view = [p \in Procs |-> InitRegisters]
  /\ life \in {[q \in Procs |-> IF q = p THEN "live" ELSE "new"] : p \in Procs}
  /\ off = FALSE

Runs(p) == life[p] = "live" /\ ~off

\* The instruction p is at, and whether the address it uses is a good one.
InstructionOf(p) == Decode[memory[p][view[p].pc \div 4]]

GoodAddress(i, r) ==
  LET address == Address(i, r) IN
  /\ address % Size(i.op) = 0
  /\ Unsigned(address) < AddressSpace

TouchesMemory(i) == i.op \in Loads \cup Stores

\* The program counter may itself be bad.
CanFetch(p) == view[p].pc % 4 = 0 /\ Unsigned(view[p].pc) < AddressSpace

Step(p) ==
  LET i  == InstructionOf(p)
      r  == view[p]
      at == Unsigned(Address(i, r)) \div 4 IN
  /\ Runs(p)
  /\ CanFetch(p)
  /\ ~StopsNachos(i, r) /\ Raises(i, r) = "None"
  /\ TouchesMemory(i) => GoodAddress(i, r)
  /\ view' = [view EXCEPT ![p] =
       Completed(i, r, IF TouchesMemory(i) THEN memory[p][at] ELSE 0)]
  /\ memory' = IF i.op \in Stores
                 THEN [memory EXCEPT ![p][at] = Stored(i, r, @)]
                 ELSE memory
  /\ UNCHANGED <<life, off>>

\* The load that is on its way arrives early.
Settle(p) ==
  /\ Runs(p)
  /\ view' = [view EXCEPT ![p] = Settled(@)]
  /\ UNCHANGED <<memory, life, off>>

\* An instruction that cannot be executed ends the process.
Die(p) ==
  LET i == InstructionOf(p)  r == view[p] IN
  /\ Runs(p)
  /\ \/ ~CanFetch(p)
     \/ Raises(i, r) \in {"Overflow", "IllegalInstr"}
     \/ TouchesMemory(i) /\ ~GoodAddress(i, r) /\ ~StopsNachos(i, r)
  /\ view' = [view EXCEPT ![p] = Settled(@)]
  /\ life' = [life EXCEPT ![p] = "ended"]
  /\ UNCHANGED <<memory, off>>

\* An instruction that ends the machine for all.
Abort(p) ==
  /\ Runs(p)
  /\ CanFetch(p) /\ StopsNachos(InstructionOf(p), view[p])
  /\ off' = TRUE
  /\ UNCHANGED <<view, memory, life>>

\* A system call: the loads before it have arrived, it may leave an answer in
\* register 2, and the program goes on behind it.
Syscall(p) ==
  /\ Runs(p)
  /\ CanFetch(p) /\ InstructionOf(p).op = "SYSCALL"
  /\ view[p].loadReg = 0
  /\ \/ /\ \/ view' = [view EXCEPT ![p] = ForwardPC(@)]
           \/ \E answer \in Answers \cup {-1} :
                view' = [view EXCEPT ![p] = ForwardPC([@ EXCEPT !.gpr[2] = answer])]
        /\ \/ UNCHANGED life
           \/ \E q \in Procs : life[q] = "new" /\ life' = [life EXCEPT ![q] = "live"]
        /\ UNCHANGED off
     \/ /\ life' = [life EXCEPT ![p] = "ended"]
        /\ off' \in BOOLEAN
        /\ UNCHANGED view
     \/ off' = TRUE /\ UNCHANGED <<view, life>>
  /\ UNCHANGED memory

\* The last process to end turns the machine off.
TurnOff ==
  /\ \A p \in Procs : life[p] # "live"
  /\ off' = TRUE
  /\ UNCHANGED <<view, memory, life>>

Next == TurnOff \/ \E p \in Procs : Step(p) \/ Settle(p) \/ Die(p) \/ Abort(p) \/ Syscall(p)

Spec == Init /\ [][Next]_isolatedVars
=============================================================================
