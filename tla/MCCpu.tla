------------------------------- MODULE MCCpu --------------------------------
(***************************************************************************)
(* TLC instances of Cpu: words of eight bits, so that overflow, carries    *)
(* and signs are near.  The first process starts the second one, runs any  *)
(* three instructions of a menu and calls Exit; the second one loads,      *)
(* stores and calls Read in a loop, with the load's delay slot taken by    *)
(* the store and the branch's by the system call.                          *)
(***************************************************************************)
EXTENDS Cpu, Sequences

CONSTANTS p1, p2

I(op, rs, rt, rd, extra) == [op |-> op, rs |-> rs, rt |-> rt, rd |-> rd, extra |-> extra]

\* The word n stands for the n-th of these instructions, and all others for RES.
\* The data are in words 8 and 9, bytes 32 to 39.
Code ==
  <<I("LW", 0, 1, 0, 32),      \* r1 := 100
    I("LB", 0, 2, 0, 38),      \* r2 := a byte that is negative
    I("LWR", 2, 1, 0, 36),     \* not at a multiple of four when r2 is that byte
    I("LW", 0, 0, 0, 32),      \* r0 stays zero
    I("ADD", 1, 1, 1, 0),      \* overflows when r1 is 100
    I("SW", 0, 1, 0, 36),
    I("SH", 1, 2, 0, 38),      \* outside the address space when r1 is 100
    I("BGEZAL", 1, 0, 0, 1),
    I("MULT", 1, 2, 0, 0),
    I("SYSCALL", 0, 0, 0, 0),
    I("ADDIU", 0, 2, 0, 2),    \* before a SYSCALL: Exec
    I("ADDIU", 0, 2, 0, 1),    \* before a SYSCALL: Exit
    I("LW", 0, 2, 0, 36), I("SB", 0, 2, 0, 32), I("BEQ", 0, 0, 0, -3)>>

MCDecode == [w \in Word |-> IF w \in DOMAIN Code THEN Code[w] ELSE I("RES", 0, 0, 0, 0)]

Menu    == 1 .. 10
Syscall == 10
Exec    == <<11, Syscall>>
Exit    == <<12, Syscall>>
Illegal == 0

Image(words) == [n \in 0 .. 11 |-> words[n + 1]]

Loop == Image(<<13, 14, 15, Syscall, Illegal, Illegal, Illegal, Illegal, 0, 6, 0, 0>>)

MCImages ==
  {[p \in Procs |->
      IF p = First THEN Image(Exec \o code \o Exit \o <<Illegal, 100, 32, 0, 0>>)
                   ELSE Loop] : code \in [1 .. 3 -> Menu]}

\* With the timer there are so many more states that these programs have to do.
TimerImages ==
  {memory0 \in MCImages : /\ memory0[First][2] \in {1, 2, Syscall}
                         /\ memory0[First][3] \in {1, 5}
                         /\ memory0[First][4] = 1}

MCInit == CpuInit /\ (timer => memory \in TimerImages)

MCSpec == MCInit /\ [][CpuNext]_cpuVars
=============================================================================
