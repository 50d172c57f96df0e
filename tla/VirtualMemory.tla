---------------------------- MODULE VirtualMemory ----------------------------
(***************************************************************************)
(* What demand paging promises to user programs: each process has a memory *)
(* of its own, which starts as its executable file and then changes only   *)
(* when the process itself writes to it.  No frames, no swap files, no     *)
(* replacement.                                                            *)
(***************************************************************************)
EXTENDS Naturals

CONSTANTS Procs, Pages,
          MaxWrites,        \* bound: how often a program writes to a page
          FromFile(_, _)    \* what the executable file has in a page

VARIABLES alive, memory

vars == <<alive, memory>>

Init ==
  /\ \E p \in Procs : alive = {p}
  /\ memory = [p \in Procs |-> [n \in Pages |-> FromFile(p, n)]]

Start(p) ==
  /\ alive # {} /\ p \notin alive
  /\ alive' = alive \cup {p}
  /\ UNCHANGED memory

\* The process changes a part of its page: a page has an owner, a number and a
\* count of the writes it has seen.
Write(p, n) ==
  /\ p \in alive
  /\ memory[p][n][3] < MaxWrites
  /\ memory' = [memory EXCEPT ![p][n][3] = @ + 1]
  /\ UNCHANGED alive

End(p) ==
  /\ p \in alive
  /\ alive' = alive \ {p}
  /\ memory' = [memory EXCEPT ![p] = [n \in Pages |-> FromFile(p, n)]]

Next == \E p \in Procs : Start(p) \/ End(p) \/ \E n \in Pages : Write(p, n)

Spec == Init /\ [][Next]_vars
=============================================================================
