------------------------------ MODULE Terminal ------------------------------
(***************************************************************************)
(* What the system calls Read and Write promise: a call has the terminal   *)
(* for itself from its first character to its last, and the characters of  *)
(* the keyboard are handed out in the order in which they were typed, each *)
(* of them once.  No lock, no semaphores, no interrupts.                   *)
(***************************************************************************)
EXTENDS Naturals

CONSTANTS Processes, NoProcess,
          MaxSize,    \* bound: characters of a call
          MaxTyped    \* bound: characters typed

VARIABLES user,   \* who has the terminal
          kind,   \* of the call it has it for
          left,   \* characters to go
          taken   \* characters handed out so far, numbered from 1

vars == <<user, kind, left, taken>>

Init == user = NoProcess /\ kind = "none" /\ left = 0 /\ taken = 0

\* A call takes the terminal; a Write adds the end of the line.
Open(p) ==
  /\ user = NoProcess
  /\ user' = p
  /\ \E n \in 0 .. MaxSize :
       \/ /\ kind' = "read"
          /\ left' = n
       \/ /\ kind' = "write"
          /\ left' = n + 1
  /\ UNCHANGED taken

GetChar ==
  /\ kind = "read" /\ left > 0 /\ taken < MaxTyped
  /\ taken' = taken + 1
  /\ left' = left - 1
  /\ UNCHANGED <<user, kind>>

PutChar ==
  /\ kind = "write" /\ left > 0
  /\ left' = left - 1
  /\ UNCHANGED <<user, kind, taken>>

Close ==
  /\ user # NoProcess /\ left = 0
  /\ user' = NoProcess /\ kind' = "none"
  /\ UNCHANGED <<left, taken>>

Next == (\E p \in Processes : Open(p)) \/ GetChar \/ PutChar \/ Close

Spec == Init /\ [][Next]_vars
=============================================================================
