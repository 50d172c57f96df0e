------------------------------ MODULE Monitor -------------------------------
(***************************************************************************)
(* What threads/synch.cc promises the programs that use it: counting       *)
(* semaphores, mutual exclusion, and conditions with Mesa semantics, with  *)
(* no ready list, no queues, no interrupts and no scheduler.               *)
(***************************************************************************)
EXTENDS Naturals

CONSTANTS Threads, Semaphores, Locks, Conditions, ConditionLock, InitialValue

VARIABLES tokens,    \* the units each semaphore has to give
          holding,   \* the locks each thread holds
          waiters    \* the threads that wait on each condition

vars == <<tokens, holding, waiters>>

Init ==
  /\ tokens = InitialValue
  /\ holding = [t \in Threads |-> {}]
  /\ waiters = [c \in Conditions |-> {}]

Waiting(t) == \E c \in Conditions : t \in waiters[c]
Free(l)    == \A t \in Threads : l \notin holding[t]

\* P takes a unit that is there; V adds one.
Take(s) ==
  /\ tokens[s] > 0
  /\ tokens' = [tokens EXCEPT ![s] = @ - 1]
  /\ UNCHANGED <<holding, waiters>>

Give(s) ==
  /\ tokens' = [tokens EXCEPT ![s] = @ + 1]
  /\ UNCHANGED <<holding, waiters>>

\* Acquire returns, or Wait returns, which it may only do after a signal.
Enter(t, l) ==
  /\ Free(l)
  /\ ~Waiting(t)
  /\ holding' = [holding EXCEPT ![t] = @ \cup {l}]
  /\ UNCHANGED <<tokens, waiters>>

Leave(t, l) ==
  /\ l \in holding[t]
  /\ ~Waiting(t)
  /\ holding' = [holding EXCEPT ![t] = @ \ {l}]
  /\ UNCHANGED <<tokens, waiters>>

\* Wait gives the lock back and joins the waiters in one step.
Wait(t, c) ==
  /\ ConditionLock[c] \in holding[t]
  /\ ~Waiting(t)
  /\ holding' = [holding EXCEPT ![t] = @ \ {ConditionLock[c]}]
  /\ waiters' = [waiters EXCEPT ![c] = @ \cup {t}]
  /\ UNCHANGED tokens

\* Signal releases one waiter; Broadcast releases all of them.
Wake(c, gone) ==
  /\ \E t \in Threads : ConditionLock[c] \in holding[t] /\ ~Waiting(t)
  /\ waiters' = [waiters EXCEPT ![c] = @ \ gone]
  /\ UNCHANGED <<tokens, holding>>

Signal(c)    == \E t \in waiters[c] : Wake(c, {t})
Broadcast(c) == waiters[c] # {} /\ Wake(c, waiters[c])

Next ==
  \/ \E s \in Semaphores : Take(s) \/ Give(s)
  \/ \E t \in Threads, l \in Locks : Enter(t, l) \/ Leave(t, l)
  \/ \E t \in Threads, c \in Conditions : Wait(t, c)
  \/ \E c \in Conditions : Signal(c) \/ Broadcast(c)

Spec == Init /\ [][Next]_vars
=============================================================================
