----------------------------- MODULE MCConsole ------------------------------
(***************************************************************************)
(* TLC instances of Console: one lock, two semaphores that start at zero.  *)
(***************************************************************************)
EXTENDS Console

MCConditionLock == [c \in Conditions |-> consoleLock]
MCInitialValue  == [s \in Semaphores |-> 0]
=============================================================================
