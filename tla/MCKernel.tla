------------------------------ MODULE MCKernel ------------------------------
(***************************************************************************)
(* TLC instances of Kernel.                                                *)
(***************************************************************************)
EXTENDS Kernel

CONSTANT Start   \* the initial value of every semaphore

MCConditionLock == [c \in Conditions |-> CHOOSE l \in Locks : TRUE]
MCInitialValue  == [s \in Semaphores |-> Start]
=============================================================================
