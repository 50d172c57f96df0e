---------------------------- MODULE MCPostOffice ----------------------------
(***************************************************************************)
(* TLC instances of PostOffice: a lock and a condition for each box.       *)
(***************************************************************************)
EXTENDS PostOffice

CONSTANTS b1, b2, lock1, lock2, arrival1, arrival2

MCBoxLock       == [b \in Boxes |-> IF b = b1 THEN lock1 ELSE lock2]
MCNotEmpty      == [b \in Boxes |-> IF b = b1 THEN arrival1 ELSE arrival2]
MCConditionLock == [c \in Conditions |-> IF c = arrival1 THEN lock1 ELSE lock2]
MCInitialValue  == [s \in Semaphores |-> 0]
=============================================================================
