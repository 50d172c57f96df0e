------------------------- MODULE MCProducerConsumer -------------------------
(***************************************************************************)
(* TLC instances of ProducerConsumer.                                      *)
(***************************************************************************)
EXTENDS ProducerConsumer

CONSTANTS p1, p2, c1, c2, main

MCThreads       == {main, p1, p2, c1, c2}
MCForkOrder     == <<p1, p2, c1, c2>>
MCConditionLock == [c \in Conditions |-> TableLock]
MCInitialValue  == [s \in Semaphores |-> 0]
=============================================================================
