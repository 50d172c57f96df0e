---------------------------- MODULE BoundedBuffer ----------------------------
(***************************************************************************)
(* What the producers and consumers of threads/threadtest.cc promise: the  *)
(* foods are numbered in the order in which they are produced, they are    *)
(* consumed in that order, each of them once, and at most Capacity foods   *)
(* are on the table.  No threads, no lock, no table, only its two ends.    *)
(***************************************************************************)
EXTENDS Naturals

CONSTANTS Capacity,   \* foods that fit on the table
          Numbers     \* foods are numbered modulo Numbers

VARIABLES next,   \* the number of the food to be produced next
          last    \* the number of the food consumed last

vars == <<next, last>>

Successor(n) == (n + 1) % Numbers

OnTheTable == (next + Numbers - Successor(last)) % Numbers

Init == next = 0 /\ Successor(last) = 0 /\ last \in 0 .. (Numbers - 1)

Produce ==
  /\ OnTheTable < Capacity
  /\ next' = Successor(next)
  /\ UNCHANGED last

Consume ==
  /\ OnTheTable > 0
  /\ last' = Successor(last)
  /\ UNCHANGED next

Spec == Init /\ [][Produce \/ Consume]_vars
=============================================================================
