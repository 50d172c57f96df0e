----------------------------- MODULE MCMachine ------------------------------
(***************************************************************************)
(* TLC instance of Machine: short ticks, a disk of two small tracks.       *)
(***************************************************************************)
EXTENDS Machine
=============================================================================
