------------------------------ MODULE MCPaging ------------------------------
(***************************************************************************)
(* Bounds of the runs of Paging: three processes, so that one may be        *)
(* started while another ends and a third one faults, with two slots in the *)
(* process table, so that a slot is used again. The processes that are not  *)
(* the first one are alike: exchanging them changes nothing.                *)
(***************************************************************************)
EXTENDS Paging, TLC

CONSTANTS p1, p2, p3

TwoProcs   == {p1, p2}
ThreeProcs == {p1, p2, p3}
DataOfFirst == {<<p1, 0>>}
LaterProcs == Permutations({p2, p3})
=============================================================================
