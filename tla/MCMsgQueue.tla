------------------------------ MODULE MCMsgQueue ------------------------------
(***************************************************************************)
(* The linked list for TLC.  Cells and types are only compared, so states  *)
(* that differ in their names alone are one state.                         *)
(***************************************************************************)
EXTENDS MsgQueue, TLC

Symmetry == {f @@ g : f \in Permutations(Addr), g \in Permutations(Types)}
===============================================================================
