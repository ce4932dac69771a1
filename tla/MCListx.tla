------------------------------ MODULE MCListx ------------------------------
(***************************************************************************)
(* Listx for TLC: four PCBs, so that a list has nodes that are neither     *)
(* first nor last, and two queues.                                         *)
(***************************************************************************)
EXTENDS Listx, TLC

Alike == Permutations(Queue)
=============================================================================
