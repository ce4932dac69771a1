------------------------------ MODULE MCPager ------------------------------
(***************************************************************************)
(* Pager for TLC: the stack page of each U-proc.                           *)
(***************************************************************************)
EXTENDS Pager, TLC

Vpns == {StackVPN}

\* CPUs are alike, and so are U-procs
Alike == Permutations(Proc) \cup Permutations(Cpu)
=============================================================================
