----------------------------- MODULE MCNucleus -----------------------------
(***************************************************************************)
(* Nucleus for TLC.                                                        *)
(***************************************************************************)
EXTENDS NucleusCalls

\* CPUs are alike, and so are PCBs: Init may choose any for the first process.
Alike == Permutations(Cpu) \cup Permutations(Pcb)
=============================================================================
