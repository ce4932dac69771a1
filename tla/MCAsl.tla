------------------------------- MODULE MCAsl -------------------------------
(***************************************************************************)
(* Asl for TLC: as many descriptors as PCBs, and as many semaphores.       *)
(***************************************************************************)
EXTENDS Asl

\* PCBs, descriptors and semaphores are each alike.
Alike == Permutations(Pcb) \cup Permutations(Semd) \cup Permutations(Key)

=============================================================================
