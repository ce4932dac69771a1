----------------------------- MODULE MCSupport -----------------------------
(***************************************************************************)
(* Support for TLC.                                                        *)
(***************************************************************************)
EXTENDS Support

Semaphores == {swap_pool_sem, masterSemaphore}

\* What the programs of testers/ do, and traps: a page fault, a store to a page
\* that is not dirty, SYS2, a call of the Nucleus in user mode, an arithmetic
\* trap, the calls of the printer and of the terminal
Exceptions1 == {[cause |-> 25, a0 |-> 0, mode |-> "user"],
                [cause |-> EXC_MOD, a0 |-> 0, mode |-> "user"],
                [cause |-> EXC_ECU, a0 |-> 2, mode |-> "user"],
                [cause |-> EXC_ECU, a0 |-> -2, mode |-> "user"],
                [cause |-> 2, a0 |-> 0, mode |-> "user"],
                [cause |-> EXC_ECU, a0 |-> 3, mode |-> "user"],
                [cause |-> EXC_ECU, a0 |-> 4, mode |-> "user"]}

\* The U-procs are alike
Alike == Permutations(Pcb \ {Test})
=============================================================================
