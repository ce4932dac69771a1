---------------------------- MODULE NucleusCalls ----------------------------
(***************************************************************************)
(* Nucleus implements Kernel: whatever the CPUs interleave, the processes  *)
(* see each system call and each interrupt take effect at one instant.     *)
(* Dispatching, time slices and the order of the ready queue do not show.  *)
(***************************************************************************)
EXTENDS Nucleus

\* The freed PCBs that are still linked into a queue or current on a CPU
Stray == pcbFree \cap (ToSet(ready_queue) \cup (UNION {ToSet(blocked[s]) : s \in Sem})
                         \cup {current_process[c] : c \in Cpu})

Calls == INSTANCE Kernel WITH cmd <- {ioCmd[c] : c \in Cpu} \ {NULL}, stray <- Stray

\* The lock is dropped between a call and its effects: before the command of a
\* DOIO is written, before Scheduler, between the halves of TERMPROCESS.  Still
\* each call is atomic for the processes, and a termination frees, passes over
\* or leaves behind exactly what Kernel says (exceptions.c:74-282, 349-370).
CallsSpec == Calls!Spec
=============================================================================
