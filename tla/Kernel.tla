------------------------------- MODULE Kernel -------------------------------
(***************************************************************************)
(* What the Nucleus promises to the processes: the system calls and the    *)
(* interrupts as they act on processes and semaphores, without CPUs, ready *)
(* queue, dispatching or time slices.  A process that does not wait may    *)
(* take its next step at any time.  Nucleus implements this specification; *)
(* the support level (Support) is written on top of it.                    *)
(***************************************************************************)
EXTENDS ProcQ

CONSTANTS Pcb, UserSem, Dev, Clock, NULL,
          MaxSem    \* bound: no termination raises a semaphore above it

Sem == UserSem \cup Dev \cup {Clock}

VARIABLES
  pcbFree,        \* pcbFree_h
  p_parent,       \* the process tree
  p_semAdd,       \* the semaphore a PCB was last blocked on
  pid0,           \* the PCB whose p_pid is 0, until it is reallocated
  blocked,        \* the queues of the ASL
  sem,            \* the values of the semaphores
  cmd,            \* the devices whose command is about to be written
  dev,            \* a device is idle, busy, or done: interrupting
  stray           \* PCBs that were freed while a queue or a CPU held them

procs == << pcbFree, p_parent, p_semAdd, pid0 >>
kernel == << procs, blocked, sem, cmd, dev, stray >>

Live == Pcb \ pcbFree
Waiting == UNION {ToSet(blocked[s]) : s \in Sem}

\* The processes that can take a step.  With a freed PCB in use the lists of the
\* kernel are corrupt, and what happens next is not followed.
Runnable == IF stray = {} THEN Live \ Waiting ELSE {}

Init ==
  \E root \in Pcb :
    /\ pcbFree = Pcb \ {root}
    /\ pid0 = root
    /\ p_parent = [p \in Pcb |-> NULL]
    /\ p_semAdd = [p \in Pcb |-> NULL]
    /\ blocked = [s \in Sem |-> mkEmptyProcQ]
    /\ sem \in [Sem -> {0, 1}] /\ \A s \in Dev \cup {Clock} : sem[s] = 0
    /\ cmd = {} /\ stray = {}
    /\ dev = [d \in Dev |-> "idle"]

-----------------------------------------------------------------------------
(* The system calls of a runnable process p *)

CreateProcess(p, q) ==
  /\ p \in Runnable /\ q \in pcbFree
  /\ pcbFree' = pcbFree \ {q}
  /\ p_parent' = [p_parent EXCEPT ![q] = p]
  /\ p_semAdd' = [p_semAdd EXCEPT ![q] = NULL]
  /\ pid0' = IF pid0 = q THEN NULL ELSE pid0
  /\ UNCHANGED << blocked, sem, cmd, dev, stray >>

\* p waits for s
Block(p, s) ==
  /\ blocked' = [blocked EXCEPT ![s] = insertProcQ(@, p)]
  /\ p_semAdd' = [p_semAdd EXCEPT ![p] = s]
  /\ UNCHANGED << pcbFree, p_parent, pid0 >>

\* The first process that waits for s can go on
Wake(s) ==
  /\ blocked' = [blocked EXCEPT ![s] = IF emptyProcQ(@) THEN @ ELSE removeProcQ(@)]
  /\ UNCHANGED procs

Passeren(p, s) ==
  /\ p \in Runnable
  /\ sem' = [sem EXCEPT ![s] = @ - 1]
  /\ \/ sem[s] <= 0 /\ Block(p, s)
     \/ sem[s] = 1 /\ UNCHANGED << procs, blocked >>
     \/ sem[s] >= 2 /\ Wake(s)
  /\ UNCHANGED << cmd, dev, stray >>

Verhogen(p, s) ==
  /\ p \in Runnable
  /\ sem' = [sem EXCEPT ![s] = @ + 1]
  /\ \/ sem[s] >= 1 /\ Block(p, s)
     \/ sem[s] = 0 /\ UNCHANGED << procs, blocked >>
     \/ sem[s] < 0 /\ Wake(s)
  /\ UNCHANGED << cmd, dev, stray >>

DoIO(p, d) ==
  /\ p \in Runnable /\ d \notin cmd /\ emptyProcQ(blocked[d])
  /\ sem' = [sem EXCEPT ![d] = @ - 1]
  /\ Block(p, d)
  /\ cmd' = cmd \cup {d}
  /\ UNCHANGED << dev, stray >>

ClockWait(p) ==
  /\ p \in Runnable
  /\ Block(p, Clock)
  /\ UNCHANGED << sem, cmd, dev, stray >>

\* q and its progeny
Family(q) ==
  {r \in Pcb : \A S \in SUBSET Pcb :
     q \in S /\ (\A x \in Pcb : p_parent[x] \in S => x \in S) => r \in S}

\* TERMPROCESS of q by p, or a trap of p = q, while the processes of R run on a
\* CPU.  Of the family of q those that never waited and run are passed over;
\* those that once waited are freed, and stay where they are if they can run.
Terminate(p, q, R) ==
  LET freed == {r \in Family(q) : p_semAdd[r] # NULL \/ r \in Runnable \ R}
      gives(s) == {r \in freed : p_semAdd[r] = s}
  IN /\ UNCHANGED << p_semAdd, pid0, cmd, dev >>
     /\ p \in R /\ R \subseteq Runnable
     /\ q = p \/ (q # pid0 /\ q \in Waiting \cup (Runnable \ R))
     /\ \A s \in Sem : sem[s] + Cardinality(gives(s)) <= MaxSem
     /\ pcbFree' = pcbFree \cup freed
     /\ p_parent' = [r \in Pcb |-> IF r \in freed \cup (Family(q) \ {q}) THEN NULL
                                   ELSE p_parent[r]]
     /\ blocked' = [s \in Sem |-> outAllProcQ(blocked[s], gives(s))]
     /\ sem' = [s \in Sem |-> sem[s] + Cardinality(gives(s))]
     /\ stray' = {r \in (freed \cap Runnable) \ {p} : p_semAdd[r] # NULL}

-----------------------------------------------------------------------------
(* The clock and the devices *)

Tick ==
  /\ stray = {}
  /\ blocked' = [blocked EXCEPT ![Clock] = mkEmptyProcQ]
  /\ UNCHANGED << procs, sem, cmd, dev, stray >>

\* The command of a DoIO reaches the device
Command(d) ==
  /\ stray = {} /\ d \in cmd
  /\ cmd' = cmd \ {d}
  /\ dev' = [dev EXCEPT ![d] = "busy"]
  /\ UNCHANGED << procs, blocked, sem, stray >>

Complete(d) ==
  /\ stray = {} /\ dev[d] = "busy"
  /\ dev' = [dev EXCEPT ![d] = "done"]
  /\ UNCHANGED << procs, blocked, sem, cmd, stray >>

Interrupt(d) ==
  /\ stray = {} /\ dev[d] = "done"
  /\ dev' = [dev EXCEPT ![d] = "idle"]
  /\ sem' = [sem EXCEPT ![d] = @ + 1]
  /\ Wake(d)
  /\ UNCHANGED << cmd, stray >>

Device(d) == Command(d) \/ Complete(d) \/ Interrupt(d)

Next ==
  \/ Tick
  \/ \E d \in Dev : Device(d)
  \/ \E p \in Pcb :
       \/ ClockWait(p)
       \/ \E s \in UserSem : Passeren(p, s) \/ Verhogen(p, s)
       \/ \E d \in Dev : DoIO(p, d)
       \/ \E q \in Pcb : CreateProcess(p, q) \/ \E R \in SUBSET Runnable : Terminate(p, q, R)

Spec == Init /\ [][Next]_kernel
=============================================================================
