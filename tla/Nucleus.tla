------------------------------ MODULE Nucleus ------------------------------
(***************************************************************************)
(* Phase 2 of the kernel (exceptions.c, interrupts.c, scheduler.c,         *)
(* initial.c): the CPUs share the ready queue, the ASL, the semaphores and *)
(* the process count under global_lock.  An action is what one CPU does    *)
(* between taking global_lock and releasing it, or outside the lock        *)
(* between two such sections.                                              *)
(*                                                                         *)
(* The ASL is the BlockedQueues that Asl implements.  A process identifier *)
(* names its PCB, except that 0 stands for the caller (pid0 below).  What  *)
(* a process does next is left open: any call its state allows.            *)
(***************************************************************************)
EXTENDS ProcQ

CONSTANTS Cpu,      \* the NCPU processors
          Pcb,      \* the MAXPROC process control blocks
          UserSem,  \* the semaphores of the processes
          Dev,      \* the (sub)devices a process does I/O on, each its own line
          Clock,    \* device_semaphores[PSEUDOCLOCK]
          NULL,
          MaxSem    \* bound: no termination raises a semaphore above it

Sem == UserSem \cup Dev \cup {Clock}

ASSUME NucleusAssumption ==
  /\ Cpu # {} /\ Pcb # {} /\ IsFiniteSet(Pcb)
  /\ UserSem \cap Dev = {} /\ Clock \notin UserSem \cup Dev
  /\ NULL \notin Pcb \cup Sem
  /\ MaxSem \in Nat

VARIABLES
  pcbFree,        \* pcbFree_h
  p_parent,       \* the process tree: p_child and p_sib list the same pairs
  p_semAdd,       \* the semaphore a PCB was last blocked on
  pid0,           \* the PCB whose p_pid is 0, until it is reallocated
  ready_queue,
  blocked,        \* the queues of the ASL
  sem,            \* the values of the semaphores
  process_count,
  current_process,
  pc,             \* what a CPU is doing
  ioCmd,          \* the device whose command register a CPU is about to write
  dev             \* a device is idle, busy, or done: interrupting

procs == << pcbFree, p_parent, p_semAdd, pid0, process_count >>
vars == << procs, ready_queue, blocked, sem, current_process, pc, ioCmd, dev >>

Places == {"user",   \* running current_process
           "doio",   \* between releasing the lock and writing the command
           "sched",  \* about to call Scheduler
           "wait",   \* in WAIT
           "halt"}

TypeOK ==
  /\ pcbFree \subseteq Pcb
  /\ p_parent \in [Pcb -> Pcb \cup {NULL}]
  /\ p_semAdd \in [Pcb -> Sem \cup {NULL}]
  /\ pid0 \in Pcb \cup {NULL}
  /\ ready_queue \in Seq(Pcb)
  /\ blocked \in [Sem -> Seq(Pcb)]
  /\ sem \in [Sem -> Int]
  /\ process_count \in 0 .. Cardinality(Pcb)
  /\ current_process \in [Cpu -> Pcb \cup {NULL}]
  /\ pc \in [Cpu -> Places]
  /\ ioCmd \in [Cpu -> Dev \cup {NULL}]
  /\ dev \in [Dev -> {"idle", "busy", "done"}]

\* main: one process, test, is ready, and every CPU starts in Scheduler
Init ==
  \E root \in Pcb :
    /\ pcbFree = Pcb \ {root}
    /\ p_parent = [p \in Pcb |-> NULL]
    /\ p_semAdd = [p \in Pcb |-> NULL]
    /\ pid0 = root
    /\ ready_queue = << root >>
    /\ process_count = 1
    /\ blocked = [s \in Sem |-> mkEmptyProcQ]
    /\ sem \in [Sem -> {0, 1}] /\ \A s \in Dev \cup {Clock} : sem[s] = 0
    /\ current_process = [c \in Cpu |-> NULL]
    /\ pc = [c \in Cpu |-> "sched"]
    /\ ioCmd = [c \in Cpu |-> NULL]
    /\ dev = [d \in Dev |-> "idle"]

\* A freed PCB is still linked in a queue or current on a CPU.  Its p_list is
\* then in two lists at once, or will be: the lists are corrupt.
Corrupt == \E p \in pcbFree : \/ p \in ToSet(ready_queue)
                              \/ \E s \in Sem : p \in ToSet(blocked[s])
                              \/ \E c \in Cpu : current_process[c] = p

At(c, place) == pc[c] = place

-----------------------------------------------------------------------------
(* The system calls of a running process *)

\* allocPcb: p leaves the pool, blocked on nothing and with a new pid
allocPcb(p) ==
  /\ pcbFree' = pcbFree \ {p}
  /\ p_semAdd' = [p_semAdd EXCEPT ![p] = NULL]
  /\ pid0' = IF pid0 = p THEN NULL ELSE pid0

\* CREATEPROCESS; when pcbFree is empty it returns -1 and changes nothing
CreateProcess(c) ==
  /\ At(c, "user")
  /\ \E p \in pcbFree :
       /\ allocPcb(p)
       /\ p_parent' = [p_parent EXCEPT ![p] = current_process[c]]
       /\ ready_queue' = insertProcQ(ready_queue, p)
       /\ process_count' = process_count + 1
  /\ UNCHANGED << blocked, sem, current_process, pc, ioCmd, dev >>

\* A bug of Leave: the process stays current
LeaveStaysCurrent(c, place) == pc' = [pc EXCEPT ![c] = place] /\ UNCHANGED current_process

\* c has no current process any more
Leave(c, place) ==
  /\ current_process' = [current_process EXCEPT ![c] = NULL]
  /\ pc' = [pc EXCEPT ![c] = place]

\* A bug of BlockCurrent: current_process is NULL already, and is what is queued
BlockCurrentTooLate(c, s) ==
  /\ blocked' = [blocked EXCEPT ![s] = insertProcQ(@, NULL)]
  /\ UNCHANGED << p_semAdd, pcbFree, p_parent, pid0, process_count, ready_queue, dev >>

\* insertBlocked: the current process leaves c for the queue of s
BlockCurrent(c, s) ==
  /\ blocked' = [blocked EXCEPT ![s] = insertProcQ(@, current_process[c])]
  /\ p_semAdd' = [p_semAdd EXCEPT ![current_process[c]] = s]
  /\ UNCHANGED << pcbFree, p_parent, pid0, process_count, ready_queue, dev >>

\* A bug of Unblock: headBlocked for removeBlocked
UnblockKeeps(s) ==
  /\ ready_queue' = IF emptyProcQ(blocked[s]) THEN ready_queue
                    ELSE insertProcQ(ready_queue, headProcQ(blocked[s]))
  /\ UNCHANGED blocked

\* removeBlocked(s), and the PCB it returns, if any, becomes ready
Unblock(s) ==
  IF emptyProcQ(blocked[s])
  THEN UNCHANGED << blocked, ready_queue >>
  ELSE /\ blocked' = [blocked EXCEPT ![s] = removeProcQ(@)]
       /\ ready_queue' = insertProcQ(ready_queue, headProcQ(blocked[s]))

\* A bug of Passeren: it wakes nobody, as a plain P
PasserenWakesNobody(c, s) ==
  /\ At(c, "user")
  /\ sem' = [sem EXCEPT ![s] = @ - 1]
  /\ \/ sem[s] <= 0 /\ BlockCurrent(c, s) /\ Leave(c, "sched") /\ UNCHANGED ioCmd
     \/ /\ sem[s] > 0
        /\ UNCHANGED << procs, blocked, ready_queue, current_process, pc, ioCmd, dev >>

\* PASSEREN, on a semaphore that is kept between 0 and 1: it also wakes a
\* process that VERHOGEN blocked
Passeren(c, s) ==
  LET value == sem[s] - 1 IN
  /\ At(c, "user")
  /\ sem' = [sem EXCEPT ![s] = value]
  /\ \/ value < 0 /\ BlockCurrent(c, s) /\ Leave(c, "sched") /\ UNCHANGED ioCmd
     \/ /\ value >= 0
        /\ IF value >= 1 THEN Unblock(s) ELSE UNCHANGED << blocked, ready_queue >>
        /\ UNCHANGED << procs, current_process, pc, ioCmd, dev >>

\* VERHOGEN blocks the caller above 1
Verhogen(c, s) ==
  LET value == sem[s] + 1 IN
  /\ At(c, "user")
  /\ sem' = [sem EXCEPT ![s] = value]
  /\ \/ value > 1 /\ BlockCurrent(c, s) /\ Leave(c, "sched") /\ UNCHANGED ioCmd
     \/ /\ value <= 1
        /\ IF value <= 0 THEN Unblock(s) ELSE UNCHANGED << blocked, ready_queue >>
        /\ UNCHANGED << procs, current_process, pc, ioCmd, dev >>

\* DOIO of the command register of device d, up to the release of the lock; for
\* an address that belongs to no device it returns -1 and changes nothing
DoIO(c, d) ==
  /\ At(c, "user")
  /\ sem' = [sem EXCEPT ![d] = @ - 1]
  /\ BlockCurrent(c, d) /\ Leave(c, "doio")
  /\ ioCmd' = [ioCmd EXCEPT ![c] = d]

\* ... and the command, written without the lock.  The device starts unless it
\* is still busy with an earlier command, and then ignores it.
DoIOCommand(c) ==
  /\ At(c, "doio")
  /\ dev' = [dev EXCEPT ![ioCmd[c]] = "busy"]
  /\ ioCmd' = [ioCmd EXCEPT ![c] = NULL]
  /\ pc' = [pc EXCEPT ![c] = "sched"]
  /\ UNCHANGED << procs, ready_queue, blocked, sem, current_process >>

\* CLOCKWAIT blocks without touching the value of the semaphore
ClockWait(c) ==
  /\ At(c, "user")
  /\ BlockCurrent(c, Clock) /\ Leave(c, "sched")
  /\ UNCHANGED << sem, ioCmd >>

-----------------------------------------------------------------------------
(* Termination *)

Live == Pcb \ pcbFree

\* p and its progeny: the smallest set with p in it and the children of its members
Subtree(p) ==
  {q \in Pcb : \A S \in SUBSET Pcb :
     p \in S /\ (\A r \in Pcb : p_parent[r] \in S => r \in S) => q \in S}

\* A bug of Freed: a member that runs on another CPU is freed like the others
FreedRunning(p) == Subtree(p)

\* The members of the subtree that terminateSubtree frees: those it believes
\* blocked, by p_semAdd, and those it finds in the ready queue
Freed(p) == {q \in Subtree(p) : p_semAdd[q] # NULL \/ q \in ToSet(ready_queue)}

\* Bugs of terminateSubtree: it counts the members it does not free; a freed
\* PCB keeps its parent; a blocked or a ready one stays in its queue
CountAfterAll(p) == process_count - Cardinality(Subtree(p))
ParentsKept(p) == p_parent
BlockedKept(p) == blocked
ReadyKept(p) == ready_queue

\* terminateSubtree(p).  It unlinks every child it visits from its parent, and
\* the members it frees; a member it does not free is left running.  A member
\* with a p_semAdd leaves the queue of that semaphore, if it is there, and is not
\* looked for in the ready queue.
CountAfter(p) == process_count - Cardinality(Freed(p))
ParentsAfter(p) ==
  [q \in Pcb |-> IF q \in Freed(p) \cup (Subtree(p) \ {p}) THEN NULL ELSE p_parent[q]]
BlockedAfter(p) ==
  [s \in Sem |-> outAllProcQ(blocked[s], {q \in Freed(p) : p_semAdd[q] = s})]
ReadyAfter(p) == outAllProcQ(ready_queue, {q \in Freed(p) : p_semAdd[q] = NULL})

\* Such a member gives a unit back to the semaphore, which MaxSem bounds.
SemAfter(p) == [s \in Sem |-> sem[s] + Cardinality({q \in Freed(p) : p_semAdd[q] = s})]

TerminateSubtree(c, p) ==
  /\ \A s \in Sem : SemAfter(p)[s] <= MaxSem
  /\ pcbFree' = pcbFree \cup Freed(p)
  /\ process_count' = CountAfter(p)
  /\ p_parent' = ParentsAfter(p)
  /\ blocked' = BlockedAfter(p)
  /\ sem' = SemAfter(p)
  /\ ready_queue' = ReadyAfter(p)
  /\ current_process' = [current_process EXCEPT ![c] = IF @ \in Freed(p) THEN NULL ELSE @]
  /\ UNCHANGED << p_semAdd, pid0, ioCmd, dev >>

\* After termProc the caller continues if it still is the current process
Continue(c) ==
  pc' = [pc EXCEPT ![c] = IF current_process'[c] = NULL THEN "sched" ELSE "user"]

\* TERMPROCESS of pid 0: the caller
TermSelf(c) ==
  /\ At(c, "user")
  /\ TerminateSubtree(c, current_process[c])
  /\ Continue(c)

\* TERMPROCESS of another pid, which termProc looks for in the ready queue and
\* in the ASL; it finds no running process and then changes nothing
TermProcess(c, p) ==
  /\ At(c, "user") /\ p # pid0
  /\ p \in ToSet(ready_queue) \cup UNION {ToSet(blocked[s]) : s \in Sem}
  /\ TerminateSubtree(c, p)
  /\ Continue(c)

\* passUpordie for a process without a support structure: termProc(0), then
\* Scheduler whatever came of it.  With one the exception goes up to the
\* support level and the Nucleus changes nothing.
Trap(c) ==
  /\ At(c, "user")
  /\ TerminateSubtree(c, current_process[c])
  /\ pc' = [pc EXCEPT ![c] = "sched"]

-----------------------------------------------------------------------------
(* The scheduler and the interrupts *)

\* A bug of Finished: a process is still there
FinishedEarly == process_count <= 1

\* No more processes (scheduler.c:12)
Finished == process_count = 0

Scheduler(c) ==
  /\ At(c, "sched")
  /\ \/ /\ emptyProcQ(ready_queue)
        /\ pc' = [pc EXCEPT ![c] = IF Finished THEN "halt" ELSE "wait"]
        /\ UNCHANGED << ready_queue, current_process >>
     \/ /\ ~ emptyProcQ(ready_queue)
        /\ ready_queue' = removeProcQ(ready_queue)
        /\ current_process' = [current_process EXCEPT ![c] = headProcQ(ready_queue)]
        /\ pc' = [pc EXCEPT ![c] = "user"]
  /\ UNCHANGED << procs, blocked, sem, ioCmd, dev >>

\* A bug of pltHandler: the process goes to the head of the queue
PltHandlerAtHead(c) ==
  /\ At(c, "user")
  /\ ready_queue' = << current_process[c] >> \o ready_queue
  /\ Leave(c, "sched")
  /\ UNCHANGED << procs, blocked, sem, ioCmd, dev >>

\* pltHandler: the time slice of the current process is over
PltHandler(c) ==
  /\ At(c, "user")
  /\ ready_queue' = insertProcQ(ready_queue, current_process[c])
  /\ Leave(c, "sched")
  /\ UNCHANGED << procs, blocked, sem, ioCmd, dev >>

\* A CPU takes device and timer interrupts while it runs a process or waits.
\* One that waits with a current process left over from Trap would return from
\* the interrupt into passUpordie without a support structure: not followed.
Interruptible(c) == At(c, "user") \/ (At(c, "wait") /\ current_process[c] = NULL)

\* A bug of Resume: the CPU goes back to what the interrupt interrupted, even WAIT
ResumeAlways(c) == UNCHANGED pc

\* At the end of a handler a current process resumes, else Scheduler is called
Resume(c) == pc' = [pc EXCEPT ![c] = IF current_process[c] = NULL THEN "sched" ELSE "user"]

\* A bug of unblockClockPCBs: only the first of those it removes becomes ready
unblockFirstClockPCB ==
  /\ ready_queue' = IF emptyProcQ(blocked[Clock]) THEN ready_queue
                    ELSE insertProcQ(ready_queue, headProcQ(blocked[Clock]))
  /\ blocked' = [blocked EXCEPT ![Clock] = mkEmptyProcQ]

\* Everybody who waits for the clock becomes ready, in order
unblockClockPCBs ==
  /\ ready_queue' = ready_queue \o blocked[Clock]
  /\ blocked' = [blocked EXCEPT ![Clock] = mkEmptyProcQ]

TimerHandler(c) ==
  /\ Interruptible(c)
  /\ unblockClockPCBs
  /\ Resume(c)
  /\ UNCHANGED << procs, sem, current_process, ioCmd, dev >>

\* A bug of Acknowledge: the device keeps interrupting
AcknowledgeNothing(d) == UNCHANGED dev

\* The command ACK
Acknowledge(d) == dev' = [dev EXCEPT ![d] = "idle"]

\* A bug of intHandler: it wakes the waiter on an idle CPU only
IntHandlerWakesIfIdle(c, d) ==
  /\ Interruptible(c)
  /\ dev[d] = "done" /\ Acknowledge(d)
  /\ sem' = [sem EXCEPT ![d] = @ + 1]
  /\ IF pc[c] = "wait" THEN Unblock(d) ELSE UNCHANGED << blocked, ready_queue >>
  /\ Resume(c)
  /\ UNCHANGED << procs, current_process, ioCmd >>

\* intHandler: acknowledge the device, V on its semaphore
IntHandler(c, d) ==
  /\ Interruptible(c)
  /\ dev[d] = "done" /\ Acknowledge(d)
  /\ sem' = [sem EXCEPT ![d] = @ + 1]
  /\ Unblock(d)
  /\ Resume(c)
  /\ UNCHANGED << procs, current_process, ioCmd >>

\* A device completes its operation and raises its interrupt
Complete(d) ==
  /\ dev[d] = "busy"
  /\ dev' = [dev EXCEPT ![d] = "done"]
  /\ UNCHANGED << procs, ready_queue, blocked, sem, current_process, pc, ioCmd >>

-----------------------------------------------------------------------------

\* An assumption on the processes: they use a device one at a time
DeviceFree(d) == emptyProcQ(blocked[d]) /\ \A c \in Cpu : ioCmd[c] # d

\* What happens without terminations
SyncNext ==
  \/ \E c \in Cpu : \/ CreateProcess(c) \/ DoIOCommand(c) \/ ClockWait(c)
                    \/ Scheduler(c) \/ PltHandler(c) \/ TimerHandler(c)
  \/ \E c \in Cpu, s \in UserSem : Passeren(c, s) \/ Verhogen(c, s)
  \/ \E c \in Cpu, d \in Dev : \/ DeviceFree(d) /\ DoIO(c, d)
                              \/ IntHandler(c, d)
  \/ \E d \in Dev : Complete(d)

TermNext ==
  \/ \E c \in Cpu : TermSelf(c) \/ Trap(c)
  \/ \E c \in Cpu, p \in Pcb : TermProcess(c, p)

Next == SyncNext \/ TermNext

SyncSpec == Init /\ [][SyncNext]_vars
Spec == Init /\ [][Next]_vars

\* The horizon of runs and theorems: with a freed PCB in use the program goes on,
\* on lists that are not queues any more, and these actions do not say how.  The
\* state where that first happens is the last one that anything is said about.
Followed == ~ Corrupt
FollowedSpec == Init /\ [][Followed /\ Next]_vars

\* A CPU runs with interrupts enabled or waits for one: its own time slice
\* interrupt is pending until taken, and the scheduler and the write of a
\* command are straight code.  The interval timer and a device keep their
\* interrupt pending until a CPU takes it, and CPUs are interruptible again and
\* again but not for ever: strong fairness.  A device completes what it starts.
Fairness ==
  /\ \A c \in Cpu : WF_vars(Scheduler(c)) /\ WF_vars(PltHandler(c)) /\ WF_vars(DoIOCommand(c))
  /\ SF_vars(\E c \in Cpu : TimerHandler(c))
  /\ \A d \in Dev : WF_vars(Complete(d)) /\ SF_vars(\E c \in Cpu : IntHandler(c, d))

LiveSpec == SyncSpec /\ Fairness

-----------------------------------------------------------------------------
(* Without terminations *)

\* Every PCB is in exactly one place, once: free, ready, blocked on one
\* semaphore, or current on one CPU.  No process is lost, run by two CPUs or
\* queued twice, whatever the CPUs interleave.
Spots(p) ==
  {<< "free" >> : x \in {p} \cap pcbFree}
    \cup {<< "ready", i >> : i \in {j \in DOMAIN ready_queue : ready_queue[j] = p}}
    \cup (UNION {{<< "blocked", s, i >> : i \in {j \in DOMAIN blocked[s] : blocked[s][j] = p}}
                  : s \in Sem})
    \cup {<< "current", c >> : c \in {b \in Cpu : current_process[b] = p}}
OnePlace == \A p \in Pcb : Cardinality(Spots(p)) = 1

\* The value of a semaphore of the processes tells how many are blocked on it:
\* below 0 those that PASSEREN blocked, above 1 those that VERHOGEN blocked
\* (exceptions.c:133, 164).
ValueCountsWaiters ==
  \A s \in UserSem :
    Len(blocked[s]) = IF sem[s] < 0 THEN - sem[s] ELSE IF sem[s] > 1 THEN sem[s] - 1 ELSE 0

\* A process waits for a device exactly while an operation of it is under way:
\* its command not yet written, the device busy, or the interrupt not handled.
\* So every interrupt has a process to wake and every waiter an interrupt to
\* come, although the command is written outside the lock (exceptions.c:212-214).
WaiterHasOperation ==
  \A d \in Dev : /\ sem[d] = - Len(blocked[d])
                 /\ ~ emptyProcQ(blocked[d]) <=> dev[d] # "idle" \/ \E c \in Cpu : ioCmd[c] = d

\* CPUs go to sleep by an emptiness test under the lock and a WAIT outside it,
\* and nobody sends them an interrupt when a process becomes ready
\* (scheduler.c:11-33): still, while a process is ready some CPU is not waiting.
AwakeIfReady == ~ emptyProcQ(ready_queue) => \E c \in Cpu : pc[c] \notin {"wait", "halt"}

\* process_count counts the PCBs that are not free, over creations, failures,
\* terminations of whole subtrees and terminations that free nothing.
CountExact == process_count = Cardinality(Live)

(* With terminations, as far as they are followed *)

\* The process tree hangs together: a free PCB is no child, the parent of a
\* process is a process, and no process is its own ancestor.
TreeSound ==
  /\ \A p \in pcbFree : p_parent[p] = NULL
  /\ \A p \in Live : p_parent[p] \in Live \cup {NULL}
  /\ \A p \in Live : p_parent[p] \notin Subtree(p)

\* A process in the queue of a semaphore has that semaphore in p_semAdd, so
\* that terminateSubtree takes it out of the queue (exceptions.c:356-359), and
\* no freed PCB is left in one.
BlockedAreLive ==
  \A s \in Sem : \A p \in ToSet(blocked[s]) : p \in Live /\ p_semAdd[p] = s

\* HALT is reached only when every process has terminated (scheduler.c:12-13).
HaltsWhenDone == (\E c \in Cpu : pc[c] = "halt") => pcbFree = Pcb

\* A termination leaves a freed PCB in use in one way only: the process once
\* waited, was woken, and was freed by its stale p_semAdd while it is ready or
\* runs on another CPU.  It never leaves one in the queue of a semaphore, frees
\* one that runs and never waited, or leaves one in two places
\* (asl.c:83, exceptions.c:356-368).
StraysWereWoken ==
  \A p \in pcbFree :
    /\ \A s \in Sem : p \notin ToSet(blocked[s])
    /\ p \in ToSet(ready_queue) => p_semAdd[p] # NULL
    /\ \A c \in Cpu : current_process[c] = p
                       => p_semAdd[p] # NULL /\ p \notin ToSet(ready_queue)

(* Under fairness *)

\* Every ready process runs: the round robin starves nobody.
ReadyRuns == \A p \in Pcb : p \in ToSet(ready_queue) ~> \E c \in Cpu : current_process[c] = p

\* Whoever waits for the clock is made ready.
ClockWakes == \A p \in Pcb : p \in ToSet(blocked[Clock]) ~> p \in ToSet(ready_queue)

\* Whoever waits for a device is made ready.
OperationWakes ==
  \A d \in Dev, p \in Pcb : p \in ToSet(blocked[d]) ~> p \in ToSet(ready_queue)

(* What the comments of the code say *)

\* Removing and freeing a subtree (exceptions.c:344) leaves no freed PCB in use.
FreedIsRemoved == ~ Corrupt

\* A process that terminates itself, by TERMPROCESS(0) or by an exception
\* without a support structure, is terminated (exceptions.c:294-297, 323).
SelfTerminates ==
  [][\A c \in Cpu : TermSelf(c) \/ Trap(c) => current_process[c] \in pcbFree']_vars

\* Above 1 a semaphore has processes waiting on it, so PASSEREN finds one to
\* unblock when it leaves 1 or more (exceptions.c:133).
WaitersAboveOne == \A s \in UserSem : sem[s] > 1 => ~ emptyProcQ(blocked[s])
=============================================================================
