------------------------------ MODULE Support ------------------------------
(***************************************************************************)
(* The support level (initProc.c, the termination path of sysSupport.c,    *)
(* the outline of pager in vmSupport.c) on top of Kernel: test creates the *)
(* U-procs and waits for them on masterSemaphore; each U-proc faults,      *)
(* pages under the mutex swap_pool_sem, and terminates.                    *)
(*                                                                         *)
(* Support handlers run in any interleaving that two or more CPUs allow.   *)
(* Nobody takes a mutex of sharable_dev_sem, so releaseAllMutex has only   *)
(* swap_pool_sem to release.  A process is its own pid.                    *)
(***************************************************************************)
EXTENDS Kernel, Exceptions

CONSTANTS Test,        \* the PCB of the process test, which main allocates
          swap_pool_sem, masterSemaphore,
          flash,       \* the device of the swap pool: one transfer at a time
          UPROC_NUM,
          Exception    \* the exceptions that a U-proc raises

ASSUME SupportAssumption ==
  /\ IsFiniteSet(Pcb) /\ NULL \notin Pcb \cup Sem
  /\ flash \notin UserSem /\ Clock \notin UserSem \cup Dev
  /\ UserSem = {swap_pool_sem, masterSemaphore} /\ swap_pool_sem # masterSemaphore
  /\ Dev = {flash} /\ Test \in Pcb
  /\ UPROC_NUM \in Nat \ {0} /\ UPROC_NUM < Cardinality(Pcb)
  /\ \A e \in Exception : Outcome(e) \notin {"nucleus", "panic"}

VARIABLES
  holder_pid,     \* of swap_pool_sem; NULL for -1
  at,             \* what a process does next
  i,              \* the loop counter of test
  lost,           \* history: a process left the pager without the V
  signals,        \* history: how many U-procs did their V on masterSemaphore
  extra           \* history: ... and for how many TERMPROCESS gave it a unit more

svars == << holder_pid, at, i, lost, signals, extra >>
history == << signals, extra >>
vars == << kernel, svars >>

Places == {"unborn", "create", "wait", "stop",              \* test
           "user",                                          \* the program of a U-proc
           "fault", "got", "out", "in", "release", "reset", \* pager
           "fail", "die", "dieReset", "signal", "end",      \* terminateProcess
           "gone", "returned",                              \* after TERMPROCESS
           "astray"}                            \* a handler returned to nowhere

TypeOK ==
  /\ holder_pid \in Pcb \cup {NULL}
  /\ at \in [Pcb -> Places]
  /\ i \in 0 .. UPROC_NUM
  /\ lost \in BOOLEAN /\ signals \in 0 .. UPROC_NUM /\ extra \in 0 .. UPROC_NUM
  /\ sem \in [Sem -> Int] /\ blocked \in [Sem -> Seq(Pcb)]

\* test has initialised the mutexes and the semaphore
SupportInit ==
  /\ Init /\ pid0 = Test
  /\ sem[swap_pool_sem] = 1 /\ sem[masterSemaphore] = 0
  /\ at = [p \in Pcb |-> IF p = Test THEN "create" ELSE "unborn"]
  /\ holder_pid = NULL /\ i = 0 /\ lost = FALSE /\ signals = 0 /\ extra = 0

Step(p, from, to) == at[p] = from /\ at' = [at EXCEPT ![p] = to]
\* A step of p outside the kernel
Local(p) == p \in Runnable /\ UNCHANGED kernel

-----------------------------------------------------------------------------
(* test *)

\* A bug of Loop: the second loop goes on with the counter of the first
LoopKeepsCounter(p, from, to) == at[p] = from /\ i' = i + 1

\* A loop of test from one place to the next, UPROC_NUM times
Loop(p, from, to) ==
  /\ at[p] = from
  /\ i' = IF i + 1 = UPROC_NUM THEN 0 ELSE i + 1

After(from, to) == IF i + 1 = UPROC_NUM THEN to ELSE from

\* A new U-proc starts with a page fault on its first instruction
Create(p) ==
  /\ Loop(p, "create", "wait")
  /\ \E q \in pcbFree :
       /\ CreateProcess(p, q)
       /\ at' = [at EXCEPT ![p] = After("create", "wait"), ![q] = "fault"]
  /\ UNCHANGED << holder_pid, lost, history >>

\* A bug of Wait: one P too few
WaitOneLess(p) ==
  /\ at[p] = "wait" /\ i' = i + 1
  /\ Passeren(p, masterSemaphore)
  /\ at' = [at EXCEPT ![p] = IF i + 2 >= UPROC_NUM THEN "stop" ELSE "wait"]
  /\ UNCHANGED << holder_pid, lost, history >>

Wait(p) ==
  /\ Loop(p, "wait", "stop")
  /\ Passeren(p, masterSemaphore)
  /\ at' = [at EXCEPT ![p] = After("wait", "stop")]
  /\ UNCHANGED << holder_pid, lost, history >>

\* TERMPROCESS(0) frees the caller if it ever blocked, and returns otherwise
TerminateSelf(p, from) ==
  /\ at[p] = from
  /\ \E R \in SUBSET Runnable : Terminate(p, p, R)
  /\ at' = [at EXCEPT ![p] = IF p \in pcbFree' THEN "gone" ELSE "returned"]
  /\ extra' = extra + (IF p \in pcbFree' /\ p_semAdd[p] = masterSemaphore THEN 1 ELSE 0)
  /\ UNCHANGED << holder_pid, i, lost, signals >>

-----------------------------------------------------------------------------
(* A U-proc *)

\* Where the handlers of an exception can take a process: a page or a string
\* that is not in its memory is a program trap.  SYS3 leads back to the program,
\* after the printer; SYS4 and SYS5 do not load the state of the program and
\* return from a handler that nobody called.
Handler(e) == CASE Outcome(e) = "pager" -> {"fault", "die"}
                [] Outcome(e) \in {"terminate", "trap"} -> {"die"}
                [] Outcome(e) = "SYS3" -> {"user", "die"}
                [] OTHER -> {"astray", "die"}

User(p) ==
  /\ \E e \in Exception : \E next \in Handler(e) : Step(p, "user", next)
  /\ Local(p) /\ UNCHANGED << holder_pid, i, lost, history >>

\* Bugs of GetMutex: the owner is written before the P; there is no P
GetMutexOwnerFirst(p) ==
  /\ Step(p, "fault", "got")
  /\ Passeren(p, swap_pool_sem)
  /\ holder_pid' = p
  /\ UNCHANGED << i, lost, history >>
GetMutexFree(p) ==
  Step(p, "fault", "got") /\ Local(p) /\ UNCHANGED << holder_pid, i, lost, history >>

\* getMutex: the P ...
GetMutex(p) ==
  /\ Step(p, "fault", "got")
  /\ Passeren(p, swap_pool_sem)
  /\ UNCHANGED << holder_pid, i, lost, history >>

\* ... and the owner.  The frame that pager chooses is free or is written out.
Got(p) ==
  /\ \E next \in {"out", "in"} : Step(p, "got", next)
  /\ holder_pid' = p
  /\ Local(p) /\ UNCHANGED << i, lost, history >>

\* read_or_write_flash: a transfer that fails is a program trap
Transfer(p, from, to) ==
  /\ \E next \in {to, "fail"} : Step(p, from, next)
  /\ DoIO(p, flash)
  /\ UNCHANGED << holder_pid, i, lost, history >>

\* Bugs of Release: a failed transfer keeps the mutex; the owner is not looked at
ReleaseNotOnFailure(p, from, reset, to) ==
  /\ \/ (holder_pid # p \/ from = "fail") /\ Step(p, from, to) /\ Local(p)
     \/ holder_pid = p /\ from # "fail" /\ Step(p, from, reset) /\ Verhogen(p, swap_pool_sem)
  /\ UNCHANGED << holder_pid, i, lost, history >>
ReleaseUnchecked(p, from, reset, to) ==
  /\ Step(p, from, reset) /\ Verhogen(p, swap_pool_sem)
  /\ UNCHANGED << holder_pid, i, lost, history >>

\* releaseMutex: nothing unless holder_pid is the caller, else the V
Release(p, from, reset, to) ==
  /\ \/ holder_pid # p /\ Step(p, from, to) /\ Local(p)
     \/ holder_pid = p /\ Step(p, from, reset) /\ Verhogen(p, swap_pool_sem)
  /\ lost' = (lost \/ (from \in {"release", "fail"} /\ holder_pid # p))
  /\ UNCHANGED << holder_pid, i, history >>

\* ... and then the reset of holder_pid
Reset(p, from, to) ==
  /\ Step(p, from, to)
  /\ holder_pid' = NULL
  /\ Local(p) /\ UNCHANGED << i, lost, history >>

\* terminateProcess: the V on masterSemaphore
Signal(p) ==
  /\ Step(p, "signal", "end")
  /\ Verhogen(p, masterSemaphore)
  /\ signals' = signals + 1
  /\ UNCHANGED << holder_pid, i, lost, extra >>

\* What process p does on its own: all but how its program goes on
Proceed(p) ==
  \/ Create(p) \/ Wait(p) \/ TerminateSelf(p, "stop")
  \/ GetMutex(p) \/ Got(p) \/ Transfer(p, "out", "in") \/ Transfer(p, "in", "release")
  \/ Release(p, "release", "reset", "user") \/ Reset(p, "reset", "user")
  \/ Release(p, "fail", "dieReset", "signal") \/ Release(p, "die", "dieReset", "signal")
  \/ Reset(p, "dieReset", "signal")
  \/ Signal(p) \/ TerminateSelf(p, "end")

SupportNext ==
  \/ \E p \in Pcb : Proceed(p) \/ User(p)
  \/ Device(flash) /\ UNCHANGED svars

\* Processes that can go on do, and the flash device works.  The program of a
\* U-proc, which the code does not determine, is assumed to end: one that comes
\* back to it again and again ends in SYS2 or a trap.  What a process astray
\* executes is not known; it takes no step here.
Fairness ==
  /\ WF_vars(Device(flash) /\ UNCHANGED svars)
  /\ \A p \in Pcb : WF_vars(Proceed(p)) /\ WF_vars(User(p)) /\ SF_vars(User(p) /\ at'[p] = "die")

SupportSpec == SupportInit /\ [][SupportNext]_vars /\ Fairness

-----------------------------------------------------------------------------
(* The mutex of the swap pool *)

\* The processes between the P of getMutex and the V of releaseMutex
InSection == {p \in Live : /\ at[p] \in {"got", "out", "in", "release", "fail"}
                          /\ p \notin ToSet(blocked[swap_pool_sem])}

TestUp == at[Test] \in {"create", "wait", "stop"}

\* One U-proc at a time works on the swap pool table, whatever happens to
\* holder_pid, which is written before and after the semaphore changes and
\* outside any lock (initProc.c:99-109).
SwapExclusive == TestUp => Cardinality(InSection) <= 1

\* The semaphore of the mutex is 1 less the process inside and those that wait,
\* and less 1 for ever when a process left without the V because a late reset of
\* holder_pid hid that it was the owner (initProc.c:107-109).  Then nobody is
\* inside: the mutex is lost once, and for all.
MutexUnits ==
  TestUp => sem[swap_pool_sem] = 1 - Cardinality(InSection) - Len(blocked[swap_pool_sem])
                                   - (IF lost THEN 1 ELSE 0)

\* Whoever is inside finds itself or nobody in holder_pid, never another
\* process: a V is never done on behalf of somebody else (initProc.c:107).
OwnerOrNobody ==
  TestUp => \A p \in InSection : at[p] # "got" => holder_pid \in {p, NULL}

(* The shutdown *)

\* How many P on masterSemaphore test has begun
Waits == IF at[Test] = "create" THEN 0 ELSE IF at[Test] = "wait" THEN i ELSE UPROC_NUM

\* Every P of test is paid by the V of a U-proc, or by the unit that the
\* termination of a U-proc gives back that once blocked in its V
\* (sysSupport.c:65, exceptions.c:359): without such a U-proc test goes on to
\* the end only after all of them.
MasterUnits ==
  TestUp => sem[masterSemaphore] = signals + extra - Waits

\* If no mutex is lost, no U-proc has to wait in its V on masterSemaphore and
\* none calls SYS4 or SYS5 and so goes astray, test comes to the end: nobody
\* waits for ever on the way (initProc.c:83-92).
Shutdown ==
  [](/\ ~ lost /\ ToSet(blocked[masterSemaphore]) \subseteq {Test}
     /\ \A p \in Pcb : at[p] # "astray")
    => <>(at[Test] = "stop" /\ Test \in Runnable)

\* test waits for the termination of all U-procs (initProc.c:83, 91).
WaitsForAll ==
  at[Test] = "stop" /\ Test \in Runnable => signals = UPROC_NUM
=============================================================================
