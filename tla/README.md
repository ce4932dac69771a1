# MultiPandOS in TLA+

A verification development of the MultiPandOS kernel (`src/`): TLA+ modules of the
kernel's components, TLC configurations that model-check them on small instances, and
theorems that TLAPS proves for every number of CPUs, processes, semaphores and devices.

    tlc -workers 2 -config MCNucleusSync.cfg MCNucleus      # one of the runs below
    tlapm NucleusProofs.tla                                 # one of the proof modules

## The system

MultiPandOS is a small multiprocessor kernel for the uRISCV emulator, in three phases.

| Component | State | Operations | Talks to |
|---|---|---|---|
| Process queues, `phase1/pcb.c` | `pcb_t.p_list` links | `insertProcQ`, `headProcQ`, `removeProcQ`, `outProcQ` | everything above |
| PCB pool and process tree, `phase1/pcb.c` | `pcbFree_h`, `p_parent`, `p_child`, `p_sib`, `next_pid` | `allocPcb`, `freePcb`, `insertChild`, `removeChild`, `outChild` | system calls |
| Active Semaphore List, `phase1/asl.c` | `semd_h`, `semdFree_h`, descriptors, `p_semAdd` | `insertBlocked`, `removeBlocked`, `outBlocked`, `outBlockedPid`, `headBlocked`, `getProc` | system calls, interrupts |
| System calls, `phase2/exceptions.c` | semaphores, `current_process`, `process_count`, `ready_queue` under `global_lock` | CREATEPROCESS, TERMPROCESS, PASSEREN, VERHOGEN, DOIO, CLOCKWAIT and three queries; `passUpordie` | ASL, queues, devices, scheduler |
| Interrupts, `phase2/interrupts.c` | the same | `pltHandler`, `timerHandler`, `intHandler` | devices, ASL, scheduler |
| Scheduler, `phase2/scheduler.c` | the same | `Scheduler`: dispatch, WAIT or HALT | queues |
| Initialisation, `phase2/initial.c` | all | `main` | all |
| TLB refill and device index, `phase2/exceptions.c` | page tables | `uTLB_RefillHandler`, `findDeviceIndex` | pager, devices |
| Pointer lists, `headers/listx.h` | `list_head` | `list_add`, `list_del`, iteration | phase 1 |
| Instantiator and mutexes, `phase3/initProc.c` | `masterSemaphore`, `swap_pool_sem`, `sharable_dev_sem` | `test`, `getMutex`, `releaseMutex` | system calls |
| Pager, `phase3/vmSupport.c` | swap pool table, page tables, TLBs | `pager`, FIFO replacement, flash I/O | mutex, DOIO |
| Support system calls, `phase3/sysSupport.c` | exception states | SYS2 to SYS5, trap handler | mutexes, DOIO |
| Kernel log, `klog.c` | a circular buffer | `klog_print*` | everything |

What is hard in it:

* **Interleaving.** Up to eight CPUs share the queues, the ASL, the semaphores and the
  count under one spin lock, `global_lock`. The lock is dropped between a system call and
  the scheduler, before a CPU goes to sleep, before the command of an I/O operation is
  written, and between the two halves of `timerHandler`.
* **Lost wake-ups.** A CPU tests that the ready queue is empty under the lock and executes
  WAIT without it; nobody sends it an interrupt afterwards.
* **Termination.** `terminateSubtree` decides by `p_semAdd` whether a process is blocked,
  by the ready queue whether it is ready, and otherwise assumes it runs. `p_semAdd` is
  never reset when a process wakes up.
* **Ordering.** Semaphores block both below 0 and above 1, so one counter stands for two
  kinds of waiters.
* **Limits.** `MAXPROC` PCBs and `MAXPROC` semaphore descriptors; three of the four callers
  of `insertBlocked` ignore its error.

What makes the components correct:

* queues: each operation moves exactly the PCB it names, the rest keep their order;
* PCB pool and tree: a PCB is free or a process; no dangling parents, no cycles;
* ASL: one descriptor per semaphore in use, none leaks, one FIFO queue per semaphore,
  a descriptor for whoever has to block;
* Nucleus: no process is in two places, none is lost; semaphore values count the waiters;
  every waiter has something coming that wakes it; the count is exact; HALT comes last;
  ready processes run;
* lists: `next` and `prev` agree, no node is in two lists, a search that has no case for
  failure does not fail; the links amount to the sequences that callers think of;
* devices: a process that waits for a device has an operation under way, and one of its own;
* mutexes: the swap pool table is one U-proc's at a time, units are neither lost nor made;
* pager: a valid page table entry is backed by the swap pool table, no page has two frames,
  a program reads from every TLB what it last stored;
* shutdown: `test` ends, and not before its U-procs.

## The modules

**`ProcQ`** - `phase1/pcb.c`'s queues as sequences. A circular list is seen by its users
through its order only. `outAllProcQ` is `outProcQ` for every member of a set, which is
what a recursion of `terminateSubtree` amounts to for one queue.

**`Asl`** - `phase1/asl.c`, one action per function. `semd_h`, `semdFree`, `s_key`,
`s_procq` and `p_semAdd` are the variables and fields of the code; both lists of
descriptors are sets, because the code takes any free one and searches the others by key
(`DistinctKeys` shows that the search has at most one answer, so the order is not
observable). `ret` is what the last call returned. `outBlocked` looks its descriptor up by
`p_semAdd`, which may be stale, as in the code.

**`BlockedQueues`** - what the ASL promises: a FIFO queue for every semaphore address and
an insertion that never fails. `Asl` implements it, with
`blocked[k] = the queue of k's descriptor`.

**`Nucleus`** - `phase2`: the CPUs, and what each does between taking `global_lock` and
releasing it, one action per such section.

| `Nucleus` | code |
|---|---|
| `pcbFree`, `p_parent`, `p_semAdd`, `process_count`, `ready_queue`, `current_process` | the variables of that name; `p_child`/`p_sib` list the same pairs as `p_parent` |
| `blocked`, `sem` | the queues of the ASL (by `BlockedQueues`) and the `int`s behind the addresses |
| `pid0` | the PCB with pid 0, the first `allocPcb` gives out, which TERMPROCESS reads as "the caller" |
| `pc` | where a CPU is: `user`, `doio` (lock released, command not written), `sched`, `wait`, `halt` |
| `ioCmd`, `dev` | the command a CPU is about to write; a device is idle, busy or interrupting |
| `CreateProcess`, `Passeren`, `Verhogen`, `DoIO`, `DoIOCommand`, `ClockWait` | the cases of the system call switch |
| `TermSelf`, `TermProcess`, `Trap`, `TerminateSubtree` | TERMPROCESS, `passUpordie`, `terminateSubtree` |
| `Scheduler`, `PltHandler`, `TimerHandler`, `IntHandler` | the functions of that name |
| `Complete` | the device, outside the repository |

`terminateSubtree` runs under one lock, so it is one step; `Freed` says which members of
the subtree it frees, and the other operators what becomes of the queues, the semaphores
and the tree. Where `TERMPROCESS` and `timerHandler` take the lock twice, the second
section only reads the CPU's own `current_process`, which no other CPU writes: one action.
What a process does next is left open; `Next` offers every call its state allows.

`SyncNext` is the system without terminations, `Next` the whole. The split is there
because terminations break, in this code, what holds without them: see the findings.

*The horizon.* A termination can free a PCB that is still in a queue or current on a CPU
(`Corrupt`, the finding `freed`). The code then runs on with the `p_list` of that PCB in two
lists, and the sequences of the model no longer say what the lists are. The definitions do not
rule such steps out, but nothing is claimed of them: the runs expand only states in which no
freed PCB is in use (`CONSTRAINT Followed` in the configurations), and the theorems are about
`FollowedSpec`, which ends with the step that frees such a PCB. The state after that
step is still checked, and `StraysWereWoken` is about it: a PCB that is freed in use belongs to a
process that was woken before, never to one that waits or never blocked.

**`Kernel`** - what the Nucleus promises to processes: every system call, termination,
tick and device interrupt as one step on processes and semaphores, without CPUs, ready
queue, dispatching or time slices. `cmd` is the set of devices whose command a CPU is about
to write, `stray` the PCBs that were freed while something still held them (with one, nothing
is runnable). Terminations depend on who runs on a CPU at that moment; `Kernel` leaves
that open (the set `R` of `Terminate`), since a process cannot know it.

**`NucleusCalls`** - `Nucleus` implements `Kernel`: `cmd` is the image of `ioCmd`, `stray`
the freed PCBs that are in a queue or current. It is what lets `Support` speak
of processes and not of CPUs.

**`Support`** - the support level over `Kernel`: `test` of `initProc.c` with its two loops and
the counter `i`; each U-proc's program, its page faults and its end.

| `Support` | code |
|---|---|
| `Create`, `Wait`, `TerminateSelf(p, "stop")` | the loops and the end of `test` |
| `User` | an exception of the program; `Handler` and `Outcome` say where it may go: to the pager, to its end, back (SYS3), or `astray` (SYS4 and SYS5, which return from a handler nobody called) |
| `GetMutex`, `Got` | `getMutex`: the P, then `holder_pid`, with no lock between |
| `Transfer` | `read_or_write_flash`; one that fails ends in `programTrapHandler` |
| `Release`, `Reset` | `releaseMutex`: the test of `holder_pid` and the V, then the reset |
| `Signal`, `TerminateSelf(p, "end")` | `terminateProcess` |
| `lost`, `signals`, `extra` | history, read by the properties only |

`sharable_dev_sem` is initialised and released but nobody takes it, so `releaseAllMutex` has
only `swap_pool_sem` to give back.

**`Pager`** - `vmSupport.c` and `uTLB_RefillHandler`, with a TLB per CPU. `Dispatch` and
`Preempt` move a program between CPUs; `Store`, a refill and `Fault` are what it does there.
`uTLB_RefillHandler` takes no lock, so a refill is two steps: `RefillRead` reads the page table
entry (into `loaded`), `RefillWrite` puts it into the TLB, and the pager of another CPU may evict
the page in between. `RefillOutside` is a refill of a page number without an entry;
`ChooseFrame` is `pager` up to its first DOIO (`getSwapFrame`, `Evict`), `WriteDone`,
`ReadDone` (`Map`, `updateTLB`) and `TransferFailed` the rest. A process that waited for the
mutex or for a transfer continues on any CPU, so `updateTLB` may run on another CPU than the
access that faulted. Of a page's contents the model keeps `latest`, the places that hold what
was last stored. `hazard` becomes true when the code does what can lose data: a page is
evicted while another CPU has a valid entry for it, in its TLB (`vmSupport.c:50` updates one
TLB) or in its refill handler, about to write it (`exceptions.c:419-422`); a page is loaded
although its entry is valid already (`vmSupport.c:37` does not look again); a transfer fails on a
frame that was in use; or a page number without an entry is refilled (`exceptions.c:411`
loads a `context_t` as a processor state). The properties about contents are stated until
then, and say that no other step does harm; `ValidBacked` holds always.

**`Devices`** - `intHandler` and `getdevNo` with several devices on a line and terminals with
two halves, and the device calls SYS3 to SYS5. Registers and semaphores have the addresses and
indexes of the code (`DevRegAddr`, `findDeviceIndex`), so that coincidences come out as they do there:
device -1 of the terminal line, which `getdevNo` returns for an interrupt another CPU has
acknowledged, reads the registers of printer 7. `Take`, `ReadBitmap` and `Handle` are the
exception, the bitmap read without the lock, and the handler under it; `stale` records that a
CPU handled a device that did not interrupt any more.

**`Exceptions`** - pure operators: which handler an exception, a system call code or an
interrupt goes to (`Outcome`), `findDeviceIndex`, the register addresses, `getdevNo`, the
index of a page in its table.

**`PcbLists`** - what `pcb.c` promises: pool, queues and children as sequences. **`Listx`** -
how it does it: `listx.h` on the `next` and `prev` of every `list_head`, assignment by
assignment, and `pcb.c` on top. `Listx` implements `PcbLists`: `Owners` reads a list off its links,
as the PCBs met on the way from the head back to the head. `pcb.c` relies on its callers for
what it does not test (`Unqueued`, `Unrelated`, `Adopts`, in `Next`): a PCB that is queued or freed is in no
queue. `terminateSubtree` does not honour that for a process that was woken; `Listx` does not
follow the lists beyond such a call.

**`MCAsl`, `MCNucleus`, `MCSupport`, `MCPager`, `MCDevices`, `MCListx`** give the above their
symmetry sets and values. **`ProcQTheorems`, `AslProofs`, `NucleusProofs`, `NucleusCallsProofs`,
`ListxProofs`, `PagerProofs`, `SupportProofs`, `DevicesProofs`** hold the proofs.

An operator commented "a bug of ..." is not part of the model: it is a plausible mistake,
kept beside the definition it would replace, that the named property detects.

### Assumptions of the model

* A pid names its PCB: `next_pid` does not wrap. Pid 0 is the exception and is modelled.
* Nothing is claimed after a freed PCB is in use (`Followed`, above). `FreedIsRemoved` below
  is the finding that this is reached.
* A CPU in WAIT with a `current_process` left over from a failed `Trap` takes no interrupt
  in the model: the code would resume the process inside `passUpordie` without a support
  structure.
* In `Nucleus` every device is on an interrupt line of its own, and processes use a device
  one at a time (`DeviceFree`: the tests and phase 3 do, with a mutex or a device per process;
  DOIO itself does not look). Shared
  lines are `Devices`' subject, which leaves out CPUs' processes and the values of semaphores:
  they decide nothing in DOIO and in `intHandler`.
* `Support` has at least as many CPUs as it takes to interleave any two handlers, and one flash
  device: transfers happen under the mutex.
* `Pager` takes the mutex as exclusive, which `Support` checks (`SwapExclusive`). Support
  handlers run with interrupts off, so they move between CPUs only where they block.
* In `Devices` the bitmap, a status word and a command register are each read or written at
  one instant; a busy device ignores a command (the documentation of uRISCV's devices).
* Programs store to page numbers that `initPageTable` provides (`PagerAssumption`); one that
  uses another is `RefillOutside`.
* A process with a support structure passes its exceptions up and the Nucleus changes no
  state; GETTIME, GETSUPPORTPTR and GETPROCESSID read or write only state that is not
  modelled (`p_time`, `p_supportStruct`).
* The error returns of DOIO, for a null address or one without a device, change nothing that is
  modelled: they are stuttering steps, as is a CREATEPROCESS with no free PCB.
* CPU times, processor states and the contents of pages and buffers are not modelled.

## The runs

| Run | Question | Bounds | Distinct states |
|---|---|---|---|
| `asl` | Is the ASL consistent, has it always room, and is it a FIFO queue per semaphore? | 3 PCBs, 3 descriptors, 3 addresses | 625 |
| `sync` | Without terminations: is every process in one place, are semaphore values right, is I/O paired, is every call atomic? | 2 CPUs, 4 PCBs, 1 semaphore, 1 device, the clock | 442 000 |
| `term` | With terminations, until a freed PCB is in use: are the tree, the count, the queues and HALT right, are wake-ups safe, is every call atomic, which processes are freed in use? | 2 CPUs, 3 PCBs, 1 device, the clock, semaphores at most 2 | 726 000 |
| `live` | Do ready processes run and do waiters wake up? | 2 CPUs, 3 PCBs, 1 device, the clock | 33 500 (no symmetry) |
| `support` | Is the swap pool exclusive, are units accounted for, does the system shut down? | `test`, 3 U-procs, 7 exceptions, semaphores at most 5 | 67 500 |
| `pager` | Are valid entries backed, and are stores read back from any CPU? | 3 U-procs, 2 CPUs, 2 frames, 1 page each | 1 233 000 |
| `devices` | On shared lines: does each waiter keep its operation, and wake? | 2 CPUs, devices 6 and 7 of two lines | 19 000 |
| `lists` | Are the links consistent, and do they act as sequences? | 4 PCBs, 2 queues | 27 500 |
| `freed`, `self`, `value` | Do three statements of the comments hold? They do not. | as `term`, with 1 semaphore, values at most 3 | to the violation |
| `shutdown` | Does `test` wait for all U-procs? It does not. | as `support` | to the violation |

*Why the bounds are enough.* Three PCBs and three descriptors are the least with a queue of
two, a second semaphore and a last descriptor to run out. Two CPUs are what every race here
needs: all of them are between one CPU that has dropped the lock and another. Four PCBs let
two processes run while two wait on one semaphore, on either side of it (below 0 and
above 1). `MaxSem` bounds the one counter that terminations drive up; 2 lets the same
semaphore be incremented by two terminations. Queues, counts and devices are bounded by the
PCBs. `term` has no user semaphore: a termination treats it as it treats the device's and the
clock's, and leaving it out makes room for three processes.

Three U-procs are the least with one inside the mutex, one that waits and one that releases
late, and with two that find `masterSemaphore` at 1; `MaxSem` is then never reached. The seven
exceptions are those of the programs and one for each way through the handlers. In the pager three pages compete for two
frames, so that the hand goes round and a page comes back to a frame other than its first. Devices 6 and 7 are
chosen because device -1 of the terminal line is printer 7, and a device before 7 is needed for
the order of `getdevNo`; U-proc 6 makes the terminal calls, 7 all three (giving both all calls
is out of TLC's reach and adds a second printer only). Four PCBs give a list with a node that is neither
first nor last next to another list.

`CHECK_DEADLOCK FALSE` stands where processes may all terminate, a mutex may be lost or a
process may go astray; `asl`, `sync`, `live` and `lists` check for deadlock, and
their systems never stop.

*Fairness* (`LiveSpec`, without terminations). Weak fairness of `Scheduler` and
`DoIOCommand` (straight code after the lock, which the CPU is executing) and of
`PltHandler`: the timer is loaded at every dispatch, and a running process has it enabled.
Strong fairness of the interval timer and of `intHandler` per device, by some CPU: the
interrupt stays asserted until it is acknowledged, and each CPU is interruptible again and
again. Weak fairness of `Complete`: devices finish. Nothing is assumed of what processes do:
no call is fair. Under it, every ready process runs (`ReadyRuns`), and whoever waits for
the clock or for a device becomes ready (`ClockWakes`, `OperationWakes`).

`SupportSpec`: a process that can go on does (weak fairness of `Proceed` and `User`, which
`ReadyRuns` justifies), the flash device works, and, an assumption about programs, one that
runs again and again ends in SYS2 or a trap some time (strong fairness of that exception). Under
it `Shutdown` holds in the behaviours in which no mutex is lost, no U-proc waits in its V on
`masterSemaphore` and none goes astray from SYS4 or SYS5, which never signals and so keeps `test`
waiting; all three can happen in the code, and are named hazards. `Devices`: weak
fairness of a CPU that is in straight code (`Command`, `ReadBitmap`, `Handle`) and of devices
that finish, strong fairness of taking an interrupt, which stays asserted while the CPU comes
back from handlers. `DeviceWakes` asks in addition that the devices before it on its line stop
interrupting, since `getdevNo` always serves the lowest.

### What the runs found

* **`freed`** - `p_semAdd` is documented as the semaphore "the process is currently blocked
  on" (`headers/types.h:63`), but waking a process leaves it set (`asl.c:83`,
  `exceptions.c:137`). `terminateSubtree` takes such a process for blocked
  (`exceptions.c:356-359`): it does not remove it from the ready queue, raises a semaphore
  nobody waits for, and frees a PCB that is still queued to run. Seven steps: a child waits
  for one clock tick, becomes ready, its parent terminates.
* **`self`** - a running process that never blocked has no `p_semAdd` and is not in the
  ready queue, so `terminateSubtree` returns at line 362: TERMPROCESS(0) comes back to its
  caller, and an exception without a support structure leaves a PCB that is neither free
  nor anywhere else, and `process_count` above 0 for ever.
* **`value`** - a process that VERHOGEN blocked above 1 and that is then terminated adds
  another unit instead of giving one back (`exceptions.c:359`): the semaphore stays above 1
  with nobody waiting, against the comment of line 133.
* **`shutdown`** - the same unit, one level up. A U-proc whose V finds `masterSemaphore` at 1
  blocks in `terminateProcess` (`sysSupport.c:65`); woken by `test`, it terminates itself, and
  `terminateSubtree`, misled by its `p_semAdd`, gives the semaphore another unit. `test` takes
  that for one more U-proc, says that all are terminated (`initProc.c:91`) and ends while one
  still runs. `MasterUnits` says exactly how many units are paid by whom.

The first three are why the properties of `sync` (one place each, values that count the waiters,
paired I/O, liveness) are stated for the system without terminations. `term` states what
terminations keep up to the first freed PCB in use: `BlockedAreLive`, the count, the tree, HALT,
safe wake-ups and atomic calls; nothing is shown after it. In
the same way `MutexUnits` counts the mutex that `releaseMutex` loses when its late reset of
`holder_pid` overwrites the next holder's pid (`initProc.c:108-109`), and `Pager`'s `hazard` and
`Devices`' `stale` mark the races after which less is promised: the code promises nothing about
them in words, so they are hazards here and no findings.

## The proofs

TLAPS proves, for any finite set of PCBs and any CPUs, semaphores, devices, pages and frames, every
invariant that a passing run checks, and that the pointer lists, the ASL and the Nucleus implement
what is promised of them:

| Theorem | Statement | Argument |
|---|---|---|
| `AslProofs!TypeCorrect`, `OneDescriptor`, `NoneLeaks`, `InOneQueue`, `SemAddNames` | the invariants of `asl` | together they are inductive |
| `AslProofs!AlwaysRoom` | `insertBlocked` never fails | a descriptor in use has a waiter of its own; choosing one is an injection into the PCBs other than the one to block |
| `AslProofs!Refinement` | `Asl` implements `BlockedQueues` | step by step under the invariant: each operation on a descriptor is one on the queue of its key |
| `NucleusProofs!Invariance` and `TypeCorrect`, `WaitersLive`, `CountCorrect`, `HaltsLast`, `TreeCorrect`, `NobodyOversleeps` | `IInv` is invariant in `FollowedSpec`; the invariants of `term` | below |
| `NucleusCallsProofs!ValuesCount`, `WaitersHaveOperations`, `NoneLost` | the invariants of `sync` | `SyncInv`, below |
| `NucleusCallsProofs!OnlyTheWoken` | a PCB that is freed while in use belongs to a process that was woken (`FollowedSpec`) | `CallsInv`, below: what a termination takes for blocked and is not in a queue has left one |
| `NucleusCallsProofs!CallsAreAtomic` | `Nucleus` implements `Kernel`, terminations included, up to the step that frees a PCB in use (`FollowedSpec`) | each step is a call, an interrupt or a stutter, under `CallsInv` |
| `ListxProofs!Invariance`, `LinkedBothWays`, `ListsApart`, `SearchSucceeds` | the invariants of `lists`, for any number of PCBs and queues | below |
| `ListxProofs!Refinement` | `Listx` implements `PcbLists` | each operation on pointers is one on the sequences, under `IInv` and `Threaded`, below |
| `PagerProofs!Invariance`, `TypeCorrect`, `EntriesBacked`, `StoresSurvive`, `FramesApart`, `ReadsLatest` | the invariants of `pager` | below |
| `SupportProofs!Invariance`, `TypeCorrect`, `OneInside`, `MutexUnitsCount`, `NoForeignOwner`, `MasterUnitsCount` | the invariants of `support`, for any number of U-procs | below |
| `SupportProofs!LostForGood` | a lost mutex lets nobody in again | the same invariant |
| `SupportProofs!WaitsForHalf` | `test` ends after the V of more than half of the U-procs | the same invariant: what is left of `WaitsForAll`, which the run `shutdown` refutes |
| `DevicesProofs!Invariance`, `NobodyForgotten`, `OneToOne` | the invariants of `devices`, for any CPUs, device numbers and programs | below |
| `DevicesProofs!DeviceIndexInjective`, `SameSemaphore` | each (sub)device has its own semaphore, and DOIO and `intHandler` agree on it | arithmetic over the whole range of lines and devices |
| `DevicesProofs!OwnEntry`, `OwnPage`, `LowestDevice` | the refill finds the entry that `initPageTable` wrote; entries have different page numbers, and a page number in range has its own entry save 0x8001F; the chain of tests picks the lowest bit | arithmetic and cases |

*Nucleus.* `IInv` strengthens the invariants of the `term` run by little, because they lean on
each other. *Control*: a CPU in user mode has a process; the tree needs the pool (a free PCB is
no child) and the count needs the tree (`terminateSubtree` subtracts what it frees, and
only processes are in the subtree of a process); that a subtree has only processes in it is
`SubtreeLive`, from the definition of a subtree as the least closed set; that removing
edges makes no cycle is `SubtreeShrinks`. *Queues*: a process that blocks gets a new
`p_semAdd`, which keeps `BlockedAreLive` only if it was in no queue, that is `NeverTwice`;
and `NeverTwice` needs `BlockedAreLive` to keep the queues of two semaphores apart.
`NeverTwice`, that no process is in two places, is a lemma here and no result: it ends
at the horizon, with the step that frees a PCB in use, after which the code may have one in two lists.

*Calls.* `SyncInv` adds to `IInv` that no two CPUs are about to write to the same device
(`Commands`; DOIO writes after it has dropped the lock), that a device with a queue has one
operation (`DeviceInvariant`), that a CPU has a current process only in user mode
(`OnlyUsersRun`) and that no process is lost (`Housed`): the halves of `OnePlace`, since
`NeverTwice` bounds the places of a process from above only. `CallsAreAtomic` cannot have
`Housed`, because after a failed trap a process *is* lost. It needs just that a lost process
has never waited (`WaitedPlaced`, `LeftNeverWaited`): the frees of a termination are then the
same seen from the queues, as in the code, and from `p_semAdd`, as in `Kernel`. The set `R` is
the runnable processes that are not in the ready queue.

*Lists.* `IInv` is `Linked /\ Sorted /\ Found` with types and `Unlinked`: a PCB in the pool has
no parent and no children. `Sorted` says that nodes can be sorted into lists which links do
not leave; `allocPcb` and `freePcb` preserve it only because of `Unlinked`. `Found` is about reachability along `next`:
the nodes that `list_for_each` visits are the least set closed under it, and the lemmas say
how an insertion or a removal changes that set, given `Linked`.

`Refinement` needs more: not where a link may lead but the order of the nodes. `Threads(L, h, s)`
says that `next` leads from `h` along the nodes of the PCBs of `s`, which are different, and back to
`h`; `Threaded`, that each list is threaded by its own `Owners`. `Owners` is a recursive function on
the number of hops, which exists for any links (`WalkExists`, by induction over numbers); it returns
`s` if `s` threads the list (`ThreadOwners`, which counts: a list has at most `MAXPROC` PCBs).
`DelThread` and `InsertThread` say what `list_del` and `__list_add` make of the sequence, `DelOther`
and `InsertOther` that other lists keep theirs: two lists share no node (`Apart`), because they are
of different families in `Sorted`. `GuardFacts` turns what `pcb.c`'s callers guarantee of links (a
node that is alone) into what `PcbLists` says (in no queue, no child of anybody); and `Found` makes
`outChild` one on the children of the parent. `Members` shows that no other PCB has this child.

*Pager.* `Tables` (who holds the mutex is in the pager; a fault is of a page of one's own;
the frame being read into is of no valid entry) gives `EntriesBacked` unconditionally. `Clean`
says, unless there was a hazard, that valid TLB entries agree with the page table, that the
page a process waits for is still invalid, that a frame in the swap pool table is its page's,
what a refill handler has read and not written yet is still so (`PendingAgrees`), and
where the latest contents are. None of the properties is inductive without the agreement of TLBs:
a store through an old entry would put the latest contents where the pager does not look.

*Support.* The step from `Next` to an invariant of the mutex is short once the kinds of steps are
apart: `Steps` says that each is a step of paging (`Inner`), of the flash device, or one of the
five of the shutdown, and what each leaves alone. Five parts then lean on each other:

* `MutexInv` is `SwapExclusive` and `MutexUnits` over `Inside`, which reads program counters and
  the queue only. It needs `Holder`, because a process that dies in `terminateProcess` without
  being inside (`"die"`) must not find its own pid in `holder_pid`: it would do a V of a mutex it
  does not have. A pid stays in `holder_pid` until its own reset or an overwrite, and its process
  passes the reset before it comes to another P.
* `MutexQueue`: who waits is in its P, and `p_semAdd` names the mutex only up to the DOIO that
  follows. So `terminateSubtree`, which pays a unit to the semaphore in `p_semAdd`, never pays the
  mutex, but always the flash device, `masterSemaphore` or nothing.
* `AllWell`: while `test` is up, no freed PCB is in use. A U-proc has no children (`OneTest`), so it frees
  itself at most.
* `MasterInv` counts the units of `masterSemaphore`: V by the U-procs (`signals`), units of
  terminations (`extra`), less the P of `test`.
* `Counts` bounds both: a U-proc does one V, and the first V finds no unit, so it does not
  block; each unit in `extra` comes from a U-proc that blocked in its V. Hence `extra < signals` as
  long as `test` is up, which gives `WaitsForHalf`: `test` goes on after `signals + extra >=
  UPROC_NUM`. It needs `SignalsLast` (who blocked on `masterSemaphore` did so in its V).

*Devices.* `OwnQueue`: in the queue of a unit is at most one process, the U-proc whose call is about
that unit. Since addresses have their own index (`UnitIndices`, `OwnIndex`), a handler that takes
a process out of a queue takes the one that waits for the unit it acknowledged. `Finished`: a unit that
interrupts has a completed status. Only with it does `intHandler`'s test of the transmitter's
status tell the two halves of a terminal apart. `Matched` is
`OneWaiterPerOperation`, together with the fact that a unit without operation has been acknowledged; it holds until a
handler is `stale`. After that `WaiterServed` still holds: the handling of device -1, or of a
device served already, can take a waiter from its queue but never put one there.

`ProcQTheorems` has what the queue operations return. `outAllProcQ` is recursive; its
properties are proved by induction over a *set* of numbers (`AllNumbers`, from the
well-foundedness of the strict subset ordering), since the installed provers cannot
instantiate the library's induction theorems.

Assumptions, all evaluated by TLC: `AslAssumption` (finite sets; as many descriptors as PCBs, `asl.c:5`,
`pcb.c:3`), `NucleusAssumption` (at least one CPU and one PCB, finitely many PCBs,
semaphores of different kinds are different, NULL is none of them), `ListxAssumption`
(at least one PCB), `PagerAssumption` (at least one frame and one CPU, page numbers that
the table has, special values are different), `SupportAssumption` (finitely many PCBs, `test` among
them and more of them than U-procs; the semaphores of the mutex, of `test`, of the flash device
and of the clock are different; no exception of a U-proc goes to the Nucleus or to PANIC),
`DevicesAssumption` (device numbers below 8, finitely many CPUs, programs consist of SYS3 to SYS5).

*Only model-checked:* liveness (`ReadyRuns`, `ClockWakes`, `OperationWakes`, `Shutdown`,
`DeviceWakes`), which is out of TLAPS's reach.

## Not modelled

* `klog.c`: debugging output under no lock; nothing reads it and it promises nothing.
* CPU times (`p_time`, `proc_time_started`, GETTIME): no other state depends on them.
  `pltHandler` does not charge the slice that ends and the next dispatch restarts the count
  (`interrupts.c:59-68`, `scheduler.c:43`), so GETTIME returns less than the "cpu time used by
  proc" (`headers/types.h:61`); this is read off the code, no run shows it.
* The pass-up vectors and the routing of interrupts in `initial.c` and `initProc.c`: written
  once, and effective in the emulator only. The model lets any CPU take an interrupt.
* The contents of pages, strings and processor states; which character a terminal moves.
* What a CPU executes after SYS4 or SYS5 return without LDST (`sysSupport.c:119`): the code
  does not determine it; the U-proc is `gone` in `Devices` and `astray` in `Support`.
* What the system does with a freed PCB that is in use (`Followed`), and what a program does
  after the refill of a page number without an entry (`RefillOutside`).
* The wrap of `next_pid` after 2^31 creations.
* The test programs (`p1test.c`, `p2test.c`, `testers/`), the emulator, its BIOS and
  configuration, the state dumps in the root directory.

Hazards without a property, each with its reason in `PROJECT.json`: they are cases for which
the code states no requirement that could fail, or that no caller in `src/` reaches, and the
CPU times above.

What could come next: CPU time accounting as a layer over `Nucleus`.
