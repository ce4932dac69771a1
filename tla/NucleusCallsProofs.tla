------------------------ MODULE NucleusCallsProofs -------------------------
(***************************************************************************)
(* Proofs about what the Nucleus does for the processes, for any number of *)
(* CPUs, PCBs, semaphores and devices.  Without terminations the value of  *)
(* a semaphore of the processes counts its waiters, a device has a waiter  *)
(* exactly while an operation is under way, and every PCB is in exactly    *)
(* one place.  With terminations each call is atomic: Nucleus implements   *)
(* Kernel.                                                                 *)
(***************************************************************************)
EXTENDS NucleusProofs, NucleusCalls

\* A CPU is about to write a command between the halves of a DOIO only, and no
\* two CPUs are about to write to the same device.
Commands ==
  /\ \A c \in Cpu : pc[c] = "doio" <=> ioCmd[c] # NULL
  /\ \A b, c \in Cpu : b # c /\ ioCmd[b] = ioCmd[c] => ioCmd[b] = NULL

\* A device is used by one process at a time, from the DOIO to the interrupt:
\* its command is about to be written, or the device works on it.
DeviceInvariant ==
  /\ WaiterHasOperation
  /\ \A d \in Dev : Len(blocked[d]) \in {0, 1}
  /\ \A d \in Dev : dev[d] # "idle" => \A c \in Cpu : ioCmd[c] # d

\* The PCBs that are ready, blocked or current
InUse == {p \in Pcb : \/ p \in ToSet(ready_queue)
                      \/ \E s \in Sem : p \in ToSet(blocked[s])
                      \/ \E c \in Cpu : current_process[c] = p}

\* A PCB that has waited is not lost: it is in use.  A process that never waited
\* may be, when a trap frees nothing and Scheduler forgets it (passUpordie).
WaitedPlaced == \A p \in Live : p_semAdd[p] # NULL => p \in InUse
LeftNeverWaited ==
  \A c \in Cpu : pc[c] # "user" /\ current_process[c] # NULL
                  => p_semAdd[current_process[c]] = NULL

CallsInv == IInv /\ Commands /\ WaitedPlaced /\ LeftNeverWaited

\* Without terminations, a CPU has a current process only while it runs it.
OnlyUsersRun == \A c \in Cpu : pc[c] # "user" => current_process[c] = NULL

\* The PCBs that are in use are those that are not free: no process is lost
Housed == InUse = Live

SyncInv == IInv /\ Commands /\ ValueCountsWaiters /\ DeviceInvariant /\ OnlyUsersRun /\ Housed

-----------------------------------------------------------------------------
(* The lengths of the queues *)

\* insertProcQ makes a queue longer by one (pcb.c:81).
LEMMA BlockLength ==
  ASSUME QueueTypes, NEW s \in Sem, NEW p \in Pcb,
         blocked' = [blocked EXCEPT ![s] = insertProcQ(@, p)]
  PROVE  /\ Len(blocked'[s]) = Len(blocked[s]) + 1
         /\ \A t \in Sem \ {s} : blocked'[t] = blocked[t]
         /\ \A t \in Sem : Len(blocked[t]) \in Nat
<1>1. \A t \in Sem : blocked[t] \in Seq(Pcb)
  BY DEF QueueTypes
<1>2. blocked'[s] = Append(blocked[s], p) /\ \A t \in Sem \ {s} : blocked'[t] = blocked[t]
  BY DEF QueueTypes, insertProcQ
<1> QED BY <1>1, <1>2, AppendProperties, LenProperties

\* removeBlocked makes a queue shorter by one, if there is anybody (asl.c:61-75).
LEMMA UnblockLength ==
  ASSUME QueueTypes, NEW s \in Sem, Unblock(s)
  PROVE  /\ Len(blocked[s]) > 0 => Len(blocked'[s]) = Len(blocked[s]) - 1
         /\ Len(blocked[s]) = 0 => Len(blocked'[s]) = 0
         /\ \A t \in Sem \ {s} : blocked'[t] = blocked[t]
         /\ \A t \in Sem : Len(blocked[t]) \in Nat
<1>1. \A t \in Sem : blocked[t] \in Seq(Pcb) /\ Len(blocked[t]) \in Nat
  BY LenProperties DEF QueueTypes
<1>2. CASE emptyProcQ(blocked[s])
  <2>1. blocked' = blocked /\ Len(blocked[s]) = 0
    BY <1>2, EmptySeq DEF Unblock, emptyProcQ
  <2> QED BY <1>1, <2>1
<1>3. CASE ~ emptyProcQ(blocked[s])
  <2>1. /\ blocked'[s] = Tail(blocked[s])
        /\ \A t \in Sem \ {s} : blocked'[t] = blocked[t]
    BY <1>3 DEF Unblock, QueueTypes, removeProcQ
  <2>2. Len(Tail(blocked[s])) = Len(blocked[s]) - 1 /\ Len(blocked[s]) # 0
    BY <1>1, <1>3, HeadTailProperties, EmptySeq DEF emptyProcQ
  <2> QED BY <1>1, <2>1, <2>2
<1> QED BY <1>2, <1>3

\* A process that runs is a PCB.
LEMMA CallerIsPcb ==
  ASSUME Control, Followed, NEW c \in Cpu, At(c, "user")
  PROVE  current_process[c] \in Pcb /\ current_process[c] \in Live
BY DEF At, Followed, Corrupt, Control, Types, UserHasProcess, Live

-----------------------------------------------------------------------------
(* Commands *)

LEMMA NextCommands ==
  ASSUME IInv, NucleusAssumption, Commands, Followed, [Next]_vars
  PROVE  Commands'
<1>1. /\ pc \in [Cpu -> Places] /\ ioCmd \in [Cpu -> Dev \cup {NULL}] /\ NULL \notin Dev
  BY DEF IInv, Control, Types, DataTypes, NucleusAssumption, Sem
<1>2. ASSUME UNCHANGED ioCmd, \A c \in Cpu : pc[c] = "doio" <=> pc'[c] = "doio"
      PROVE  Commands'
  BY <1>2 DEF Commands
<1>3. ASSUME NEW c \in Cpu, CreateProcess(c) \/ ClockWait(c) \/ Scheduler(c) \/ PltHandler(c)
                             \/ TimerHandler(c) \/ TermSelf(c) \/ Trap(c)
      PROVE  Commands'
  <2>1. UNCHANGED ioCmd
    BY <1>3 DEF CreateProcess, ClockWait, Scheduler, PltHandler, TimerHandler, TermSelf, Trap,
                TerminateSubtree
  <2>2. \A b \in Cpu : pc[b] = "doio" <=> pc'[b] = "doio"
    BY <1>1, <1>3 DEF CreateProcess, ClockWait, Scheduler, PltHandler, TimerHandler, TermSelf, Trap,
                      Leave, Resume, Continue, Interruptible, At
  <2> QED BY <2>1, <2>2, <1>2
<1>4. ASSUME NEW c \in Cpu, NEW s, Passeren(c, s) \/ Verhogen(c, s) \/ IntHandler(c, s)
                                    \/ TermProcess(c, s)
      PROVE  Commands'
  <2>1. UNCHANGED ioCmd
    BY <1>4 DEF Passeren, Verhogen, IntHandler, TermProcess, TerminateSubtree
  <2>2. \A b \in Cpu : pc[b] = "doio" <=> pc'[b] = "doio"
    BY <1>1, <1>4 DEF Passeren, Verhogen, IntHandler, TermProcess, Leave, Resume, Continue,
                      Interruptible, At
  <2> QED BY <2>1, <2>2, <1>2
<1>5. ASSUME NEW c \in Cpu, NEW d \in Dev, DeviceFree(d), DoIO(c, d) PROVE Commands'
  BY <1>1, <1>5 DEF DeviceFree, DoIO, Leave, Commands
<1>6. ASSUME NEW c \in Cpu, DoIOCommand(c) PROVE Commands'
  BY <1>1, <1>6 DEF DoIOCommand, Commands
<1>7. ASSUME NEW d \in Dev, Complete(d) PROVE Commands'
  BY <1>2, <1>7 DEF Complete
<1>8. CASE UNCHANGED vars
  BY <1>2, <1>8 DEF vars
<1> QED BY <1>3, <1>4, <1>5, <1>6, <1>7, <1>8 DEF Next, SyncNext, TermNext

-----------------------------------------------------------------------------
(* Semaphores of the processes *)

\* A step that leaves the semaphores of the processes alone
LEMMA UserAlone ==
  ASSUME ValueCountsWaiters, \A s \in UserSem : sem'[s] = sem[s] /\ blocked'[s] = blocked[s]
  PROVE  ValueCountsWaiters'
BY DEF ValueCountsWaiters

LEMMA NextValues ==
  ASSUME IInv, NucleusAssumption, ValueCountsWaiters, Followed, [SyncNext]_vars
  PROVE  ValueCountsWaiters'
<1> USE DEF IInv, Queues
<1>1. UserSem \subseteq Sem /\ Clock \in Sem /\ Dev \subseteq Sem
      /\ Clock \notin UserSem /\ \A d \in Dev : d \notin UserSem
  BY DEF Sem, NucleusAssumption
<1>2. sem \in [Sem -> Int] /\ QueueTypes
  BY DEF DataTypes
<1>3. ASSUME NEW c \in Cpu, CreateProcess(c) \/ DoIOCommand(c) \/ Scheduler(c) \/ PltHandler(c)
      PROVE  ValueCountsWaiters'
  BY <1>3, UserAlone DEF CreateProcess, DoIOCommand, Scheduler, PltHandler
<1>4. ASSUME NEW c \in Cpu, NEW t \in Sem \ UserSem, NEW p \in Pcb,
             blocked' = [blocked EXCEPT ![t] = insertProcQ(@, p)],
             \A s \in UserSem : sem'[s] = sem[s]
      PROVE  ValueCountsWaiters'
  <2>1. \A s \in UserSem : blocked'[s] = blocked[s]
    BY <1>1, <1>2, <1>4, BlockLength
  <2> QED BY <1>4, <2>1, UserAlone
<1>5. ASSUME NEW c \in Cpu, ClockWait(c) PROVE ValueCountsWaiters'
  BY <1>5, <1>1, <1>4, CallerIsPcb DEF ClockWait, BlockCurrent
<1>6. ASSUME NEW c \in Cpu, TimerHandler(c) PROVE ValueCountsWaiters'
  <2>1. /\ \A s \in UserSem : blocked'[s] = blocked[s]
        /\ UNCHANGED sem
    BY <1>6, <1>1, <1>2 DEF TimerHandler, unblockClockPCBs, QueueTypes
  <2> QED BY <2>1, UserAlone
<1>7. ASSUME NEW c \in Cpu, NEW d \in Dev, DoIO(c, d) PROVE ValueCountsWaiters'
  <2>1. At(c, "user") /\ BlockCurrent(c, d) /\ sem' = [sem EXCEPT ![d] = @ - 1]
    BY <1>7 DEF DoIO
  <2>2. \A s \in UserSem : sem'[s] = sem[s]
    BY <2>1, <1>1, <1>2
  <2> QED BY <2>1, <2>2, <1>1, <1>4, CallerIsPcb DEF BlockCurrent
<1>8. ASSUME NEW c \in Cpu, NEW d \in Dev, IntHandler(c, d) PROVE ValueCountsWaiters'
  <2>1. Unblock(d) /\ sem' = [sem EXCEPT ![d] = @ + 1]
    BY <1>8 DEF IntHandler
  <2>2. \A s \in UserSem : sem'[s] = sem[s] /\ blocked'[s] = blocked[s]
    BY <2>1, <1>1, <1>2, UnblockLength
  <2> QED BY <2>2, UserAlone
<1>9. ASSUME NEW d \in Dev, Complete(d) PROVE ValueCountsWaiters'
  BY <1>9, UserAlone DEF Complete
<1>10. ASSUME NEW c \in Cpu, NEW s \in UserSem, Passeren(c, s) \/ Verhogen(c, s)
       PROVE  ValueCountsWaiters'
  <2>1. /\ sem[s] \in Int /\ s \in Sem /\ At(c, "user") /\ current_process[c] \in Pcb
        /\ sem' = [sem EXCEPT ![s] = sem'[s]]
    BY <1>1, <1>2, <1>10, CallerIsPcb DEF Passeren, Verhogen
  <2>2. \A t \in UserSem \ {s} : sem'[t] = sem[t]
    BY <2>1, <1>1, <1>2
  <2>3. /\ Len(blocked[s]) \in Nat
        /\ Len(blocked[s]) = IF sem[s] < 0 THEN - sem[s] ELSE IF sem[s] > 1 THEN sem[s] - 1 ELSE 0
    BY <2>1, <1>2, LenProperties DEF QueueTypes, ValueCountsWaiters
  <2>4. \A t \in UserSem \ {s} : blocked'[t] = blocked[t]
    <3>1. BlockCurrent(c, s) \/ Unblock(s) \/ UNCHANGED blocked
      BY <1>10 DEF Passeren, Verhogen
    <3> QED BY <3>1, <2>1, <1>1, <1>2, BlockLength, UnblockLength DEF BlockCurrent
  <2>5. Len(blocked'[s]) = IF sem'[s] < 0 THEN - sem'[s] ELSE IF sem'[s] > 1 THEN sem'[s] - 1 ELSE 0
    <3>1. CASE Passeren(c, s)
      <4>1. sem'[s] = sem[s] - 1
        BY <3>1, <2>1, <1>2 DEF Passeren
      <4>2. CASE sem[s] - 1 < 0
        <5>1. Len(blocked'[s]) = Len(blocked[s]) + 1
          BY <3>1, <4>2, <2>1, <1>2, BlockLength DEF Passeren, BlockCurrent
        <5> QED BY <4>1, <4>2, <5>1, <2>1, <2>3
      <4>3. CASE sem[s] - 1 >= 1
        <5>1. Unblock(s)
          BY <3>1, <4>3, <2>1 DEF Passeren
        <5>2. Len(blocked'[s]) = Len(blocked[s]) - 1
          BY <5>1, <4>3, <2>1, <2>3, <1>2, UnblockLength
        <5> QED BY <4>1, <4>3, <5>2, <2>1, <2>3
      <4>4. CASE sem[s] - 1 = 0
        <5>1. UNCHANGED blocked
          BY <3>1, <4>4 DEF Passeren
        <5> QED BY <4>1, <4>4, <5>1, <2>1, <2>3
      <4> QED BY <4>2, <4>3, <4>4, <2>1
    <3>2. CASE Verhogen(c, s)
      <4>1. sem'[s] = sem[s] + 1
        BY <3>2, <2>1, <1>2 DEF Verhogen
      <4>2. CASE sem[s] + 1 > 1
        <5>1. Len(blocked'[s]) = Len(blocked[s]) + 1
          BY <3>2, <4>2, <2>1, <1>2, BlockLength DEF Verhogen, BlockCurrent
        <5> QED BY <4>1, <4>2, <5>1, <2>1, <2>3
      <4>3. CASE sem[s] + 1 <= 0
        <5>1. Unblock(s)
          BY <3>2, <4>3, <2>1 DEF Verhogen
        <5>2. Len(blocked'[s]) = Len(blocked[s]) - 1
          BY <5>1, <4>3, <2>1, <2>3, <1>2, UnblockLength
        <5> QED BY <4>1, <4>3, <5>2, <2>1, <2>3
      <4>4. CASE sem[s] + 1 = 1
        <5>1. UNCHANGED blocked
          BY <3>2, <4>4 DEF Verhogen
        <5> QED BY <4>1, <4>4, <5>1, <2>1, <2>3
      <4> QED BY <4>2, <4>3, <4>4, <2>1
    <3> QED BY <1>10, <3>1, <3>2
  <2> QED BY <2>2, <2>4, <2>5 DEF ValueCountsWaiters
<1>11. CASE UNCHANGED vars
  BY <1>11, UserAlone DEF vars
<1> QED BY <1>3, <1>5, <1>6, <1>7, <1>8, <1>9, <1>10, <1>11 DEF SyncNext

-----------------------------------------------------------------------------
(* Devices *)

\* A step that leaves the devices and those who wait for them alone
LEMMA DevicesAlone ==
  ASSUME DeviceInvariant, UNCHANGED << dev, ioCmd >>,
         \A d \in Dev : sem'[d] = sem[d] /\ blocked'[d] = blocked[d]
  PROVE  DeviceInvariant'
BY DEF DeviceInvariant, WaiterHasOperation

LEMMA NextDevices ==
  ASSUME IInv, NucleusAssumption, Commands, DeviceInvariant, Followed, [SyncNext]_vars
  PROVE  DeviceInvariant'
<1> USE DEF IInv, Queues
<1>1. /\ Dev \subseteq Sem /\ UserSem \subseteq Sem /\ Clock \in Sem
      /\ Clock \notin Dev /\ NULL \notin Dev /\ \A s \in UserSem : s \notin Dev
  BY DEF Sem, NucleusAssumption
<1>2. /\ sem \in [Sem -> Int] /\ QueueTypes
      /\ ioCmd \in [Cpu -> Dev \cup {NULL}] /\ dev \in [Dev -> {"idle", "busy", "done"}]
  BY DEF DataTypes
<1>3. \A d \in Dev : Len(blocked[d]) \in Nat /\ (emptyProcQ(blocked[d]) <=> Len(blocked[d]) = 0)
  BY <1>1, <1>2, LenProperties, EmptySeq DEF QueueTypes, emptyProcQ
<1>4. ASSUME NEW c \in Cpu, CreateProcess(c) \/ Scheduler(c) \/ PltHandler(c)
      PROVE  DeviceInvariant'
  BY <1>4, DevicesAlone DEF CreateProcess, Scheduler, PltHandler
<1>5. ASSUME NEW c \in Cpu, ClockWait(c) \/ TimerHandler(c) PROVE DeviceInvariant'
  <2>1. UNCHANGED << dev, ioCmd, sem >> /\ \A d \in Dev : blocked'[d] = blocked[d]
    BY <1>5, <1>1, <1>2
       DEF ClockWait, BlockCurrent, TimerHandler, unblockClockPCBs, QueueTypes
  <2> QED BY <2>1, DevicesAlone
<1>6. ASSUME NEW c \in Cpu, NEW s \in UserSem, Passeren(c, s) \/ Verhogen(c, s)
      PROVE  DeviceInvariant'
  <2>1. /\ At(c, "user") /\ UNCHANGED << dev, ioCmd >>
        /\ BlockCurrent(c, s) \/ Unblock(s) \/ UNCHANGED blocked
    BY <1>6 DEF Passeren, Verhogen, BlockCurrent
  <2>2. \A d \in Dev : sem'[d] = sem[d]
    BY <1>6, <1>1, <1>2 DEF Passeren, Verhogen
  <2>3. \A d \in Dev : blocked'[d] = blocked[d]
    BY <2>1, <1>1, <1>2, UnblockLength DEF BlockCurrent, QueueTypes
  <2> QED BY <2>1, <2>2, <2>3, DevicesAlone
<1>7. ASSUME NEW c \in Cpu, NEW d \in Dev, DeviceFree(d), DoIO(c, d) PROVE DeviceInvariant'
  <2>1. /\ emptyProcQ(blocked[d]) /\ (\A b \in Cpu : ioCmd[b] # d)
        /\ At(c, "user") /\ BlockCurrent(c, d) /\ UNCHANGED dev
        /\ sem' = [sem EXCEPT ![d] = @ - 1]
        /\ ioCmd' = [ioCmd EXCEPT ![c] = d]
    BY <1>7 DEF DeviceFree, DoIO, BlockCurrent
  <2>2. dev[d] = "idle" /\ sem[d] = 0 /\ Len(blocked[d]) = 0
    BY <2>1, <1>2, <1>3 DEF DeviceInvariant, WaiterHasOperation
  <2>3. /\ Len(blocked'[d]) = 1
        /\ \A e \in Dev \ {d} : blocked'[e] = blocked[e]
    <3>1. d \in Sem /\ current_process[c] \in Pcb
      BY <2>1, <1>1, CallerIsPcb
    <3>2. /\ Len(blocked'[d]) = Len(blocked[d]) + 1
          /\ \A e \in Sem \ {d} : blocked'[e] = blocked[e]
      BY <2>1, <3>1, <1>2, BlockLength DEF BlockCurrent
    <3> QED BY <2>2, <3>2, <1>1
  <2>4. ~ emptyProcQ(blocked'[d])
    BY <2>3, EmptySeq DEF emptyProcQ
  <2>5. /\ sem'[d] = -1 /\ ioCmd'[c] = d
        /\ \A e \in Dev \ {d} : sem'[e] = sem[e]
        /\ \A b \in Cpu \ {c} : ioCmd'[b] = ioCmd[b] /\ ioCmd[b] # d
    BY <2>1, <2>2, <1>1, <1>2
  <2>6. \A e \in Dev \ {d} : (\E b \in Cpu : ioCmd'[b] = e) <=> \E b \in Cpu : ioCmd[b] = e
    BY <2>1, <2>5, <1>2, <1>1 DEF Commands, At
  <2>7. WaiterHasOperation'
    <3>1. ASSUME NEW e \in Dev \ {d}
          PROVE  /\ sem'[e] = - Len(blocked'[e])
                 /\ ~ emptyProcQ(blocked'[e]) <=> dev'[e] # "idle" \/ \E b \in Cpu : ioCmd'[b] = e
      <4>1. /\ sem[e] = - Len(blocked[e])
            /\ ~ emptyProcQ(blocked[e]) <=> dev[e] # "idle" \/ \E b \in Cpu : ioCmd[b] = e
        BY DEF DeviceInvariant, WaiterHasOperation
      <4>2. (\E b \in Cpu : ioCmd'[b] = e) <=> \E b \in Cpu : ioCmd[b] = e
        BY <2>6
      <4>3. dev' = dev /\ blocked'[e] = blocked[e] /\ sem'[e] = sem[e]
        BY <2>1, <2>3, <2>5
      <4> QED BY <4>1, <4>2, <4>3
    <3>2. /\ sem'[d] = - Len(blocked'[d])
          /\ ~ emptyProcQ(blocked'[d]) /\ \E b \in Cpu : ioCmd'[b] = d
      BY <2>3, <2>4, <2>5
    <3> QED BY <3>1, <3>2 DEF WaiterHasOperation
  <2>8. \A e \in Dev : Len(blocked'[e]) \in {0, 1}
    BY <2>3 DEF DeviceInvariant
  <2>9. \A e \in Dev : dev'[e] # "idle" => \A b \in Cpu : ioCmd'[b] # e
    BY <2>1, <2>2, <2>5 DEF DeviceInvariant
  <2> QED BY <2>7, <2>8, <2>9 DEF DeviceInvariant
<1>8. ASSUME NEW c \in Cpu, DoIOCommand(c) PROVE DeviceInvariant'
  <2>1. /\ UNCHANGED << blocked, sem >>
        /\ dev' = [dev EXCEPT ![ioCmd[c]] = "busy"]
        /\ ioCmd' = [ioCmd EXCEPT ![c] = NULL]
    BY <1>8 DEF DoIOCommand
  <2>2. \A e \in Dev : dev'[e] = IF ioCmd[c] = e THEN "busy" ELSE dev[e]
    BY <2>1, <1>2
  <2>3. /\ ioCmd'[c] = NULL
        /\ \A b \in Cpu \ {c} : ioCmd'[b] = ioCmd[b]
    BY <2>1, <1>2
  <2>4. \A e \in Dev : dev'[e] # "idle" => \A b \in Cpu : ioCmd'[b] # e
    BY <2>2, <2>3, <1>1 DEF DeviceInvariant, Commands
  <2>5. \A e \in Dev : (dev'[e] # "idle" \/ \E b \in Cpu : ioCmd'[b] = e)
                       <=> (dev[e] # "idle" \/ \E b \in Cpu : ioCmd[b] = e)
    BY <2>2, <2>3, <1>1
  <2>6. WaiterHasOperation'
    BY <2>1, <2>5 DEF DeviceInvariant, WaiterHasOperation
  <2> QED BY <2>1, <2>4, <2>6 DEF DeviceInvariant
<1>9. ASSUME NEW d \in Dev, Complete(d) PROVE DeviceInvariant'
  <2>1. /\ UNCHANGED << blocked, sem, ioCmd >> /\ dev[d] # "idle"
        /\ dev' = [dev EXCEPT ![d] = "done"]
    BY <1>9 DEF Complete
  <2>2. \A e \in Dev : dev'[e] # "idle" <=> dev[e] # "idle"
    BY <2>1, <1>2
  <2> QED BY <2>1, <2>2 DEF DeviceInvariant, WaiterHasOperation
<1>10. ASSUME NEW c \in Cpu, NEW d \in Dev, IntHandler(c, d) PROVE DeviceInvariant'
  <2>1. /\ dev[d] = "done" /\ dev' = [dev EXCEPT ![d] = "idle"]
        /\ sem' = [sem EXCEPT ![d] = @ + 1] /\ Unblock(d) /\ UNCHANGED ioCmd
    BY <1>10 DEF IntHandler, Acknowledge
  <2>2. Len(blocked[d]) = 1 /\ sem[d] = -1 /\ \A b \in Cpu : ioCmd[b] # d
    <3>1. ~ emptyProcQ(blocked[d]) /\ sem[d] = - Len(blocked[d])
      BY <2>1 DEF DeviceInvariant, WaiterHasOperation
    <3>2. \A b \in Cpu : ioCmd[b] # d
      BY <2>1 DEF DeviceInvariant
    <3>3. Len(blocked[d]) \in Nat /\ Len(blocked[d]) # 0 /\ Len(blocked[d]) \in {0, 1}
      BY <3>1, <1>3 DEF DeviceInvariant
    <3> QED BY <3>1, <3>2, <3>3
  <2>3. Len(blocked'[d]) = 0 /\ \A e \in Dev \ {d} : blocked'[e] = blocked[e]
    <3>1. d \in Sem /\ Len(blocked[d]) > 0
      BY <2>2, <1>1
    <3>2. Len(blocked'[d]) = Len(blocked[d]) - 1
      BY <2>1, <3>1, <1>2, UnblockLength
    <3>3. \A e \in Sem \ {d} : blocked'[e] = blocked[e]
      BY <2>1, <3>1, <1>2, UnblockLength
    <3> QED BY <2>2, <3>2, <3>3, <1>1
  <2>4. emptyProcQ(blocked'[d])
    <3>1. blocked'[d] \in Seq(Pcb)
      BY NextQueues, <1>1 DEF QueueTypes, Control, Next
    <3> QED BY <3>1, <2>3, EmptySeq DEF emptyProcQ
  <2>5. /\ sem'[d] = 0 /\ dev'[d] = "idle"
        /\ \A e \in Dev \ {d} : sem'[e] = sem[e] /\ dev'[e] = dev[e]
    BY <2>1, <2>2, <1>1, <1>2
  <2> QED BY <2>1, <2>2, <2>3, <2>4, <2>5 DEF DeviceInvariant, WaiterHasOperation
<1>11. CASE UNCHANGED vars
  BY <1>11, DevicesAlone DEF vars
<1> QED BY <1>4, <1>5, <1>6, <1>7, <1>8, <1>9, <1>10, <1>11 DEF SyncNext

-----------------------------------------------------------------------------
(* Places *)

\* A step that moves no process
LEMMA PlacesAlone ==
  ASSUME UNCHANGED << ready_queue, blocked, current_process >>
  PROVE  InUse' = InUse
BY DEF InUse

\* The current process of c goes to the queue of s.
LEMMA BlockPlaces ==
  ASSUME IInv, NucleusAssumption, Followed, NEW c \in Cpu, NEW s \in Sem, At(c, "user"),
         BlockCurrent(c, s), current_process' = [current_process EXCEPT ![c] = NULL]
  PROVE  /\ InUse' = InUse
         /\ \A q \in Pcb : p_semAdd'[q] = p_semAdd[q] \/ q \in InUse'
<1> USE DEF IInv, Queues
<1> DEFINE p == current_process[c]
<1>1. p \in Pcb
  BY CallerIsPcb
<1>2. /\ blocked[s] \in Seq(Pcb)
      /\ blocked' = [blocked EXCEPT ![s] = insertProcQ(@, p)]
      /\ p_semAdd' = [p_semAdd EXCEPT ![p] = s]
      /\ UNCHANGED ready_queue
  BY DEF BlockCurrent, QueueTypes
<1>3. /\ ToSet(blocked'[s]) = ToSet(blocked[s]) \cup {p}
      /\ \A t \in Sem \ {s} : blocked'[t] = blocked[t]
  <2>1. ToSet(insertProcQ(blocked[s], p)) = ToSet(blocked[s]) \cup {p}
    <3>1. blocked[s] \in Seq(Pcb)
      BY <1>2
    <3> QED BY ONLY <1>1, <3>1, InsertProcQ
  <2> QED BY <2>1, <1>2 DEF QueueTypes
<1>4. /\ current_process'[c] = NULL /\ NULL \notin Pcb
      /\ \A b \in Cpu \ {c} : current_process'[b] = current_process[b]
  BY DEF Control, Types, NucleusAssumption
<1>5. p \in InUse /\ p \in InUse' /\ InUse \subseteq Pcb /\ InUse' \subseteq Pcb
  BY <1>1, <1>3 DEF InUse
<1>6. \A q \in Pcb \ {p} : (q \in InUse' <=> q \in InUse) /\ p_semAdd'[q] = p_semAdd[q]
  BY <1>2, <1>3, <1>4 DEF InUse, QueueTypes
<1> HIDE DEF p
<1> QED BY <1>5, <1>6

\* The first process in the queue of s becomes ready.
LEMMA UnblockPlaces ==
  ASSUME IInv, NEW s \in Sem, Unblock(s), UNCHANGED current_process
  PROVE  InUse' = InUse
<1> USE DEF IInv, Queues
<1>1. CASE emptyProcQ(blocked[s])
  BY <1>1, PlacesAlone DEF Unblock
<1>2. CASE ~ emptyProcQ(blocked[s])
  <2> DEFINE p == headProcQ(blocked[s])
  <2>1. blocked[s] \in Seq(Pcb) /\ ready_queue \in Seq(Pcb)
    BY DEF QueueTypes
  <2>2. /\ blocked' = [blocked EXCEPT ![s] = removeProcQ(@)]
        /\ ready_queue' = insertProcQ(ready_queue, p)
    BY <1>2 DEF Unblock
  <2>3. /\ p \in Pcb /\ ToSet(blocked[s]) = ToSet(removeProcQ(blocked[s])) \cup {p}
    BY <1>2, <2>1, RemoveProcQ
  <2>4. /\ ToSet(ready_queue') = ToSet(ready_queue) \cup {p}
        /\ ToSet(blocked[s]) = ToSet(blocked'[s]) \cup {p}
        /\ \A t \in Sem \ {s} : blocked'[t] = blocked[t]
    BY <2>1, <2>2, <2>3, InsertProcQ DEF QueueTypes
  <2> HIDE DEF p
  <2> QED BY <2>4 DEF InUse
<1> QED BY <1>1, <1>2

\* What a step that terminates nobody puts in use and takes out of use: only
\* Scheduler forgets a process, one that its CPU still has as current.
LEMMA SyncPlaces ==
  ASSUME IInv, NucleusAssumption, Followed, [SyncNext]_vars
  PROVE  /\ Live \subseteq Live'
         /\ InUse' \subseteq InUse \cup Live'
         /\ Live' \ Live \subseteq InUse'
         /\ \A q \in Pcb : p_semAdd'[q] = p_semAdd[q] \/ q \in InUse'
         /\ \A q \in InUse \ InUse' : \E c \in Cpu : Scheduler(c) /\ current_process[c] = q
<1> USE DEF IInv, Queues
<1> DEFINE Stay == /\ Live \subseteq Live'
                   /\ InUse' \subseteq InUse \cup Live'
                   /\ Live' \ Live \subseteq InUse'
                   /\ \A q \in Pcb : p_semAdd'[q] = p_semAdd[q] \/ q \in InUse'
                   /\ \A q \in InUse \ InUse' : \E c \in Cpu : Scheduler(c) /\ current_process[c] = q
           Same == InUse' = InUse
<1>1. /\ Clock \in Sem /\ UserSem \subseteq Sem /\ Dev \subseteq Sem /\ NULL \notin Pcb
      /\ QueueTypes /\ current_process \in [Cpu -> Pcb \cup {NULL}] /\ pcbFree \subseteq Pcb
  BY DEF Sem, NucleusAssumption, Control, Types
<1>2. ASSUME UNCHANGED pcbFree, Same, \A q \in Pcb : p_semAdd'[q] = p_semAdd[q] \/ q \in InUse'
      PROVE  Stay
  BY <1>2 DEF Live
<1>3. ASSUME UNCHANGED << pcbFree, p_semAdd >>, Same PROVE Stay
  BY <1>2, <1>3
<1> HIDE DEF Stay
<1>4. ASSUME NEW c \in Cpu, CreateProcess(c) PROVE Stay
  <2>1. PICK p \in pcbFree : /\ pcbFree' = pcbFree \ {p}
                             /\ p_semAdd' = [p_semAdd EXCEPT ![p] = NULL]
                             /\ ready_queue' = insertProcQ(ready_queue, p)
    BY <1>4 DEF CreateProcess, allocPcb
  <2>2. ToSet(ready_queue') = ToSet(ready_queue) \cup {p}
    <3>1. p \in Pcb /\ ready_queue \in Seq(Pcb)
      BY <1>1 DEF QueueTypes
    <3> QED BY <2>1, <3>1, InsertProcQ
  <2>3. UNCHANGED << blocked, current_process >>
    BY <1>4 DEF CreateProcess
  <2>4. /\ p \in Pcb /\ InUse' = InUse \cup {p}
        /\ Live' = Live \cup {p} /\ \A q \in Pcb \ {p} : p_semAdd'[q] = p_semAdd[q]
    BY <2>1, <2>2, <2>3, <1>1 DEF InUse, Live, QueueTypes
  <2> QED BY <2>4 DEF Stay
<1>5. ASSUME NEW c \in Cpu, DoIOCommand(c) PROVE Stay
  BY <1>3, <1>5, PlacesAlone DEF DoIOCommand, procs
<1>6. ASSUME NEW c \in Cpu, NEW s \in Sem, At(c, "user"), BlockCurrent(c, s),
             Leave(c, "sched") \/ Leave(c, "doio")
      PROVE  Stay
  <2>1. current_process' = [current_process EXCEPT ![c] = NULL] /\ UNCHANGED pcbFree
    BY <1>6 DEF Leave, BlockCurrent
  <2> QED BY <1>2, <1>6, <2>1, BlockPlaces
<1>7. ASSUME NEW c \in Cpu, ClockWait(c) PROVE Stay
  BY <1>6, <1>7, <1>1 DEF ClockWait
<1>8. ASSUME NEW c \in Cpu, NEW d \in Dev, DoIO(c, d) PROVE Stay
  BY <1>6, <1>8, <1>1 DEF DoIO
<1>9. ASSUME NEW s \in Sem, UNCHANGED << procs, current_process >>,
             Unblock(s) \/ UNCHANGED << blocked, ready_queue >>
      PROVE  Stay
  BY <1>3, <1>9, UnblockPlaces, PlacesAlone DEF procs
<1>10. ASSUME NEW c \in Cpu, NEW s \in UserSem, Passeren(c, s) \/ Verhogen(c, s) PROVE Stay
  <2>1. s \in Sem /\ At(c, "user")
    BY <1>10, <1>1 DEF Passeren, Verhogen
  <2>2. CASE BlockCurrent(c, s) /\ Leave(c, "sched")
    BY <2>1, <2>2, <1>6
  <2>3. CASE UNCHANGED << procs, current_process >> /\ (Unblock(s) \/ UNCHANGED << blocked, ready_queue >>)
    BY <2>1, <2>3, <1>9
  <2> QED BY <1>10, <2>2, <2>3 DEF Passeren, Verhogen
<1>11. ASSUME NEW c \in Cpu, NEW d \in Dev, IntHandler(c, d) PROVE Stay
  BY <1>9, <1>11, <1>1 DEF IntHandler
<1>12. ASSUME NEW c \in Cpu, Scheduler(c) PROVE Stay
  <2>1. CASE emptyProcQ(ready_queue)
    BY <1>3, <1>12, <2>1, PlacesAlone DEF Scheduler, procs
  <2>2. CASE ~ emptyProcQ(ready_queue)
    <3> DEFINE p == headProcQ(ready_queue)
    <3>1. /\ ready_queue' = removeProcQ(ready_queue) /\ UNCHANGED << pcbFree, p_semAdd, blocked >>
          /\ current_process' = [current_process EXCEPT ![c] = p]
      BY <1>12, <2>2 DEF Scheduler, procs
    <3>2. p \in Pcb /\ ToSet(ready_queue) = ToSet(ready_queue') \cup {p}
      BY <2>2, <3>1, <1>1, RemoveProcQ DEF QueueTypes
    <3>3. /\ current_process'[c] = p
          /\ \A b \in Cpu \ {c} : current_process'[b] = current_process[b]
      BY <3>1, <1>1
    <3> HIDE DEF p
    <3>4. ASSUME NEW q \in Pcb
          PROVE  (q \in InUse' => q \in InUse) /\ (q \in InUse => q \in InUse' \/ current_process[c] = q)
      BY <3>1, <3>2, <3>3 DEF InUse
    <3>5. InUse \subseteq Pcb /\ InUse' \subseteq Pcb
      BY DEF InUse
    <3>6. InUse' \subseteq InUse /\ \A q \in InUse \ InUse' : current_process[c] = q
      BY <3>4, <3>5
    <3> QED BY <1>12, <3>1, <3>6 DEF Stay, Live
  <2> QED BY <2>1, <2>2
<1>13. ASSUME NEW c \in Cpu, PltHandler(c) PROVE Stay
  <2> DEFINE p == current_process[c]
  <2>1. /\ ready_queue' = insertProcQ(ready_queue, p) /\ UNCHANGED << pcbFree, p_semAdd, blocked >>
        /\ current_process' = [current_process EXCEPT ![c] = NULL] /\ At(c, "user")
    BY <1>13 DEF PltHandler, Leave, procs
  <2>2. p \in Pcb /\ ToSet(ready_queue') = ToSet(ready_queue) \cup {p}
    <3>1. p \in Pcb /\ ready_queue \in Seq(Pcb)
      BY <2>1, <1>1, CallerIsPcb DEF QueueTypes
    <3> HIDE DEF p
    <3> QED BY <2>1, <3>1, InsertProcQ
  <2>3. /\ current_process[c] = p /\ current_process'[c] = NULL
        /\ \A b \in Cpu \ {c} : current_process'[b] = current_process[b]
    BY <2>1, <1>1
  <2> HIDE DEF p
  <2>4. Same
    BY <2>1, <2>2, <2>3, <1>1 DEF InUse
  <2> QED BY <1>3, <2>1, <2>4
<1>14. ASSUME NEW c \in Cpu, TimerHandler(c) PROVE Stay
  <2>1. /\ ready_queue' = ready_queue \o blocked[Clock]
        /\ blocked' = [blocked EXCEPT ![Clock] = << >>]
        /\ UNCHANGED << pcbFree, p_semAdd, current_process >>
    BY <1>14 DEF TimerHandler, unblockClockPCBs, mkEmptyProcQ, procs
  <2>2. /\ ToSet(ready_queue') = ToSet(ready_queue) \cup ToSet(blocked[Clock])
        /\ ToSet(blocked'[Clock]) = {}
        /\ \A s \in Sem \ {Clock} : blocked'[s] = blocked[s]
    <3>1. ready_queue \in Seq(Pcb) /\ blocked[Clock] \in Seq(Pcb)
      BY <1>1 DEF QueueTypes
    <3>2. ToSet(ready_queue') = ToSet(ready_queue) \cup ToSet(blocked[Clock])
      BY <2>1, <3>1, ConcatProcQ
    <3>3. ToSet(<< >>) = {}
      BY DEF ToSet
    <3> QED BY <2>1, <3>2, <3>3, <1>1 DEF QueueTypes
  <2>3. Same
    BY <2>1, <2>2, <1>1 DEF InUse
  <2> QED BY <1>3, <2>1, <2>3
<1>15. ASSUME NEW d \in Dev, Complete(d) PROVE Stay
  BY <1>3, <1>15, PlacesAlone DEF Complete, procs
<1>16. ASSUME UNCHANGED vars PROVE Stay
  BY <1>3, <1>16, PlacesAlone DEF vars, procs
<1>17. Stay
  BY <1>4, <1>5, <1>7, <1>8, <1>10, <1>11, <1>12, <1>13, <1>14, <1>15, <1>16 DEF SyncNext
<1> QED BY <1>17 DEF Stay

LEMMA NextRun ==
  ASSUME IInv, OnlyUsersRun, Followed, [SyncNext]_vars
  PROVE  OnlyUsersRun'
<1>1. /\ current_process \in [Cpu -> Pcb \cup {NULL}]
      /\ pc \in [Cpu -> Places]
  BY DEF IInv, Control, Types
<1>2. ASSUME NEW c \in Cpu, NEW place, At(c, "user"), Leave(c, place) PROVE OnlyUsersRun'
  BY <1>1, <1>2 DEF Leave, OnlyUsersRun
<1>3. ASSUME UNCHANGED << pc, current_process >> PROVE OnlyUsersRun'
  BY <1>3 DEF OnlyUsersRun
<1>4. ASSUME NEW c \in Cpu, Resume(c), UNCHANGED current_process PROVE OnlyUsersRun'
  BY <1>1, <1>4 DEF Resume, OnlyUsersRun
<1>5. ASSUME NEW c \in Cpu, Scheduler(c) PROVE OnlyUsersRun'
  BY <1>1, <1>5 DEF Scheduler, OnlyUsersRun, At
<1>6. ASSUME NEW c \in Cpu, DoIOCommand(c) PROVE OnlyUsersRun'
  BY <1>1, <1>6 DEF DoIOCommand, OnlyUsersRun, At
<1>7. ASSUME NEW c \in Cpu, NEW s, Passeren(c, s) \/ Verhogen(c, s) PROVE OnlyUsersRun'
  BY <1>2, <1>3, <1>7 DEF Passeren, Verhogen
<1>8. ASSUME NEW c \in Cpu, NEW d, IntHandler(c, d) PROVE OnlyUsersRun'
  BY <1>4, <1>8 DEF IntHandler
<1> QED BY <1>2, <1>3, <1>4, <1>5, <1>6, <1>7, <1>8
        DEF SyncNext, CreateProcess, ClockWait, PltHandler, TimerHandler, DoIO, Complete, vars

LEMMA NextPlaces ==
  ASSUME IInv, NucleusAssumption, Housed, OnlyUsersRun, Followed, [SyncNext]_vars
  PROVE  Housed'
<1>1. ASSUME NEW q \in Pcb, NEW c \in Cpu, Scheduler(c) PROVE current_process[c] # q
  BY <1>1 DEF Scheduler, At, OnlyUsersRun, NucleusAssumption
<1>2. Live' \subseteq Pcb
  BY NextControl DEF IInv, Next, Live
<1> QED BY <1>1, <1>2, SyncPlaces DEF Housed

\* A PCB that is in use and in no two places at once is in exactly one spot.
LEMMA OneSpot ==
  ASSUME IInv, Housed, NucleusAssumption
  PROVE  OnePlace
<1> USE DEF IInv, Queues
<1> SUFFICES ASSUME NEW p \in Pcb PROVE \E x : Spots(p) = {x}
  BY FS_Singleton DEF OnePlace
<1>1. p # NULL
  BY DEF NucleusAssumption
<1> DEFINE free == {<< "free" >> : x \in {p} \cap pcbFree}
           ready == {<< "ready", i >> : i \in {j \in DOMAIN ready_queue : ready_queue[j] = p}}
           waits(s) == {<< "blocked", s, i >> : i \in {j \in DOMAIN blocked[s] : blocked[s][j] = p}}
           current == {<< "current", c >> : c \in {b \in Cpu : current_process[b] = p}}
           waiting == UNION {waits(s) : s \in Sem}
<1>2. Spots(p) = free \cup ready \cup waiting \cup current
  BY DEF Spots
<1>3. (p \notin pcbFree => free = {}) /\ (p \in pcbFree => free = {<< "free" >>})
  OBVIOUS
<1>4. p \notin ToSet(ready_queue) => ready = {}
  BY DEF ToSet
<1>5. \A s \in Sem : p \notin ToSet(blocked[s]) => waits(s) = {}
  BY DEF ToSet
<1>6. (\A c \in Cpu : current_process[c] # p) => current = {}
  OBVIOUS
<1> HIDE DEF free, ready, waits, current
<1>7. (\A s \in Sem : p \notin ToSet(blocked[s])) => waiting = {}
  BY <1>5
<1>8. CASE p \in pcbFree
  <2>1. p \notin InUse
    BY <1>8 DEF Housed, Live
  <2> QED BY <1>2, <1>3, <1>4, <1>6, <1>7, <1>8, <2>1 DEF InUse
<1>9. CASE p \in ToSet(ready_queue)
  <2>1. /\ p \notin pcbFree /\ (\A s \in Sem : p \notin ToSet(blocked[s]))
        /\ \A c \in Cpu : current_process[c] # p
    BY <1>9 DEF Housed, InUse, Live, NeverTwice
  <2>2. PICK i \in DOMAIN ready_queue : ready_queue[i] = p
    BY <1>9 DEF ToSet
  <2>3. {j \in DOMAIN ready_queue : ready_queue[j] = p} = {i}
    BY <2>2 DEF NeverTwice, Distinct
  <2>4. ready = {<< "ready", i >>}
    BY <2>3 DEF ready
  <2> QED BY <1>2, <1>3, <1>6, <1>7, <2>1, <2>4
<1>10. ASSUME NEW s \in Sem, p \in ToSet(blocked[s]) PROVE \E x : Spots(p) = {x}
  <2>1. /\ p \notin pcbFree /\ p \notin ToSet(ready_queue)
        /\ \A c \in Cpu : current_process[c] # p
    BY <1>10 DEF Housed, InUse, Live, NeverTwice
  <2>2. \A t \in Sem \ {s} : p \notin ToSet(blocked[t])
    BY <1>10 DEF BlockedAreLive
  <2>3. PICK i \in DOMAIN blocked[s] : blocked[s][i] = p
    BY <1>10 DEF ToSet
  <2>4. {j \in DOMAIN blocked[s] : blocked[s][j] = p} = {i}
    BY <2>3 DEF NeverTwice, Distinct
  <2>5. waits(s) = {<< "blocked", s, i >>}
    BY <2>4 DEF waits
  <2>6. waiting = waits(s)
    BY <2>2, <1>5
  <2> QED BY <1>2, <1>3, <1>4, <1>6, <2>1, <2>5, <2>6
<1>11. ASSUME NEW c \in Cpu, current_process[c] = p PROVE \E x : Spots(p) = {x}
  <2>1. /\ p \notin pcbFree /\ p \notin ToSet(ready_queue)
        /\ \A s \in Sem : p \notin ToSet(blocked[s])
    BY <1>11 DEF Housed, InUse, Live, NeverTwice
  <2>2. {b \in Cpu : current_process[b] = p} = {c}
    BY <1>11, <1>1 DEF NeverTwice
  <2>3. current = {<< "current", c >>}
    BY <2>2 DEF current
  <2> QED BY <1>2, <1>3, <1>4, <1>7, <2>1, <2>3
<1> QED BY <1>8, <1>9, <1>10, <1>11 DEF Housed, InUse, Live

-----------------------------------------------------------------------------
(* The theorems *)

LEMMA InitSync == Init => SyncInv
<1> SUFFICES ASSUME Init PROVE SyncInv
  OBVIOUS
<1>1. PICK root \in Pcb : pcbFree = Pcb \ {root} /\ ready_queue = << root >>
  BY DEF Init
<1>2. /\ \A s \in Sem : blocked[s] = << >>
      /\ \A c \in Cpu : current_process[c] = NULL /\ ioCmd[c] = NULL
      /\ NULL \notin Pcb \cup Dev /\ UserSem \subseteq Sem /\ Dev \subseteq Sem
  BY NucleusAssumption DEF Init, mkEmptyProcQ, NucleusAssumption, Sem
<1>3. Len(<< >>) = 0 /\ emptyProcQ(<< >>) /\ ToSet(<< >>) = {} /\ ToSet(<< root >>) = {root}
  BY DEF emptyProcQ, ToSet
<1>4. IInv
  BY InitIInv
<1>5. ValueCountsWaiters
  <2>1. \A s \in UserSem : sem[s] \in {0, 1} /\ Len(blocked[s]) = 0
    BY <1>2, <1>3 DEF Init
  <2> QED BY <2>1 DEF ValueCountsWaiters
<1>6. DeviceInvariant
  <2>1. \A d \in Dev : sem[d] = 0 /\ Len(blocked[d]) = 0 /\ emptyProcQ(blocked[d])
    BY <1>2, <1>3 DEF Init
  <2>2. \A d \in Dev : dev[d] = "idle" /\ \A c \in Cpu : ioCmd[c] # d
    BY <1>2 DEF Init
  <2>3. WaiterHasOperation
    BY <2>1, <2>2 DEF WaiterHasOperation
  <2> QED BY <1>2, <2>1, <2>2, <2>3 DEF DeviceInvariant
<1>7. Housed
  BY <1>1, <1>2, <1>3 DEF Housed, InUse, Live
<1>8. Commands
  BY <1>2 DEF Init, Commands
<1> QED BY <1>2, <1>4, <1>5, <1>6, <1>7, <1>8 DEF SyncInv, OnlyUsersRun

\* Without terminations no freed PCB is in use.
LEMMA HousedFollowed ==
  ASSUME IInv, Housed
  PROVE  Followed
BY DEF IInv, Control, Types, Housed, InUse, Live, Followed, Corrupt

LEMMA SyncInvariance == SyncSpec => []SyncInv
<1>1. SyncInv /\ [SyncNext]_vars => SyncInv'
  <2> SUFFICES ASSUME SyncInv, [SyncNext]_vars PROVE SyncInv'
    OBVIOUS
  <2>0. Followed
    BY HousedFollowed DEF SyncInv
  <2>1. IInv'
    BY <2>0, NextIInv DEF SyncInv, Next
  <2> QED BY <2>0, <2>1, NucleusAssumption, NextCommands, NextValues, NextDevices, NextRun, NextPlaces
         DEF SyncInv, Next
<1> QED BY InitSync, <1>1, PTL DEF SyncSpec

\* For any number of CPUs, PCBs and semaphores, P and V keep as many processes in
\* the queue of a semaphore as its value says (exceptions.c:115-182).
THEOREM ValuesCount == SyncSpec => []ValueCountsWaiters
<1>1. SyncInv => ValueCountsWaiters
  BY DEF SyncInv
<1> QED BY <1>1, SyncInvariance, PTL

\* Every interrupt of a device has a process to wake, and every process that waits
\* for a device has an interrupt to come, although another CPU may take the
\* interrupt before the command is written (exceptions.c:193-214, interrupts.c:96-118).
THEOREM WaitersHaveOperations == SyncSpec => []WaiterHasOperation
<1>1. SyncInv => WaiterHasOperation
  BY DEF SyncInv, DeviceInvariant
<1> QED BY <1>1, SyncInvariance, PTL

\* No process is lost: without terminations every PCB is in exactly one place, on
\* any number of CPUs (exceptions.c:74-282, interrupts.c:48-147, scheduler.c:6-35).
THEOREM NoneLost == SyncSpec => []OnePlace
<1>1. SyncInv => OnePlace
  BY NucleusAssumption, OneSpot DEF SyncInv
<1> QED BY <1>1, SyncInvariance, PTL

-----------------------------------------------------------------------------
(* Every call is atomic *)

\* What terminateSubtree leaves in use
LEMMA TerminatePlaces ==
  ASSUME IInv, NucleusAssumption, NEW c \in Cpu, NEW p \in Pcb, TerminateSubtree(c, p)
  PROVE  /\ ToSet(ready_queue') = ToSet(ready_queue) \ {q \in Freed(p) : p_semAdd[q] = NULL}
         /\ \A s \in Sem : ToSet(blocked'[s]) = ToSet(blocked[s]) \ {q \in Freed(p) : p_semAdd[q] = s}
         /\ current_process' = [current_process EXCEPT ![c] = IF @ \in Freed(p) THEN NULL ELSE @]
         /\ \A q \in InUse \ Freed(p) : q \in InUse'
<1> USE DEF IInv, Queues
<1>1. ToSet(ready_queue') = ToSet(ready_queue) \ {q \in Freed(p) : p_semAdd[q] = NULL}
  BY OutAllProcQ DEF TerminateSubtree, ReadyAfter, QueueTypes
<1>2. ASSUME NEW s \in Sem
      PROVE  ToSet(blocked'[s]) = ToSet(blocked[s]) \ {q \in Freed(p) : p_semAdd[q] = s}
  <2>1. blocked'[s] = outAllProcQ(blocked[s], {q \in Freed(p) : p_semAdd[q] = s})
    BY DEF TerminateSubtree, BlockedAfter
  <2>2. blocked[s] \in Seq(Pcb)
    BY DEF QueueTypes
  <2> QED BY <2>1, <2>2, OutAllProcQ
<1>3. current_process' = [current_process EXCEPT ![c] = IF @ \in Freed(p) THEN NULL ELSE @]
  BY DEF TerminateSubtree
<1>4. ASSUME NEW q \in InUse \ Freed(p) PROVE q \in InUse'
  <2>1. q \in Pcb /\ q \notin Freed(p)
    BY DEF InUse
  <2>2. CASE q \in ToSet(ready_queue)
    BY <1>1, <2>1, <2>2 DEF InUse
  <2>3. ASSUME NEW s \in Sem, q \in ToSet(blocked[s]) PROVE q \in InUse'
    BY <1>2, <2>1, <2>3 DEF InUse
  <2>4. ASSUME NEW b \in Cpu, current_process[b] = q PROVE q \in InUse'
    <3>1. current_process'[b] = q
      BY <1>3, <2>1, <2>4 DEF Control, Types
    <3> QED BY <2>1, <3>1 DEF InUse
  <2> QED BY <2>2, <2>3, <2>4 DEF InUse
<1> QED BY <1>1, <1>2, <1>3, <1>4

\* A caller that terminates a subtree and is not freed never waited.
LEMMA CallerKept ==
  ASSUME NEW p \in Pcb, p \notin Freed(p)
  PROVE  p_semAdd[p] = NULL
BY SubtreeClosed DEF Freed

LEMMA NextLeft ==
  ASSUME IInv, NucleusAssumption, LeftNeverWaited, Followed, [Next]_vars
  PROVE  LeftNeverWaited'
<1>1. /\ current_process \in [Cpu -> Pcb \cup {NULL}] /\ pc \in [Cpu -> Places]
      /\ p_semAdd \in [Pcb -> Sem \cup {NULL}] /\ NULL \notin Pcb
  BY DEF IInv, Control, Types, Queues, QueueTypes, NucleusAssumption
<1>2. ASSUME NEW c \in Cpu, NEW place, At(c, "user"), Leave(c, place),
             \A q \in Pcb \ {current_process[c]} : p_semAdd'[q] = p_semAdd[q]
      PROVE  LeftNeverWaited'
  <2>1. /\ current_process'[c] = NULL
        /\ \A b \in Cpu \ {c} : pc'[b] = pc[b] /\ current_process'[b] = current_process[b]
    BY <1>1, <1>2 DEF Leave
  <2>2. \A b \in Cpu \ {c} : current_process[b] # NULL => current_process[b] # current_process[c]
    BY DEF IInv, Queues, NeverTwice
  <2> QED BY <1>1, <1>2, <2>1, <2>2 DEF LeftNeverWaited
<1>3. ASSUME NEW c \in Cpu, NEW s, NEW place, At(c, "user"), BlockCurrent(c, s), Leave(c, place)
      PROVE  LeftNeverWaited'
  BY <1>1, <1>2, <1>3 DEF BlockCurrent
<1>4. ASSUME UNCHANGED << pc, current_process >>,
             \A q \in Pcb : p_semAdd'[q] \in {p_semAdd[q], NULL}
      PROVE  LeftNeverWaited'
  BY <1>1, <1>4 DEF LeftNeverWaited
<1>5. ASSUME NEW c \in Cpu, CreateProcess(c) PROVE LeftNeverWaited'
  BY <1>1, <1>4, <1>5 DEF CreateProcess, allocPcb
<1>6. ASSUME NEW c \in Cpu, DoIOCommand(c) PROVE LeftNeverWaited'
  BY <1>1, <1>6 DEF DoIOCommand, At, LeftNeverWaited, procs
<1>7. ASSUME NEW c \in Cpu, Scheduler(c) PROVE LeftNeverWaited'
  BY <1>1, <1>7 DEF Scheduler, At, LeftNeverWaited, procs
<1>8. ASSUME NEW c \in Cpu, PltHandler(c) PROVE LeftNeverWaited'
  BY <1>2, <1>8 DEF PltHandler, procs
<1>9. ASSUME NEW c \in Cpu, Resume(c), Interruptible(c), UNCHANGED << procs, current_process >>
      PROVE  LeftNeverWaited'
  BY <1>1, <1>9 DEF Resume, Interruptible, At, LeftNeverWaited, procs
<1>10. ASSUME NEW c \in Cpu, NEW s, Passeren(c, s) \/ Verhogen(c, s) PROVE LeftNeverWaited'
  BY <1>3, <1>4, <1>10 DEF Passeren, Verhogen, procs
<1>11. ASSUME NEW c \in Cpu, NEW p \in Pcb, TerminateSubtree(c, p), At(c, "user"),
              \A b \in Cpu \ {c} : pc'[b] = pc[b],
              pc'[c] # "user" => current_process'[c] = NULL \/ p = current_process[c]
       PROVE  LeftNeverWaited'
  <2>1. /\ \A b \in Cpu \ {c} : current_process'[b] = current_process[b]
        /\ current_process'[c] = IF current_process[c] \in Freed(p) THEN NULL
                                 ELSE current_process[c]
        /\ UNCHANGED p_semAdd
    BY <1>1, <1>11 DEF TerminateSubtree
  <2>2. ASSUME NEW b \in Cpu, pc'[b] # "user", current_process'[b] # NULL
        PROVE  p_semAdd'[current_process'[b]] = NULL
    <3>1. CASE b # c
      BY <1>11, <2>1, <2>2, <3>1 DEF LeftNeverWaited
    <3>2. CASE b = c
      <4>1. p = current_process[c] /\ p \notin Freed(p) /\ current_process'[b] = p
        BY <1>11, <2>1, <2>2, <3>2
      <4> QED BY <2>1, <4>1, CallerKept
    <3> QED BY <3>1, <3>2
  <2> QED BY <2>2 DEF LeftNeverWaited
<1>12. ASSUME NEW c \in Cpu, TermSelf(c) \/ Trap(c) PROVE LeftNeverWaited'
  <2>1. current_process[c] \in Pcb
    BY <1>12, CallerIsPcb DEF TermSelf, Trap, IInv
  <2> QED BY <1>1, <1>11, <1>12, <2>1 DEF TermSelf, Trap, Continue
<1>13. ASSUME NEW c \in Cpu, NEW p \in Pcb, TermProcess(c, p) PROVE LeftNeverWaited'
  BY <1>1, <1>11, <1>13 DEF TermProcess, Continue
<1>14. ASSUME NEW d \in Dev, Complete(d) PROVE LeftNeverWaited'
  BY <1>4, <1>14 DEF Complete, procs
<1>15. CASE UNCHANGED vars
  BY <1>4, <1>15 DEF vars, procs
<1> QED BY <1>3, <1>5, <1>6, <1>7, <1>8, <1>9, <1>10, <1>12, <1>13, <1>14, <1>15
        DEF Next, SyncNext, TermNext, ClockWait, DoIO, TimerHandler, IntHandler

LEMMA NextWaited ==
  ASSUME IInv, NucleusAssumption, LeftNeverWaited, WaitedPlaced, Followed, [Next]_vars
  PROVE  WaitedPlaced'
<1>1. CASE [SyncNext]_vars
  <2>1. ASSUME NEW p \in Live', p_semAdd'[p] # NULL PROVE p \in InUse'
    <3>1. p \in Pcb
      BY <2>1, NextControl DEF IInv, Live
    <3>2. CASE p \in Live /\ p_semAdd'[p] = p_semAdd[p]
      <4>1. p \in InUse
        BY <2>1, <3>2 DEF WaitedPlaced
      <4>2. \A c \in Cpu : ~ (Scheduler(c) /\ current_process[c] = p)
        BY <2>1, <3>1, <3>2 DEF LeftNeverWaited, Scheduler, At, NucleusAssumption
      <4> QED BY <1>1, <4>1, <4>2, SyncPlaces
    <3> QED BY <1>1, <3>1, <3>2, SyncPlaces
  <2> QED BY <2>1 DEF WaitedPlaced
<1>2. ASSUME NEW c \in Cpu, NEW p \in Pcb, TerminateSubtree(c, p) PROVE WaitedPlaced'
  <2>1. Live' = Live \ Freed(p) /\ UNCHANGED p_semAdd
    BY <1>2 DEF TerminateSubtree, Live
  <2> QED BY <1>2, <2>1, TerminatePlaces DEF WaitedPlaced
<1>3. ASSUME NEW c \in Cpu, TermSelf(c) \/ Trap(c) PROVE WaitedPlaced'
  <2>1. current_process[c] \in Pcb
    BY <1>3, CallerIsPcb DEF TermSelf, Trap, IInv
  <2> QED BY <1>2, <1>3, <2>1 DEF TermSelf, Trap
<1> QED BY <1>1, <1>2, <1>3 DEF Next, TermNext, TermProcess

LEMMA CallsInvariance == FollowedSpec => []CallsInv
<1>1. Init => CallsInv
  <2> SUFFICES ASSUME Init PROVE CallsInv
    OBVIOUS
  <2>1. SyncInv
    BY InitSync
  <2> QED BY <2>1 DEF SyncInv, CallsInv, Housed, OnlyUsersRun, WaitedPlaced, LeftNeverWaited
<1>2. CallsInv /\ [Followed /\ Next]_vars => CallsInv'
  <2> SUFFICES ASSUME CallsInv, [Followed /\ Next]_vars PROVE CallsInv'
    OBVIOUS
  <2>1. IInv'
    BY NextIInv DEF CallsInv
  <2>2. CASE Followed /\ Next
    BY <2>1, <2>2, NucleusAssumption, NextCommands, NextLeft, NextWaited DEF CallsInv
  <2>3. CASE UNCHANGED vars
    BY <2>1, <2>3 DEF CallsInv, Commands, WaitedPlaced, LeftNeverWaited, InUse, Live, vars, procs
  <2> QED BY <2>2, <2>3
<1> QED BY <1>1, <1>2, PTL DEF FollowedSpec

\* The lists are corrupt exactly when there are strays.
LEMMA StrayIs ==
  ASSUME Types
  PROVE  Stray = pcbFree \cap InUse /\ (Stray = {} <=> ~ Corrupt)
<1>1. Stray = pcbFree \cap InUse
  BY DEF Stray, InUse, Types
<1> QED BY <1>1 DEF Corrupt, InUse, Types

\* Nobody strays but by a termination.
LEMMA SyncStray ==
  ASSUME IInv, NucleusAssumption, Followed, SyncNext
  PROVE  Stray = {} /\ Stray' = {}
<1>1. ~ Corrupt
  BY DEF Followed
<1>2. Types /\ Types'
  BY NextControl DEF IInv, Control, Next
<1>3. Stray' = pcbFree' \cap InUse'
  BY <1>2 DEF Stray, InUse, Types
<1>4. Stray = {} /\ InUse \subseteq Live
  BY <1>1, <1>2, StrayIs DEF InUse, Live
<1>5. InUse' \subseteq Live'
  BY <1>4, SyncPlaces
<1> QED BY <1>1, <1>3, <1>4, <1>5 DEF Live

\* The process that calls the Nucleus is runnable, and waits for nothing.
LEMMA CallerRuns ==
  ASSUME IInv, Followed, NEW c \in Cpu, At(c, "user")
  PROVE  /\ current_process[c] \in Calls!Runnable /\ current_process[c] \in Pcb
         /\ Stray = {} /\ Calls!Runnable = Live \ Calls!Waiting
<1>1. /\ current_process[c] \in Live /\ current_process[c] \in Pcb
      /\ \A s \in Sem : current_process[c] \notin ToSet(blocked[s])
  BY CallerIsPcb DEF IInv, Queues, NeverTwice
<1>2. Stray = {}
  BY StrayIs DEF IInv, Control, Followed
<1> QED BY <1>1, <1>2 DEF Calls!Runnable, Calls!Waiting, Calls!Live, Live, Calls!Sem, Sem, Calls!ToSet, ToSet

\* A step that does not show
LEMMA NotShown ==
  ASSUME UNCHANGED << procs, blocked, sem, ioCmd, dev, Stray >>
  PROVE  UNCHANGED Calls!kernel
BY DEF procs, Calls!kernel, Calls!procs

\* Blocking and waking are those of Kernel.
LEMMA BlockShows ==
  ASSUME NEW c \in Cpu, NEW s \in Sem, BlockCurrent(c, s)
  PROVE  Calls!Block(current_process[c], s)
BY DEF BlockCurrent, Calls!Block, insertProcQ, Calls!insertProcQ

LEMMA UnblockShows ==
  ASSUME QueueTypes, NEW s \in Sem, Unblock(s), UNCHANGED procs
  PROVE  Calls!Wake(s)
BY DEF QueueTypes, Unblock, Calls!Wake, procs, Calls!procs, emptyProcQ, Calls!emptyProcQ, removeProcQ, Calls!removeProcQ

LEMMA InitShows == Init => Calls!Init
<1> SUFFICES ASSUME Init PROVE Calls!Init
  OBVIOUS
<1>1. PICK root \in Pcb : pcbFree = Pcb \ {root} /\ pid0 = root /\ ready_queue = << root >>
  BY DEF Init
<1>2. {ioCmd[c] : c \in Cpu} \ {NULL} = {}
  BY DEF Init
<1>3. SyncInv
  BY InitSync
<1>4. Stray = {}
  <2>1. InUse = Live /\ Types
    BY <1>3 DEF SyncInv, Housed, IInv, Control
  <2> QED BY <2>1, StrayIs DEF Live
<1> QED BY <1>1, <1>2, <1>4 DEF Init, Calls!Init, Sem, Calls!Sem, mkEmptyProcQ, Calls!mkEmptyProcQ

\* Steps that terminate nobody
LEMMA SyncShows ==
  ASSUME CallsInv, NucleusAssumption, Followed, SyncNext
  PROVE  Calls!Next \/ UNCHANGED Calls!kernel
<1> USE DEF CallsInv
<1> DEFINE cmd == {ioCmd[c] : c \in Cpu} \ {NULL}
<1>1. Stray = {} /\ Stray' = {} /\ UNCHANGED Stray
  BY SyncStray
<1>2. /\ QueueTypes /\ sem \in [Sem -> Int] /\ ioCmd \in [Cpu -> Dev \cup {NULL}]
      /\ Clock \in Sem /\ UserSem \subseteq Sem /\ Dev \subseteq Sem /\ NULL \notin Dev
      /\ Sem = Calls!Sem /\ pcbFree \subseteq Pcb
  BY DEF IInv, Queues, DataTypes, Sem, NucleusAssumption, Control, Types, Calls!Sem
<1>0. ASSUME UNCHANGED ioCmd PROVE UNCHANGED cmd
  BY <1>0
<1>3. ASSUME NEW c \in Cpu, CreateProcess(c) PROVE Calls!Next
  <2>1. PICK p \in pcbFree : /\ allocPcb(p)
                             /\ p_parent' = [p_parent EXCEPT ![p] = current_process[c]]
    BY <1>3 DEF CreateProcess
  <2>2. /\ current_process[c] \in Calls!Runnable /\ UNCHANGED << blocked, sem, cmd, dev, Stray >>
    <3>1. At(c, "user") /\ UNCHANGED << blocked, sem, ioCmd, dev >>
      BY <1>3 DEF CreateProcess
    <3>2. current_process[c] \in Calls!Runnable
      BY <3>1, CallerRuns
    <3>3. UNCHANGED cmd
      BY <3>1, <1>0
    <3> HIDE DEF cmd, CallsInv
    <3> QED BY <1>1, <3>1, <3>2, <3>3
  <2>3. Calls!CreateProcess(current_process[c], p)
    BY <2>1, <2>2 DEF allocPcb, Calls!CreateProcess
  <2> QED BY <1>2, <1>3, <2>3, CallerRuns DEF CreateProcess, Calls!Next
<1>4. ASSUME NEW c \in Cpu, ClockWait(c) PROVE Calls!Next
  <2>1. Calls!ClockWait(current_process[c])
    <3>1. At(c, "user") /\ BlockCurrent(c, Clock) /\ UNCHANGED << sem, ioCmd, dev >>
      BY <1>4 DEF ClockWait, BlockCurrent
    <3>2. Calls!Block(current_process[c], Clock)
      BY <1>2, <3>1, BlockShows
    <3>3. current_process[c] \in Calls!Runnable
      BY <3>1, CallerRuns
    <3>4. UNCHANGED cmd
      BY <3>1, <1>0
    <3> QED BY <1>1, <3>1, <3>2, <3>3, <3>4 DEF Calls!ClockWait
  <2> QED BY <1>4, <2>1, CallerRuns DEF ClockWait, Calls!Next
<1>5. ASSUME NEW c \in Cpu, NEW s \in UserSem, Passeren(c, s) PROVE Calls!Next
  <2>1. /\ At(c, "user") /\ s \in Sem /\ sem[s] \in Int /\ UNCHANGED << ioCmd, dev, Stray >>
        /\ sem' = [sem EXCEPT ![s] = @ - 1]
    BY <1>1, <1>2, <1>5 DEF Passeren, BlockCurrent
  <2>2. \/ sem[s] <= 0 /\ BlockCurrent(c, s)
        \/ sem[s] = 1 /\ UNCHANGED << procs, blocked >>
        \/ sem[s] >= 2 /\ Unblock(s) /\ UNCHANGED procs
    BY <1>5, <2>1 DEF Passeren
  <2>3. \/ sem[s] <= 0 /\ Calls!Block(current_process[c], s)
        \/ sem[s] = 1 /\ UNCHANGED << Calls!procs, blocked >>
        \/ sem[s] >= 2 /\ Calls!Wake(s)
    BY <1>2, <2>1, <2>2, BlockShows, UnblockShows DEF procs, Calls!procs
  <2>4. current_process[c] \in Calls!Runnable /\ current_process[c] \in Pcb /\ UNCHANGED cmd
    BY <1>0, <2>1, CallerRuns
  <2>5. Calls!Passeren(current_process[c], s)
    BY <2>1, <2>3, <2>4 DEF Calls!Passeren
  <2> QED BY <2>4, <2>5 DEF Calls!Next
<1>6. ASSUME NEW c \in Cpu, NEW s \in UserSem, Verhogen(c, s) PROVE Calls!Next
  <2>1. /\ At(c, "user") /\ s \in Sem /\ sem[s] \in Int /\ UNCHANGED << ioCmd, dev, Stray >>
        /\ sem' = [sem EXCEPT ![s] = @ + 1]
    BY <1>1, <1>2, <1>6 DEF Verhogen, BlockCurrent
  <2>2. \/ sem[s] >= 1 /\ BlockCurrent(c, s)
        \/ sem[s] = 0 /\ UNCHANGED << procs, blocked >>
        \/ sem[s] < 0 /\ Unblock(s) /\ UNCHANGED procs
    BY <1>6, <2>1 DEF Verhogen
  <2>3. \/ sem[s] >= 1 /\ Calls!Block(current_process[c], s)
        \/ sem[s] = 0 /\ UNCHANGED << Calls!procs, blocked >>
        \/ sem[s] < 0 /\ Calls!Wake(s)
    BY <1>2, <2>1, <2>2, BlockShows, UnblockShows DEF procs, Calls!procs
  <2>4. current_process[c] \in Calls!Runnable /\ current_process[c] \in Pcb /\ UNCHANGED cmd
    BY <1>0, <2>1, CallerRuns
  <2>5. Calls!Verhogen(current_process[c], s)
    BY <2>1, <2>3, <2>4 DEF Calls!Verhogen
  <2> QED BY <2>4, <2>5 DEF Calls!Next
<1>7. ASSUME NEW c \in Cpu, NEW d \in Dev, DeviceFree(d), DoIO(c, d) PROVE Calls!Next
  <2>1. /\ At(c, "user") /\ BlockCurrent(c, d) /\ UNCHANGED << dev, Stray >>
        /\ emptyProcQ(blocked[d]) /\ d \notin cmd
        /\ ioCmd' = [ioCmd EXCEPT ![c] = d]
        /\ sem' = [sem EXCEPT ![d] = @ - 1]
    BY <1>1, <1>2, <1>7 DEF DeviceFree, DoIO, BlockCurrent
  <2>2. ioCmd[c] = NULL
    BY <2>1 DEF Commands, At
  <2>3. cmd' = cmd \cup {d}
    BY <1>2, <2>1, <2>2
  <2>4. Calls!DoIO(current_process[c], d)
    BY <1>2, <2>1, <2>3, BlockShows, CallerRuns DEF Calls!DoIO, emptyProcQ, Calls!emptyProcQ
  <2> QED BY <2>1, <2>4, CallerRuns DEF Calls!Next
<1>8. ASSUME NEW c \in Cpu, DoIOCommand(c) PROVE Calls!Next
  <2>0. PICK d \in Dev : d = ioCmd[c]
    BY <1>2, <1>8 DEF DoIOCommand, Commands, At
  <2>1. /\ d \in Dev /\ d \in cmd
        /\ UNCHANGED << procs, blocked, sem, Stray >>
        /\ dev' = [dev EXCEPT ![d] = "busy"]
        /\ ioCmd' = [ioCmd EXCEPT ![c] = NULL]
    BY <1>1, <1>2, <1>8, <2>0 DEF DoIOCommand
  <2>2. \A b \in Cpu \ {c} : ioCmd[b] # d /\ ioCmd'[b] = ioCmd[b]
    BY <1>2, <2>0, <2>1 DEF Commands
  <2>3. cmd' = cmd \ {d}
    BY <1>2, <2>0, <2>1, <2>2
  <2>4. Calls!Command(d)
    BY <1>1, <2>1, <2>3 DEF Calls!Command, procs, Calls!procs
  <2> QED BY <2>1, <2>4 DEF Calls!Next, Calls!Device
<1>9. ASSUME NEW c \in Cpu, Scheduler(c) \/ PltHandler(c) PROVE UNCHANGED Calls!kernel
  BY <1>1, <1>9, NotShown DEF Scheduler, PltHandler
<1>10. ASSUME NEW c \in Cpu, TimerHandler(c) PROVE Calls!Next
  BY <1>1, <1>10 DEF TimerHandler, unblockClockPCBs, Calls!Next, Calls!Tick, procs, Calls!procs,
                     mkEmptyProcQ, Calls!mkEmptyProcQ
<1>11. ASSUME NEW c \in Cpu, NEW d \in Dev, IntHandler(c, d) PROVE Calls!Next
  <2>1. Calls!Wake(d)
    BY <1>2, <1>11, UnblockShows DEF IntHandler
  <2>2. /\ dev[d] = "done" /\ dev' = [dev EXCEPT ![d] = "idle"]
        /\ sem' = [sem EXCEPT ![d] = @ + 1] /\ UNCHANGED cmd
    BY <1>0, <1>11 DEF IntHandler, Acknowledge
  <2>3. Calls!Interrupt(d)
    BY <1>1, <2>1, <2>2 DEF Calls!Interrupt
  <2> QED BY <2>3 DEF Calls!Next, Calls!Device
<1>12. ASSUME NEW d \in Dev, Complete(d) PROVE Calls!Next
  BY <1>1, <1>12 DEF Complete, Calls!Complete, Calls!Next, Calls!Device, procs, Calls!procs
<1> QED BY <1>3, <1>4, <1>5, <1>6, <1>7, <1>8, <1>9, <1>10, <1>11, <1>12 DEF SyncNext

\* Terminations: the processes that Kernel takes for running are those of its
\* runnable ones that are not in the ready queue.
LEMMA TermShows ==
  ASSUME CallsInv, CallsInv', NucleusAssumption, Followed, NEW c \in Cpu, NEW q \in Pcb, At(c, "user"),
         TerminateSubtree(c, q),
         \/ q = current_process[c]
         \/ q # pid0 /\ q \in ToSet(ready_queue) \cup UNION {ToSet(blocked[s]) : s \in Sem}
  PROVE  Calls!Next
<1> USE DEF CallsInv, IInv, Queues
<1> DEFINE R == Calls!Runnable \ ToSet(ready_queue)
           gives(s) == {r \in Freed(q) : p_semAdd[r] = s}
<1>1. PICK p \in Pcb : p = current_process[c]
  BY CallerRuns
<1>2. /\ p \in Calls!Runnable /\ Stray = {} /\ Calls!Runnable = Live \ Calls!Waiting
      /\ Calls!Waiting = UNION {ToSet(blocked[s]) : s \in Sem} /\ Sem = Calls!Sem
  BY <1>1, CallerRuns DEF Calls!Waiting, Calls!Sem, Sem, Calls!ToSet, ToSet
<1>3. /\ ToSet(ready_queue) \subseteq Live /\ ToSet(ready_queue) \cap Calls!Waiting = {}
      /\ InUse \subseteq Live /\ Types
  <2>1. Types /\ ToSet(ready_queue) \subseteq Pcb
    BY MembersArePcbs DEF Control
  <2>2. InUse \subseteq Live
    BY <1>2, <2>1, StrayIs DEF InUse, Live
  <2> QED BY <1>2, <2>1, <2>2 DEF InUse, NeverTwice
<1>4. Calls!Runnable \ R = ToSet(ready_queue) /\ R \subseteq Calls!Runnable /\ p \in R
  BY <1>1, <1>2, <1>3 DEF NeverTwice
<1>5. Calls!Family(q) = Subtree(q)
  BY DEF Calls!Family, Subtree
<1>6. Freed(q) = {r \in Calls!Family(q) : p_semAdd[r] # NULL \/ r \in Calls!Runnable \ R}
  BY <1>4, <1>5 DEF Freed
<1>7. \A s : gives(s) = {r \in Freed(q) : p_semAdd[r] = s}
  OBVIOUS
<1>8. Stray' = {r \in (Freed(q) \cap Calls!Runnable) \ {p} : p_semAdd[r] # NULL}
  <2>1. Stray' = pcbFree' \cap InUse'
    BY DEF Stray, InUse, Control, Types
  <2>2. pcbFree' = pcbFree \cup Freed(q) /\ Freed(q) \subseteq Pcb /\ Live \subseteq Pcb
    BY SubtreeClosed DEF TerminateSubtree, Freed, Live
  <2>3. /\ ToSet(ready_queue') = ToSet(ready_queue) \ {r \in Freed(q) : p_semAdd[r] = NULL}
        /\ \A s \in Sem : ToSet(blocked'[s]) = ToSet(blocked[s]) \ gives(s)
        /\ current_process'[c] = IF p \in Freed(q) THEN NULL ELSE p
        /\ \A b \in Cpu \ {c} : current_process'[b] = current_process[b]
    <3>1. current_process' = [current_process EXCEPT ![c] = IF @ \in Freed(q) THEN NULL ELSE @]
      BY TerminatePlaces
    <3>2. current_process'[c] = IF p \in Freed(q) THEN NULL ELSE p
      BY <1>1, <1>3, <3>1 DEF Types
    <3>3. \A b \in Cpu \ {c} : current_process'[b] = current_process[b]
      BY <1>3, <3>1 DEF Types
    <3> QED BY <3>2, <3>3, TerminatePlaces
  <2>4. /\ \A s \in Sem : \A r \in ToSet(blocked[s]) : p_semAdd[r] = s
        /\ \A s \in Sem : ToSet(blocked'[s]) \cap Freed(q) = {}
    BY <2>3 DEF BlockedAreLive
  <2>5. InUse' \subseteq InUse
    BY <1>1, <2>3, <2>2 DEF InUse, NucleusAssumption
  <2>6. ASSUME NEW r \in Stray' PROVE r \in (Freed(q) \cap Calls!Runnable) \ {p} /\ p_semAdd[r] # NULL
    <3>1. r \in Freed(q) /\ r \in InUse' /\ r \in Live /\ r \in Pcb
      BY <2>1, <2>2, <2>5, <2>6, <1>3 DEF Live
    <3>2. r # p
      <4> SUFFICES ASSUME r = p PROVE FALSE
        OBVIOUS
      <4>1. /\ p \notin ToSet(ready_queue) /\ (\A s \in Sem : p \notin ToSet(blocked[s]))
            /\ \A b \in Cpu \ {c} : current_process[b] # p
        BY <1>1, <3>1 DEF NeverTwice, NucleusAssumption
      <4>2. p \notin InUse'
        BY <2>3, <3>1, <4>1 DEF InUse, NucleusAssumption
      <4> QED BY <3>1, <4>2
    <3>3. r \notin Calls!Waiting /\ p_semAdd[r] # NULL
      <4>1. CASE r \in ToSet(ready_queue')
        BY <2>3, <1>3, <3>1, <4>1
      <4>2. CASE \E s \in Sem : r \in ToSet(blocked'[s])
        BY <2>4, <3>1, <4>2
      <4>3. CASE \E b \in Cpu : current_process'[b] = r
        <5>1. PICK b \in Cpu \ {c} : current_process[b] = r
          BY <2>3, <3>1, <3>2, <4>3 DEF NucleusAssumption
        <5>2. r \notin ToSet(ready_queue) /\ \A s \in Sem : r \notin ToSet(blocked[s])
          BY <5>1 DEF NeverTwice
        <5> QED BY <5>2, <3>1, <1>2 DEF Freed
      <4> QED BY <3>1, <4>1, <4>2, <4>3 DEF InUse
    <3> QED BY <1>2, <3>1, <3>2, <3>3
  <2>7. ASSUME NEW r \in Freed(q), r \in Calls!Runnable, r # p, p_semAdd[r] # NULL
        PROVE  r \in Stray'
    <3>1. r \in Pcb /\ r \in InUse
      BY <1>2, <2>2, <2>7 DEF WaitedPlaced
    <3>2. \A s \in Sem : r \notin ToSet(blocked[s])
      BY <1>2, <2>7
    <3>3. r \in InUse'
      <4>1. CASE r \in ToSet(ready_queue)
        BY <2>3, <2>7, <3>1, <4>1 DEF InUse
      <4>2. CASE \E b \in Cpu : current_process[b] = r
        BY <1>1, <2>3, <2>7, <3>1, <4>2 DEF InUse
      <4> QED BY <3>1, <3>2, <4>1, <4>2 DEF InUse
    <3> QED BY <2>1, <2>2, <3>3
  <2> QED BY <2>6, <2>7
<1>9. Calls!Terminate(p, q, R)
  <2>1. UNCHANGED << p_semAdd, pid0, {ioCmd[b] : b \in Cpu} \ {NULL}, dev >>
    BY DEF TerminateSubtree
  <2>2. q = p \/ (q # pid0 /\ q \in Calls!Waiting \cup (Calls!Runnable \ R))
    BY <1>1, <1>2, <1>4
  <2> DEFINE freed == {r \in Calls!Family(q) : p_semAdd[r] # NULL \/ r \in Calls!Runnable \ R}
             given(s) == {r \in freed : p_semAdd[r] = s}
  <2>3. freed = Freed(q) /\ \A s : given(s) = gives(s)
    BY <1>6
  <2>4. /\ \A s \in Sem : sem[s] + Cardinality(given(s)) <= MaxSem
        /\ sem' = [s \in Sem |-> sem[s] + Cardinality(given(s))]
    <3> HIDE DEF given
    <3> QED BY <2>3 DEF TerminateSubtree, SemAfter
  <2>5. pcbFree' = pcbFree \cup freed
    BY <2>3 DEF TerminateSubtree
  <2>6. p_parent' = [r \in Pcb |-> IF r \in freed \cup (Calls!Family(q) \ {q}) THEN NULL
                                   ELSE p_parent[r]]
    <3> HIDE DEF freed
    <3> QED BY <1>5, <2>3 DEF TerminateSubtree, ParentsAfter
  <2>7. blocked' = [s \in Sem |-> Calls!outAllProcQ(blocked[s], given(s))]
    <3>1. \A x, S : Calls!outAllProcQ(x, S) = outAllProcQ(x, S)
      BY DEF outAllProcQ, Calls!outAllProcQ, mkEmptyProcQ, Calls!mkEmptyProcQ, insertProcQ,
             Calls!insertProcQ
    <3> HIDE DEF given
    <3> QED BY <2>3, <3>1 DEF TerminateSubtree, BlockedAfter
  <2>8. Stray' = {r \in (freed \cap Calls!Runnable) \ {p} : p_semAdd[r] # NULL}
    <3> HIDE DEF freed
    <3> QED BY <1>8, <2>3
  <2>9. p \in R /\ R \subseteq Calls!Runnable
    BY <1>4
  <2>10. /\ \A s \in Calls!Sem : sem[s] + Calls!Cardinality(given(s)) <= MaxSem
         /\ sem' = [s \in Calls!Sem |-> sem[s] + Calls!Cardinality(given(s))]
         /\ blocked' = [s \in Calls!Sem |-> Calls!outAllProcQ(blocked[s], given(s))]
    <3>1. \A S : Calls!Cardinality(S) = Cardinality(S)
      BY DEF Cardinality, Calls!Cardinality
    <3> HIDE DEF given
    <3> QED BY <1>2, <2>4, <2>7, <3>1
  <2> HIDE DEF R
  <2> QED BY <2>1, <2>2, <2>5, <2>6, <2>8, <2>9, <2>10 DEF Calls!Terminate
<1> QED BY <1>4, <1>9 DEF Calls!Next

\* What a termination frees and leaves in use: by Followed nobody strayed before.
LEMMA TerminateStrays ==
  ASSUME IInv, Followed, NucleusAssumption, NEW c \in Cpu, NEW p \in Pcb,
         TerminateSubtree(c, p)
  PROVE  StraysWereWoken'
<1>1. /\ pcbFree' = pcbFree \cup Freed(p) /\ UNCHANGED p_semAdd
      /\ \A b \in Cpu : current_process'[b] \in {current_process[b], NULL}
      /\ pcbFree' \subseteq Pcb /\ NULL \notin Pcb
  BY DEF TerminateSubtree, IInv, Control, Types, Freed, Subtree, NucleusAssumption
<1>2. ToSet(ready_queue') = ToSet(ready_queue) \ {q \in Freed(p) : p_semAdd[q] = NULL}
  <2>1. ready_queue' = outAllProcQ(ready_queue, {q \in Freed(p) : p_semAdd[q] = NULL})
    BY DEF TerminateSubtree, ReadyAfter
  <2>2. ready_queue \in Seq(Pcb)
    BY DEF IInv, Queues, QueueTypes
  <2> QED BY <2>1, <2>2, OutAllProcQ
<1>3. ASSUME NEW s \in Sem
      PROVE  ToSet(blocked'[s]) = ToSet(blocked[s]) \ {q \in Freed(p) : p_semAdd[q] = s}
  <2>1. blocked'[s] = outAllProcQ(blocked[s], {q \in Freed(p) : p_semAdd[q] = s})
    BY DEF TerminateSubtree, BlockedAfter
  <2>2. blocked[s] \in Seq(Pcb)
    BY DEF IInv, Queues, QueueTypes
  <2> QED BY <2>1, <2>2, OutAllProcQ
<1> SUFFICES ASSUME NEW q \in pcbFree'
             PROVE  /\ \A s \in Sem : q \notin ToSet(blocked'[s])
                    /\ q \in ToSet(ready_queue') => p_semAdd[q] # NULL
                    /\ \A b \in Cpu : current_process'[b] = q
                                       => p_semAdd[q] # NULL /\ q \notin ToSet(ready_queue')
  BY <1>1 DEF StraysWereWoken
<1>4. CASE q \in pcbFree
  BY <1>1, <1>2, <1>3, <1>4 DEF Followed, Corrupt
<1>5. CASE q \in Freed(p)
  <2>1. \A s \in Sem : q \notin ToSet(blocked'[s])
    BY <1>3, <1>5 DEF IInv, Queues, BlockedAreLive
  <2>2. q \in ToSet(ready_queue') => p_semAdd[q] # NULL
    BY <1>2, <1>5
  <2>3. ASSUME NEW b \in Cpu, current_process'[b] = q
        PROVE  p_semAdd[q] # NULL /\ q \notin ToSet(ready_queue')
    <3>1. current_process[b] = q
      BY <1>1, <2>3
    <3>2. q \notin ToSet(ready_queue)
      BY <3>1 DEF IInv, Queues, NeverTwice
    <3> QED BY <1>2, <1>5, <3>2 DEF Freed
  <2> QED BY <2>1, <2>2, <2>3
<1> QED BY <1>1, <1>4, <1>5

\* The CPUs, the ready queue and the scheduler do not show: Nucleus implements
\* Kernel, for any number of CPUs and processes, with terminations that free,
\* pass over or leave behind what Kernel says (exceptions.c:74-282, 349-370).
THEOREM CallsAreAtomic == FollowedSpec => CallsSpec
<1>1. CallsInv /\ CallsInv' /\ [Followed /\ Next]_vars => [Calls!Next]_(Calls!kernel)
  <2> SUFFICES ASSUME CallsInv, CallsInv', [Followed /\ Next]_vars PROVE [Calls!Next]_(Calls!kernel)
    OBVIOUS
  <2>1. CASE Followed /\ SyncNext
    BY <2>1, NucleusAssumption, SyncShows
  <2>2. CASE Followed /\ TermNext
    <3>1. ASSUME NEW c \in Cpu, TermSelf(c) \/ Trap(c) PROVE Calls!Next
      <4>1. current_process[c] \in Pcb /\ At(c, "user") /\ TerminateSubtree(c, current_process[c])
        BY <2>2, <3>1, CallerRuns DEF TermSelf, Trap, CallsInv
      <4> QED BY <2>2, <4>1, NucleusAssumption, TermShows
    <3>2. ASSUME NEW c \in Cpu, NEW p \in Pcb, TermProcess(c, p) PROVE Calls!Next
      BY <2>2, <3>2, NucleusAssumption, TermShows DEF TermProcess
    <3> QED BY <2>2, <3>1, <3>2 DEF TermNext
  <2>3. CASE UNCHANGED vars
    <3>1. UNCHANGED Stray
      BY <2>3 DEF vars, procs, Stray
    <3> QED BY <2>3, <3>1, NotShown DEF vars
  <2> QED BY <2>1, <2>2, <2>3 DEF Next
<1> QED BY <1>1, InitShows, CallsInvariance, PTL DEF FollowedSpec, CallsSpec, Calls!Spec

\* A termination leaves no freed PCB in use but processes that had been woken, and
\* those in one place each, for any number of CPUs and processes
\* (asl.c:83, exceptions.c:356-368).
THEOREM OnlyTheWoken == FollowedSpec => []StraysWereWoken
<1>1. Init => StraysWereWoken
  <2> SUFFICES ASSUME Init PROVE StraysWereWoken
    OBVIOUS
  <2>1. Followed
    BY InitSync, HousedFollowed DEF SyncInv
  <2> QED BY <2>1 DEF Followed, Corrupt, StraysWereWoken
<1>2. CallsInv /\ StraysWereWoken /\ [Followed /\ Next]_vars => StraysWereWoken'
  <2> SUFFICES ASSUME CallsInv, StraysWereWoken, [Followed /\ Next]_vars
               PROVE  StraysWereWoken'
    OBVIOUS
  <2>1. CASE UNCHANGED vars
    BY <2>1 DEF vars, procs, StraysWereWoken
  <2>2. CASE Followed /\ SyncNext
    <3>1. Stray' = {}
      BY <2>2, NucleusAssumption, SyncStray DEF CallsInv
    <3> QED BY <3>1 DEF Stray, StraysWereWoken
  <2>3. ASSUME Followed, NEW c \in Cpu, NEW p \in Pcb, TerminateSubtree(c, p)
        PROVE  StraysWereWoken'
    BY <2>3, NucleusAssumption, TerminateStrays DEF CallsInv
  <2>4. CASE Followed /\ TermNext
    <3>1. ASSUME NEW c \in Cpu, TermSelf(c) \/ Trap(c) PROVE StraysWereWoken'
      <4>1. current_process[c] \in Pcb
        BY <2>4, <3>1, CallerIsPcb DEF TermSelf, Trap, CallsInv, IInv
      <4> QED BY <2>3, <2>4, <3>1, <4>1 DEF TermSelf, Trap
    <3>2. ASSUME NEW c \in Cpu, NEW p \in Pcb, TermProcess(c, p) PROVE StraysWereWoken'
      BY <2>3, <2>4, <3>2 DEF TermProcess
    <3> QED BY <2>4, <3>1, <3>2 DEF TermNext
  <2> QED BY <2>1, <2>2, <2>4 DEF Next
<1> QED BY <1>1, <1>2, CallsInvariance, PTL DEF FollowedSpec
=============================================================================
