--------------------------- MODULE NucleusProofs ---------------------------
(***************************************************************************)
(* Proofs about Nucleus for any number of CPUs, PCBs, semaphores and       *)
(* devices, with terminations up to the first state that has a freed PCB   *)
(* in use (Followed): the inductive invariant; that every step preserves   *)
(* its part about the queues (who is ready, blocked and current), then the *)
(* process tree, the process count and the sleep of the CPUs; the theorems.*)
(***************************************************************************)
EXTENDS Nucleus, ProcQTheorems

\* TypeOK, but that process_count is any number
Types ==
  /\ pcbFree \subseteq Pcb
  /\ p_parent \in [Pcb -> Pcb \cup {NULL}]
  /\ process_count \in Int
  /\ current_process \in [Cpu -> Pcb \cup {NULL}]
  /\ pc \in [Cpu -> Places]
QueueTypes ==
  /\ p_semAdd \in [Pcb -> Sem \cup {NULL}]
  /\ ready_queue \in Seq(Pcb)
  /\ blocked \in [Sem -> Seq(Pcb)]
DataTypes ==
  /\ pid0 \in Pcb \cup {NULL}
  /\ sem \in [Sem -> Int]
  /\ ioCmd \in [Cpu -> Dev \cup {NULL}]
  /\ dev \in [Dev -> {"idle", "busy", "done"}]

\* A CPU that runs in user mode has a current process.
UserHasProcess == \A c \in Cpu : pc[c] = "user" => current_process[c] # NULL

\* The tree and the count need each other: terminateSubtree subtracts what it
\* frees, and only live processes are in the subtree of a live one.
Control == Types /\ UserHasProcess /\ TreeSound /\ CountExact /\ AwakeIfReady

\* No process is in two places at once, as far as terminations are followed:
\* queued twice, or ready and blocked, or queued while it runs, or run by two CPUs.
NeverTwice ==
  /\ Distinct(ready_queue)
  /\ \A s \in Sem : /\ Distinct(blocked[s])
                    /\ ToSet(blocked[s]) \cap ToSet(ready_queue) = {}
  /\ \A c \in Cpu : /\ current_process[c] \notin ToSet(ready_queue)
                    /\ \A s \in Sem : current_process[c] \notin ToSet(blocked[s])
  /\ \A b, c \in Cpu :
       b # c /\ current_process[b] = current_process[c] => current_process[c] = NULL

\* A process that blocks is in no queue yet, so its p_semAdd may change: that
\* needs NeverTwice.  And NeverTwice needs BlockedAreLive where two semaphores
\* are concerned: p_semAdd names only one.
Queues == QueueTypes /\ NeverTwice /\ BlockedAreLive

IInv == Control /\ Queues /\ DataTypes /\ HaltsWhenDone

-----------------------------------------------------------------------------
(* What happens to the queues *)

\* The processes in the queues are PCBs, and NULL is none.
LEMMA MembersArePcbs ==
  ASSUME QueueTypes, NucleusAssumption
  PROVE  /\ ToSet(ready_queue) \subseteq Pcb
         /\ \A s \in Sem : ToSet(blocked[s]) \subseteq Pcb
         /\ NULL \notin ToSet(ready_queue)
         /\ \A s \in Sem : NULL \notin ToSet(blocked[s])
<1>1. \A q \in Seq(Pcb) : ToSet(q) \subseteq Pcb
  <2> SUFFICES ASSUME NEW q \in Seq(Pcb), NEW i \in DOMAIN q PROVE q[i] \in Pcb
    BY DEF ToSet
  <2> QED BY LenProperties, ElementOfSeq
<1> QED BY <1>1 DEF QueueTypes, NucleusAssumption

\* A process that is in no place becomes ready.
LEMMA ReadyStep ==
  ASSUME Queues, NucleusAssumption, NEW p \in Pcb,
         ready_queue' = insertProcQ(ready_queue, p),
         p \notin ToSet(ready_queue), \A s \in Sem : p \notin ToSet(blocked[s]),
         \A c \in Cpu : current_process'[c] # p,
         \A c \in Cpu : current_process'[c] \in {current_process[c], NULL},
         Live \subseteq Live', p_semAdd' \in [Pcb -> Sem \cup {NULL}],
         \A q \in Pcb \ {p} : p_semAdd'[q] = p_semAdd[q],
         UNCHANGED blocked
  PROVE  Queues'
<1> USE DEF Queues
<1>1. /\ ready_queue' \in Seq(Pcb)
      /\ ToSet(ready_queue') = ToSet(ready_queue) \cup {p}
      /\ Distinct(ready_queue')
  <2>1. ready_queue \in Seq(Pcb) /\ Distinct(ready_queue)
    BY DEF QueueTypes, NeverTwice
  <2> HIDE DEF Queues
  <2> QED BY ONLY <2>1, p \in Pcb, p \notin ToSet(ready_queue),
                  ready_queue' = insertProcQ(ready_queue, p), InsertProcQ
<1>2. QueueTypes'
  BY <1>1 DEF QueueTypes
<1>3. NeverTwice'
  <2>1. \A c \in Cpu : /\ current_process'[c] \notin ToSet(ready_queue')
                       /\ \A s \in Sem : current_process'[c] \notin ToSet(blocked[s])
    BY <1>1, MembersArePcbs DEF NeverTwice, NucleusAssumption
  <2>2. \A s \in Sem : ToSet(blocked[s]) \cap ToSet(ready_queue') = {}
    BY <1>1 DEF NeverTwice
  <2>3. \A b, c \in Cpu :
          b # c /\ current_process'[b] = current_process'[c] => current_process'[c] = NULL
    BY DEF NeverTwice
  <2> QED BY <1>1, <2>1, <2>2, <2>3 DEF NeverTwice
<1>4. BlockedAreLive'
  BY MembersArePcbs DEF BlockedAreLive
<1> QED BY <1>2, <1>3, <1>4

\* The current process of c blocks on s.
LEMMA BlockStep ==
  ASSUME Queues, Types, NucleusAssumption, NEW c \in Cpu, NEW s \in Sem,
         current_process[c] \in Live, BlockCurrent(c, s),
         current_process' = [current_process EXCEPT ![c] = NULL]
  PROVE  Queues'
<1> USE DEF Queues
<1> DEFINE p == current_process[c]
<1>1. p \in Pcb /\ p \notin ToSet(ready_queue) /\ \A t \in Sem : p \notin ToSet(blocked[t])
  BY DEF Live, NeverTwice
<1>2. /\ p_semAdd' = [p_semAdd EXCEPT ![p] = s]
      /\ blocked' = [blocked EXCEPT ![s] = insertProcQ(@, p)]
      /\ UNCHANGED << ready_queue, pcbFree >>
  BY DEF BlockCurrent
<1>3. \A b \in Cpu \ {c} : current_process'[b] = current_process[b] /\ current_process[b] # p
  BY <1>1 DEF Types, NeverTwice, NucleusAssumption
<1>4. current_process'[c] = NULL
  BY DEF Types
<1>5. p \in Live
  OBVIOUS
<1> HIDE DEF p
<1>6. /\ blocked'[s] = insertProcQ(blocked[s], p) /\ blocked'[s] \in Seq(Pcb)
      /\ ToSet(blocked'[s]) = ToSet(blocked[s]) \cup {p}
      /\ Distinct(blocked'[s])
      /\ \A t \in Sem \ {s} : blocked'[t] = blocked[t]
  <2>1. /\ blocked[s] \in Seq(Pcb) /\ Distinct(blocked[s])
        /\ blocked'[s] = insertProcQ(blocked[s], p)
        /\ \A t \in Sem \ {s} : blocked'[t] = blocked[t]
    BY <1>2 DEF QueueTypes, NeverTwice
  <2>2. p \in Pcb /\ p \notin ToSet(blocked[s])
    BY <1>1
  <2>3. /\ insertProcQ(blocked[s], p) \in Seq(Pcb)
        /\ ToSet(insertProcQ(blocked[s], p)) = ToSet(blocked[s]) \cup {p}
        /\ Distinct(insertProcQ(blocked[s], p))
    BY ONLY <2>1, <2>2, InsertProcQ
  <2> QED BY <2>1, <2>3
<1>7. QueueTypes'
  BY <1>1, <1>2, <1>6 DEF QueueTypes
<1>8. NeverTwice'
  <2>1. \A b \in Cpu : /\ current_process'[b] \notin ToSet(ready_queue)
                       /\ \A t \in Sem : current_process'[b] \notin ToSet(blocked'[t])
    BY <1>1, <1>3, <1>4, <1>6, MembersArePcbs DEF NeverTwice, NucleusAssumption
  <2>2. \A t \in Sem : Distinct(blocked'[t]) /\ ToSet(blocked'[t]) \cap ToSet(ready_queue) = {}
    BY <1>1, <1>6 DEF NeverTwice
  <2>3. \A a, b \in Cpu :
          a # b /\ current_process'[a] = current_process'[b] => current_process'[b] = NULL
    BY <1>3, <1>4 DEF NeverTwice
  <2> QED BY <1>2, <2>1, <2>2, <2>3 DEF NeverTwice
<1>9. BlockedAreLive'
  <2>1. ASSUME NEW t \in Sem, NEW q \in ToSet(blocked'[t]) PROVE q \in Live /\ p_semAdd'[q] = t
    <3>1. CASE q = p /\ t = s
      BY <3>1, <1>1, <1>2, <1>5 DEF QueueTypes
    <3>2. CASE q # p
      <4>1. q \in ToSet(blocked[t])
        BY <3>2, <1>6
      <4>2. q \in Live /\ p_semAdd[q] = t /\ q \in Pcb
        BY <4>1, MembersArePcbs DEF BlockedAreLive
      <4> QED BY <4>2, <3>2, <1>2 DEF QueueTypes
    <3> QED BY <3>1, <3>2, <1>1, <1>6
  <2> QED BY <2>1, <1>2 DEF BlockedAreLive, Live
<1> QED BY <1>7, <1>8, <1>9

\* removeBlocked(s), and the process becomes ready.
LEMMA UnblockStep ==
  ASSUME Queues, NucleusAssumption, NEW s \in Sem, Unblock(s),
         UNCHANGED << pcbFree, p_semAdd, current_process >>
  PROVE  Queues'
<1> USE DEF Queues
<1>1. CASE emptyProcQ(blocked[s])
  BY <1>1 DEF Unblock, QueueTypes, NeverTwice, BlockedAreLive, Live
<1>2. CASE ~ emptyProcQ(blocked[s])
  <2> DEFINE p == headProcQ(blocked[s])
  <2>1. /\ blocked' = [blocked EXCEPT ![s] = removeProcQ(@)]
        /\ ready_queue' = insertProcQ(ready_queue, p)
    BY <1>2 DEF Unblock
  <2>2. /\ p \in Pcb /\ p \in ToSet(blocked[s]) /\ removeProcQ(blocked[s]) \in Seq(Pcb)
        /\ ToSet(blocked[s]) = ToSet(removeProcQ(blocked[s])) \cup {p}
        /\ Distinct(removeProcQ(blocked[s])) /\ p \notin ToSet(removeProcQ(blocked[s]))
    BY <1>2, RemoveProcQ DEF QueueTypes, NeverTwice
  <2> HIDE DEF p
  <2>3. /\ ready_queue' \in Seq(Pcb)
        /\ ToSet(ready_queue') = ToSet(ready_queue) \cup {p}
        /\ Distinct(ready_queue')
    <3>1. p \notin ToSet(ready_queue) /\ ready_queue \in Seq(Pcb) /\ Distinct(ready_queue)
      BY <2>2 DEF QueueTypes, NeverTwice
    <3>2. p \in Pcb /\ ready_queue' = insertProcQ(ready_queue, p)
      BY <2>1, <2>2
    <3> HIDE DEF Queues
    <3> QED BY ONLY <3>1, <3>2, InsertProcQ
  <2>4. /\ blocked'[s] = removeProcQ(blocked[s])
        /\ \A t \in Sem \ {s} : blocked'[t] = blocked[t]
        /\ \A t \in Sem : ToSet(blocked'[t]) \subseteq ToSet(blocked[t]) /\ Distinct(blocked'[t])
    BY <2>1, <2>2 DEF QueueTypes, NeverTwice
  <2>5. \A t \in Sem : p \notin ToSet(blocked'[t])
    <3>1. \A t \in Sem \ {s} : p \notin ToSet(blocked[t])
      BY <2>2 DEF BlockedAreLive
    <3> QED BY <3>1, <2>2, <2>4
  <2>6. QueueTypes'
    BY <2>1, <2>2, <2>3 DEF QueueTypes
  <2>7. NeverTwice'
    BY <2>2, <2>3, <2>4, <2>5 DEF NeverTwice
  <2>8. BlockedAreLive'
    BY <2>4 DEF BlockedAreLive, Live
  <2> QED BY <2>6, <2>7, <2>8
<1> QED BY <1>1, <1>2

\* A process is dispatched.
LEMMA DispatchStep ==
  ASSUME Queues, Types, NucleusAssumption, NEW c \in Cpu, ~ emptyProcQ(ready_queue),
         ready_queue' = removeProcQ(ready_queue),
         current_process' = [current_process EXCEPT ![c] = headProcQ(ready_queue)],
         UNCHANGED << pcbFree, p_semAdd, blocked >>
  PROVE  Queues' /\ headProcQ(ready_queue) \in Pcb
<1> USE DEF Queues
<1> DEFINE p == headProcQ(ready_queue)
<1>1. /\ p \in Pcb /\ p \in ToSet(ready_queue) /\ ready_queue' \in Seq(Pcb)
      /\ ToSet(ready_queue) = ToSet(ready_queue') \cup {p}
      /\ Distinct(ready_queue') /\ p \notin ToSet(ready_queue')
  BY RemoveProcQ DEF QueueTypes, NeverTwice
<1>2. current_process'[c] = p /\ \A b \in Cpu \ {c} : current_process'[b] = current_process[b]
  BY DEF Types
<1> HIDE DEF p
<1>3. QueueTypes' /\ BlockedAreLive'
  BY <1>1 DEF QueueTypes, BlockedAreLive, Live
<1>4. NeverTwice'
  BY <1>1, <1>2 DEF NeverTwice
<1> QED BY <1>1, <1>3, <1>4 DEF p

\* unblockClockPCBs: the processes that wait for the clock become ready.
LEMMA ClockStep ==
  ASSUME Queues, NucleusAssumption, unblockClockPCBs,
         UNCHANGED << pcbFree, p_semAdd, current_process >>
  PROVE  Queues'
<1> USE DEF Queues
<1> DEFINE waiters == blocked[Clock]
<1>1. Clock \in Sem
  BY DEF Sem
<1>2. /\ ready_queue' \in Seq(Pcb)
      /\ ToSet(ready_queue') = ToSet(ready_queue) \cup ToSet(waiters)
      /\ Distinct(ready_queue')
  <2>1. /\ waiters \in Seq(Pcb) /\ ready_queue \in Seq(Pcb)
        /\ Distinct(waiters) /\ Distinct(ready_queue)
        /\ ToSet(ready_queue) \cap ToSet(waiters) = {}
    BY <1>1 DEF QueueTypes, NeverTwice
  <2>2. ready_queue' = ready_queue \o waiters
    BY DEF unblockClockPCBs
  <2> HIDE DEF waiters
  <2> QED BY <2>1, <2>2, ConcatProcQ
<1>3. << >> \in Seq(Pcb) /\ ToSet(<< >>) = {} /\ Distinct(<< >>)
  BY EmptySeq DEF ToSet, Distinct
<1>4. blocked' = [blocked EXCEPT ![Clock] = << >>]
  BY DEF unblockClockPCBs, mkEmptyProcQ
<1>5. /\ blocked'[Clock] = << >>
      /\ \A t \in Sem \ {Clock} : blocked'[t] = blocked[t]
  BY <1>1, <1>4 DEF QueueTypes
<1>6. \A t \in Sem \ {Clock} : ToSet(blocked[t]) \cap ToSet(waiters) = {}
  BY <1>1 DEF BlockedAreLive
<1> HIDE DEF waiters
<1>7. QueueTypes'
  BY <1>2, <1>3, <1>4 DEF QueueTypes
<1>8. NeverTwice'
  <2>1. \A t \in Sem : /\ Distinct(blocked'[t])
                       /\ ToSet(blocked'[t]) \cap ToSet(ready_queue') = {}
    BY <1>2, <1>3, <1>5, <1>6 DEF NeverTwice
  <2>2. \A c \in Cpu : /\ current_process[c] \notin ToSet(ready_queue')
                       /\ \A t \in Sem : current_process[c] \notin ToSet(blocked'[t])
    BY <1>1, <1>2, <1>3, <1>5 DEF NeverTwice, waiters
  <2> QED BY <1>2, <2>1, <2>2 DEF NeverTwice
<1>9. BlockedAreLive'
  BY <1>3, <1>5 DEF BlockedAreLive, Live
<1> QED BY <1>7, <1>8, <1>9

\* terminateSubtree only takes processes out of places.
LEMMA TerminateQueues ==
  ASSUME Queues, Types, NucleusAssumption, NEW c \in Cpu, NEW p \in Pcb,
         TerminateSubtree(c, p)
  PROVE  Queues'
<1> USE DEF Queues
<1>1. \A q \in Seq(Pcb) : \A S :
        /\ outAllProcQ(q, S) \in Seq(Pcb)
        /\ ToSet(outAllProcQ(q, S)) = ToSet(q) \ S
        /\ Distinct(q) => Distinct(outAllProcQ(q, S))
  BY OutAllProcQ
<1>2. /\ ready_queue' \in Seq(Pcb)
      /\ ToSet(ready_queue') \subseteq ToSet(ready_queue)
      /\ Distinct(ready_queue')
  BY <1>1 DEF TerminateSubtree, ReadyAfter, QueueTypes, NeverTwice
<1>3. \A s \in Sem :
        /\ blocked'[s] \in Seq(Pcb)
        /\ ToSet(blocked'[s]) = ToSet(blocked[s]) \ {q \in Freed(p) : p_semAdd[q] = s}
        /\ Distinct(blocked'[s])
  BY <1>1 DEF TerminateSubtree, BlockedAfter, QueueTypes, NeverTwice
<1>4. /\ blocked' = [s \in Sem |-> blocked'[s]] /\ UNCHANGED p_semAdd
      /\ pcbFree' = pcbFree \cup Freed(p)
  BY DEF TerminateSubtree, BlockedAfter
<1>5. \A b \in Cpu : current_process'[b] \in {current_process[b], NULL}
  BY DEF TerminateSubtree, Types
<1>6. QueueTypes'
  <2>1. [s \in Sem |-> blocked'[s]] \in [Sem -> Seq(Pcb)]
    BY <1>3
  <2> QED BY <2>1, <1>2, <1>4 DEF QueueTypes
<1>7. NeverTwice'
  <2>1. \A s \in Sem : /\ Distinct(blocked'[s])
                       /\ ToSet(blocked'[s]) \cap ToSet(ready_queue') = {}
    BY <1>2, <1>3 DEF NeverTwice
  <2>2. \A b \in Cpu : /\ current_process'[b] \notin ToSet(ready_queue')
                       /\ \A s \in Sem : current_process'[b] \notin ToSet(blocked'[s])
    <3>1. /\ NULL \notin ToSet(ready_queue) /\ \A s \in Sem : NULL \notin ToSet(blocked[s])
          /\ \A s \in Sem : ToSet(blocked'[s]) \subseteq ToSet(blocked[s])
      BY <1>3, MembersArePcbs
    <3> SUFFICES ASSUME NEW b \in Cpu
                 PROVE  /\ current_process'[b] \notin ToSet(ready_queue')
                        /\ \A s \in Sem : current_process'[b] \notin ToSet(blocked'[s])
      OBVIOUS
    <3>2. CASE current_process'[b] = NULL
      BY <3>1, <3>2, <1>2
    <3>3. CASE current_process'[b] = current_process[b]
      BY <3>1, <3>3, <1>2 DEF NeverTwice
    <3> QED BY <3>2, <3>3, <1>5
  <2>3. \A a, b \in Cpu :
          a # b /\ current_process'[a] = current_process'[b] => current_process'[b] = NULL
    BY <1>5 DEF NeverTwice
  <2> QED BY <1>2, <2>1, <2>2, <2>3 DEF NeverTwice
<1>8. BlockedAreLive'
  BY <1>3, <1>4, MembersArePcbs DEF BlockedAreLive, Live
<1> QED BY <1>6, <1>7, <1>8

\* A step that leaves the queues and the current processes alone
LEMMA QueuesAlone ==
  ASSUME Queues, UNCHANGED << pcbFree, p_semAdd, ready_queue, blocked, current_process >>
  PROVE  Queues'
BY DEF Queues, QueueTypes, NeverTwice, BlockedAreLive, Live

-----------------------------------------------------------------------------

\* Every step preserves the part of the invariant about the queues.
LEMMA NextQueues ==
  ASSUME Queues, Types, UserHasProcess, NucleusAssumption, Followed, [Next]_vars
  PROVE  Queues'
<1>1. ASSUME NEW c \in Cpu, At(c, "user")
      PROVE  /\ current_process[c] \in Live
             /\ current_process[c] \notin ToSet(ready_queue)
             /\ \A s \in Sem : current_process[c] \notin ToSet(blocked[s])
  BY <1>1 DEF At, Followed, Corrupt, Types, UserHasProcess, Live, Queues, NeverTwice
<1>2. ASSUME NEW c \in Cpu, CreateProcess(c) PROVE Queues'
  <2>1. PICK p \in pcbFree : /\ pcbFree' = pcbFree \ {p}
                             /\ p_semAdd' = [p_semAdd EXCEPT ![p] = NULL]
                             /\ ready_queue' = insertProcQ(ready_queue, p)
    BY <1>2 DEF CreateProcess, allocPcb
  <2>2. UNCHANGED << blocked, current_process >> /\ ~ Corrupt
    BY <1>2 DEF CreateProcess, Followed
  <2>3. /\ p \in Pcb /\ p \notin ToSet(ready_queue)
        /\ \A s \in Sem : p \notin ToSet(blocked[s])
        /\ \A b \in Cpu : current_process[b] # p
    BY <2>2 DEF Types, Corrupt
  <2>4. /\ p_semAdd' \in [Pcb -> Sem \cup {NULL}]
        /\ \A q \in Pcb \ {p} : p_semAdd'[q] = p_semAdd[q]
        /\ Live \subseteq Live'
    BY <2>1 DEF Queues, QueueTypes, Live
  <2> QED BY <2>1, <2>2, <2>3, <2>4, ReadyStep
<1>3. ASSUME NEW c \in Cpu, DoIOCommand(c) PROVE Queues'
  BY <1>3, QueuesAlone DEF DoIOCommand, procs
<1>4. ASSUME NEW c \in Cpu, NEW s \in Sem, NEW place, At(c, "user"),
             BlockCurrent(c, s), Leave(c, place)
      PROVE  Queues'
  BY <1>4, <1>1, BlockStep DEF Leave
<1>5. ASSUME NEW c \in Cpu, ClockWait(c) PROVE Queues'
  <2>1. Clock \in Sem
    BY DEF Sem
  <2> QED BY <1>4, <1>5, <2>1 DEF ClockWait
<1>6. ASSUME NEW c \in Cpu, Scheduler(c) PROVE Queues'
  <2>1. CASE emptyProcQ(ready_queue) /\ UNCHANGED << ready_queue, current_process >>
    BY <1>6, <2>1, QueuesAlone DEF Scheduler, procs
  <2>2. CASE ~ emptyProcQ(ready_queue)
    BY <1>6, <2>2, DispatchStep DEF Scheduler, procs
  <2> QED BY <1>6, <2>1, <2>2 DEF Scheduler
<1>7. ASSUME NEW c \in Cpu, PltHandler(c) PROVE Queues'
  <2> DEFINE p == current_process[c]
  <2>1. /\ At(c, "user") /\ ready_queue' = insertProcQ(ready_queue, p)
        /\ current_process' = [current_process EXCEPT ![c] = NULL]
        /\ UNCHANGED << pcbFree, p_semAdd, blocked >>
    BY <1>7 DEF PltHandler, Leave, procs
  <2>2. /\ p \in Pcb /\ p # NULL /\ p \notin ToSet(ready_queue)
        /\ \A s \in Sem : p \notin ToSet(blocked[s])
    BY <2>1, <1>1 DEF Live, NucleusAssumption
  <2>3. \A b \in Cpu : /\ current_process'[b] \in {current_process[b], NULL}
                       /\ current_process'[b] # p
    BY <2>1, <2>2 DEF Types, Queues, NeverTwice
  <2>4. Live \subseteq Live' /\ p_semAdd' \in [Pcb -> Sem \cup {NULL}]
    BY <2>1 DEF Live, Queues, QueueTypes
  <2> HIDE DEF p
  <2> QED BY <2>1, <2>2, <2>3, <2>4, ReadyStep
<1>8. ASSUME NEW c \in Cpu, TimerHandler(c) PROVE Queues'
  BY <1>8, ClockStep DEF TimerHandler, procs
<1>9. ASSUME NEW s \in Sem, UNCHANGED << procs, current_process >>,
             Unblock(s) \/ UNCHANGED << blocked, ready_queue >>
      PROVE  Queues'
  BY <1>9, UnblockStep, QueuesAlone DEF procs
<1>10. ASSUME NEW c \in Cpu, NEW s \in UserSem, Passeren(c, s) \/ Verhogen(c, s)
       PROVE  Queues'
  <2>1. s \in Sem /\ At(c, "user")
    BY <1>10 DEF Sem, Passeren, Verhogen
  <2>2. CASE BlockCurrent(c, s) /\ Leave(c, "sched")
    BY <2>1, <2>2, <1>4
  <2>3. CASE UNCHANGED << procs, current_process >> /\ (Unblock(s) \/ UNCHANGED << blocked, ready_queue >>)
    BY <2>1, <2>3, <1>9
  <2> QED BY <1>10, <2>2, <2>3 DEF Passeren, Verhogen
<1>11. ASSUME NEW c \in Cpu, NEW d \in Dev, DoIO(c, d) PROVE Queues'
  <2>1. d \in Sem
    BY DEF Sem
  <2> QED BY <1>4, <1>11, <2>1 DEF DoIO
<1>12. ASSUME NEW c \in Cpu, NEW d \in Dev, IntHandler(c, d) PROVE Queues'
  <2>1. d \in Sem
    BY DEF Sem
  <2> QED BY <1>9, <1>12, <2>1 DEF IntHandler
<1>13. ASSUME NEW d \in Dev, Complete(d) PROVE Queues'
  BY <1>13, QueuesAlone DEF Complete, procs
<1>14. ASSUME NEW c \in Cpu, TermSelf(c) \/ Trap(c) PROVE Queues'
  <2>1. current_process[c] \in Pcb
    BY <1>1, <1>14 DEF TermSelf, Trap, Live
  <2> QED BY <1>14, <2>1, TerminateQueues DEF TermSelf, Trap
<1>15. ASSUME NEW c \in Cpu, NEW p \in Pcb, TermProcess(c, p) PROVE Queues'
  BY <1>15, TerminateQueues DEF TermProcess
<1>16. CASE UNCHANGED vars
  BY <1>16, QueuesAlone DEF vars, procs
<1> QED BY <1>2, <1>3, <1>5, <1>6, <1>7, <1>8, <1>10, <1>11, <1>12, <1>13, <1>14, <1>15,
          <1>16 DEF Next, SyncNext, TermNext

-----------------------------------------------------------------------------
(* Subtrees *)

\* A process is in its subtree, and so are the children of the subtree.
LEMMA SubtreeClosed ==
  ASSUME NEW p \in Pcb
  PROVE  /\ p \in Subtree(p)
         /\ \A r \in Pcb : p_parent[r] \in Subtree(p) => r \in Subtree(p)
         /\ Subtree(p) \subseteq Pcb
BY DEF Subtree

\* A set with p in it that contains the children of its members contains
\* the subtree of p.
LEMMA SubtreeLeast ==
  ASSUME NEW p \in Pcb, NEW S \in SUBSET Pcb, p \in S,
         \A r \in Pcb : p_parent[r] \in S => r \in S
  PROVE  Subtree(p) \subseteq S
BY DEF Subtree

\* The subtree of a process has only processes in it.
LEMMA SubtreeLive ==
  ASSUME Types, TreeSound, NucleusAssumption, NEW p \in Live
  PROVE  Subtree(p) \subseteq Live
<1>1. p \in Pcb /\ Live \in SUBSET Pcb
  BY DEF Live
<1>2. \A r \in Pcb : p_parent[r] \in Live => r \in Live
  BY DEF TreeSound, Live, NucleusAssumption
<1> QED BY <1>1, <1>2, SubtreeLeast

\* Taking edges out of the tree takes processes out of the subtrees only.
LEMMA SubtreeShrinks ==
  ASSUME NucleusAssumption, NEW p \in Pcb,
         \A r \in Pcb : p_parent'[r] \in {p_parent[r], NULL}
  PROVE  Subtree(p)' \subseteq Subtree(p)
<1> SUFFICES ASSUME NEW q \in Pcb, q \in Subtree(p)',
                    NEW S \in SUBSET Pcb, p \in S,
                    \A r \in Pcb : p_parent[r] \in S => r \in S
             PROVE  q \in S
  BY DEF Subtree
<1>1. \A r \in Pcb : p_parent'[r] \in S => r \in S
  BY DEF NucleusAssumption
<1> QED BY <1>1 DEF Subtree

-----------------------------------------------------------------------------
(* Termination *)

\* What terminateSubtree(p) does to the tree and to the count, for a live p
LEMMA TerminateKeeps ==
  ASSUME Control, NucleusAssumption, NEW c \in Cpu, NEW p \in Live, TerminateSubtree(c, p)
  PROVE  /\ pcbFree' \subseteq Pcb
         /\ p_parent' \in [Pcb -> Pcb \cup {NULL}]
         /\ process_count' \in Int
         /\ current_process' \in [Cpu -> Pcb \cup {NULL}]
         /\ \A b \in Cpu \ {c} : current_process'[b] = current_process[b]
         /\ TreeSound'
         /\ CountExact'
<1> USE DEF Control
<1> DEFINE F == Freed(p)
<1>1. p \in Pcb /\ Live \subseteq Pcb
  BY DEF Live
<1>2. F \subseteq Subtree(p) /\ F \subseteq Live
  BY SubtreeLive, <1>1 DEF Freed
<1>3. pcbFree' = pcbFree \cup F /\ Live' = Live \ F
  BY DEF TerminateSubtree, Live
<1>4. p_parent' = [q \in Pcb |-> IF q \in F \cup (Subtree(p) \ {p}) THEN NULL ELSE p_parent[q]]
  BY DEF TerminateSubtree, ParentsAfter
<1> HIDE DEF F
<1>5. pcbFree' \subseteq Pcb /\ p_parent' \in [Pcb -> Pcb \cup {NULL}]
  BY <1>1, <1>2, <1>3, <1>4 DEF Types
<1>6. /\ current_process' \in [Cpu -> Pcb \cup {NULL}]
      /\ \A b \in Cpu \ {c} : current_process'[b] = current_process[b]
  BY DEF TerminateSubtree, Types
<1>7. TreeSound'
  <2>1. \A q \in pcbFree' : p_parent'[q] = NULL
    BY <1>1, <1>2, <1>3, <1>4 DEF TreeSound, Types
  <2>2. ASSUME NEW q \in Live' PROVE p_parent'[q] \in Live' \cup {NULL}
    <3>1. q \in Live /\ q \notin F /\ q \in Pcb
      BY <1>3, <1>1
    <3>2. CASE q \in Subtree(p) \ {p}
      BY <3>1, <3>2, <1>4
    <3>3. CASE q \notin Subtree(p) \ {p}
      <4>1. p_parent'[q] = p_parent[q]
        BY <3>1, <3>3, <1>4
      <4>2. p_parent[q] \notin Subtree(p)
        BY <3>1, <3>3, <1>1, SubtreeClosed DEF TreeSound
      <4>3. p_parent[q] \in Live \cup {NULL}
        BY <3>1 DEF TreeSound
      <4> QED BY <4>1, <4>2, <4>3, <1>2, <1>3
    <3> QED BY <3>2, <3>3
  <2>3. ASSUME NEW q \in Live' PROVE p_parent'[q] \notin Subtree(q)'
    <3>1. q \in Live /\ q \in Pcb
      BY <1>3, <1>1
    <3>2. \A r \in Pcb : p_parent'[r] \in {p_parent[r], NULL}
      BY <1>4
    <3>3. Subtree(q)' \subseteq Subtree(q) /\ Subtree(q) \subseteq Pcb
      BY <3>1, <3>2, SubtreeShrinks, SubtreeClosed
    <3> QED BY <3>1, <3>2, <3>3 DEF TreeSound, NucleusAssumption
  <2> QED BY <2>1, <2>2, <2>3 DEF TreeSound
<1>8. CountExact' /\ process_count' \in Int
  <2>1. IsFiniteSet(Live) /\ IsFiniteSet(F)
    BY <1>1, <1>2, FS_Subset DEF NucleusAssumption
  <2>2. Cardinality(Live \ F) = Cardinality(Live) - Cardinality(F)
    <3>1. Live \cap F = F
      BY <1>2
    <3> QED BY <2>1, <3>1, FS_Difference
  <2>3. process_count' = process_count - Cardinality(F)
    BY DEF TerminateSubtree, CountAfter, F
  <2>4. Cardinality(F) \in Nat /\ Cardinality(Live) \in Nat
    BY <2>1, FS_CardinalityType
  <2> QED BY <1>3, <2>2, <2>3, <2>4 DEF CountExact
<1> QED BY <1>5, <1>6, <1>7, <1>8

\* A caller that continues is still current, and a CPU that does not is awake.
LEMMA TerminateStep ==
  ASSUME Control, NucleusAssumption, NEW c \in Cpu, NEW p \in Live, TerminateSubtree(c, p),
         \/ Continue(c)
         \/ pc' = [pc EXCEPT ![c] = "sched"]
  PROVE  Control'
<1>1. /\ Types' /\ TreeSound' /\ CountExact'
      /\ \A b \in Cpu \ {c} : current_process'[b] = current_process[b]
  BY TerminateKeeps DEF Control, Types, Continue, Places
<1>2. /\ \A b \in Cpu \ {c} : pc'[b] = pc[b]
      /\ pc'[c] = "sched" \/ (pc'[c] = "user" /\ current_process'[c] # NULL)
  BY DEF Control, Types, Continue
<1>3. UserHasProcess'
  BY <1>1, <1>2 DEF Control, UserHasProcess
<1>4. AwakeIfReady'
  BY <1>2 DEF AwakeIfReady
<1> QED BY <1>1, <1>3, <1>4 DEF Control

-----------------------------------------------------------------------------
(* The other steps *)

\* A step that leaves the tree and the pool alone
LEMMA OthersKeep ==
  ASSUME Control, UNCHANGED << pcbFree, p_parent, process_count >>
  PROVE  TreeSound' /\ CountExact'
BY DEF Control, TreeSound, CountExact, Live, Subtree

\* CREATEPROCESS adds a leaf under the caller.
LEMMA CreateKeeps ==
  ASSUME Control, NucleusAssumption, Followed, NEW c \in Cpu, CreateProcess(c)
  PROVE  Control'
<1> USE DEF Control
<1>1. PICK p \in pcbFree :
        /\ pcbFree' = pcbFree \ {p}
        /\ p_parent' = [p_parent EXCEPT ![p] = current_process[c]]
        /\ process_count' = process_count + 1
  BY DEF CreateProcess, allocPcb
<1>2. /\ pc[c] = "user" /\ ~ Corrupt /\ UNCHANGED << current_process, pc >>
  BY DEF CreateProcess, At, Followed
<1> DEFINE parent == current_process[c]
<1>3. parent \in Live /\ parent # p
  BY <1>1, <1>2 DEF Types, UserHasProcess, Corrupt, Live
<1>4. p \in Pcb /\ p \notin Live /\ Live' = Live \cup {p} /\ Live \subseteq Pcb
  BY <1>1 DEF Types, Live
<1>5. Types' /\ UserHasProcess'
  BY <1>1, <1>2, <1>3, <1>4 DEF Types, UserHasProcess
<1>6. AwakeIfReady'
  BY <1>2 DEF AwakeIfReady
<1>7. CountExact'
  <2>1. IsFiniteSet(Live)
    BY <1>4, FS_Subset DEF NucleusAssumption
  <2> QED BY <1>1, <1>4, <2>1, FS_AddElement DEF CountExact
<1>8. \A q \in Pcb : p_parent[q] # p
  BY <1>4 DEF TreeSound, Live, NucleusAssumption
<1>9. \A q \in Pcb \ {p} : p_parent'[q] = p_parent[q]
  BY <1>1 DEF Types
<1>10. p_parent'[p] = parent
  BY <1>1, <1>4 DEF Types
<1> HIDE DEF parent
<1>11. ASSUME NEW q \in Live' PROVE p_parent'[q] \notin Subtree(q)'
  <2>1. CASE q = p
    <3>1. p \in {p} /\ \A r \in Pcb : p_parent'[r] \in {p} => r \in {p}
      BY <1>3, <1>8, <1>9, <1>10
    <3>2. \A x \in Subtree(p)' : x = p
      BY <3>1, <1>4 DEF Subtree
    <3> QED BY <2>1, <3>2, <1>3, <1>10
  <2>2. CASE q # p
    <3> DEFINE S == Subtree(q) \cup {p}
    <3>1. q \in Live /\ q \in Pcb /\ S \in SUBSET Pcb
      BY <2>2, <1>4, SubtreeClosed
    <3>2. q \in S /\ \A r \in Pcb : p_parent'[r] \in S => r \in S
      BY <3>1, <1>8, <1>9, SubtreeClosed
    <3>3. \A x \in Subtree(q)' : x \in S
      BY <3>1, <3>2 DEF Subtree
    <3>4. p_parent'[q] = p_parent[q] /\ p_parent[q] # p /\ p_parent[q] \notin Subtree(q)
      BY <3>1, <2>2, <1>8, <1>9 DEF TreeSound
    <3> QED BY <3>3, <3>4
  <2> QED BY <2>1, <2>2
<1>12. TreeSound'
  <2>1. \A q \in pcbFree' : p_parent'[q] = NULL
    BY <1>1, <1>9 DEF Types, TreeSound
  <2>2. \A q \in Live' : p_parent'[q] \in Live' \cup {NULL}
    BY <1>3, <1>4, <1>9, <1>10 DEF TreeSound
  <2> QED BY <2>1, <2>2, <1>11 DEF TreeSound
<1> QED BY <1>5, <1>6, <1>7, <1>12

\* The current process leaves c, and c is about to call the scheduler.
LEMMA LeaveKeeps ==
  ASSUME Control, NEW c \in Cpu, NEW place \in {"sched", "doio"}, Leave(c, place),
         UNCHANGED << pcbFree, p_parent, process_count >>
  PROVE  Control'
<1>1. TreeSound' /\ CountExact'
  BY OthersKeep
<1>2. Types' /\ UserHasProcess' /\ AwakeIfReady'
  BY DEF Control, Types, UserHasProcess, AwakeIfReady, Leave, Places
<1> QED BY <1>1, <1>2 DEF Control

\* A CPU that runs on, or wakes up, is awake.
LEMMA AwakeKeeps ==
  ASSUME Control, NEW c \in Cpu, (pc[c] = "user" /\ UNCHANGED pc) \/ Resume(c),
         UNCHANGED << pcbFree, p_parent, process_count, current_process >>
  PROVE  Control'
<1>1. TreeSound' /\ CountExact'
  BY OthersKeep
<1>2. CASE pc[c] = "user" /\ UNCHANGED pc
  BY <1>1, <1>2 DEF Control, Types, UserHasProcess, AwakeIfReady
<1>3. CASE Resume(c)
  BY <1>1, <1>3 DEF Control, Types, UserHasProcess, AwakeIfReady, Resume, Places
<1> QED BY <1>2, <1>3

-----------------------------------------------------------------------------

\* The initial state satisfies it.
LEMMA InitControl == Init => Control
<1> SUFFICES ASSUME Init PROVE Control
  OBVIOUS
<1>1. PICK root \in Pcb :
        /\ pcbFree = Pcb \ {root}
        /\ p_parent = [p \in Pcb |-> NULL]
        /\ process_count = 1
        /\ current_process = [c \in Cpu |-> NULL]
        /\ pc = [c \in Cpu |-> "sched"]
  BY DEF Init
<1>2. Live = {root}
  BY <1>1 DEF Live
<1>3. Types /\ UserHasProcess
  BY <1>1 DEF Types, UserHasProcess, Places
<1>4. CountExact
  BY <1>1, <1>2, FS_Singleton DEF CountExact
<1>5. TreeSound
  BY <1>1, <1>2, NucleusAssumption DEF TreeSound, Subtree, NucleusAssumption
<1>6. AwakeIfReady
  BY <1>1, NucleusAssumption DEF AwakeIfReady, NucleusAssumption
<1> QED BY <1>3, <1>4, <1>5, <1>6 DEF Control

\* Every step preserves the part of the invariant about the tree, the count and
\* the CPUs.
LEMMA NextControl ==
  ASSUME Control, Queues, Followed, [Next]_vars
  PROVE  Control'
<1> USE NucleusAssumption
<1>1. ASSUME NEW c \in Cpu, CreateProcess(c) PROVE Control'
  BY <1>1, CreateKeeps
<1>2. ASSUME NEW c \in Cpu, DoIOCommand(c) PROVE Control'
  <2>1. TreeSound' /\ CountExact'
    BY <1>2, OthersKeep DEF DoIOCommand, procs
  <2>2. Types' /\ UserHasProcess' /\ AwakeIfReady'
    BY <1>2 DEF Control, Types, UserHasProcess, AwakeIfReady, DoIOCommand, procs, Places
  <2> QED BY <2>1, <2>2 DEF Control
<1>3. ASSUME NEW c \in Cpu, ClockWait(c) PROVE Control'
  BY <1>3, LeaveKeeps DEF ClockWait, BlockCurrent
<1>4. ASSUME NEW c \in Cpu, Scheduler(c) PROVE Control'
  <2>1. TreeSound' /\ CountExact'
    BY <1>4, OthersKeep DEF Scheduler, procs
  <2>2. CASE emptyProcQ(ready_queue)
    <3>1. /\ pc' = [pc EXCEPT ![c] = IF Finished THEN "halt" ELSE "wait"]
          /\ UNCHANGED << pcbFree, p_parent, process_count, ready_queue, current_process >>
      BY <1>4, <2>2 DEF Scheduler, procs
    <3>2. Types' /\ UserHasProcess'
      BY <3>1 DEF Control, Types, UserHasProcess, Places
    <3>3. AwakeIfReady'
      BY <3>1, <2>2 DEF AwakeIfReady, emptyProcQ
    <3> QED BY <2>1, <3>2, <3>3 DEF Control
  <2>3. CASE ~ emptyProcQ(ready_queue)
    <3> DEFINE p == headProcQ(ready_queue)
    <3>1. /\ current_process' = [current_process EXCEPT ![c] = p]
          /\ pc' = [pc EXCEPT ![c] = "user"]
          /\ UNCHANGED << pcbFree, p_parent, process_count >>
      BY <1>4, <2>3 DEF Scheduler, procs
    <3>2. p \in Pcb
      BY <1>4, <2>3, DispatchStep DEF Control, Scheduler, procs
    <3> HIDE DEF p
    <3>3. Types' /\ UserHasProcess' /\ AwakeIfReady'
      BY <3>1, <3>2 DEF Control, Types, UserHasProcess, AwakeIfReady, Places, NucleusAssumption
    <3> QED BY <2>1, <3>3 DEF Control
  <2> QED BY <2>2, <2>3
<1>5. ASSUME NEW c \in Cpu, PltHandler(c) PROVE Control'
  BY <1>5, LeaveKeeps DEF PltHandler, procs
<1>6. ASSUME NEW c \in Cpu, TimerHandler(c) PROVE Control'
  BY <1>6, AwakeKeeps DEF TimerHandler, procs
<1>7. ASSUME NEW c \in Cpu, NEW s \in UserSem, Passeren(c, s) PROVE Control'
  <2>1. CASE BlockCurrent(c, s) /\ Leave(c, "sched")
    BY <2>1, LeaveKeeps DEF BlockCurrent
  <2>2. CASE UNCHANGED << procs, current_process, pc, ioCmd, dev >>
    BY <1>7, <2>2, AwakeKeeps DEF Passeren, At, procs
  <2> QED BY <1>7, <2>1, <2>2 DEF Passeren
<1>8. ASSUME NEW c \in Cpu, NEW s \in UserSem, Verhogen(c, s) PROVE Control'
  <2>1. CASE BlockCurrent(c, s) /\ Leave(c, "sched")
    BY <2>1, LeaveKeeps DEF BlockCurrent
  <2>2. CASE UNCHANGED << procs, current_process, pc, ioCmd, dev >>
    BY <1>8, <2>2, AwakeKeeps DEF Verhogen, At, procs
  <2> QED BY <1>8, <2>1, <2>2 DEF Verhogen
<1>9. ASSUME NEW c \in Cpu, NEW d \in Dev, DoIO(c, d) PROVE Control'
  BY <1>9, LeaveKeeps DEF DoIO, BlockCurrent
<1>10. ASSUME NEW c \in Cpu, NEW d \in Dev, IntHandler(c, d) PROVE Control'
  BY <1>10, AwakeKeeps DEF IntHandler, procs
<1>11. ASSUME NEW d \in Dev, Complete(d) PROVE Control'
  <2>1. TreeSound' /\ CountExact'
    BY <1>11, OthersKeep DEF Complete, procs
  <2>2. Types' /\ UserHasProcess' /\ AwakeIfReady'
    BY <1>11 DEF Control, Types, UserHasProcess, AwakeIfReady, Complete, procs
  <2> QED BY <2>1, <2>2 DEF Control
<1>12. ASSUME NEW c \in Cpu, TermSelf(c) \/ Trap(c) PROVE Control'
  <2>1. current_process[c] \in Live
    BY <1>12 DEF TermSelf, Trap, At, Followed, Corrupt, Control, Types, UserHasProcess, Live
  <2> QED BY <1>12, <2>1, TerminateStep DEF TermSelf, Trap
<1>13. ASSUME NEW c \in Cpu, NEW p \in Pcb, TermProcess(c, p) PROVE Control'
  <2>1. p \in Live
    BY <1>13 DEF TermProcess, At, Followed, Corrupt, Live
  <2> QED BY <1>13, <2>1, TerminateStep DEF TermProcess
<1>14. CASE UNCHANGED vars
  <2>1. TreeSound' /\ CountExact'
    BY <1>14, OthersKeep DEF vars, procs
  <2>2. Types' /\ UserHasProcess' /\ AwakeIfReady'
    BY <1>14 DEF vars, procs, Control, Types, UserHasProcess, AwakeIfReady
  <2> QED BY <2>1, <2>2 DEF Control
<1> QED BY <1>1, <1>2, <1>3, <1>4, <1>5, <1>6, <1>7, <1>8, <1>9, <1>10, <1>11, <1>12,
          <1>13, <1>14 DEF Next, SyncNext, TermNext

-----------------------------------------------------------------------------

\* Steps keep the types of what the queues and the tree do not depend on.
LEMMA NextDataTypes ==
  ASSUME Control, DataTypes, Followed, [Next]_vars
  PROVE  DataTypes'
<1> USE DEF DataTypes
<1> USE NucleusAssumption
<1>1. ASSUME NEW c \in Cpu, NEW p \in Live, TerminateSubtree(c, p) PROVE DataTypes'
  <2>1. \A S \in SUBSET Live : Cardinality(S) \in Nat
    <3>1. IsFiniteSet(Live)
      BY FS_Subset DEF Live, NucleusAssumption
    <3> QED BY <3>1, FS_Subset, FS_CardinalityType
  <2>2. Freed(p) \subseteq Live
    BY SubtreeLive DEF Control, Freed
  <2>3. \A s \in Sem : SemAfter(p)[s] \in Int
    BY <2>1, <2>2 DEF SemAfter
  <2>4. sem' = [s \in Sem |-> SemAfter(p)[s]]
    BY <1>1 DEF TerminateSubtree, SemAfter
  <2>5. UNCHANGED << pid0, ioCmd, dev >>
    BY <1>1 DEF TerminateSubtree
  <2> QED BY <2>3, <2>4, <2>5
<1>2. ASSUME NEW c \in Cpu, At(c, "user") PROVE current_process[c] \in Live
  BY <1>2 DEF At, Followed, Corrupt, Control, Types, UserHasProcess, Live
<1>3. ASSUME NEW c \in Cpu, TermSelf(c) \/ Trap(c) PROVE DataTypes'
  BY <1>1, <1>2, <1>3 DEF TermSelf, Trap
<1>4. ASSUME NEW c \in Cpu, NEW p \in Pcb, TermProcess(c, p) PROVE DataTypes'
  <2>1. p \in Live
    BY <1>4 DEF TermProcess, At, Followed, Corrupt, Live
  <2> QED BY <1>1, <1>4, <2>1 DEF TermProcess
<1>5. ASSUME NEW c \in Cpu, CreateProcess(c) PROVE DataTypes'
  BY <1>5 DEF CreateProcess, allocPcb
<1>6. ASSUME NEW c \in Cpu, DoIOCommand(c) PROVE DataTypes'
  BY <1>6 DEF DoIOCommand, procs
<1>7. ASSUME NEW c \in Cpu, ClockWait(c) PROVE DataTypes'
  BY <1>7 DEF ClockWait, BlockCurrent
<1>8. ASSUME NEW c \in Cpu, Scheduler(c) \/ PltHandler(c) \/ TimerHandler(c) PROVE DataTypes'
  BY <1>8 DEF Scheduler, PltHandler, TimerHandler, procs
<1>9. ASSUME NEW c \in Cpu, NEW s \in UserSem, Passeren(c, s) \/ Verhogen(c, s)
      PROVE  DataTypes'
  <2>1. sem' \in [Sem -> Int]
    BY <1>9 DEF Passeren, Verhogen
  <2>2. UNCHANGED << pid0, ioCmd, dev >>
    BY <1>9 DEF Passeren, Verhogen, BlockCurrent, procs
  <2> QED BY <2>1, <2>2
<1>10. ASSUME NEW c \in Cpu, NEW d \in Dev, DoIO(c, d) PROVE DataTypes'
  BY <1>10 DEF DoIO, BlockCurrent, Sem
<1>11. ASSUME NEW c \in Cpu, NEW d \in Dev, IntHandler(c, d) PROVE DataTypes'
  BY <1>11 DEF IntHandler, Acknowledge, procs, Sem
<1>12. ASSUME NEW d \in Dev, Complete(d) PROVE DataTypes'
  BY <1>12 DEF Complete, procs
<1>13. CASE UNCHANGED vars
  BY <1>13 DEF vars, procs
<1> QED BY <1>3, <1>4, <1>5, <1>6, <1>7, <1>8, <1>9, <1>10, <1>11, <1>12, <1>13
        DEF Next, SyncNext, TermNext

\* When a CPU has halted there is no process left, so there is no caller for a
\* system call, and a CPU that halts finds the count at 0.
LEMMA NextHalts ==
  ASSUME Control, HaltsWhenDone, Followed, [Next]_vars
  PROVE  HaltsWhenDone'
<1> USE NucleusAssumption
<1>1. ASSUME NEW c \in Cpu, At(c, "user") PROVE current_process[c] \in Live
  BY <1>1 DEF At, Followed, Corrupt, Control, Types, UserHasProcess, Live
<1>2. CASE \E c \in Cpu : pc[c] = "halt"
  <2>1. pcbFree = Pcb
    BY <1>2 DEF HaltsWhenDone
  <2>2. \A c \in Cpu : ~ At(c, "user")
    BY <1>1, <2>1 DEF Live
  <2>3. UNCHANGED pcbFree
    BY <2>2 DEF Next, SyncNext, TermNext, CreateProcess, DoIOCommand, ClockWait, Scheduler,
         PltHandler, TimerHandler, Passeren, Verhogen, DoIO, IntHandler, Complete, TermSelf,
         Trap, TermProcess, vars, procs
  <2> QED BY <2>1, <2>3 DEF HaltsWhenDone
<1>3. CASE \A c \in Cpu : pc[c] # "halt"
  <2> SUFFICES ASSUME \E c \in Cpu : pc'[c] = "halt" PROVE pcbFree' = Pcb
    BY DEF HaltsWhenDone
  <2>1. PICK c \in Cpu : Scheduler(c) /\ Finished
    <3>1. ASSUME NEW c \in Cpu, NEW place, place # "halt",
                 pc' = [pc EXCEPT ![c] = place] \/ UNCHANGED pc
          PROVE  FALSE
      BY <1>3, <3>1 DEF Control, Types
    <3>2. ASSUME NEW c \in Cpu, Leave(c, "sched") \/ Leave(c, "doio") \/ Resume(c) \/ Continue(c)
          PROVE  FALSE
      BY <3>1, <3>2 DEF Leave, Resume, Continue
    <3>3. ASSUME NEW c \in Cpu, \/ CreateProcess(c) \/ DoIOCommand(c) \/ ClockWait(c)
                                \/ PltHandler(c) \/ TimerHandler(c) \/ TermSelf(c) \/ Trap(c)
          PROVE  FALSE
      BY <3>1, <3>2, <3>3 DEF CreateProcess, DoIOCommand, ClockWait, PltHandler, TimerHandler,
           TermSelf, Trap
    <3>4. ASSUME NEW c \in Cpu, NEW s \in UserSem, Passeren(c, s) \/ Verhogen(c, s)
          PROVE  FALSE
      BY <3>1, <3>2, <3>4 DEF Passeren, Verhogen
    <3>5. ASSUME NEW c \in Cpu, NEW d \in Dev, DoIO(c, d) \/ IntHandler(c, d) PROVE FALSE
      BY <3>2, <3>5 DEF DoIO, IntHandler
    <3>6. ASSUME NEW c \in Cpu, NEW p \in Pcb, TermProcess(c, p) PROVE FALSE
      BY <3>2, <3>6 DEF TermProcess
    <3>7. ASSUME NEW d \in Dev, Complete(d) PROVE FALSE
      BY <3>7, <1>3 DEF Complete
    <3>8. ASSUME UNCHANGED vars PROVE FALSE
      BY <3>8, <1>3 DEF vars
    <3>9. ASSUME NEW c \in Cpu, Scheduler(c), ~ Finished PROVE FALSE
      BY <3>1, <3>9 DEF Scheduler
    <3> QED BY <3>3, <3>4, <3>5, <3>6, <3>7, <3>8, <3>9 DEF Next, SyncNext, TermNext
  <2>2. process_count = 0 /\ UNCHANGED pcbFree
    BY <2>1 DEF Finished, Scheduler, procs
  <2>3. Live = {}
    <3>1. IsFiniteSet(Live)
      BY FS_Subset DEF Live, NucleusAssumption
    <3> QED BY <3>1, <2>2, FS_EmptySet DEF Control, CountExact
  <2> QED BY <2>2, <2>3 DEF Control, Types, Live
<1> QED BY <1>2, <1>3

\* The initial state satisfies the invariant.
LEMMA InitIInv == Init => IInv
<1> SUFFICES ASSUME Init PROVE IInv
  OBVIOUS
<1>1. Control
  BY InitControl
<1>2. DataTypes
  BY DEF Init, DataTypes
<1>3. HaltsWhenDone
  BY DEF Init, HaltsWhenDone
<1>4. Queues
  <2>1. PICK root \in Pcb : ready_queue = << root >>
    BY DEF Init
  <2>2. /\ << root >> \in Seq(Pcb) /\ Distinct(<< root >>) /\ NULL \notin ToSet(<< root >>)
        /\ << >> \in Seq(Pcb) /\ Distinct(<< >>) /\ ToSet(<< >>) = {}
    BY NucleusAssumption DEF Distinct, ToSet, NucleusAssumption
  <2>3. /\ p_semAdd = [p \in Pcb |-> NULL] /\ blocked = [s \in Sem |-> << >>]
        /\ current_process = [c \in Cpu |-> NULL]
    BY DEF Init, mkEmptyProcQ
  <2> QED BY <2>1, <2>2, <2>3 DEF Queues, QueueTypes, NeverTwice, BlockedAreLive
<1> QED BY <1>1, <1>2, <1>3, <1>4 DEF IInv

\* Every step that is followed preserves the invariant, and so does no step.
LEMMA NextIInv ==
  ASSUME IInv, [Followed /\ Next]_vars
  PROVE  IInv'
<1>1. CASE Followed /\ Next
  BY <1>1, NucleusAssumption, NextControl, NextQueues, NextDataTypes, NextHalts DEF IInv, Control
<1>2. CASE UNCHANGED vars
  <2>1. Control'
    BY <1>2, OthersKeep DEF vars, procs, IInv, Control, Types, UserHasProcess, AwakeIfReady
  <2>2. Queues'
    BY <1>2, QueuesAlone DEF vars, procs, IInv
  <2>3. DataTypes' /\ HaltsWhenDone'
    BY <1>2 DEF vars, procs, IInv, DataTypes, HaltsWhenDone
  <2> QED BY <2>1, <2>2, <2>3 DEF IInv
<1> QED BY <1>1, <1>2

\* The invariant holds in every state up to the first with a freed PCB in use.
THEOREM Invariance == FollowedSpec => []IInv
<1>1. IInv /\ [Followed /\ Next]_vars => IInv'
  BY NextIInv
<1> QED BY InitIInv, <1>1, PTL DEF FollowedSpec

\* Every variable keeps its type (exceptions.c, interrupts.c, scheduler.c); in
\* particular process_count never leaves 0 .. MAXPROC.
THEOREM TypeCorrect == FollowedSpec => []TypeOK
<1>1. IInv => TypeOK
  <2> SUFFICES ASSUME IInv PROVE process_count \in 0 .. Cardinality(Pcb)
    BY DEF IInv, Control, Types, Queues, QueueTypes, DataTypes, TypeOK
  <2>1. /\ IsFiniteSet(Pcb) /\ IsFiniteSet(Live)
        /\ Cardinality(Live) <= Cardinality(Pcb)
    BY NucleusAssumption, FS_Subset DEF NucleusAssumption, Live
  <2>2. Cardinality(Live) \in Nat /\ Cardinality(Pcb) \in Nat
    BY <2>1, FS_CardinalityType
  <2> QED BY <2>1, <2>2 DEF IInv, Control, CountExact
<1> QED BY <1>1, Invariance, PTL

\* Whoever is in a queue of the ASL is a process, and outBlocked finds it there by
\* its p_semAdd (exceptions.c:356-358).
THEOREM WaitersLive == FollowedSpec => []BlockedAreLive
<1>1. IInv => BlockedAreLive
  BY DEF IInv, Queues
<1> QED BY <1>1, Invariance, PTL

\* process_count is the number of processes (exceptions.c:95, 364).
THEOREM CountCorrect == FollowedSpec => []CountExact
<1>1. IInv => CountExact
  BY DEF IInv, Control
<1> QED BY <1>1, Invariance, PTL

\* A CPU halts only when no process is left (scheduler.c:12-13).
THEOREM HaltsLast == FollowedSpec => []HaltsWhenDone
<1>1. IInv => HaltsWhenDone
  BY DEF IInv, Control
<1> QED BY <1>1, Invariance, PTL

\* The process tree has no dangling parent and no cycle, whatever subtrees are
\* terminated, wholly or in part (exceptions.c:349-370).
THEOREM TreeCorrect == FollowedSpec => []TreeSound
<1>1. IInv => TreeSound
  BY DEF IInv, Control
<1> QED BY <1>1, Invariance, PTL

\* No CPU stays in WAIT, with all the others, while a process is ready
\* (scheduler.c:11-33).
THEOREM NobodyOversleeps == FollowedSpec => []AwakeIfReady
<1>1. IInv => AwakeIfReady
  BY DEF IInv, Control
<1> QED BY <1>1, Invariance, PTL
=============================================================================
