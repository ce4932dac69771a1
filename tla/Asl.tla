-------------------------------- MODULE Asl --------------------------------
(***************************************************************************)
(* phase1/asl.c: the Active Semaphore List.  A semaphore address somebody  *)
(* is blocked on has a descriptor in semd_h, the others have none; the     *)
(* descriptors not in use are in semdFree.  Both lists are sets here: the  *)
(* code takes any descriptor from semdFree_h and looks semd_h up by key.   *)
(* A process identifier names its PCB (next_pid never repeats one).        *)
(***************************************************************************)
EXTENDS ProcQ

CONSTANTS Pcb,    \* pcbFree_table
          Semd,   \* semd_table
          Key,    \* the addresses of the semaphores
          NULL

\* Both tables have MAXPROC elements; a NULL pointer points to nothing.
ASSUME AslAssumption ==
  /\ IsFiniteSet(Pcb) /\ IsFiniteSet(Semd)
  /\ Cardinality(Semd) = Cardinality(Pcb)
  /\ NULL \notin Pcb \cup Key

VARIABLES semd_h, semdFree,  \* the descriptors in use and the others
          s_key, s_procq,    \* the fields of a descriptor
          p_semAdd,          \* the field of a PCB
          ret                \* what the last call returned

vars == << semd_h, semdFree, s_key, s_procq, p_semAdd, ret >>

TypeOK ==
  /\ semd_h \subseteq Semd
  /\ semdFree \subseteq Semd
  /\ s_key \in [Semd -> Key \cup {NULL}]
  /\ s_procq \in [Semd -> Seq(Pcb)]
  /\ p_semAdd \in [Pcb -> Key \cup {NULL}]

-----------------------------------------------------------------------------

\* initASL
Init ==
  /\ semd_h = {}
  /\ semdFree = Semd
  /\ s_key = [d \in Semd |-> NULL]
  /\ s_procq = [d \in Semd |-> mkEmptyProcQ]
  /\ p_semAdd = [p \in Pcb |-> NULL]
  /\ ret = NULL

\* The loops over semd_h: is there a descriptor for k, and which
Active(k) == \E d \in semd_h : s_key[d] = k
SemdOf(k) == CHOOSE d \in semd_h : s_key[d] = k

\* The descriptor whose queue holds p (getProc, outBlockedPid)
Holds(d, p) == d \in semd_h /\ p \in ToSet(s_procq[d])
IsBlocked(p) == \E d \in Semd : Holds(d, p)

\* A bug of BlockedOn: the PCB keeps its old p_semAdd
BlockedOnOld(p, k) == UNCHANGED p_semAdd

BlockedOn(p, k) == p_semAdd' = [p_semAdd EXCEPT ![p] = k]

\* Bugs of JoinQueue: the PCB points to the descriptor instead of the semaphore;
\* the code falls through to the allocation of a descriptor; p goes to the head
\* of the queue
JoinQueuePointsToSemd(k, p) ==
  /\ s_procq' = [s_procq EXCEPT ![SemdOf(k)] = insertProcQ(@, p)]
  /\ BlockedOn(p, SemdOf(k)) /\ ret' = "FALSE"
  /\ UNCHANGED << semd_h, semdFree, s_key >>
JoinQueueFallsThrough(k, p) ==
  \E d \in semdFree :
    /\ semdFree' = semdFree \ {d}
    /\ semd_h' = semd_h \cup {d}
    /\ s_key' = [s_key EXCEPT ![d] = k]
    /\ s_procq' = [s_procq EXCEPT ![SemdOf(k)] = insertProcQ(@, p), ![d] = << p >>]
    /\ BlockedOn(p, k) /\ ret' = "FALSE"
JoinQueueAtHead(k, p) ==
  /\ s_procq' = [s_procq EXCEPT ![SemdOf(k)] = << p >> \o @]
  /\ BlockedOn(p, k) /\ ret' = "FALSE"
  /\ UNCHANGED << semd_h, semdFree, s_key >>

\* p goes to the tail of the queue the search found
JoinQueue(k, p) ==
  /\ s_procq' = [s_procq EXCEPT ![SemdOf(k)] = insertProcQ(@, p)]
  /\ BlockedOn(p, k) /\ ret' = "FALSE"
  /\ UNCHANGED << semd_h, semdFree, s_key >>

\* k gets a descriptor from semdFree, with p alone in its queue
NewQueue(k, p) ==
  \E d \in semdFree :
    /\ semdFree' = semdFree \ {d}
    /\ semd_h' = semd_h \cup {d}
    /\ s_key' = [s_key EXCEPT ![d] = k]
    /\ s_procq' = [s_procq EXCEPT ![d] = insertProcQ(mkEmptyProcQ, p)]
    /\ BlockedOn(p, k) /\ ret' = "FALSE"

Return(r) == ret' = r /\ UNCHANGED << semd_h, semdFree, s_key, s_procq, p_semAdd >>

\* A caller blocks a PCB that is in no queue: its p_list is free.
insertBlocked(k, p) ==
  /\ ~ IsBlocked(p)
  /\ IF Active(k) THEN JoinQueue(k, p)
     ELSE IF semdFree = {} THEN Return("TRUE") ELSE NewQueue(k, p)

\* Bugs of Shrink: an empty queue keeps its descriptor; the descriptor is lost
ShrinkKeepsSemd(d, q) ==
  s_procq' = [s_procq EXCEPT ![d] = q] /\ UNCHANGED << semd_h, semdFree, s_key, p_semAdd >>
ShrinkLosesSemd(d, q) ==
  /\ s_procq' = [s_procq EXCEPT ![d] = q]
  /\ semd_h' = IF emptyProcQ(q) THEN semd_h \ {d} ELSE semd_h
  /\ UNCHANGED << semdFree, s_key, p_semAdd >>

\* The queue of d becomes q; a descriptor without waiters is freed.
Shrink(d, q) ==
  /\ s_procq' = [s_procq EXCEPT ![d] = q]
  /\ semd_h' = IF emptyProcQ(q) THEN semd_h \ {d} ELSE semd_h
  /\ semdFree' = IF emptyProcQ(q) THEN semdFree \cup {d} ELSE semdFree
  /\ UNCHANGED << s_key, p_semAdd >>   \* p_semAdd keeps pointing to the semaphore

removeBlocked(k) ==
  \/ /\ Active(k)
     /\ ret' = headProcQ(s_procq[SemdOf(k)])
     /\ Shrink(SemdOf(k), removeProcQ(s_procq[SemdOf(k)]))
  \/ ~ Active(k) /\ Return(NULL)

\* outBlocked looks the descriptor up by p_semAdd, which may be stale
outBlocked(p) ==
  LET d == SemdOf(p_semAdd[p]) IN
  \/ /\ Active(p_semAdd[p])
     /\ ret' = IF p \in ToSet(s_procq[d]) THEN p ELSE NULL
     /\ Shrink(d, outProcQ(s_procq[d], p))
  \/ ~ Active(p_semAdd[p]) /\ Return(NULL)

\* outBlockedPid searches every queue
outBlockedPid(p) ==
  \/ \E d \in Semd : /\ Holds(d, p)
                     /\ ret' = p
                     /\ Shrink(d, outProcQ(s_procq[d], p))
  \/ ~ IsBlocked(p) /\ Return(NULL)

headBlocked(k) == Return(IF Active(k) THEN headProcQ(s_procq[SemdOf(k)]) ELSE NULL)
getProc(p) == Return(IF IsBlocked(p) THEN p ELSE NULL)

\* allocPcb: a PCB that is in no queue starts over, blocked on nothing
allocPcb(p) ==
  /\ ~ IsBlocked(p)
  /\ p_semAdd' = [p_semAdd EXCEPT ![p] = NULL]
  /\ UNCHANGED << semd_h, semdFree, s_key, s_procq, ret >>

Next ==
  \/ \E k \in Key, p \in Pcb : insertBlocked(k, p)
  \/ \E k \in Key : removeBlocked(k) \/ headBlocked(k)
  \/ \E p \in Pcb : outBlocked(p) \/ outBlockedPid(p) \/ getProc(p) \/ allocPcb(p)

Spec == Init /\ [][Next]_vars

-----------------------------------------------------------------------------

\* No two descriptors of semd_h hold the same semaphore, so the first match of
\* the searches of asl.c is the only one.
DistinctKeys == \A d, e \in semd_h : s_key[d] = s_key[e] => d = e

\* A descriptor is either free or in use, and in use exactly while it has
\* waiters (asl.c:86-91, 131-134, 156-159): none leaks.
DescriptorsAccounted ==
  /\ semd_h \cap semdFree = {}
  /\ semd_h \cup semdFree = Semd
  /\ \A d \in semd_h : s_key[d] # NULL /\ ~ emptyProcQ(s_procq[d])

\* A PCB is blocked at most once: in one queue and at one place of it.
BlockedOnce ==
  /\ \A d \in semd_h : Distinct(s_procq[d])
  /\ \A d, e \in semd_h, p \in Pcb : Holds(d, p) /\ Holds(e, p) => d = e

\* A PCB in the queue of a semaphore has that semaphore in p_semAdd, so
\* outBlocked(p) finds every PCB that is blocked.
BlockedHasSemAdd == \A d \in semd_h, p \in Pcb : Holds(d, p) => p_semAdd[p] = s_key[d]

\* Whoever has a PCB to block finds a descriptor for it: insertBlocked cannot
\* return TRUE.  PASSEREN, VERHOGEN and DOIO do not look at what it returns
\* (exceptions.c:124, 154, 207) and would lose the process if it could.
DescriptorForEveryBlock == (\E p \in Pcb : ~ IsBlocked(p)) => semdFree # {}

\* The queue of every semaphore address, whichever descriptor holds it
blocked == [k \in Key |-> IF Active(k) THEN s_procq[SemdOf(k)] ELSE mkEmptyProcQ]

\* The list of descriptors behaves as one FIFO queue per semaphore address, and
\* insertBlocked never fails.
Queues == INSTANCE BlockedQueues
QueuesSpec == Queues!Spec
=============================================================================
