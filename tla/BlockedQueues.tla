--------------------------- MODULE BlockedQueues ---------------------------
(***************************************************************************)
(* What the Active Semaphore List promises its callers: one FIFO queue of  *)
(* blocked PCBs for each semaphore address, whatever descriptors hold it.  *)
(* There is always room: insertBlocked never returns TRUE.  ret is the     *)
(* value the last call returned.                                           *)
(***************************************************************************)
EXTENDS ProcQ

CONSTANTS Pcb,    \* the process control blocks
          Key,    \* the semaphore addresses
          NULL

VARIABLES blocked,  \* blocked[k] is the queue of the PCBs blocked on k
          ret

vars == << blocked, ret >>

Waiting == UNION {ToSet(blocked[k]) : k \in Key}

Init == blocked = [k \in Key |-> mkEmptyProcQ] /\ ret = NULL

\* p, blocked on nothing, goes to the tail of k's queue
Block(k, p) ==
  /\ p \notin Waiting
  /\ blocked' = [blocked EXCEPT ![k] = insertProcQ(@, p)]
  /\ ret' = "FALSE"

\* The PCB that has waited longest on k leaves
Wake(k) ==
  /\ ~ emptyProcQ(blocked[k])
  /\ blocked' = [blocked EXCEPT ![k] = removeProcQ(@)]
  /\ ret' = headProcQ(blocked[k])

\* p leaves the queue it is in
Withdraw(p) ==
  \E k \in Key : /\ p \in ToSet(blocked[k])
                 /\ blocked' = [blocked EXCEPT ![k] = outProcQ(@, p)]
                 /\ ret' = p

\* A call that finds nothing, or only looks: a blocked PCB is returned, or
\* NULL for a semaphore nobody is blocked on or a PCB that is not blocked
Look ==
  /\ UNCHANGED blocked
  /\ \/ \E k \in Key : ret' = IF emptyProcQ(blocked[k]) THEN NULL ELSE headProcQ(blocked[k])
     \/ \E p \in Pcb : ret' = IF p \in Waiting THEN p ELSE NULL

Next == \/ \E k \in Key, p \in Pcb : Block(k, p)
        \/ \E k \in Key : Wake(k)
        \/ \E p \in Pcb : Withdraw(p)
        \/ Look

Spec == Init /\ [][Next]_vars
=============================================================================
