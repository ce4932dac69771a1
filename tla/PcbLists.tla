------------------------------ MODULE PcbLists ------------------------------
(***************************************************************************)
(* What pcb.c promises to its callers: the pool hands out first what was   *)
(* returned last, a process queue is a sequence, and the children of a     *)
(* process are the sequence of those that were inserted, newest first.     *)
(***************************************************************************)
EXTENDS ProcQ

CONSTANTS Pcb, Queue

VARIABLES pool, queue, children

lists == << pool, queue, children >>

Used == Pcb \ ToSet(pool)
Queued(p) == \E h \in Queue : p \in ToSet(queue[h])
IsChild(p) == \E q \in Pcb : p \in ToSet(children[q])

Init ==
  /\ Distinct(pool) /\ ToSet(pool) = Pcb
  /\ queue = [h \in Queue |-> mkEmptyProcQ]
  /\ children = [p \in Pcb |-> << >>]

AllocPcb == pool # << >> /\ pool' = Tail(pool) /\ UNCHANGED << queue, children >>

FreePcb(p) ==
  /\ p \in Used /\ ~ Queued(p) /\ ~ IsChild(p) /\ children[p] = << >>
  /\ pool' = << p >> \o pool
  /\ UNCHANGED << queue, children >>

InsertProcQ(h, p) ==
  /\ p \in Used /\ ~ Queued(p)
  /\ queue' = [queue EXCEPT ![h] = insertProcQ(@, p)]
  /\ UNCHANGED << pool, children >>

RemoveProcQ(h) ==
  /\ ~ emptyProcQ(queue[h])
  /\ queue' = [queue EXCEPT ![h] = removeProcQ(@)]
  /\ UNCHANGED << pool, children >>

OutProcQ(h, p) ==
  /\ p \in ToSet(queue[h])
  /\ queue' = [queue EXCEPT ![h] = outProcQ(@, p)]
  /\ UNCHANGED << pool, children >>

InsertChild(q, p) ==
  /\ p # q /\ {p, q} \subseteq Used /\ ~ IsChild(p) /\ children[p] = << >>
  /\ children' = [children EXCEPT ![q] = << p >> \o @]
  /\ UNCHANGED << pool, queue >>

RemoveChild(q) ==
  /\ children[q] # << >>
  /\ children' = [children EXCEPT ![q] = Tail(@)]
  /\ UNCHANGED << pool, queue >>

OutChild(p) ==
  /\ IsChild(p)
  /\ children' = [q \in Pcb |-> outProcQ(children[q], p)]
  /\ UNCHANGED << pool, queue >>

Next ==
  \/ AllocPcb
  \/ \E p \in Pcb : \/ FreePcb(p) \/ RemoveChild(p) \/ OutChild(p)
                    \/ \E q \in Pcb : InsertChild(q, p)
  \/ \E h \in Queue : RemoveProcQ(h) \/ \E p \in Pcb : InsertProcQ(h, p) \/ OutProcQ(h, p)

Spec == Init /\ [][Next]_lists
=============================================================================
