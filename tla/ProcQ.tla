------------------------------- MODULE ProcQ -------------------------------
(***************************************************************************)
(* The process queues of phase1/pcb.c as sequences of PCBs.  A queue is a  *)
(* circular list of listx.h threaded through pcb_t.p_list; its order is    *)
(* all that its users see, and a sequence is its order.                    *)
(***************************************************************************)
EXTENDS Integers, Sequences, FiniteSets, SequencesExt

\* mkEmptyProcQ, emptyProcQ
mkEmptyProcQ == << >>
emptyProcQ(q) == q = << >>

\* insertProcQ: list_add_tail
insertProcQ(q, p) == Append(q, p)

\* headProcQ and removeProcQ, on a queue that is not empty
headProcQ(q) == Head(q)
removeProcQ(q) == Tail(q)

\* outProcQ: the first occurrence of p leaves the queue, the rest keep their order
outProcQ(q, p) == RemoveFirst(q, p)

\* The queue after outProcQ of every member of S
outAllProcQ(q, S) ==
  LET kept[n \in 0 .. Len(q)] == IF n = 0 THEN mkEmptyProcQ
                                 ELSE IF q[n] \in S THEN kept[n - 1]
                                 ELSE insertProcQ(kept[n - 1], q[n])
  IN kept[Len(q)]

\* No PCB is linked twice into the queue
Distinct(q) == \A i, j \in DOMAIN q : q[i] = q[j] => i = j
=============================================================================
