------------------------------- MODULE Listx -------------------------------
(***************************************************************************)
(* The circular doubly linked lists of listx.h, and the PCB pool, process  *)
(* queues and process tree that pcb.c builds from them, pointer by         *)
(* pointer.  A list_head is embedded in a PCB (p_list, p_sib, p_child), or *)
(* is the head of the pool or of a queue.  The order of the assignments is *)
(* that of the code, so that coinciding nodes come out as they do there.   *)
(***************************************************************************)
EXTENDS Integers, Sequences

CONSTANTS MAXPROC, Queue, NULL

Pcb == 1 .. MAXPROC

ASSUME ListxAssumption == MAXPROC \in Nat \ {0} /\ NULL \notin Pcb

p_list(p) == << "p_list", p >>
p_sib(p) == << "p_sib", p >>
p_child(p) == << "p_child", p >>
pcbFree_h == << "pcbFree_h", NULL >>
head(h) == << "head", h >>

ListNode == {p_list(p) : p \in Pcb}
SibNode == {p_sib(p) : p \in Pcb}
ChildNode == {p_child(p) : p \in Pcb}
HeadNode == {head(h) : h \in Queue}
Node == ListNode \cup SibNode \cup ChildNode \cup HeadNode \cup {pcbFree_h}

\* container_of, for a list_head embedded in a PCB
container_of(n) == n[2]

-----------------------------------------------------------------------------
(* listx.h, on the pointers L of all nodes *)

INIT_LIST_HEAD(L, n) ==
  [next |-> [L.next EXCEPT ![n] = n], prev |-> [L.prev EXCEPT ![n] = n]]

\* A bug of list_insert: the link back from the old first node is forgotten
list_insertOneWay(L, new, prev, next) ==
  [next |-> [L.next EXCEPT ![new] = next, ![prev] = new],
   prev |-> [L.prev EXCEPT ![new] = prev]]

\* __list_add
list_insert(L, new, prev, next) ==
  [next |-> [L.next EXCEPT ![new] = next, ![prev] = new],
   prev |-> [L.prev EXCEPT ![next] = new, ![new] = prev]]

list_add(L, new, h) == list_insert(L, new, h, L.next[h])

\* A bug of list_add_tail: list_add
list_add_tailAtHead(L, new, h) == list_add(L, new, h)

list_add_tail(L, new, h) == list_insert(L, new, L.prev[h], h)

list_del(L, e) ==
  [next |-> [L.next EXCEPT ![L.prev[e]] = L.next[e], ![e] = e],
   prev |-> [L.prev EXCEPT ![L.next[e]] = L.prev[e], ![e] = e]]

list_empty(L, h) == L.next[h] = h

\* The nodes of N that list_for_each visits from h
list_for_each(L, h, N) ==
  {n \in N : \A S \in SUBSET N :
     ({L.next[h]} \cup {L.next[m] : m \in S}) \cap N \subseteq S => n \in S}

-----------------------------------------------------------------------------
(* pcb.c *)

VARIABLES
  links,       \* the next and prev of every node
  p_parent,
  used         \* the PCBs that allocPcb has handed out

vars == << links, p_parent, used >>

TypeOK ==
  /\ links \in [next : [Node -> Node], prev : [Node -> Node]]
  /\ p_parent \in [Pcb -> Pcb \cup {NULL}]
  /\ used \subseteq Pcb

\* initPcbs frees the table in order, so the last PCB is the first of the pool.
\* Lists start empty, p_sib and p_child too (allocPcb sets them before any use).
Init ==
  /\ links = [next |-> [n \in Node |->
                CASE n = pcbFree_h -> p_list(MAXPROC)
                  [] n \in ListNode -> IF n = p_list(1) THEN pcbFree_h
                                       ELSE p_list(container_of(n) - 1)
                  [] OTHER -> n],
              prev |-> [n \in Node |->
                CASE n = pcbFree_h -> p_list(1)
                  [] n \in ListNode -> IF n = p_list(MAXPROC) THEN pcbFree_h
                                       ELSE p_list(container_of(n) + 1)
                  [] OTHER -> n]]
  /\ p_parent = [p \in Pcb |-> NULL]
  /\ used = {}

\* A node that is in no list: list_del and INIT_LIST_HEAD leave it so
Alone(n) == links.next[n] = n

allocPcb ==
  /\ ~ list_empty(links, pcbFree_h)
  /\ LET removed == links.next[pcbFree_h]
         p == container_of(removed)
         L == INIT_LIST_HEAD(list_del(links, removed), p_list(p))
     IN /\ links' = INIT_LIST_HEAD(INIT_LIST_HEAD(L, p_child(p)), p_sib(p))
        /\ p_parent' = [p_parent EXCEPT ![p] = NULL]
        /\ used' = used \cup {p}

freePcb(p) ==
  /\ links' = list_add(links, p_list(p), pcbFree_h)
  /\ used' = used \ {p}
  /\ UNCHANGED p_parent

insertProcQ(h, p) ==
  /\ links' = list_add_tail(links, p_list(p), head(h))
  /\ UNCHANGED << p_parent, used >>

removeProcQ(h) ==
  /\ ~ list_empty(links, head(h))
  /\ links' = list_del(links, p_list(container_of(links.next[head(h)])))
  /\ UNCHANGED << p_parent, used >>

\* A bug of outProcQ: p is removed from whatever queue it is in
outProcQAnywhere(h, p) ==
  /\ links' = list_del(links, p_list(p))
  /\ UNCHANGED << p_parent, used >>

outProcQ(h, p) ==
  /\ p_list(p) \in list_for_each(links, head(h), ListNode)
  /\ links' = list_del(links, p_list(p))
  /\ UNCHANGED << p_parent, used >>

insertChild(prnt, p) ==
  /\ links' = list_add(links, p_sib(p), p_child(prnt))
  /\ p_parent' = [p_parent EXCEPT ![p] = prnt]
  /\ UNCHANGED used

\* A bug of removeChild: the child keeps its parent
removeChildKeepsParent(p) ==
  /\ p \in used /\ ~ list_empty(links, p_child(p))
  /\ links' = list_del(links, links.next[p_child(p)])
  /\ UNCHANGED << p_parent, used >>

removeChild(p) ==
  /\ p \in used /\ ~ list_empty(links, p_child(p))
  /\ LET child == links.next[p_child(p)]
     IN /\ links' = list_del(links, child)
        /\ p_parent' = [p_parent EXCEPT ![container_of(child)] = NULL]
  /\ UNCHANGED used

\* A bug of outChild: the first child leaves
outChildFirst(p) ==
  /\ p \in used /\ p_parent[p] # NULL
  /\ links' = list_del(links, links.next[p_child(p_parent[p])])
  /\ p_parent' = [p_parent EXCEPT ![p] = NULL]
  /\ UNCHANGED used

\* The search ends on the head when p is not among the children of its parent,
\* and then it is the head that list_del takes out
outChild(p) ==
  /\ p \in used /\ p_parent[p] # NULL
  /\ LET children == p_child(p_parent[p])
         child == IF p_sib(p) \in list_for_each(links, children, SibNode) THEN p_sib(p)
                  ELSE children
     IN links' = list_del(links, child)
  /\ p_parent' = [p_parent EXCEPT ![p] = NULL]
  /\ UNCHANGED used

\* What pcb.c relies on and does not test.  Its callers queue a process that is in
\* no queue, insert a new one that has no children, and free one that is in no
\* queue and has left the tree.  One call breaks this: terminateSubtree frees a
\* process that was woken while it is still linked in the ready queue
\* (exceptions.c:356-369); what becomes of the lists then is not followed.
Unqueued(p) == p \in used /\ Alone(p_list(p))
Unrelated(p) == p \in used /\ p_parent[p] = NULL /\ Alone(p_child(p))
Adopts(prnt, p) == prnt \in used \ {p} /\ Unrelated(p)

Next ==
  \/ allocPcb
  \/ \E p \in Pcb : \/ Unqueued(p) /\ Unrelated(p) /\ freePcb(p)
                    \/ removeChild(p) \/ outChild(p)
                    \/ \E prnt \in Pcb : Adopts(prnt, p) /\ insertChild(prnt, p)
  \/ \E h \in Queue : \/ removeProcQ(h)
                      \/ \E p \in Pcb : Unqueued(p) /\ insertProcQ(h, p)
                      \/ \E p \in Pcb : outProcQ(h, p)

Spec == Init /\ [][Next]_vars

-----------------------------------------------------------------------------

\* Every list can be walked both ways: next and prev are inverse to each other,
\* whatever nodes an operation takes out or puts in (src/headers/listx.h:104-159).
Linked == \A n \in Node : links.prev[links.next[n]] = n /\ links.next[links.prev[n]] = n

\* Lists stay apart: some assignment of the queued processes to queues has each
\* node linked to nodes of its own list only.  So container_of is applied to what
\* it is for: the pool links free PCBs, a queue its processes, and a p_child the
\* p_sibs of processes that have this PCB as their parent (pcb.c:43, 89, 148).
Family(at, n) ==
  CASE n = pcbFree_h -> << "pool" >>
    [] n \in HeadNode -> << "queue", container_of(n) >>
    [] n \in ListNode -> IF container_of(n) \in used THEN << "queue", at[container_of(n)] >>
                         ELSE << "pool" >>
    [] n \in ChildNode -> << "children", container_of(n) >>
    [] n \in SibNode -> IF p_parent[container_of(n)] = NULL THEN << "orphan", container_of(n) >>
                        ELSE << "children", p_parent[container_of(n)] >>

SortedBy(at) == \A n \in Node : Family(at, links.next[n]) = Family(at, n)
Sorted == \E at \in [Pcb -> Queue \cup {NULL}] : SortedBy(at)

\* outChild finds a process with a parent among the children of that parent: its
\* search, which has no case for a failure, takes out no head (pcb.c:164-171).
Found ==
  \A p \in Pcb : p_parent[p] # NULL =>
    p_sib(p) \in list_for_each(links, p_child(p_parent[p]), SibNode)

\* Read as sequences, the linked lists are the pool, the queues and the children
\* that pcb.c promises; removing what is in no queue changes nothing.
Owners(L, h) ==
  LET node[k \in 0 .. MAXPROC + 1] == IF k = 0 THEN h ELSE L.next[node[k - 1]]
      last == CHOOSE k \in 0 .. MAXPROC : node[k + 1] = h /\ \A j \in 1 .. k : node[j] # h
  IN [k \in 1 .. last |-> container_of(node[k])]

Lists == INSTANCE PcbLists WITH
  pool <- Owners(links, pcbFree_h),
  queue <- [h \in Queue |-> Owners(links, head(h))],
  children <- [p \in Pcb |-> Owners(links, p_child(p))]

ListsSpec == Lists!Spec
=============================================================================
