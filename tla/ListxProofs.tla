----------------------------- MODULE ListxProofs -----------------------------
(***************************************************************************)
(* For any number of PCBs and queues, the linked lists of pcb.c stay       *)
(* linked both ways, apart from each other, and outChild's search succeeds.*)
(* Read as sequences, they implement the lists of PcbLists.                *)
(***************************************************************************)
EXTENDS Listx, SequenceTheorems, FiniteSetTheorems, TLAPS

\* Lemmas about process queues as sequences
Q == INSTANCE ProcQTheorems

Links == [next : [Node -> Node], prev : [Node -> Node]]
Chained(L) == \A n \in Node : L.prev[L.next[n]] = n /\ L.next[L.prev[n]] = n

-----------------------------------------------------------------------------
(* The nodes *)

\* The embedded list_heads of all PCBs and the heads are different nodes.
LEMMA NodeFacts ==
  ASSUME NEW p \in Pcb
  PROVE  /\ p_list(p) \in ListNode /\ p_list(p) \in Node /\ container_of(p_list(p)) = p
         /\ p_sib(p) \in SibNode /\ p_sib(p) \in Node /\ container_of(p_sib(p)) = p
         /\ p_child(p) \in ChildNode /\ p_child(p) \in Node /\ container_of(p_child(p)) = p
BY DEF p_list, p_sib, p_child, ListNode, SibNode, ChildNode, Node, container_of

LEMMA HeadFacts == pcbFree_h \in Node /\ \A h \in Queue : head(h) \in HeadNode /\ head(h) \in Node
BY DEF pcbFree_h, head, HeadNode, Node

LEMMA KindsDisjoint ==
  /\ ListNode \cap (SibNode \cup ChildNode \cup HeadNode \cup {pcbFree_h}) = {}
  /\ SibNode \cap (ChildNode \cup HeadNode \cup {pcbFree_h}) = {}
  /\ ChildNode \cap (HeadNode \cup {pcbFree_h}) = {}
  /\ pcbFree_h \notin HeadNode
BY DEF ListNode, SibNode, ChildNode, HeadNode, p_list, p_sib, p_child, head, pcbFree_h

\* A node of a kind belongs to a PCB, which container_of returns.
LEMMA OwnerFacts ==
  /\ \A n \in ListNode : container_of(n) \in Pcb /\ n = p_list(container_of(n))
  /\ \A n \in SibNode : container_of(n) \in Pcb /\ n = p_sib(container_of(n))
  /\ \A n \in ChildNode : container_of(n) \in Pcb /\ n = p_child(container_of(n))
BY DEF ListNode, SibNode, ChildNode, p_list, p_sib, p_child, container_of

-----------------------------------------------------------------------------
(* The operations of listx.h *)

\* list_del takes e out of its list, joins its neighbours, and leaves e alone.
LEMMA DelLinks ==
  ASSUME NEW L \in Links, Chained(L), NEW e \in Node
  PROVE  LET D == list_del(L, e)
         IN /\ D \in Links /\ Chained(D)
            /\ D.next[e] = e
            /\ \A n \in Node \ {e} : D.next[n] = IF L.next[n] = e THEN L.next[e] ELSE L.next[n]
<1> DEFINE D == list_del(L, e)
<1>1. D \in Links
  BY DEF Links, list_del, Chained
<1>2. \A n \in Node : D.next[n] = IF n = e THEN e ELSE IF n = L.prev[e] THEN L.next[e] ELSE L.next[n]
  BY DEF Links, list_del, Chained
<1>3. \A n \in Node : D.prev[n] = IF n = e THEN e ELSE IF n = L.next[e] THEN L.prev[e] ELSE L.prev[n]
  BY DEF Links, list_del, Chained
<1>4. \A n \in Node : n = L.prev[e] <=> L.next[n] = e
  BY DEF Links, Chained
<1>5. \A n \in Node : n = L.next[e] <=> L.prev[n] = e
  BY DEF Links, Chained
<1> HIDE DEF D
<1>6. \A n \in Node : D.prev[D.next[n]] = n
  <2> SUFFICES ASSUME NEW n \in Node PROVE D.prev[D.next[n]] = n
    OBVIOUS
  <2>1. L.next[n] \in Node /\ L.prev[L.next[n]] = n
    BY DEF Links, Chained
  <2>2. L.next[e] \in Node /\ L.prev[L.next[e]] = e
    BY DEF Links, Chained
  <2>3. CASE n = e
    BY <2>3, <1>2, <1>3
  <2>4. CASE n # e /\ L.next[n] = e
    <3>1. n = L.prev[e] /\ D.next[n] = L.next[e]
      BY <2>4, <1>2, <1>4
    <3>2. L.next[e] # e
      BY <3>1, <2>2, <2>4
    <3> QED BY <3>1, <3>2, <2>2, <1>3
  <2>5. CASE n # e /\ L.next[n] # e
    <3>1. D.next[n] = L.next[n]
      BY <2>5, <1>2, <1>4
    <3>2. L.next[n] # L.next[e]
      BY <2>1, <2>2, <2>5
    <3> QED BY <3>1, <3>2, <2>1, <2>5, <1>3
  <2> QED BY <2>3, <2>4, <2>5
<1>7. \A n \in Node : D.next[D.prev[n]] = n
  <2> SUFFICES ASSUME NEW n \in Node PROVE D.next[D.prev[n]] = n
    OBVIOUS
  <2>1. L.prev[n] \in Node /\ L.next[L.prev[n]] = n
    BY DEF Links, Chained
  <2>2. L.prev[e] \in Node /\ L.next[L.prev[e]] = e
    BY DEF Links, Chained
  <2>3. CASE n = e
    BY <2>3, <1>2, <1>3
  <2>4. CASE n # e /\ L.prev[n] = e
    <3>1. n = L.next[e] /\ D.prev[n] = L.prev[e]
      BY <2>4, <1>3, <1>5
    <3>2. L.prev[e] # e
      BY <3>1, <2>2, <2>4
    <3> QED BY <3>1, <3>2, <2>2, <1>2
  <2>5. CASE n # e /\ L.prev[n] # e
    <3>1. D.prev[n] = L.prev[n]
      BY <2>5, <1>3, <1>5
    <3>2. L.prev[n] # L.prev[e]
      BY <2>1, <2>2, <2>5
    <3> QED BY <3>1, <3>2, <2>1, <2>5, <1>2
  <2> QED BY <2>3, <2>4, <2>5
<1>8. Chained(D)
  BY <1>6, <1>7 DEF Chained
<1> QED BY <1>1, <1>2, <1>4, <1>8 DEF D

\* __list_add between two neighbours puts in a node that was alone.
LEMMA InsertLinks ==
  ASSUME NEW L \in Links, Chained(L), NEW new \in Node, NEW prev \in Node,
         L.next[new] = new, prev # new
  PROVE  LET A == list_insert(L, new, prev, L.next[prev])
         IN /\ A \in Links /\ Chained(A)
            /\ A.next[prev] = new /\ A.next[new] = L.next[prev]
            /\ \A n \in Node \ {new, prev} : A.next[n] = L.next[n]
<1> DEFINE A == list_insert(L, new, prev, L.next[prev])
<1>1. A \in Links
  BY DEF Links, list_insert
<1>2. L.next[prev] \in Node /\ L.next[prev] # new /\ L.prev[new] = new
  BY DEF Links, Chained
<1>3. \A n \in Node : A.next[n] = IF n = prev THEN new ELSE IF n = new THEN L.next[prev] ELSE L.next[n]
  BY DEF Links, list_insert
<1>4. \A n \in Node : A.prev[n] = IF n = new THEN prev ELSE IF n = L.next[prev] THEN new ELSE L.prev[n]
  BY <1>2 DEF Links, list_insert
<1> HIDE DEF A
<1>5. \A n \in Node : A.prev[A.next[n]] = n
  <2> SUFFICES ASSUME NEW n \in Node PROVE A.prev[A.next[n]] = n
    OBVIOUS
  <2>1. L.next[n] \in Node /\ L.prev[L.next[n]] = n /\ L.prev[L.next[prev]] = prev
    BY DEF Links, Chained
  <2>2. CASE n = prev
    BY <2>2, <1>3, <1>4
  <2>3. CASE n = new
    BY <2>3, <1>2, <1>3, <1>4
  <2>4. CASE n # prev /\ n # new
    <3>1. A.next[n] = L.next[n]
      BY <2>4, <1>3
    <3>2. L.next[n] # new /\ L.next[n] # L.next[prev]
      BY <2>1, <2>4, <1>2
    <3> QED BY <3>1, <3>2, <2>1, <1>4
  <2> QED BY <2>2, <2>3, <2>4
<1>6. \A n \in Node : A.next[A.prev[n]] = n
  <2> SUFFICES ASSUME NEW n \in Node PROVE A.next[A.prev[n]] = n
    OBVIOUS
  <2>1. L.prev[n] \in Node /\ L.next[L.prev[n]] = n
    BY DEF Links, Chained
  <2>2. CASE n = new
    BY <2>2, <1>3, <1>4
  <2>3. CASE n = L.next[prev]
    BY <2>3, <1>2, <1>3, <1>4
  <2>4. CASE n # new /\ n # L.next[prev]
    <3>1. A.prev[n] = L.prev[n]
      BY <2>4, <1>4
    <3>2. L.prev[n] # prev /\ L.prev[n] # new
      BY <2>1, <2>4
    <3> QED BY <3>1, <3>2, <2>1, <1>3
  <2> QED BY <2>2, <2>3, <2>4
<1>7. Chained(A)
  BY <1>5, <1>6 DEF Chained
<1> QED BY <1>1, <1>3, <1>7 DEF A

\* INIT_LIST_HEAD changes nothing for a node that is alone.
LEMMA InitLinks ==
  ASSUME NEW L \in Links, Chained(L), NEW n \in Node, L.next[n] = n
  PROVE  INIT_LIST_HEAD(L, n) = L
<1>1. L.prev[n] = n
  BY DEF Chained
<1>2. [L.next EXCEPT ![n] = n] = L.next /\ [L.prev EXCEPT ![n] = n] = L.prev
  BY <1>1 DEF Links
<1> QED BY <1>2 DEF INIT_LIST_HEAD, Links

-----------------------------------------------------------------------------
(* What list_for_each visits *)

\* Taking e out loses no other node of a traversal.
LEMMA DelWalk ==
  ASSUME NEW L \in Links, Chained(L), NEW e \in Node, NEW h \in Node, h # e,
         NEW N \in SUBSET Node, NEW n \in list_for_each(L, h, N), n # e
  PROVE  n \in list_for_each(list_del(L, e), h, N)
<1> DEFINE D == list_del(L, e)
<1>1. D.next[e] = e /\ \A m \in Node \ {e} : D.next[m] = IF L.next[m] = e THEN L.next[e] ELSE L.next[m]
  BY DelLinks
<1>2. \A m \in Node : L.next[m] \in Node /\ L.prev[L.next[m]] = m /\ L.next[L.prev[m]] = m /\ L.prev[m] \in Node
  BY DEF Links, Chained
<1> HIDE DEF D
<1> SUFFICES ASSUME NEW S \in SUBSET N,
                    ({D.next[h]} \cup {D.next[m] : m \in S}) \cap N \subseteq S
             PROVE  n \in S
  BY DEF list_for_each, D
<1>3. \A m \in S \cup {h} : D.next[m] \in N => D.next[m] \in S
  OBVIOUS
<1>4. \A T \in SUBSET N : (\A m \in T \cup {h} : L.next[m] \in N => L.next[m] \in T) => n \in T
  BY DEF list_for_each
<1>5. CASE L.prev[e] \in S \cup {h}
  <2> DEFINE T == S \cup ({e} \cap N)
  <2>1. ASSUME NEW m \in T \cup {h}, L.next[m] \in N PROVE L.next[m] \in T
    <3>1. CASE L.next[m] = e
      BY <2>1, <3>1
    <3>2. CASE L.next[m] # e /\ m # e
      BY <1>1, <1>3, <2>1, <3>2
    <3>3. CASE L.next[m] # e /\ m = e
      <4>1. L.prev[e] # e /\ L.next[L.prev[e]] = e
        BY <1>2, <3>3
      <4>2. D.next[L.prev[e]] = L.next[e]
        BY <1>1, <1>2, <4>1
      <4> QED BY <1>3, <1>5, <2>1, <3>3, <4>2
    <3> QED BY <3>1, <3>2, <3>3
  <2>2. T \in SUBSET N
    OBVIOUS
  <2>3. n \in T
    BY <1>4, <2>1, <2>2
  <2> QED BY <2>3
<1>6. CASE L.prev[e] \notin S \cup {h}
  <2> DEFINE T == S \ {e}
  <2>1. ASSUME NEW m \in T \cup {h}, L.next[m] \in N PROVE L.next[m] \in T
    <3>1. L.next[m] # e /\ m # e /\ m \in Node
      BY <1>2, <1>6
    <3> QED BY <1>1, <1>3, <2>1, <3>1
  <2> QED BY <1>4, <2>1
<1> QED BY <1>5, <1>6

\* Putting a node of N in keeps the nodes of a traversal, and the traversal of
\* the list visits the new node.
LEMMA InsertWalk ==
  ASSUME NEW L \in Links, Chained(L), NEW N \in SUBSET Node, NEW new \in N, NEW prev \in Node,
         L.next[new] = new, prev # new
  PROVE  LET A == list_insert(L, new, prev, L.next[prev])
         IN /\ new \in list_for_each(A, prev, N)
            /\ \A h \in Node \ {new} : list_for_each(L, h, N) \subseteq list_for_each(A, h, N)
<1> DEFINE A == list_insert(L, new, prev, L.next[prev])
<1>1. /\ A.next[prev] = new /\ A.next[new] = L.next[prev]
      /\ \A n \in Node \ {new, prev} : A.next[n] = L.next[n]
  BY InsertLinks
<1> HIDE DEF A
<1>2. new \in list_for_each(A, prev, N)
  BY <1>1 DEF list_for_each
<1>3. ASSUME NEW h \in Node \ {new}, NEW n \in list_for_each(L, h, N)
      PROVE  n \in list_for_each(A, h, N)
  <2> SUFFICES ASSUME NEW S \in SUBSET N,
                      ({A.next[h]} \cup {A.next[m] : m \in S}) \cap N \subseteq S
               PROVE  n \in S
    BY DEF list_for_each
  <2>1. \A m \in S \cup {h} : A.next[m] \in N => A.next[m] \in S
    OBVIOUS
  <2>2. \A m \in S \cup {h} : L.next[m] \in N => L.next[m] \in S
    <3> SUFFICES ASSUME NEW m \in S \cup {h}, L.next[m] \in N PROVE L.next[m] \in S
      OBVIOUS
    <3>1. CASE m = new
      BY <3>1
    <3>2. CASE m = prev
      BY <1>1, <2>1, <3>2
    <3>3. CASE m # new /\ m # prev
      BY <1>1, <2>1, <3>3
    <3> QED BY <3>1, <3>2, <3>3
  <2> QED BY <2>2 DEF list_for_each
<1> QED BY <1>2, <1>3 DEF A

\* A traversal depends on the next of its head and of its nodes only.
LEMMA SameWalk ==
  ASSUME NEW L, NEW M, NEW N, NEW h, M.next[h] = L.next[h], \A n \in N : M.next[n] = L.next[n]
  PROVE  list_for_each(M, h, N) = list_for_each(L, h, N)
<1>1. \A S \in SUBSET N : {M.next[m] : m \in S} = {L.next[m] : m \in S}
  OBVIOUS
<1> QED BY <1>1 DEF list_for_each

-----------------------------------------------------------------------------
(* The inductive invariant *)

\* A PCB of the pool is in nobody's tree: allocPcb may initialise its p_child and
\* p_sib, which it does not take out of any list.
Unlinked == \A p \in Pcb \ used : p_parent[p] = NULL /\ Alone(p_child(p))

IInv == TypeOK /\ Linked /\ Sorted /\ Found /\ Unlinked

LEMMA FamilyFacts ==
  ASSUME NEW at
  PROVE  /\ \A p \in Pcb :
              /\ Family(at, p_list(p)) = IF p \in used THEN << "queue", at[p] >> ELSE << "pool" >>
              /\ Family(at, p_child(p)) = << "children", p >>
              /\ Family(at, p_sib(p)) = IF p_parent[p] = NULL THEN << "orphan", p >>
                                        ELSE << "children", p_parent[p] >>
         /\ Family(at, pcbFree_h) = << "pool" >>
         /\ \A h \in Queue : Family(at, head(h)) = << "queue", h >>
<1>1. \A h \in Queue : container_of(head(h)) = h
  BY DEF container_of, head
<1> QED BY <1>1, NodeFacts, HeadFacts, KindsDisjoint DEF Family

\* The same, after a step.
LEMMA FamilyFactsNext ==
  ASSUME NEW at
  PROVE  /\ \A p \in Pcb :
              /\ Family(at, p_list(p))' = IF p \in used' THEN << "queue", at[p] >> ELSE << "pool" >>
              /\ Family(at, p_child(p))' = << "children", p >>
              /\ Family(at, p_sib(p))' = IF p_parent'[p] = NULL THEN << "orphan", p >>
                                         ELSE << "children", p_parent'[p] >>
         /\ Family(at, pcbFree_h)' = << "pool" >>
         /\ \A h \in Queue : Family(at, head(h))' = << "queue", h >>
<1>1. \A h \in Queue : container_of(head(h)) = h
  BY DEF container_of, head
<1> QED BY <1>1, NodeFacts, HeadFacts, KindsDisjoint DEF Family

\* Every node is one of these.
LEMMA NodeCases ==
  ASSUME NEW n \in Node
  PROVE  \/ \E p \in Pcb : n = p_list(p) \/ n = p_sib(p) \/ n = p_child(p)
         \/ n = pcbFree_h
         \/ \E h \in Queue : n = head(h)
BY DEF Node, ListNode, SibNode, ChildNode, HeadNode

\* The nodes that may follow a node of each list.
LEMMA Neighbours ==
  ASSUME TypeOK, NEW at, SortedBy(at), ListxAssumption
  PROVE  /\ \A p \in Pcb : p_parent[p] = NULL => Alone(p_sib(p))
         /\ links.next[pcbFree_h] # pcbFree_h =>
              \E p \in Pcb \ used : links.next[pcbFree_h] = p_list(p)
         /\ \A q \in Pcb : links.next[p_child(q)] # p_child(q) =>
              \E p \in Pcb : p_parent[p] = q /\ links.next[p_child(q)] = p_sib(p)
         /\ \A h \in Queue : links.next[head(h)] # head(h) =>
              \E p \in used : links.next[head(h)] = p_list(p)
<1>1. \A n \in Node : links.next[n] \in Node /\ Family(at, links.next[n]) = Family(at, n)
  BY DEF TypeOK, SortedBy
<1>2. ASSUME NEW p \in Pcb, p_parent[p] = NULL PROVE links.next[p_sib(p)] = p_sib(p)
  <2>1. Family(at, links.next[p_sib(p)]) = << "orphan", p >>
    BY <1>1, <1>2, NodeFacts, FamilyFacts
  <2>2. links.next[p_sib(p)] \in Node
    BY <1>1, NodeFacts
  <2> QED BY <2>1, <2>2, FamilyFacts, NodeCases
<1>3. links.next[pcbFree_h] # pcbFree_h => \E p \in Pcb \ used : links.next[pcbFree_h] = p_list(p)
  BY <1>1, HeadFacts, FamilyFacts, NodeCases
<1>4. ASSUME NEW q \in Pcb, links.next[p_child(q)] # p_child(q)
      PROVE  \E p \in Pcb : p_parent[p] = q /\ links.next[p_child(q)] = p_sib(p)
  <2> DEFINE m == links.next[p_child(q)]
  <2>1. m \in Node /\ Family(at, m) = << "children", q >>
    BY <1>1, NodeFacts, FamilyFacts
  <2> HIDE DEF m
  <2>2. m # pcbFree_h /\ \A h \in Queue : m # head(h)
    BY <2>1, FamilyFacts
  <2>3. ASSUME NEW p \in Pcb
        PROVE  m # p_list(p) /\ (m = p_child(p) => p = q) /\ (m = p_sib(p) => p_parent[p] = q)
    <3>1. CASE m = p_list(p)
      <4>1. Family(at, m) \in {<< "queue", at[p] >>, << "pool" >>}
        BY <3>1, FamilyFacts
      <4> QED BY <2>1, <4>1
    <3>2. CASE m = p_child(p)
      <4>1. Family(at, m) = << "children", p >>
        BY <3>2, FamilyFacts
      <4> QED BY <2>1, <3>2, <4>1, NodeFacts, KindsDisjoint
    <3>3. CASE m = p_sib(p)
      <4>1. Family(at, m) = IF p_parent[p] = NULL THEN << "orphan", p >> ELSE << "children", p_parent[p] >>
        BY <3>3, FamilyFacts
      <4> QED BY <2>1, <3>3, <4>1, NodeFacts, KindsDisjoint
    <3> QED BY <3>1, <3>2, <3>3
  <2>4. m # p_child(q)
    BY <1>4 DEF m
  <2> QED BY <2>1, <2>2, <2>3, <2>4, NodeCases DEF m
<1>5. ASSUME NEW h \in Queue, links.next[head(h)] # head(h)
      PROVE  \E p \in used : links.next[head(h)] = p_list(p)
  <2> DEFINE m == links.next[head(h)]
  <2>1. m \in Node /\ Family(at, m) = << "queue", h >>
    BY <1>1, HeadFacts, FamilyFacts
  <2> HIDE DEF m
  <2>2. m # pcbFree_h /\ \A g \in Queue : m = head(g) => g = h
    BY <2>1, FamilyFacts
  <2>3. ASSUME NEW p \in Pcb
        PROVE  m # p_child(p) /\ m # p_sib(p) /\ (m = p_list(p) => p \in used)
    <3>1. CASE m = p_child(p)
      <4>1. Family(at, m) = << "children", p >>
        BY <3>1, FamilyFacts
      <4> QED BY <2>1, <4>1
    <3>2. CASE m = p_sib(p)
      <4>1. Family(at, m) \in {<< "orphan", p >>, << "children", p_parent[p] >>}
        BY <3>2, FamilyFacts
      <4> QED BY <2>1, <4>1
    <3>3. CASE m = p_list(p)
      <4>1. Family(at, m) = IF p \in used THEN << "queue", at[p] >> ELSE << "pool" >>
        BY <3>3, FamilyFacts
      <4> QED BY <2>1, <3>3, <4>1, NodeFacts, KindsDisjoint
    <3> QED BY <3>1, <3>2, <3>3
  <2>4. m # head(h)
    BY <1>5 DEF m
  <2> QED BY <2>1, <2>2, <2>3, <2>4, NodeCases DEF m
<1> QED BY <1>2, <1>3, <1>4, <1>5 DEF Alone

-----------------------------------------------------------------------------
(* The steps *)

\* What TypeOK and Linked say of the lists of the Nucleus.
LEMMA LinksFacts ==
  ASSUME TypeOK, Linked PROVE links \in Links /\ Chained(links)
BY DEF TypeOK, Linked, Links, Chained

\* Taking any p_list out of its queue (removeProcQ, outProcQ).
LEMMA QueueDel ==
  ASSUME IInv, ListxAssumption, NEW p \in Pcb,
         links' = list_del(links, p_list(p)), UNCHANGED << p_parent, used >>
  PROVE  IInv'
<1> DEFINE e == p_list(p)
<1>1. links \in Links /\ Chained(links) /\ e \in Node
  BY LinksFacts, NodeFacts DEF IInv
<1>2. /\ links' \in Links /\ Chained(links') /\ links'.next[e] = e
      /\ \A n \in Node \ {e} : links'.next[n] = IF links.next[n] = e THEN links.next[e] ELSE links.next[n]
  BY <1>1, DelLinks
<1>3. TypeOK' /\ Linked'
  BY <1>2 DEF IInv, TypeOK, Linked, Links, Chained
<1>4. Sorted'
  <2>1. PICK at \in [Pcb -> Queue \cup {NULL}] : SortedBy(at)
    BY DEF IInv, Sorted
  <2>2. \A n : Family(at, n)' = Family(at, n)
    BY DEF Family
  <2>3. SortedBy(at)'
    BY <1>1, <1>2, <2>1, <2>2 DEF SortedBy
  <2> QED BY <2>3 DEF Sorted
<1>5. Found'
  <2> SUFFICES ASSUME NEW q \in Pcb, p_parent[q] # NULL
               PROVE  p_sib(q) \in list_for_each(links', p_child(p_parent[q]), SibNode)
    BY DEF Found
  <2>1. p_parent[q] \in Pcb /\ p_sib(q) \in list_for_each(links, p_child(p_parent[q]), SibNode)
    BY DEF IInv, Found, TypeOK
  <2>2. p_sib(q) # e /\ p_child(p_parent[q]) # e /\ p_child(p_parent[q]) \in Node /\ SibNode \subseteq Node
    BY <2>1, NodeFacts, KindsDisjoint DEF Node
  <2> HIDE DEF e
  <2> QED BY <1>1, <2>1, <2>2, DelWalk DEF e
<1>6. Unlinked'
  BY <1>2, NodeFacts, KindsDisjoint DEF IInv, Unlinked, Alone
<1> QED BY <1>3, <1>4, <1>5, <1>6 DEF IInv

\* Taking any p_sib out of the children of its parent (removeChild, outChild).
LEMMA ChildDel ==
  ASSUME IInv, ListxAssumption, NEW c \in Pcb,
         links' = list_del(links, p_sib(c)), p_parent' = [p_parent EXCEPT ![c] = NULL],
         UNCHANGED used
  PROVE  IInv'
<1> DEFINE e == p_sib(c)
<1>1. links \in Links /\ Chained(links) /\ e \in Node
  BY LinksFacts, NodeFacts DEF IInv
<1>2. /\ links' \in Links /\ Chained(links') /\ links'.next[e] = e
      /\ \A n \in Node \ {e} : links'.next[n] = IF links.next[n] = e THEN links.next[e] ELSE links.next[n]
  BY <1>1, DelLinks
<1>3. TypeOK' /\ Linked'
  BY <1>2 DEF IInv, TypeOK, Linked, Links, Chained
<1>4. Sorted'
  <2>1. PICK at \in [Pcb -> Queue \cup {NULL}] : SortedBy(at)
    BY DEF IInv, Sorted
  <2>2. \A n \in Node \ {e} : Family(at, n)' = Family(at, n)
    <3> SUFFICES ASSUME NEW n \in Node \ {e} PROVE Family(at, n)' = Family(at, n)
      OBVIOUS
    <3>1. n \in SibNode => container_of(n) # c /\ container_of(n) \in Pcb
      BY OwnerFacts
    <3>2. n \in SibNode => p_parent'[container_of(n)] = p_parent[container_of(n)]
      BY <3>1 DEF IInv, TypeOK
    <3> QED BY <3>2 DEF Family
  <2>3. \A n \in Node : links.next[n] \in Node /\ (links.next[n] = e /\ n # e => links.next[e] # e)
    BY <1>1 DEF Links, Chained
  <2>4. SortedBy(at)'
    BY <1>1, <1>2, <2>1, <2>2, <2>3 DEF SortedBy
  <2> QED BY <2>4 DEF Sorted
<1>5. Found'
  <2> SUFFICES ASSUME NEW q \in Pcb, p_parent'[q] # NULL
               PROVE  p_sib(q) \in list_for_each(links', p_child(p_parent'[q]), SibNode)
    BY DEF Found
  <2>1. q # c /\ p_parent'[q] = p_parent[q]
    BY DEF IInv, TypeOK
  <2>2. p_parent[q] \in Pcb /\ p_sib(q) \in list_for_each(links, p_child(p_parent[q]), SibNode)
    BY <2>1 DEF IInv, Found, TypeOK
  <2>3. p_sib(q) # e /\ p_child(p_parent[q]) # e /\ p_child(p_parent[q]) \in Node /\ SibNode \subseteq Node
    BY <2>1, <2>2, NodeFacts, KindsDisjoint DEF Node
  <2> HIDE DEF e
  <2> QED BY <1>1, <2>1, <2>2, <2>3, DelWalk DEF e
<1>6. Unlinked'
  BY <1>2, NodeFacts, KindsDisjoint DEF IInv, Unlinked, Alone, TypeOK
<1> QED BY <1>3, <1>4, <1>5, <1>6 DEF IInv

\* allocPcb takes out the first PCB of the pool; the initialisations change nothing.
LEMMA AllocLinks ==
  ASSUME IInv, ListxAssumption, allocPcb
  PROVE  \E p \in Pcb \ used :
           /\ links.next[pcbFree_h] = p_list(p)
           /\ links' = list_del(links, p_list(p))
           /\ p_parent' = p_parent /\ used' = used \cup {p}
<1>1. PICK at \in [Pcb -> Queue \cup {NULL}] : SortedBy(at)
  BY DEF IInv, Sorted
<1>2. PICK p \in Pcb \ used : links.next[pcbFree_h] = p_list(p)
  BY <1>1, Neighbours DEF IInv, allocPcb, list_empty
<1> DEFINE e == p_list(p)
           D == list_del(links, e)
<1>3. links \in Links /\ Chained(links) /\ e \in Node /\ container_of(e) = p
  BY LinksFacts, NodeFacts DEF IInv
<1>4. /\ D \in Links /\ Chained(D) /\ D.next[e] = e
      /\ \A n \in Node \ {e} : D.next[n] = IF links.next[n] = e THEN links.next[e] ELSE links.next[n]
  BY <1>3, DelLinks
<1>5. /\ p_parent[p] = NULL
      /\ links.next[p_child(p)] = p_child(p) /\ links.next[p_sib(p)] = p_sib(p)
  BY <1>1, <1>2, Neighbours DEF IInv, Unlinked, Alone
<1>6. /\ D.next[p_child(p)] = p_child(p) /\ D.next[p_sib(p)] = p_sib(p)
      /\ p_child(p) # e /\ p_sib(p) # e
  BY <1>2, <1>4, <1>5, NodeFacts, KindsDisjoint
<1>7. links' = INIT_LIST_HEAD(INIT_LIST_HEAD(INIT_LIST_HEAD(D, e), p_child(p)), p_sib(p))
  BY <1>2, <1>3 DEF allocPcb
<1> HIDE DEF D
<1>8. links' = D
  BY <1>2, <1>4, <1>6, <1>7, InitLinks, NodeFacts
<1>9. p_parent' = p_parent /\ used' = used \cup {p}
  BY <1>2, <1>3, <1>5 DEF allocPcb, IInv, TypeOK
<1> QED BY <1>2, <1>8, <1>9 DEF D

\* The pool loses its first PCB.
LEMMA AllocKeeps ==
  ASSUME IInv, ListxAssumption, allocPcb
  PROVE  IInv'
<1>1. PICK at \in [Pcb -> Queue \cup {NULL}] : SortedBy(at)
  BY DEF IInv, Sorted
<1>2. PICK p \in Pcb \ used :
        /\ links' = list_del(links, p_list(p))
        /\ p_parent' = p_parent /\ used' = used \cup {p}
  BY AllocLinks
<1> DEFINE e == p_list(p)
<1>3. links \in Links /\ Chained(links) /\ e \in Node /\ container_of(e) = p
  BY LinksFacts, NodeFacts DEF IInv
<1>4. /\ links' \in Links /\ Chained(links') /\ links'.next[e] = e
      /\ \A n \in Node \ {e} : links'.next[n] = IF links.next[n] = e THEN links.next[e] ELSE links.next[n]
  BY <1>2, <1>3, DelLinks
<1>5. TypeOK' /\ Linked'
  <2>1. TypeOK'
    BY <1>2, <1>4 DEF IInv, TypeOK, Links
  <2>2. Linked'
    BY <1>4 DEF Linked, Chained
  <2> QED BY <2>1, <2>2
<1>6. Sorted'
  <2>1. \A n \in Node \ {e} : Family(at, n)' = Family(at, n)
    <3> SUFFICES ASSUME NEW n \in Node \ {e} PROVE Family(at, n)' = Family(at, n)
      OBVIOUS
    <3>1. n \in ListNode => container_of(n) # p
      BY OwnerFacts
    <3> QED BY <1>2, <3>1 DEF Family
  <2>2. \A n \in Node : links.next[n] \in Node /\ (links.next[n] = e /\ n # e => links.next[e] # e)
    BY <1>3 DEF Links, Chained
  <2>3. SortedBy(at)'
    BY <1>1, <1>2, <1>3, <1>4, <2>1, <2>2 DEF SortedBy
  <2> QED BY <2>3 DEF Sorted
<1>7. Found'
  <2> SUFFICES ASSUME NEW q \in Pcb, p_parent[q] # NULL
               PROVE  p_sib(q) \in list_for_each(links', p_child(p_parent[q]), SibNode)
    BY <1>2 DEF Found
  <2>1. p_parent[q] \in Pcb /\ p_sib(q) \in list_for_each(links, p_child(p_parent[q]), SibNode)
    BY DEF IInv, Found, TypeOK
  <2>2. p_sib(q) # e /\ p_child(p_parent[q]) # e /\ p_child(p_parent[q]) \in Node /\ SibNode \subseteq Node
    BY <2>1, NodeFacts, KindsDisjoint DEF Node
  <2>3. links' = list_del(links, e)
    BY <1>2
  <2> HIDE DEF e
  <2> QED BY <1>3, <2>1, <2>2, <2>3, DelWalk
<1>8. Unlinked'
  BY <1>2, <1>4, NodeFacts, KindsDisjoint DEF IInv, Unlinked, Alone
<1> QED BY <1>5, <1>6, <1>7, <1>8 DEF IInv

\* Traversals of children see only p_childs and p_sibs: putting a p_list between
\* two nodes of a queue or of the pool changes none.
LEMMA ChildrenUntouched ==
  ASSUME IInv, ListxAssumption, NEW new \in ListNode, NEW prev \in ListNode \cup HeadNode \cup {pcbFree_h},
         UNCHANGED p_parent, used' \subseteq used \cup {container_of(new)},
         \A n \in Node \ {new, prev} : links'.next[n] = links.next[n]
  PROVE  /\ Found'
         /\ \A q \in Pcb : links'.next[p_child(q)] = links.next[p_child(q)]
<1>1. \A n \in SibNode \cup ChildNode : links'.next[n] = links.next[n]
  BY KindsDisjoint DEF Node
<1>2. Found'
  <2> SUFFICES ASSUME NEW q \in Pcb, p_parent[q] # NULL
               PROVE  p_sib(q) \in list_for_each(links', p_child(p_parent[q]), SibNode)
    BY DEF Found
  <2>1. p_parent[q] \in Pcb /\ p_sib(q) \in list_for_each(links, p_child(p_parent[q]), SibNode)
    BY DEF IInv, Found, TypeOK
  <2>2. p_child(p_parent[q]) \in ChildNode
    BY <2>1, NodeFacts
  <2> QED BY <1>1, <2>1, <2>2, SameWalk
<1> QED BY <1>1, <1>2, NodeFacts

\* Queueing a process that is in no queue.
LEMMA QueueInsert ==
  ASSUME IInv, ListxAssumption, NEW h \in Queue, NEW p \in Pcb, Unqueued(p), insertProcQ(h, p)
  PROVE  IInv'
<1>1. PICK at \in [Pcb -> Queue \cup {NULL}] : SortedBy(at)
  BY DEF IInv, Sorted
<1> DEFINE new == p_list(p)
           prev == links.prev[head(h)]
           now == [at EXCEPT ![p] = h]
<1>2. links \in Links /\ Chained(links) /\ new \in Node /\ new \in ListNode /\ container_of(new) = p
  BY LinksFacts, NodeFacts DEF IInv
<1>3. prev \in Node /\ links.next[prev] = head(h) /\ links.next[new] = new /\ new # head(h) /\ prev # new
  BY <1>2, HeadFacts, KindsDisjoint DEF Links, Chained, Unqueued, Alone
<1>4. links' = list_insert(links, new, prev, links.next[prev]) /\ p_parent' = p_parent /\ used' = used /\ p \in used
  BY <1>3 DEF Unqueued, insertProcQ, list_add_tail
<1> HIDE DEF prev
<1>5. /\ links' \in Links /\ Chained(links')
      /\ links'.next[prev] = new /\ links'.next[new] = head(h)
      /\ \A n \in Node \ {new, prev} : links'.next[n] = links.next[n]
  BY <1>2, <1>3, <1>4, InsertLinks
<1>6. TypeOK' /\ Linked'
  BY <1>4, <1>5 DEF IInv, TypeOK, Linked, Links, Chained
<1>7. Family(at, prev) = << "queue", h >>
  <2>1. Family(at, links.next[prev]) = Family(at, prev)
    BY <1>1, <1>3 DEF SortedBy
  <2>2. Family(at, head(h)) = << "queue", h >>
    BY FamilyFacts
  <2> QED BY <1>3, <2>1, <2>2
<1>8. prev \in ListNode \cup HeadNode \cup {pcbFree_h}
  <2>1. ASSUME NEW c \in Pcb
        PROVE  Family(at, p_child(c)) # << "queue", h >> /\ Family(at, p_sib(c)) # << "queue", h >>
    <3>1. Family(at, p_child(c)) = << "children", c >>
      BY FamilyFacts
    <3>2. Family(at, p_sib(c)) \in {<< "orphan", c >>, << "children", p_parent[c] >>}
      BY FamilyFacts
    <3> QED BY <3>1, <3>2
  <2>2. prev \notin SibNode /\ prev \notin ChildNode
    BY <1>7, <2>1, OwnerFacts
  <2> QED BY <1>3, <2>2 DEF Node
<1>9. Sorted'
  <2>1. \A n \in Node \ {new} : Family(now, n)' = Family(at, n)
    <3> SUFFICES ASSUME NEW n \in Node \ {new} PROVE Family(now, n)' = Family(at, n)
      OBVIOUS
    <3>1. n \in ListNode => container_of(n) # p /\ container_of(n) \in Pcb
      BY OwnerFacts
    <3> QED BY <1>4, <3>1 DEF Family
  <2>2. Family(now, new)' = << "queue", h >> /\ Family(now, head(h))' = << "queue", h >>
    <3>1. now[p] = h /\ p \in used'
      BY <1>4
    <3> HIDE DEF now
    <3> QED BY <3>1, FamilyFactsNext
  <2>3. \A n \in Node \ {new} : links.next[n] \in Node \ {new}
    BY <1>2, <1>3 DEF Links, Chained
  <2>4. SortedBy(now)'
    BY <1>1, <1>2, <1>3, <1>5, <1>7, <2>1, <2>2, <2>3 DEF SortedBy
  <2> QED BY <2>4 DEF Sorted
<1>10. Found' /\ Unlinked'
  BY <1>2, <1>4, <1>5, <1>8, ChildrenUntouched DEF IInv, Unlinked, Alone
<1> QED BY <1>6, <1>9, <1>10 DEF IInv

\* Returning a PCB that is in no queue and no tree to the pool.
LEMMA FreeKeeps ==
  ASSUME IInv, ListxAssumption, NEW p \in Pcb, Unqueued(p), Unrelated(p), freePcb(p)
  PROVE  IInv'
<1>1. PICK at \in [Pcb -> Queue \cup {NULL}] : SortedBy(at)
  BY DEF IInv, Sorted
<1> DEFINE new == p_list(p)
<1>2. links \in Links /\ Chained(links) /\ new \in Node /\ new \in ListNode /\ container_of(new) = p
  BY LinksFacts, NodeFacts DEF IInv
<1>3. /\ links.next[new] = new /\ links.next[p_child(p)] = p_child(p) /\ p_parent[p] = NULL /\ p \in used
      /\ links' = list_insert(links, new, pcbFree_h, links.next[pcbFree_h])
      /\ p_parent' = p_parent /\ used' = used \ {p} /\ pcbFree_h # new /\ pcbFree_h \in Node
  BY <1>2, HeadFacts, KindsDisjoint DEF freePcb, Unqueued, Unrelated, Alone, list_add
<1>4. /\ links' \in Links /\ Chained(links')
      /\ links'.next[pcbFree_h] = new /\ links'.next[new] = links.next[pcbFree_h]
      /\ \A n \in Node \ {new, pcbFree_h} : links'.next[n] = links.next[n]
  BY <1>2, <1>3, InsertLinks
<1>5. TypeOK' /\ Linked'
  BY <1>3, <1>4 DEF IInv, TypeOK, Linked, Links, Chained
<1>6. Sorted'
  <2>1. \A n \in Node \ {new} : Family(at, n)' = Family(at, n)
    <3> SUFFICES ASSUME NEW n \in Node \ {new} PROVE Family(at, n)' = Family(at, n)
      OBVIOUS
    <3>1. n \in ListNode => container_of(n) # p /\ container_of(n) \in Pcb
      BY OwnerFacts
    <3> QED BY <1>3, <3>1 DEF Family
  <2>2. Family(at, new)' = << "pool" >> /\ Family(at, pcbFree_h)' = << "pool" >>
    BY <1>3, FamilyFactsNext
  <2>3. \A n \in Node \ {new} : links.next[n] \in Node \ {new}
    BY <1>2, <1>3 DEF Links, Chained
  <2>4. SortedBy(at)'
    BY <1>1, <1>2, <1>3, <1>4, <2>1, <2>2, <2>3 DEF SortedBy
  <2> QED BY <2>4 DEF Sorted
<1>7. Found' /\ Unlinked'
  BY <1>2, <1>3, <1>4, ChildrenUntouched DEF IInv, Unlinked, Alone
<1> QED BY <1>5, <1>6, <1>7 DEF IInv

\* Making a process without a parent the first child of another.
LEMMA ChildInsert ==
  ASSUME IInv, ListxAssumption, NEW prnt \in Pcb, NEW p \in Pcb, Adopts(prnt, p), insertChild(prnt, p)
  PROVE  IInv'
<1>1. PICK at \in [Pcb -> Queue \cup {NULL}] : SortedBy(at)
  BY DEF IInv, Sorted
<1> DEFINE new == p_sib(p)
           prev == p_child(prnt)
<1>2. links \in Links /\ Chained(links) /\ new \in Node /\ new \in SibNode /\ prev \in Node /\ prev # new
  BY LinksFacts, NodeFacts, KindsDisjoint DEF IInv
<1>3. /\ p_parent[p] = NULL /\ p \in used /\ prnt \in used /\ prnt # p
      /\ links' = list_insert(links, new, prev, links.next[prev])
      /\ p_parent' = [p_parent EXCEPT ![p] = prnt] /\ used' = used
  BY DEF insertChild, Adopts, Unrelated, list_add
<1>4. links.next[new] = new
  BY <1>1, <1>3, Neighbours DEF IInv, Alone
<1>5. /\ links' \in Links /\ Chained(links')
      /\ links'.next[prev] = new /\ links'.next[new] = links.next[prev]
      /\ \A n \in Node \ {new, prev} : links'.next[n] = links.next[n]
  BY <1>2, <1>3, <1>4, InsertLinks
<1>6. TypeOK' /\ Linked'
  BY <1>3, <1>5 DEF IInv, TypeOK, Linked, Links, Chained
<1>7. p_parent'[p] = prnt /\ \A q \in Pcb \ {p} : p_parent'[q] = p_parent[q]
  BY <1>3 DEF IInv, TypeOK
<1>8. Sorted'
  <2>1. \A n \in Node \ {new} : Family(at, n)' = Family(at, n)
    <3> SUFFICES ASSUME NEW n \in Node \ {new} PROVE Family(at, n)' = Family(at, n)
      OBVIOUS
    <3>1. n \in SibNode => container_of(n) # p /\ container_of(n) \in Pcb
      BY OwnerFacts
    <3> QED BY <1>3, <1>7, <3>1 DEF Family
  <2>2. Family(at, new)' = << "children", prnt >> /\ Family(at, prev)' = << "children", prnt >>
    BY <1>7, FamilyFactsNext, ListxAssumption
  <2>3. \A n \in Node \ {new} : links.next[n] \in Node \ {new}
    BY <1>2, <1>4 DEF Links, Chained
  <2>4. SortedBy(at)'
    BY <1>1, <1>2, <1>5, <2>1, <2>2, <2>3 DEF SortedBy
  <2> QED BY <2>4 DEF Sorted
<1>9. Found'
  <2> SUFFICES ASSUME NEW q \in Pcb, p_parent'[q] # NULL
               PROVE  p_sib(q) \in list_for_each(links', p_child(p_parent'[q]), SibNode)
    BY DEF Found
  <2>1. SibNode \in SUBSET Node
    BY DEF Node
  <2>2. /\ new \in list_for_each(links', prev, SibNode)
        /\ \A h \in Node \ {new} : list_for_each(links, h, SibNode) \subseteq list_for_each(links', h, SibNode)
    BY <1>2, <1>3, <1>4, <2>1, InsertWalk
  <2>3. CASE q = p
    BY <1>7, <2>2, <2>3
  <2>4. CASE q # p
    <3>1. p_parent'[q] = p_parent[q] /\ p_parent[q] \in Pcb
      BY <1>7, <2>4 DEF IInv, TypeOK
    <3>2. p_child(p_parent[q]) \in Node \ {new}
      BY <1>2, <3>1, NodeFacts, KindsDisjoint
    <3>3. p_sib(q) \in list_for_each(links, p_child(p_parent[q]), SibNode)
      BY <3>1 DEF IInv, Found
    <3> QED BY <2>2, <3>1, <3>2, <3>3
  <2> QED BY <2>3, <2>4
<1>10. Unlinked'
  <2> SUFFICES ASSUME NEW q \in Pcb \ used PROVE p_parent'[q] = NULL /\ links'.next[p_child(q)] = p_child(q)
    BY <1>3 DEF Unlinked, Alone
  <2>1. p_child(q) # new /\ p_child(q) # prev /\ p_child(q) \in Node
    BY <1>2, <1>3, NodeFacts, KindsDisjoint
  <2> QED BY <1>3, <1>5, <1>7, <2>1 DEF IInv, Unlinked, Alone
<1> QED BY <1>6, <1>8, <1>9, <1>10 DEF IInv

-----------------------------------------------------------------------------
(* The invariants *)

\* The pointers that initPcbs leaves.
LEMMA InitNodes ==
  ASSUME ListxAssumption, Init
  PROVE  /\ 1 \in Pcb /\ MAXPROC \in Pcb
         /\ \A p \in Pcb : /\ p \in Int /\ 1 <= p /\ p <= MAXPROC
                           /\ (p # 1 => p - 1 \in Pcb) /\ (p # MAXPROC => p + 1 \in Pcb)
         /\ links.next[pcbFree_h] = p_list(MAXPROC) /\ links.prev[pcbFree_h] = p_list(1)
         /\ \A p \in Pcb :
              /\ links.next[p_list(p)] = (IF p = 1 THEN pcbFree_h ELSE p_list(p - 1))
              /\ links.prev[p_list(p)] = (IF p = MAXPROC THEN pcbFree_h ELSE p_list(p + 1))
         /\ \A n \in Node : n # pcbFree_h /\ n \notin ListNode => links.next[n] = n /\ links.prev[n] = n
<1>1. 1 \in Pcb /\ MAXPROC \in Pcb /\ \A p \in Pcb : p \in Int /\ 1 <= p /\ p <= MAXPROC
  BY DEF ListxAssumption, Pcb
<1>2. \A p \in Pcb : (p # 1 => p - 1 \in Pcb) /\ (p # MAXPROC => p + 1 \in Pcb)
  BY DEF ListxAssumption, Pcb
<1>3. links.next[pcbFree_h] = p_list(MAXPROC) /\ links.prev[pcbFree_h] = p_list(1)
  BY HeadFacts, KindsDisjoint DEF Init
<1>4. ASSUME NEW p \in Pcb
      PROVE  /\ links.next[p_list(p)] = (IF p = 1 THEN pcbFree_h ELSE p_list(p - 1))
             /\ links.prev[p_list(p)] = (IF p = MAXPROC THEN pcbFree_h ELSE p_list(p + 1))
  <2>1. /\ p_list(p) \in Node /\ p_list(p) # pcbFree_h /\ p_list(p) \in ListNode
        /\ container_of(p_list(p)) = p
    BY NodeFacts, KindsDisjoint
  <2>2. (p_list(p) = p_list(1) <=> p = 1) /\ (p_list(p) = p_list(MAXPROC) <=> p = MAXPROC)
    BY DEF p_list
  <2> QED BY <2>1, <2>2 DEF Init
<1>5. ASSUME NEW n \in Node, n # pcbFree_h, n \notin ListNode
       PROVE  links.next[n] = n /\ links.prev[n] = n
  BY <1>5 DEF Init
<1> QED BY <1>1, <1>2, <1>3, <1>4, <1>5

\* initPcbs links the table into the pool.
LEMMA InitHolds ==
  ASSUME ListxAssumption, Init PROVE IInv
<1>1. 1 \in Pcb /\ MAXPROC \in Pcb /\ \A p \in Pcb : p \in Int /\ 1 <= p /\ p <= MAXPROC
  BY InitNodes
<1>2. \A p \in Pcb : (p # 1 => p - 1 \in Pcb) /\ (p # MAXPROC => p + 1 \in Pcb)
  BY InitNodes
<1>3. links.next[pcbFree_h] = p_list(MAXPROC) /\ links.prev[pcbFree_h] = p_list(1)
  BY InitNodes
<1>4. ASSUME NEW p \in Pcb
      PROVE  /\ links.next[p_list(p)] = (IF p = 1 THEN pcbFree_h ELSE p_list(p - 1))
             /\ links.prev[p_list(p)] = (IF p = MAXPROC THEN pcbFree_h ELSE p_list(p + 1))
  BY InitNodes
<1>5. ASSUME NEW n \in Node, n # pcbFree_h, n \notin ListNode
       PROVE  links.next[n] = n /\ links.prev[n] = n
  BY <1>5, InitNodes
<1>6. links \in Links
  BY <1>1, <1>2, NodeFacts, HeadFacts, OwnerFacts DEF Init, Links
<1>7. Linked
  <2> SUFFICES ASSUME NEW n \in Node PROVE links.prev[links.next[n]] = n /\ links.next[links.prev[n]] = n
    BY DEF Linked
  <2>1. CASE n = pcbFree_h
    <3>1. links.next[p_list(1)] = pcbFree_h /\ links.prev[p_list(MAXPROC)] = pcbFree_h
      BY <1>1, <1>4
    <3> QED BY <1>3, <2>1, <3>1
  <2>2. ASSUME NEW p \in Pcb, n = p_list(p) PROVE links.prev[links.next[n]] = n /\ links.next[links.prev[n]] = n
    <3>1. links.prev[links.next[n]] = n
      <4>1. CASE p = 1
        BY <1>3, <1>4, <2>2, <4>1
      <4>2. CASE p # 1
        <5>1. links.next[n] = p_list(p - 1) /\ p - 1 \in Pcb /\ p - 1 # MAXPROC /\ (p - 1) + 1 = p
          BY <1>1, <1>2, <1>4, <2>2, <4>2 DEF ListxAssumption
        <5> QED BY <1>4, <2>2, <5>1
      <4> QED BY <4>1, <4>2
    <3>2. links.next[links.prev[n]] = n
      <4>1. CASE p = MAXPROC
        BY <1>3, <1>4, <2>2, <4>1
      <4>2. CASE p # MAXPROC
        <5>1. links.prev[n] = p_list(p + 1) /\ p + 1 \in Pcb /\ p + 1 # 1 /\ (p + 1) - 1 = p
          BY <1>1, <1>2, <1>4, <2>2, <4>2 DEF ListxAssumption
        <5> QED BY <1>4, <2>2, <5>1
      <4> QED BY <4>1, <4>2
    <3> QED BY <3>1, <3>2
  <2>3. CASE n # pcbFree_h /\ n \notin ListNode
    BY <1>5, <2>3
  <2> QED BY <2>1, <2>2, <2>3, OwnerFacts
<1>8. Sorted
  <2> DEFINE at == [p \in Pcb |-> NULL]
  <2>1. \A p \in Pcb : Family(at, p_list(p)) = << "pool" >>
    BY FamilyFacts DEF Init
  <2>2. Family(at, pcbFree_h) = << "pool" >>
    BY FamilyFacts
  <2>3. SortedBy(at)
    <3> SUFFICES ASSUME NEW n \in Node PROVE Family(at, links.next[n]) = Family(at, n)
      BY DEF SortedBy
    <3>1. CASE n = pcbFree_h
      BY <1>1, <1>3, <2>1, <2>2, <3>1
    <3>2. ASSUME NEW p \in Pcb, n = p_list(p) PROVE Family(at, links.next[n]) = Family(at, n)
      BY <1>2, <1>4, <2>1, <2>2, <3>2
    <3>3. CASE n # pcbFree_h /\ n \notin ListNode
      BY <1>5, <3>3
    <3> QED BY <3>1, <3>2, <3>3, OwnerFacts
  <2>4. at \in [Pcb -> Queue \cup {NULL}]
    OBVIOUS
  <2> HIDE DEF at
  <2> QED BY <2>3, <2>4 DEF Sorted
<1>9. TypeOK /\ Found
  BY <1>6 DEF Init, TypeOK, Links, Found
<1>10. Unlinked
  BY <1>5, NodeFacts, KindsDisjoint DEF Init, Unlinked, Alone
<1> QED BY <1>7, <1>8, <1>9, <1>10 DEF IInv

\* Every operation of pcb.c keeps the invariant.
LEMMA StepKeeps ==
  ASSUME IInv, ListxAssumption, [Next]_vars
  PROVE  IInv'
<1>1. CASE allocPcb
  BY <1>1, AllocKeeps
<1>2. ASSUME NEW p \in Pcb, Unqueued(p), Unrelated(p), freePcb(p) PROVE IInv'
  BY <1>2, FreeKeeps
<1>3. ASSUME NEW p \in Pcb, removeChild(p) PROVE IInv'
  <2>1. PICK at \in [Pcb -> Queue \cup {NULL}] : SortedBy(at)
    BY DEF IInv, Sorted
  <2>2. PICK c \in Pcb : links.next[p_child(p)] = p_sib(c)
    BY <1>3, <2>1, Neighbours DEF IInv, removeChild, list_empty
  <2>3. links' = list_del(links, p_sib(c)) /\ p_parent' = [p_parent EXCEPT ![c] = NULL] /\ used' = used
    BY <1>3, <2>2, NodeFacts DEF removeChild
  <2> QED BY <2>3, ChildDel
<1>4. ASSUME NEW p \in Pcb, outChild(p) PROVE IInv'
  <2>1. links' = list_del(links, p_sib(p)) /\ p_parent' = [p_parent EXCEPT ![p] = NULL] /\ used' = used
    BY <1>4 DEF outChild, IInv, Found
  <2> QED BY <2>1, ChildDel
<1>5. ASSUME NEW prnt \in Pcb, NEW p \in Pcb, Adopts(prnt, p), insertChild(prnt, p) PROVE IInv'
  BY <1>5, ChildInsert
<1>6. ASSUME NEW h \in Queue, removeProcQ(h) PROVE IInv'
  <2>1. PICK at \in [Pcb -> Queue \cup {NULL}] : SortedBy(at)
    BY DEF IInv, Sorted
  <2>2. PICK p \in used : links.next[head(h)] = p_list(p)
    BY <1>6, <2>1, Neighbours DEF IInv, removeProcQ, list_empty
  <2>3. p \in Pcb
    BY <2>2 DEF IInv, TypeOK
  <2>4. links' = list_del(links, p_list(p)) /\ UNCHANGED << p_parent, used >>
    BY <1>6, <2>2, <2>3, NodeFacts DEF removeProcQ
  <2> QED BY <2>3, <2>4, QueueDel
<1>7. ASSUME NEW h \in Queue, NEW p \in Pcb, Unqueued(p), insertProcQ(h, p) PROVE IInv'
  BY <1>7, QueueInsert
<1>8. ASSUME NEW h \in Queue, NEW p \in Pcb, outProcQ(h, p) PROVE IInv'
  BY <1>8, QueueDel DEF outProcQ
<1>9. CASE UNCHANGED vars
  <2>1. links' = links /\ p_parent' = p_parent /\ used' = used
    BY <1>9 DEF vars
  <2>2. TypeOK' /\ Linked' /\ Found' /\ Unlinked'
    BY <2>1 DEF IInv, TypeOK, Linked, Found, Unlinked, Alone
  <2>3. PICK at \in [Pcb -> Queue \cup {NULL}] : SortedBy(at)
    BY DEF IInv, Sorted
  <2>4. \A n : Family(at, n)' = Family(at, n)
    BY <2>1 DEF Family
  <2>5. SortedBy(at)'
    BY <2>1, <2>3, <2>4 DEF SortedBy
  <2> QED BY <2>2, <2>5 DEF IInv, Sorted
<1> QED BY <1>1, <1>2, <1>3, <1>4, <1>5, <1>6, <1>7, <1>8, <1>9 DEF Next

\* The lists keep all that is claimed of them, whatever the calls.
THEOREM Invariance == Spec => []IInv
<1>1. Init => IInv
  BY InitHolds, ListxAssumption
<1>2. IInv /\ [Next]_vars => IInv'
  BY StepKeeps, ListxAssumption
<1> QED BY <1>1, <1>2, PTL DEF Spec

\* next and prev stay inverse (src/headers/listx.h:104-159).
THEOREM LinkedBothWays == Spec => []Linked
<1>1. IInv => Linked
  BY DEF IInv
<1> QED BY <1>1, Invariance, PTL

\* No node ever reaches a list it does not belong to (pcb.c:43, 89, 148).
THEOREM ListsApart == Spec => []Sorted
<1>1. IInv => Sorted
  BY DEF IInv
<1> QED BY <1>1, Invariance, PTL

\* The search of outChild never ends on the head (pcb.c:164-171).
THEOREM SearchSucceeds == Spec => []Found
<1>1. IInv => Found
  BY DEF IInv
<1> QED BY <1>1, Invariance, PTL

-----------------------------------------------------------------------------
(* Lists as sequences of PCBs *)

Heads == {pcbFree_h} \cup HeadNode \cup ChildNode

\* The node of p in a list with the head h
Elem(h, p) == IF h \in ChildNode THEN p_sib(p) ELSE p_list(p)

\* The k-th node from h, when s is the list
At(h, s, k) == IF k \in 1 .. Len(s) THEN Elem(h, s[k]) ELSE h

\* The next pointers lead from h along the nodes of s and back.
Threads(L, h, s) ==
  /\ s \in Seq(Pcb) /\ \A i, j \in 1 .. Len(s) : s[i] = s[j] => i = j
  /\ \A k \in 0 .. Len(s) : L.next[At(h, s, k)] = At(h, s, k + 1)

\* A head is no PCB's node, and a PCB has one node in a list.
LEMMA ElemFacts ==
  ASSUME NEW h \in Heads
  PROVE  /\ h \in Node
         /\ \A p \in Pcb : Elem(h, p) \in Node \ Heads /\ container_of(Elem(h, p)) = p
         /\ \A p, q \in Pcb : Elem(h, p) = Elem(h, q) => p = q
<1>1. h \in Node
  BY DEF Heads, Node
<1>2. ASSUME NEW p \in Pcb PROVE Elem(h, p) \in Node \ Heads /\ container_of(Elem(h, p)) = p
  BY NodeFacts, KindsDisjoint DEF Heads, Elem
<1> QED BY <1>1, <1>2

\* The nodes of a list are different.
LEMMA AtFacts ==
  ASSUME NEW L, NEW h \in Heads, NEW s, Threads(L, h, s)
  PROVE  /\ Len(s) \in Nat /\ DOMAIN s = 1 .. Len(s)
         /\ \A k \in 1 .. Len(s) : s[k] \in Pcb /\ At(h, s, k) = Elem(h, s[k]) /\ At(h, s, k) # h
         /\ At(h, s, 0) = h /\ At(h, s, Len(s) + 1) = h
         /\ \A k \in 0 .. Len(s) + 1 : At(h, s, k) \in Node
         /\ \A i, j \in 0 .. Len(s) : At(h, s, i) = At(h, s, j) => i = j
<1>1. Len(s) \in Nat /\ DOMAIN s = 1 .. Len(s) /\ \A k \in 1 .. Len(s) : s[k] \in Pcb
  BY LenProperties, ElementOfSeq DEF Threads
<1>2. \A k \in 1 .. Len(s) : At(h, s, k) = Elem(h, s[k]) /\ At(h, s, k) # h /\ At(h, s, k) \in Node
  BY <1>1, ElemFacts DEF At
<1>3. At(h, s, 0) = h /\ At(h, s, Len(s) + 1) = h /\ h \in Node
  BY <1>1, ElemFacts DEF At
<1>4. \A k \in 0 .. Len(s) + 1 : At(h, s, k) \in Node
  BY <1>1, <1>2, <1>3
<1>5. ASSUME NEW i \in 0 .. Len(s), NEW j \in 0 .. Len(s), At(h, s, i) = At(h, s, j)
      PROVE  i = j
  <2>1. CASE i = 0 \/ j = 0
    BY <1>1, <1>2, <1>3, <1>5, <2>1
  <2>2. CASE i # 0 /\ j # 0
    <3>1. i \in 1 .. Len(s) /\ j \in 1 .. Len(s)
      BY <1>1, <2>2
    <3>2. s[i] = s[j]
      BY <1>1, <1>2, <1>5, <3>1, ElemFacts
    <3> QED BY <3>1, <3>2 DEF Threads
  <2> QED BY <2>1, <2>2
<1> QED BY <1>1, <1>2, <1>3, <1>4, <1>5

-----------------------------------------------------------------------------
(* Owners reads a list off its links *)

\* The k-th node from h, given the nodes before it
Hop(L, h, k, node) == IF k = 0 THEN h ELSE L.next[node[k - 1]]

\* The function that Owners defines by recursion exists.
LEMMA WalkExists ==
  ASSUME NEW L, NEW h, NEW l \in Nat
  PROVE  \E node : node = [k \in 0 .. l |-> Hop(L, h, k, node)]
<1> DEFINE A == {m \in Nat : \E node : node = [k \in 0 .. m |-> Hop(L, h, k, node)]}
<1>1. 0 \in A
  <2> DEFINE node == [k \in 0 .. 0 |-> h]
  <2>1. node = [k \in 0 .. 0 |-> Hop(L, h, k, node)]
    BY DEF Hop
  <2> QED BY <2>1
<1>2. ASSUME NEW m \in A PROVE m + 1 \in A
  <2>1. PICK f : f = [k \in 0 .. m |-> Hop(L, h, k, f)]
    OBVIOUS
  <2> DEFINE g == [k \in 0 .. m + 1 |-> IF k = m + 1 THEN Hop(L, h, k, f) ELSE f[k]]
  <2>2. ASSUME NEW k \in 0 .. m + 1 PROVE g[k] = Hop(L, h, k, g)
    <3>1. CASE k = m + 1
      <4>1. g[k - 1] = f[k - 1] BY <3>1
      <4>2. g[k] = Hop(L, h, k, f) BY <3>1
      <4> HIDE DEF g
      <4> QED BY <4>1, <4>2 DEF Hop
    <3>2. CASE k # m + 1
      <4>1. k \in 0 .. m /\ g[k] = f[k] /\ (k # 0 => g[k - 1] = f[k - 1]) BY <3>2
      <4>2. f[k] = Hop(L, h, k, f) BY <4>1, <2>1
      <4> HIDE DEF g
      <4> QED BY <4>1, <4>2 DEF Hop
    <3> QED BY <3>1, <3>2
  <2>3. g = [k \in 0 .. m + 1 |-> Hop(L, h, k, g)]
    <3>1. g = [k \in 0 .. m + 1 |-> g[k]] OBVIOUS
    <3> HIDE DEF g
    <3> QED BY <3>1, <2>2
  <2> HIDE DEF g
  <2> QED BY <2>3
<1> HIDE DEF A
<1>3. A = Nat
  <2>1. A \in SUBSET Nat
    BY DEF A
  <2> QED BY <1>1, <1>2, <2>1, Q!AllNumbers
<1> QED BY <1>3 DEF A

\* A list has at most all PCBs.
LEMMA ThreadLength ==
  ASSUME NEW L, NEW h \in Heads, NEW s, Threads(L, h, s), ListxAssumption
  PROVE  Len(s) <= MAXPROC
<1>1. s \in Injection(1 .. Len(s), Pcb) /\ Len(s) \in Nat
  <2>1. s \in [1 .. Len(s) -> Pcb] /\ Len(s) \in Nat
    BY LenProperties DEF Threads
  <2> QED BY <2>1 DEF Threads, Injection, IsInjective
<1>2. IsFiniteSet(Pcb) /\ Cardinality(Pcb) = MAXPROC /\ Cardinality(1 .. Len(s)) = Len(s)
  <2>1. \A n \in Nat : IsFiniteSet(1 .. n) /\ Cardinality(1 .. n) = n
    <3> TAKE n \in Nat
    <3>1. IsFiniteSet(1 .. n) /\ Cardinality(1 .. n) = IF 1 > n THEN 0 ELSE n - 1 + 1
      BY FS_Interval
    <3> QED BY <3>1
  <2> QED BY <1>1, <2>1 DEF Pcb, ListxAssumption
<1>3. Cardinality(1 .. Len(s)) <= Cardinality(Pcb)
  BY ONLY <1>1, <1>2, FS_Injection
<1> QED BY <1>2, <1>3

\* Owners returns the sequence that the pointers lead along.
LEMMA ThreadOwners ==
  ASSUME NEW L, NEW h \in Heads, NEW s, Threads(L, h, s), ListxAssumption
  PROVE  Owners(L, h) = s
<1> DEFINE l == MAXPROC + 1
           node == CHOOSE f : f = [k \in 0 .. l |-> Hop(L, h, k, f)]
           last == CHOOSE k \in 0 .. MAXPROC : node[k + 1] = h /\ \A j \in 1 .. k : node[j] # h
<1>1. Owners(L, h) = [k \in 1 .. last |-> container_of(node[k])]
  BY DEF Owners, Hop
<1>2. MAXPROC \in Nat /\ Len(s) \in Nat /\ Len(s) <= MAXPROC
  BY ThreadLength, AtFacts DEF ListxAssumption
<1>3. node = [k \in 0 .. l |-> Hop(L, h, k, node)]
  <2>1. l \in Nat
    BY <1>2
  <2> HIDE DEF node, l
  <2> QED BY <2>1, WalkExists DEF node
<1> HIDE DEF node
<1> DEFINE A == {k \in Nat : k <= Len(s) + 1 => node[k] = At(h, s, k)}
<1>4. 0 \in A
  BY <1>2, <1>3, AtFacts DEF Hop
<1>5. ASSUME NEW k \in A PROVE k + 1 \in A
  <2> SUFFICES ASSUME k + 1 <= Len(s) + 1 PROVE node[k + 1] = At(h, s, k + 1)
    OBVIOUS
  <2>1. k \in 0 .. Len(s) /\ node[k] = At(h, s, k)
    BY <1>2
  <2>2. k + 1 \in 0 .. MAXPROC + 1 /\ k + 1 # 0 /\ k + 1 - 1 = k
    BY <1>2, <2>1
  <2>3. node[k + 1] = L.next[node[k]]
    BY <1>3, <2>2 DEF Hop
  <2> QED BY <2>1, <2>3 DEF Threads
<1>6. \A k \in 0 .. Len(s) + 1 : node[k] = At(h, s, k)
  <2> HIDE DEF A
  <2>1. A \in SUBSET Nat
    BY DEF A
  <2>2. A = Nat
    BY <1>4, <1>5, <2>1, Q!AllNumbers
  <2> QED BY <1>2, <2>2 DEF A
<1>7. last = Len(s)
  <2> DEFINE Ends(k) == node[k + 1] = h /\ \A j \in 1 .. k : node[j] # h
  <2>1. Ends(Len(s))
    BY <1>2, <1>6, AtFacts
  <2>2. ASSUME NEW k \in 0 .. MAXPROC, Ends(k) PROVE k = Len(s)
    <3>1. CASE k < Len(s)
      <4>1. k + 1 \in 1 .. Len(s)
        BY <1>2, <3>1
      <4> QED BY <1>2, <1>6, <2>2, <4>1, AtFacts
    <3>2. CASE k > Len(s)
      <4>1. Len(s) + 1 \in 1 .. k
        BY <1>2, <3>2
      <4> QED BY <1>2, <1>6, <2>2, <4>1, AtFacts
    <3> QED BY <1>2, <3>1, <3>2
  <2> HIDE DEF Ends
  <2>3. last = CHOOSE k \in 0 .. MAXPROC : Ends(k)
    BY DEF Ends
  <2> QED BY <1>2, <2>1, <2>2, <2>3
<1> HIDE DEF last
<1>8. \A k \in 1 .. Len(s) : container_of(node[k]) = s[k]
  BY <1>2, <1>6, AtFacts, ElemFacts
<1>9. s = [k \in 1 .. Len(s) |-> s[k]]
  BY LenProperties DEF Threads
<1> QED BY <1>1, <1>7, <1>8, <1>9

-----------------------------------------------------------------------------
(* Lists do not share nodes *)

\* All nodes of a list are of the family of its head.
LEMMA ThreadFamily ==
  ASSUME NEW at, SortedBy(at), NEW h \in Heads, NEW s, Threads(links, h, s)
  PROVE  \A k \in 0 .. Len(s) : Family(at, At(h, s, k)) = Family(at, h)
<1> DEFINE A == {k \in Nat : k <= Len(s) => Family(at, At(h, s, k)) = Family(at, h)}
<1>1. Len(s) \in Nat /\ At(h, s, 0) = h /\ \A k \in 0 .. Len(s) + 1 : At(h, s, k) \in Node
  BY AtFacts
<1>2. 0 \in A
  BY <1>1
<1>3. ASSUME NEW k \in A PROVE k + 1 \in A
  <2> SUFFICES ASSUME k + 1 <= Len(s) PROVE Family(at, At(h, s, k + 1)) = Family(at, h)
    OBVIOUS
  <2>1. k \in 0 .. Len(s) /\ Family(at, At(h, s, k)) = Family(at, h)
    BY <1>1
  <2>2. At(h, s, k) \in Node /\ links.next[At(h, s, k)] = At(h, s, k + 1)
    BY <1>1, <2>1 DEF Threads
  <2> QED BY <2>1, <2>2 DEF SortedBy
<1> HIDE DEF A
<1>4. A = Nat
  <2>1. A \in SUBSET Nat
    BY DEF A
  <2> QED BY <1>2, <1>3, <2>1, Q!AllNumbers
<1> QED BY <1>1, <1>4 DEF A

\* A node is in one list only.
LEMMA Apart ==
  ASSUME NEW at, SortedBy(at), NEW g \in Heads, NEW h \in Heads, g # h,
         NEW s, Threads(links, g, s), NEW t, Threads(links, h, t)
  PROVE  \A j \in 0 .. Len(s), k \in 0 .. Len(t) : At(g, s, j) # At(h, t, k)
<1>1. Family(at, g) # Family(at, h)
  <2>1. /\ \A p \in Pcb : Family(at, p_child(p)) = << "children", p >>
        /\ Family(at, pcbFree_h) = << "pool" >>
        /\ \A q \in Queue : Family(at, head(q)) = << "queue", q >>
    BY FamilyFacts
  <2> QED BY <2>1 DEF Heads, HeadNode, ChildNode
<1> QED BY <1>1, ThreadFamily

\* The pool has the free PCBs, a queue processes, p_child the children.
LEMMA Members ==
  ASSUME NEW at, SortedBy(at), NEW h \in Heads, NEW s, Threads(links, h, s), NEW k \in 1 .. Len(s)
  PROVE  /\ h = pcbFree_h => s[k] \notin used
         /\ h \in HeadNode => s[k] \in used
         /\ \A q \in Pcb : h = p_child(q) => p_parent[s[k]] = q
<1>1. /\ s[k] \in Pcb /\ At(h, s, k) = Elem(h, s[k]) /\ k \in 0 .. Len(s)
  BY AtFacts
<1>2. Family(at, Elem(h, s[k])) = Family(at, h)
  BY <1>1, ThreadFamily
<1>3. CASE h = pcbFree_h
  <2>1. Elem(h, s[k]) = p_list(s[k]) /\ h \notin HeadNode /\ \A q \in Pcb : h # p_child(q)
    BY <1>3, KindsDisjoint, NodeFacts DEF Elem
  <2> QED BY <1>1, <1>2, <1>3, <2>1, FamilyFacts
<1>4. ASSUME NEW q \in Queue, h = head(q) PROVE s[k] \in used /\ h # pcbFree_h /\ h \notin ChildNode
  <2>1. Elem(h, s[k]) = p_list(s[k]) /\ h # pcbFree_h /\ h \notin ChildNode
    BY <1>4, KindsDisjoint, HeadFacts DEF Elem
  <2>2. Family(at, h) = << "queue", q >>
    BY <1>4, FamilyFacts
  <2>3. Family(at, p_list(s[k])) = IF s[k] \in used THEN << "queue", at[s[k]] >> ELSE << "pool" >>
    BY <1>1, FamilyFacts
  <2> QED BY <1>2, <2>1, <2>2, <2>3
<1>5. ASSUME NEW q \in Pcb, h = p_child(q) PROVE p_parent[s[k]] = q /\ h # pcbFree_h /\ h \notin HeadNode
  <2>1. Elem(h, s[k]) = p_sib(s[k]) /\ h # pcbFree_h /\ h \notin HeadNode
    BY <1>5, KindsDisjoint, NodeFacts DEF Elem
  <2>2. Family(at, h) = << "children", q >>
    BY <1>5, FamilyFacts
  <2>3. Family(at, p_sib(s[k])) = IF p_parent[s[k]] = NULL THEN << "orphan", s[k] >>
                                  ELSE << "children", p_parent[s[k]] >>
    BY <1>1, FamilyFacts
  <2> QED BY <1>2, <2>1, <2>2, <2>3
<1> QED BY <1>3, <1>4, <1>5, NodeFacts DEF HeadNode

-----------------------------------------------------------------------------
(* The operations of listx.h on sequences *)

\* list_del leaves the lists without e as they are.
LEMMA DelOther ==
  ASSUME NEW L \in Links, Chained(L), NEW e \in Node, NEW h \in Heads, NEW s, Threads(L, h, s),
         \A k \in 0 .. Len(s) : At(h, s, k) # e
  PROVE  Threads(list_del(L, e), h, s)
<1> DEFINE D == list_del(L, e)
<1>1. \A n \in Node \ {e} : D.next[n] = IF L.next[n] = e THEN L.next[e] ELSE L.next[n]
  BY DelLinks
<1> HIDE DEF D
<1>2. ASSUME NEW k \in 0 .. Len(s) PROVE D.next[At(h, s, k)] = At(h, s, k + 1)
  <2>1. Len(s) \in Nat /\ At(h, s, k) \in Node /\ At(h, s, 0) = h /\ At(h, s, Len(s) + 1) = h
    BY AtFacts
  <2>2. At(h, s, k + 1) # e
    <3>1. CASE k = Len(s)
      BY <2>1, <3>1
    <3>2. CASE k # Len(s)
      <4>1. k + 1 \in 0 .. Len(s)
        BY <2>1, <3>2
      <4> QED BY <4>1
    <3> QED BY <3>1, <3>2
  <2>3. L.next[At(h, s, k)] = At(h, s, k + 1)
    BY DEF Threads
  <2> QED BY <1>1, <2>1, <2>2, <2>3
<1> QED BY <1>2 DEF Threads, D

\* list_del of the n-th node.
LEMMA DelThread ==
  ASSUME NEW L \in Links, Chained(L), NEW h \in Heads, NEW s, Threads(L, h, s),
         NEW n \in 1 .. Len(s), NEW r \in Seq(Pcb), Len(r) = Len(s) - 1,
         \A i \in 1 .. Len(s) - 1 : r[i] = IF i < n THEN s[i] ELSE s[i + 1]
  PROVE  Threads(list_del(L, Elem(h, s[n])), h, r)
<1> DEFINE e == At(h, s, n)
           D == list_del(L, e)
<1>1. /\ Len(s) \in Nat /\ At(h, s, 0) = h /\ At(h, s, Len(s) + 1) = h
      /\ e = Elem(h, s[n])
      /\ \A k \in 0 .. Len(s) + 1 : At(h, s, k) \in Node
      /\ \A i, j \in 0 .. Len(s) : At(h, s, i) = At(h, s, j) => i = j
  BY AtFacts
<1>2. \A m \in Node \ {e} : D.next[m] = IF L.next[m] = e THEN L.next[e] ELSE L.next[m]
  <2>1. e \in Node
    BY <1>1
  <2> HIDE DEF e
  <2> QED BY <2>1, DelLinks
<1>3. \A k \in 0 .. Len(s) : L.next[At(h, s, k)] = At(h, s, k + 1)
  BY DEF Threads
<1>4. \A k \in 0 .. Len(s) : At(h, r, k) = At(h, s, IF k < n THEN k ELSE k + 1)
  <2> SUFFICES ASSUME NEW k \in 0 .. Len(s)
               PROVE  At(h, r, k) = At(h, s, IF k < n THEN k ELSE k + 1)
    OBVIOUS
  <2>1. CASE k \in 1 .. Len(s) - 1
    BY <1>1, <2>1 DEF At
  <2>2. CASE k = 0
    BY <1>1, <2>2 DEF At
  <2>3. CASE k = Len(s)
    BY <1>1, <2>3 DEF At
  <2> QED BY <1>1, <2>1, <2>2, <2>3
<1> HIDE DEF e, D
<1>5. ASSUME NEW k \in 0 .. Len(r) PROVE D.next[At(h, r, k)] = At(h, r, k + 1)
  <2>1. k \in 0 .. Len(s) /\ k + 1 \in 0 .. Len(s) /\ n \in 0 .. Len(s)
    BY <1>1
  <2>2. CASE k + 1 < n
    <3>1. At(h, r, k) = At(h, s, k) /\ At(h, r, k + 1) = At(h, s, k + 1)
      BY <1>4, <2>1, <2>2
    <3>2. At(h, s, k) # e /\ At(h, s, k + 1) # e /\ At(h, s, k) \in Node
      BY <1>1, <2>1, <2>2 DEF e
    <3>3. L.next[At(h, s, k)] = At(h, s, k + 1)
      BY <1>3, <2>1
    <3> QED BY <1>2, <3>1, <3>2, <3>3
  <2>3. CASE k + 1 = n
    <3>1. At(h, r, k) = At(h, s, k) /\ At(h, r, k + 1) = At(h, s, n + 1)
      <4>1. k < n /\ ~ (k + 1 < n) /\ k + 1 + 1 = n + 1
        BY <2>1, <2>3
      <4> QED BY <1>4, <2>1, <4>1
    <3>2. At(h, s, k) # e /\ At(h, s, k) \in Node
      BY <1>1, <2>1, <2>3 DEF e
    <3>3. L.next[At(h, s, k)] = e /\ L.next[e] = At(h, s, n + 1)
      BY <1>3, <2>1, <2>3 DEF e
    <3> QED BY <1>2, <3>1, <3>2, <3>3
  <2>4. CASE k >= n
    <3>1. At(h, r, k) = At(h, s, k + 1) /\ At(h, r, k + 1) = At(h, s, k + 2)
      <4>1. ~ (k < n) /\ ~ (k + 1 < n) /\ k + 1 + 1 = k + 2
        BY <2>1, <2>4
      <4> QED BY <1>4, <2>1, <4>1
    <3>2. At(h, s, k + 1) # e /\ At(h, s, k + 1) \in Node
      BY <1>1, <2>1, <2>4 DEF e
    <3>3. L.next[At(h, s, k + 1)] = At(h, s, k + 2)
      <4>1. k + 1 + 1 = k + 2
        BY <2>1
      <4> QED BY <1>3, <2>1, <4>1
    <3>4. At(h, s, k + 2) # e
      <4>1. CASE k + 2 \in 0 .. Len(s)
        BY <1>1, <2>1, <2>4, <4>1 DEF e
      <4>2. CASE k + 2 \notin 0 .. Len(s)
        <5>1. k + 2 = Len(s) + 1
          BY <1>1, <2>1, <4>2
        <5> QED BY <1>1, <5>1, <2>1 DEF e
      <4> QED BY <4>1, <4>2
    <3> QED BY <1>2, <3>1, <3>2, <3>3, <3>4
  <2> QED BY <1>1, <2>1, <2>2, <2>3, <2>4
<1>6. ASSUME NEW i \in 1 .. Len(r), NEW j \in 1 .. Len(r), r[i] = r[j]
      PROVE  i = j
  <2> DEFINE old(k) == IF k < n THEN k ELSE k + 1
  <2>1. r[i] = s[old(i)] /\ r[j] = s[old(j)] /\ old(i) \in 1 .. Len(s) /\ old(j) \in 1 .. Len(s)
    BY <1>1
  <2>2. old(i) = old(j)
    BY <1>6, <2>1 DEF Threads
  <2> QED BY <1>1, <2>2
<1> QED BY <1>1, <1>5, <1>6 DEF Threads, D

\* An insertion leaves the lists without prev and without the new node as they are.
LEMMA InsertOther ==
  ASSUME NEW L \in Links, Chained(L), NEW new \in Node, NEW prev \in Node, L.next[new] = new,
         prev # new, NEW h \in Heads, NEW s, Threads(L, h, s),
         \A k \in 0 .. Len(s) : At(h, s, k) # new /\ At(h, s, k) # prev
  PROVE  Threads(list_insert(L, new, prev, L.next[prev]), h, s)
<1> DEFINE A == list_insert(L, new, prev, L.next[prev])
<1>1. \A n \in Node \ {new, prev} : A.next[n] = L.next[n]
  BY InsertLinks
<1> HIDE DEF A
<1>2. ASSUME NEW k \in 0 .. Len(s) PROVE A.next[At(h, s, k)] = At(h, s, k + 1)
  <2>1. At(h, s, k) \in Node \ {new, prev}
    <3>1. Len(s) \in Nat /\ At(h, s, k) \in Node
      BY AtFacts
    <3> QED BY <3>1
  <2>2. L.next[At(h, s, k)] = At(h, s, k + 1)
    BY DEF Threads
  <2> QED BY <1>1, <2>1, <2>2
<1> QED BY <1>2 DEF Threads, A

\* A node that links to itself is in no list, or it is the head of an empty one.
LEMMA AloneNowhere ==
  ASSUME NEW L, NEW h \in Heads, NEW s, Threads(L, h, s), NEW e, e # h, L.next[e] = e
  PROVE  \A k \in 0 .. Len(s) : At(h, s, k) # e
<1> SUFFICES ASSUME NEW k \in 0 .. Len(s), At(h, s, k) = e PROVE FALSE
  OBVIOUS
<1>1. /\ Len(s) \in Nat /\ At(h, s, Len(s) + 1) = h
      /\ \A i, j \in 0 .. Len(s) : At(h, s, i) = At(h, s, j) => i = j
  BY AtFacts
<1>2. At(h, s, k + 1) = At(h, s, k)
  BY DEF Threads
<1>3. CASE k = Len(s)
  BY <1>1, <1>2, <1>3
<1>4. CASE k # Len(s)
  <2>1. k + 1 \in 0 .. Len(s)
    BY <1>1, <1>4
  <2> QED BY <1>1, <1>2, <2>1
<1> QED BY <1>3, <1>4

\* An insertion behind the n-th node, or behind the head.
LEMMA InsertThread ==
  ASSUME NEW L \in Links, Chained(L), NEW h \in Heads, NEW s, Threads(L, h, s),
         NEW p \in Pcb, L.next[Elem(h, p)] = Elem(h, p), NEW n \in 0 .. Len(s),
         NEW r \in Seq(Pcb), Len(r) = Len(s) + 1,
         \A i \in 1 .. Len(s) + 1 : r[i] = IF i <= n THEN s[i] ELSE IF i = n + 1 THEN p ELSE s[i - 1]
  PROVE  Threads(list_insert(L, Elem(h, p), At(h, s, n), L.next[At(h, s, n)]), h, r)
<1> DEFINE new == Elem(h, p)
           prev == At(h, s, n)
           A == list_insert(L, new, prev, L.next[prev])
<1>1. /\ Len(s) \in Nat /\ At(h, s, 0) = h /\ At(h, s, Len(s) + 1) = h
      /\ \A k \in 0 .. Len(s) + 1 : At(h, s, k) \in Node
      /\ \A i, j \in 0 .. Len(s) : At(h, s, i) = At(h, s, j) => i = j
  BY AtFacts
<1>2. /\ new \in Node /\ prev \in Node /\ prev # new
      /\ \A k \in 0 .. Len(s) : At(h, s, k) # new /\ (k # 0 => s[k] # p)
  <2>1. new \in Node /\ new # h /\ prev \in Node
    BY <1>1, ElemFacts
  <2>2. \A k \in 0 .. Len(s) : At(h, s, k) # new
    <3> HIDE DEF new
    <3>1. L.next[new] = new
      BY DEF new
    <3> QED BY ONLY <2>1, <3>1, AloneNowhere, h \in Heads, Threads(L, h, s)
  <2>3. \A k \in 1 .. Len(s) : At(h, s, k) = Elem(h, s[k])
    BY AtFacts
  <2> QED BY <1>1, <2>1, <2>2, <2>3
<1>3. \A k \in 0 .. Len(s) : L.next[At(h, s, k)] = At(h, s, k + 1)
  BY DEF Threads
<1>4. /\ A.next[prev] = new /\ A.next[new] = L.next[prev]
      /\ \A m \in Node \ {new, prev} : A.next[m] = L.next[m]
  BY <1>2, InsertLinks
<1>5. \A k \in 0 .. Len(s) + 2 :
        At(h, r, k) = IF k <= n THEN At(h, s, k) ELSE IF k = n + 1 THEN new ELSE At(h, s, k - 1)
  <2> SUFFICES ASSUME NEW k \in 0 .. Len(s) + 2
               PROVE  At(h, r, k) = IF k <= n THEN At(h, s, k)
                                    ELSE IF k = n + 1 THEN new ELSE At(h, s, k - 1)
    OBVIOUS
  <2>1. CASE k \in 1 .. Len(s) + 1
    BY <1>1, <2>1 DEF At
  <2>2. CASE k = 0
    BY <1>1, <2>2 DEF At
  <2>3. CASE k = Len(s) + 2
    BY <1>1, <2>3 DEF At
  <2> QED BY <1>1, <2>1, <2>2, <2>3
<1> HIDE DEF new, prev, A
<1>6. ASSUME NEW k \in 0 .. Len(r) PROVE A.next[At(h, r, k)] = At(h, r, k + 1)
  <2>1. k \in 0 .. Len(s) + 2 /\ k + 1 \in 0 .. Len(s) + 2
    BY <1>1
  <2>2. CASE k < n
    <3>1. At(h, r, k) = At(h, s, k) /\ At(h, r, k + 1) = At(h, s, k + 1)
      BY <1>1, <1>5, <2>1, <2>2
    <3>2. At(h, s, k) \in Node \ {new, prev}
      BY <1>1, <1>2, <2>1, <2>2 DEF prev
    <3> QED BY <1>1, <1>3, <1>4, <2>1, <2>2, <3>1, <3>2
  <2>3. CASE k = n
    <3>1. At(h, r, k) = prev /\ At(h, r, k + 1) = new
      BY <1>1, <1>5, <2>1, <2>3 DEF prev
    <3> QED BY <1>4, <3>1
  <2>4. CASE k = n + 1
    <3>1. At(h, r, k) = new /\ At(h, r, k + 1) = At(h, s, n + 1)
      BY <1>1, <1>5, <2>1, <2>4
    <3> QED BY <1>3, <1>4, <3>1 DEF prev
  <2>5. CASE k > n + 1
    <3>1. At(h, r, k) = At(h, s, k - 1) /\ At(h, r, k + 1) = At(h, s, k)
      BY <1>1, <1>5, <2>1, <2>5
    <3>2. k - 1 \in 0 .. Len(s) /\ k - 1 # n
      BY <1>1, <2>5
    <3>3. At(h, s, k - 1) \in Node \ {new, prev}
      BY <1>1, <1>2, <3>2 DEF prev
    <3> QED BY <1>1, <1>3, <1>4, <2>5, <3>1, <3>2, <3>3
  <2> QED BY <1>1, <2>2, <2>3, <2>4, <2>5
<1>7. ASSUME NEW i \in 1 .. Len(r), NEW j \in 1 .. Len(r), r[i] = r[j]
      PROVE  i = j
  <2> DEFINE old(k) == IF k <= n THEN k ELSE k - 1
  <2>1. ASSUME NEW k \in 1 .. Len(r), k # n + 1
        PROVE  r[k] = s[old(k)] /\ old(k) \in 1 .. Len(s) /\ s[old(k)] # p
    <3>1. r[k] = s[old(k)] /\ old(k) \in 1 .. Len(s)
      BY <1>1, <2>1
    <3>2. old(k) \in 0 .. Len(s) /\ old(k) # 0
      BY <1>1, <3>1
    <3> HIDE DEF old
    <3> QED BY <1>2, <3>1, <3>2
  <2>2. n + 1 \in 1 .. Len(r) /\ r[n + 1] = p
    BY <1>1
  <2>3. CASE i = n + 1 \/ j = n + 1
    <3> HIDE DEF old
    <3> QED BY <1>7, <2>1, <2>2, <2>3
  <2>4. CASE i # n + 1 /\ j # n + 1
    <3>1. old(i) = old(j)
      <4> HIDE DEF old
      <4>1. /\ r[i] = s[old(i)] /\ old(i) \in 1 .. Len(s)
            /\ r[j] = s[old(j)] /\ old(j) \in 1 .. Len(s)
        BY <2>1, <2>4
      <4>2. \A x, y \in 1 .. Len(s) : s[x] = s[y] => x = y
        BY DEF Threads
      <4> QED BY <1>7, <4>1, <4>2
    <3> QED BY <1>1, <2>4, <3>1
  <2> QED BY <2>3, <2>4
<1> QED BY <1>6, <1>7 DEF Threads, new, prev, A

-----------------------------------------------------------------------------
(* The steps on sequences *)

Threaded == \A h \in Heads : Threads(links, h, Owners(links, h))

\* Taking the n-th PCB out of the list of h leaves r there, and the other lists.
LEMMA DelStep ==
  ASSUME IInv, Threaded, ListxAssumption, NEW h \in Heads, NEW s, s = Owners(links, h),
         NEW n \in 1 .. Len(s), NEW r \in Seq(Pcb), Len(r) = Len(s) - 1,
         \A i \in 1 .. Len(s) - 1 : r[i] = IF i < n THEN s[i] ELSE s[i + 1],
         links' = list_del(links, Elem(h, s[n]))
  PROVE  /\ Threaded' /\ Owners(links', h) = r
         /\ \A g \in Heads \ {h} : Owners(links', g) = Owners(links, g)
<1>1. links \in Links /\ Chained(links)
  BY LinksFacts DEF IInv
<1>2. PICK at \in [Pcb -> Queue \cup {NULL}] : SortedBy(at)
  BY DEF IInv, Sorted
<1>3. \A g \in Heads : Threads(links, g, Owners(links, g))
  BY DEF Threaded
<1>4. Threads(links, h, s)
  BY <1>3
<1>5. /\ Len(s) \in Nat /\ n \in 0 .. Len(s) /\ At(h, s, n) = Elem(h, s[n]) /\ At(h, s, n) \in Node
  BY <1>4, AtFacts
<1>6. Threads(links', h, r)
  BY <1>1, <1>4, DelThread
<1>7. ASSUME NEW g \in Heads \ {h} PROVE Threads(links', g, Owners(links, g))
  <2> DEFINE t == Owners(links, g)
  <2>1. Threads(links, g, t)
    BY <1>3
  <2> HIDE DEF t
  <2>2. \A k \in 0 .. Len(t) : At(g, t, k) # At(h, s, n)
    BY <1>2, <1>4, <1>5, <2>1, Apart
  <2>3. Threads(links', g, t)
    BY <1>1, <1>5, <2>1, <2>2, DelOther
  <2> QED BY <2>3 DEF t
<1>8. Owners(links', h) = r
  BY <1>6, ThreadOwners
<1>9. \A g \in Heads \ {h} : Owners(links', g) = Owners(links, g)
  BY <1>7, ThreadOwners
<1>10. \A g \in Heads : Threads(links', g, Owners(links', g))
  BY <1>6, <1>7, <1>8, <1>9
<1> QED BY <1>8, <1>9, <1>10 DEF Threaded

\* Putting p, which is in no list, behind the n-th PCB in the list of h.
LEMMA InsertStep ==
  ASSUME IInv, Threaded, ListxAssumption, NEW h \in Heads, NEW s, s = Owners(links, h),
         NEW p \in Pcb, links.next[Elem(h, p)] = Elem(h, p), NEW n \in 0 .. Len(s),
         NEW r \in Seq(Pcb), Len(r) = Len(s) + 1,
         \A i \in 1 .. Len(s) + 1 : r[i] = IF i <= n THEN s[i] ELSE IF i = n + 1 THEN p ELSE s[i - 1],
         links' = list_insert(links, Elem(h, p), At(h, s, n), links.next[At(h, s, n)])
  PROVE  /\ Threaded' /\ Owners(links', h) = r
         /\ \A g \in Heads \ {h} : Owners(links', g) = Owners(links, g)
<1>1. links \in Links /\ Chained(links)
  BY LinksFacts DEF IInv
<1>2. PICK at \in [Pcb -> Queue \cup {NULL}] : SortedBy(at)
  BY DEF IInv, Sorted
<1>3. \A g \in Heads : Threads(links, g, Owners(links, g))
  BY DEF Threaded
<1>4. Threads(links, h, s)
  BY <1>3
<1>5. At(h, s, n) \in Node /\ At(h, s, n) # Elem(h, p) /\ Elem(h, p) \in Node
  <2>1. Len(s) \in Nat /\ At(h, s, n) \in Node
    BY <1>4, AtFacts
  <2>2. Elem(h, p) \in Node
    BY ElemFacts
  <2>3. Elem(h, p) # h
    BY ElemFacts
  <2> DEFINE new == Elem(h, p)
  <2>4. links.next[new] = new /\ new # h
    BY <2>3
  <2> HIDE DEF new
  <2>5. \A k \in 0 .. Len(s) : At(h, s, k) # new
    BY ONLY <1>4, <2>4, AloneNowhere, h \in Heads
  <2> QED BY <2>1, <2>2, <2>5 DEF new
<1>6. Threads(links', h, r)
  BY <1>1, <1>4, InsertThread
<1>7. ASSUME NEW g \in Heads \ {h} PROVE Threads(links', g, Owners(links, g))
  <2> DEFINE t == Owners(links, g)
  <2>1. Threads(links, g, t)
    BY <1>3
  <2> HIDE DEF t
  <2>2. \A k \in 0 .. Len(t) : At(g, t, k) # At(h, s, n)
    BY <1>2, <1>4, <2>1, Apart
  <2>3. \A k \in 0 .. Len(t) : At(g, t, k) # Elem(h, p)
    <3>1. Elem(h, p) # g
      BY ElemFacts
    <3> DEFINE new == Elem(h, p)
    <3>2. links.next[new] = new /\ new # g
      BY <3>1
    <3> HIDE DEF new
    <3>3. \A k \in 0 .. Len(t) : At(g, t, k) # new
      BY ONLY <2>1, <3>2, AloneNowhere, g \in Heads
    <3> QED BY <3>3 DEF new
  <2>4. Threads(links', g, t)
    BY <1>1, <1>5, <2>1, <2>2, <2>3, InsertOther
  <2> QED BY <2>4 DEF t
<1>8. Owners(links', h) = r
  BY <1>6, ThreadOwners
<1>9. \A g \in Heads \ {h} : Owners(links', g) = Owners(links, g)
  BY <1>7, ThreadOwners
<1>10. \A g \in Heads : Threads(links', g, Owners(links', g))
  BY <1>6, <1>7, <1>8, <1>9
<1> QED BY <1>8, <1>9, <1>10 DEF Threaded

\* The heads, and the nodes behind each.
LEMMA HeadsFacts ==
  /\ pcbFree_h \in Heads
  /\ \A h \in Queue : head(h) \in Heads /\ head(h) # pcbFree_h
  /\ \A p \in Pcb : p_child(p) \in Heads /\ p_child(p) # pcbFree_h
  /\ \A h \in Queue, p \in Pcb : head(h) # p_child(p)
  /\ \A g, h \in Queue : head(g) = head(h) => g = h
  /\ \A p, q \in Pcb : p_child(p) = p_child(q) => p = q
  /\ \A p \in Pcb : Elem(pcbFree_h, p) = p_list(p)
  /\ \A h \in Queue, p \in Pcb : Elem(head(h), p) = p_list(p)
  /\ \A q \in Pcb, p \in Pcb : Elem(p_child(q), p) = p_sib(p)
<1>1. \A p \in Pcb : p_child(p) \in ChildNode
  BY NodeFacts
<1>2. pcbFree_h \notin ChildNode /\ \A h \in Queue : head(h) \in HeadNode /\ head(h) \notin ChildNode
  BY HeadFacts, KindsDisjoint
<1>3. /\ \A g, h \in Queue : head(g) = head(h) => g = h
      /\ \A p, q \in Pcb : p_child(p) = p_child(q) => p = q
  BY DEF head, p_child
<1> QED BY <1>1, <1>2, <1>3, KindsDisjoint DEF Heads, Elem

\* The lists after a step are those of the pointers after it.
LEMMA OwnersNext == \A h : Owners(links, h)' = Owners(links', h)
  BY DEF Owners

\* Queueing, pushing and taking the first, position by position.
LEMMA OrderOfAppend ==
  ASSUME NEW s \in Seq(Pcb), NEW p \in Pcb
  PROVE  LET r == Lists!insertProcQ(s, p)
         IN /\ r \in Seq(Pcb) /\ Len(r) = Len(s) + 1
            /\ \A i \in 1 .. Len(s) + 1 :
                 r[i] = IF i <= Len(s) THEN s[i] ELSE IF i = Len(s) + 1 THEN p ELSE s[i - 1]
<1>1. Len(s) \in Nat
  BY LenProperties
<1> DEFINE r == Append(s, p)
<1>2. /\ r \in Seq(Pcb) /\ Len(r) = Len(s) + 1
      /\ \A i \in 1 .. Len(s) : r[i] = s[i]
      /\ r[Len(s) + 1] = p
  BY AppendProperties
<1> HIDE DEF r
<1>3. \A i \in 1 .. Len(s) + 1 :
        r[i] = IF i <= Len(s) THEN s[i] ELSE IF i = Len(s) + 1 THEN p ELSE s[i - 1]
  BY <1>1, <1>2
<1> QED BY <1>2, <1>3 DEF Lists!insertProcQ, r

LEMMA OrderOfPush ==
  ASSUME NEW s \in Seq(Pcb), NEW p \in Pcb
  PROVE  LET r == << p >> \o s
         IN /\ r \in Seq(Pcb) /\ Len(r) = Len(s) + 1
            /\ \A i \in 1 .. Len(s) + 1 : r[i] = IF i = 1 THEN p ELSE s[i - 1]
<1>1. Len(s) \in Nat
  BY LenProperties
<1> DEFINE one == << p >>
<1>2. one \in Seq(Pcb) /\ Len(one) = 1 /\ one[1] = p
  OBVIOUS
<1> HIDE DEF one
<1>3. /\ one \o s \in Seq(Pcb) /\ Len(one \o s) = Len(one) + Len(s)
      /\ \A i \in 1 .. Len(one) + Len(s) :
           (one \o s)[i] = IF i <= Len(one) THEN one[i] ELSE s[i - Len(one)]
  BY ONLY <1>2, ConcatProperties, s \in Seq(Pcb)
<1>4. \A i \in 1 .. Len(s) + 1 : (one \o s)[i] = IF i = 1 THEN p ELSE s[i - 1]
  <2> SUFFICES ASSUME NEW i \in 1 .. Len(s) + 1
               PROVE  (one \o s)[i] = IF i = 1 THEN p ELSE s[i - 1]
    OBVIOUS
  <2>1. (one \o s)[i] = IF i <= 1 THEN one[i] ELSE s[i - 1]
    BY <1>1, <1>2, <1>3
  <2> QED BY <1>1, <1>2, <2>1
<1> QED BY <1>1, <1>2, <1>3, <1>4 DEF one

LEMMA OrderOfTail ==
  ASSUME NEW s \in Seq(Pcb), s # << >>
  PROVE  /\ Tail(s) \in Seq(Pcb) /\ Len(Tail(s)) = Len(s) - 1 /\ Len(s) \in Nat \ {0}
         /\ \A i \in 1 .. Len(s) - 1 : Tail(s)[i] = s[i + 1]
BY LenProperties, HeadTailProperties, EmptySeq

\* PcbLists and the lemmas on queues use the same operators.
LEMMA SameOps ==
  ASSUME NEW s \in Seq(Pcb), NEW p \in Pcb
  PROVE  /\ Lists!outProcQ(s, p) = Q!outProcQ(s, p)
         /\ Lists!ToSet(s) = Q!ToSet(s) /\ Lists!ToSet(s) = {s[k] : k \in 1 .. Len(s)}
<1>1. DOMAIN s = 1 .. Len(s)
  BY LenProperties
<1> QED BY <1>1 DEF Lists!outProcQ, Q!outProcQ, Lists!ToSet, Q!ToSet, Lists!RemoveFirst, Q!RemoveFirst,
      Lists!SelectInSeq, Q!SelectInSeq, Lists!RemoveAt, Q!RemoveAt, Lists!Min, Q!Min

\* outProcQ takes out the one occurrence, if any.
LEMMA OrderOfOut ==
  ASSUME NEW s \in Seq(Pcb), NEW p \in Pcb, \A i, j \in 1 .. Len(s) : s[i] = s[j] => i = j
  PROVE  LET r == Lists!outProcQ(s, p)
         IN /\ p \notin Lists!ToSet(s) => r = s
            /\ p \in Lists!ToSet(s) =>
                 /\ r \in Seq(Pcb) /\ Len(r) = Len(s) - 1
                 /\ \E n \in 1 .. Len(s) :
                      /\ s[n] = p
                      /\ \A i \in 1 .. Len(s) - 1 : r[i] = IF i < n THEN s[i] ELSE s[i + 1]
<1>1. Q!Distinct(s)
  BY LenProperties DEF Q!Distinct
<1>2. p \notin Q!ToSet(s) => Q!outProcQ(s, p) = s
  BY <1>1, Q!OutProcQ
<1>3. p \in Q!ToSet(s) =>
        /\ Q!outProcQ(s, p) \in Seq(Pcb) /\ Len(Q!outProcQ(s, p)) = Len(s) - 1
        /\ \E n \in 1 .. Len(s) :
             /\ s[n] = p
             /\ \A i \in 1 .. Len(s) - 1 : Q!outProcQ(s, p)[i] = IF i < n THEN s[i] ELSE s[i + 1]
  BY <1>1, Q!OutProcQOrder
<1> QED BY <1>2, <1>3, SameOps

\* The guards of pcb.c's callers, on sequences.
LEMMA GuardFacts ==
  ASSUME IInv, Threaded, ListxAssumption, NEW p \in Pcb
  PROVE  /\ p \in used => p \in Lists!Used
         /\ Alone(p_list(p)) => ~ Lists!Queued(p)
         /\ p_parent[p] = NULL => ~ Lists!IsChild(p)
         /\ Alone(p_child(p)) => Owners(links, p_child(p)) = << >>
<1>1. PICK at \in [Pcb -> Queue \cup {NULL}] : SortedBy(at)
  BY DEF IInv, Sorted
<1>2. \A h \in Heads : /\ Threads(links, h, Owners(links, h)) /\ Owners(links, h) \in Seq(Pcb)
                       /\ Lists!ToSet(Owners(links, h)) =
                            {Owners(links, h)[k] : k \in 1 .. Len(Owners(links, h))}
  BY SameOps DEF Threaded, Threads
<1>3. p \in used => p \in Lists!Used
  <2>1. p \in Lists!ToSet(Owners(links, pcbFree_h)) => p \notin used
    BY <1>1, <1>2, Members, HeadsFacts
  <2> QED BY <2>1 DEF Lists!Used
<1>4. Alone(p_list(p)) => ~ Lists!Queued(p)
  <2> SUFFICES ASSUME Alone(p_list(p)), NEW h \in Queue, p \in Lists!ToSet(Owners(links, head(h)))
               PROVE  FALSE
    BY DEF Lists!Queued
  <2> DEFINE s == Owners(links, head(h))
             new == p_list(p)
  <2>1. Threads(links, head(h), s) /\ head(h) \in Heads
    BY <1>2, HeadsFacts
  <2>2. PICK k \in 1 .. Len(s) : s[k] = p
    BY <1>2, <2>1
  <2>3. links.next[new] = new /\ new # head(h)
    BY NodeFacts, HeadFacts, KindsDisjoint DEF Alone
  <2> HIDE DEF s, new
  <2>4. At(head(h), s, k) = new /\ k \in 0 .. Len(s)
    BY <2>1, <2>2, AtFacts, HeadsFacts DEF new
  <2> QED BY ONLY <2>1, <2>3, <2>4, AloneNowhere
<1>5. p_parent[p] = NULL => ~ Lists!IsChild(p)
  <2> SUFFICES ASSUME NEW q \in Pcb, p \in Lists!ToSet(Owners(links, p_child(q)))
               PROVE  p_parent[p] # NULL
    BY DEF Lists!IsChild
  <2>1. p_parent[p] = q
    BY <1>1, <1>2, Members, HeadsFacts
  <2> QED BY <2>1 DEF ListxAssumption
<1>6. Alone(p_child(p)) => Owners(links, p_child(p)) = << >>
  <2> DEFINE s == Owners(links, p_child(p))
             h == p_child(p)
  <2> SUFFICES ASSUME links.next[h] = h, s # << >> PROVE FALSE
    BY DEF Alone
  <2>1. Threads(links, h, s) /\ h \in Heads /\ s \in Seq(Pcb)
    BY <1>2, HeadsFacts
  <2> HIDE DEF s, h
  <2>2. Len(s) \in Nat \ {0}
    BY <2>1, EmptySeq
  <2>3. 0 \in 0 .. Len(s) /\ 0 + 1 = 1 /\ 1 \in 1 .. Len(s)
    BY <2>2
  <2>4. links.next[At(h, s, 0)] = At(h, s, 1)
    BY <2>1, <2>3 DEF Threads
  <2> QED BY <2>1, <2>3, <2>4, AtFacts
<1> QED BY <1>3, <1>4, <1>5, <1>6

-----------------------------------------------------------------------------
(* The operations of pcb.c on sequences *)

Pool == Owners(links, pcbFree_h)
Queues == [h \in Queue |-> Owners(links, head(h))]
Children == [p \in Pcb |-> Owners(links, p_child(p))]

\* The abstract state after a step.
LEMMA ReadNext ==
  /\ Pool' = Owners(links', pcbFree_h)
  /\ Queues' = [h \in Queue |-> Owners(links', head(h))]
  /\ Children' = [p \in Pcb |-> Owners(links', p_child(p))]
BY OwnersNext DEF Pool, Queues, Children

\* A step on one list changes one part of the abstract state.
LEMMA OnlyPool ==
  ASSUME \A g \in Heads \ {pcbFree_h} : Owners(links', g) = Owners(links, g)
  PROVE  UNCHANGED << Queues, Children >>
BY ReadNext, HeadsFacts DEF Queues, Children

LEMMA OnlyQueue ==
  ASSUME NEW h \in Queue, \A g \in Heads \ {head(h)} : Owners(links', g) = Owners(links, g)
  PROVE  /\ Queues' = [Queues EXCEPT ![h] = Owners(links', head(h))]
         /\ UNCHANGED << Pool, Children >>
<1>1. \A g \in Queue \ {h} : Owners(links', head(g)) = Owners(links, head(g))
  BY HeadsFacts
<1>2. [k \in Queue |-> Owners(links', head(k))] = [Queues EXCEPT ![h] = Owners(links', head(h))]
  BY <1>1 DEF Queues
<1>3. Owners(links', pcbFree_h) = Owners(links, pcbFree_h)
      /\ \A p \in Pcb : Owners(links', p_child(p)) = Owners(links, p_child(p))
  BY HeadsFacts
<1> QED BY <1>2, <1>3, ReadNext DEF Pool, Children

LEMMA OnlyChildren ==
  ASSUME NEW q \in Pcb, \A g \in Heads \ {p_child(q)} : Owners(links', g) = Owners(links, g)
  PROVE  /\ Children' = [Children EXCEPT ![q] = Owners(links', p_child(q))]
         /\ UNCHANGED << Pool, Queues >>
<1>1. \A p \in Pcb \ {q} : Owners(links', p_child(p)) = Owners(links, p_child(p))
  BY HeadsFacts
<1>2. [p \in Pcb |-> Owners(links', p_child(p))] = [Children EXCEPT ![q] = Owners(links', p_child(q))]
  BY <1>1 DEF Children
<1>3. Owners(links', pcbFree_h) = Owners(links, pcbFree_h)
      /\ \A h \in Queue : Owners(links', head(h)) = Owners(links, head(h))
  BY HeadsFacts
<1> QED BY <1>2, <1>3, ReadNext DEF Pool, Queues

\* A list has a first node when its head is not alone.
LEMMA FirstNode ==
  ASSUME Threaded, NEW h \in Heads, NEW s, s = Owners(links, h), links.next[h] # h
  PROVE  s \in Seq(Pcb) /\ s # << >> /\ 1 \in 1 .. Len(s) /\ links.next[h] = Elem(h, s[1])
<1>1. Threads(links, h, s) /\ s \in Seq(Pcb)
  BY DEF Threaded, Threads
<1>2. Len(s) \in Nat /\ At(h, s, 0) = h /\ At(h, s, Len(s) + 1) = h
  BY <1>1, AtFacts
<1>3. links.next[At(h, s, 0)] = At(h, s, 0 + 1)
  BY <1>1, <1>2 DEF Threads
<1>4. links.next[h] = At(h, s, 1)
  BY <1>2, <1>3
<1>5. Len(s) # 0
  BY <1>2, <1>4
<1>6. 1 \in 1 .. Len(s)
  BY <1>2, <1>5
<1>7. At(h, s, 1) = Elem(h, s[1])
  BY <1>1, <1>6, AtFacts
<1> QED BY <1>1, <1>4, <1>5, <1>6, <1>7

\* Taking the first PCB out of a list.
LEMMA FirstStep ==
  ASSUME IInv, Threaded, ListxAssumption, NEW h \in Heads, NEW s, s = Owners(links, h),
         links.next[h] # h, links' = list_del(links, links.next[h])
  PROVE  /\ Threaded' /\ s # << >> /\ Owners(links', h) = Tail(s)
         /\ \A g \in Heads \ {h} : Owners(links', g) = Owners(links, g)
<1>1. s \in Seq(Pcb) /\ s # << >> /\ 1 \in 1 .. Len(s) /\ links.next[h] = Elem(h, s[1])
  BY FirstNode
<1> DEFINE r == Tail(s)
<1>2. r \in Seq(Pcb) /\ Len(r) = Len(s) - 1 /\ \A i \in 1 .. Len(s) - 1 : r[i] = s[i + 1]
  BY <1>1, OrderOfTail
<1> HIDE DEF r
<1>3. \A i \in 1 .. Len(s) - 1 : r[i] = IF i < 1 THEN s[i] ELSE s[i + 1]
  BY <1>2
<1>4. links' = list_del(links, Elem(h, s[1]))
  BY <1>1
<1>5. /\ Threaded' /\ Owners(links', h) = r
      /\ \A g \in Heads \ {h} : Owners(links', g) = Owners(links, g)
  BY <1>1, <1>2, <1>3, <1>4, DelStep
<1> QED BY <1>1, <1>5 DEF r

\* Putting p first in a list.
LEMMA PushStep ==
  ASSUME IInv, Threaded, ListxAssumption, NEW h \in Heads, NEW s, s = Owners(links, h),
         NEW p \in Pcb, links.next[Elem(h, p)] = Elem(h, p),
         links' = list_add(links, Elem(h, p), h)
  PROVE  /\ Threaded' /\ Owners(links', h) = << p >> \o s
         /\ \A g \in Heads \ {h} : Owners(links', g) = Owners(links, g)
<1>1. Threads(links, h, s) /\ s \in Seq(Pcb)
  BY DEF Threaded, Threads
<1>2. Len(s) \in Nat /\ At(h, s, 0) = h
  BY <1>1, AtFacts
<1> DEFINE r == << p >> \o s
<1>3. r \in Seq(Pcb) /\ Len(r) = Len(s) + 1
      /\ \A i \in 1 .. Len(s) + 1 : r[i] = IF i = 1 THEN p ELSE s[i - 1]
  BY <1>1, OrderOfPush
<1> HIDE DEF r
<1>4. \A i \in 1 .. Len(s) + 1 : r[i] = IF i <= 0 THEN s[i] ELSE IF i = 0 + 1 THEN p ELSE s[i - 1]
  BY <1>2, <1>3
<1>5. links' = list_insert(links, Elem(h, p), At(h, s, 0), links.next[At(h, s, 0)]) /\ 0 \in 0 .. Len(s)
  BY <1>2 DEF list_add
<1>6. /\ Threaded' /\ Owners(links', h) = r
      /\ \A g \in Heads \ {h} : Owners(links', g) = Owners(links, g)
  BY <1>3, <1>4, <1>5, InsertStep
<1> QED BY <1>6 DEF r

\* Taking p out of a list it is in.
LEMMA OutStep ==
  ASSUME IInv, Threaded, ListxAssumption, NEW h \in Heads, NEW s, s = Owners(links, h),
         NEW p \in Pcb, p \in Lists!ToSet(s), links' = list_del(links, Elem(h, p))
  PROVE  /\ Threaded' /\ Owners(links', h) = Lists!outProcQ(s, p)
         /\ \A g \in Heads \ {h} : Owners(links', g) = Owners(links, g)
<1>1. Threads(links, h, s) /\ s \in Seq(Pcb) /\ \A i, j \in 1 .. Len(s) : s[i] = s[j] => i = j
  BY DEF Threaded, Threads
<1> DEFINE r == Lists!outProcQ(s, p)
<1>2. /\ p \notin Lists!ToSet(s) => r = s
      /\ p \in Lists!ToSet(s) =>
           /\ r \in Seq(Pcb) /\ Len(r) = Len(s) - 1
           /\ \E n \in 1 .. Len(s) :
                /\ s[n] = p
                /\ \A i \in 1 .. Len(s) - 1 : r[i] = IF i < n THEN s[i] ELSE s[i + 1]
  BY ONLY <1>1, OrderOfOut, p \in Pcb
<1> HIDE DEF r
<1>3. /\ r \in Seq(Pcb) /\ Len(r) = Len(s) - 1
      /\ \E n \in 1 .. Len(s) :
           /\ s[n] = p
           /\ \A i \in 1 .. Len(s) - 1 : r[i] = IF i < n THEN s[i] ELSE s[i + 1]
  BY <1>2
<1>4. PICK n \in 1 .. Len(s) :
        s[n] = p /\ \A i \in 1 .. Len(s) - 1 : r[i] = IF i < n THEN s[i] ELSE s[i + 1]
  BY <1>3
<1>5. links' = list_del(links, Elem(h, s[n]))
  BY <1>4
<1>6. /\ Threaded' /\ Owners(links', h) = r
      /\ \A g \in Heads \ {h} : Owners(links', g) = Owners(links, g)
  BY <1>3, <1>4, <1>5, DelStep
<1> QED BY <1>6 DEF r

\* list_for_each, over the nodes that the list of h is made of, visits PCBs of it only.
LEMMA Visited ==
  ASSUME NEW L, NEW h \in Heads, NEW s, Threads(L, h, s), NEW N,
         h \notin N, \A p \in Pcb : Elem(h, p) \in N,
         NEW p \in Pcb, Elem(h, p) \in list_for_each(L, h, N)
  PROVE  p \in {s[k] : k \in 1 .. Len(s)}
<1> DEFINE S == {At(h, s, k) : k \in 1 .. Len(s)}
<1>1. /\ Len(s) \in Nat /\ At(h, s, 0) = h /\ At(h, s, Len(s) + 1) = h
      /\ \A k \in 1 .. Len(s) : s[k] \in Pcb /\ At(h, s, k) = Elem(h, s[k])
  BY AtFacts
<1>2. \A k \in 0 .. Len(s) : L.next[At(h, s, k)] = At(h, s, k + 1)
  BY DEF Threads
<1>3. \A k \in 0 .. Len(s) : At(h, s, k + 1) \in N => At(h, s, k + 1) \in S
  <2> SUFFICES ASSUME NEW k \in 0 .. Len(s), At(h, s, k + 1) \in N PROVE At(h, s, k + 1) \in S
    OBVIOUS
  <2>1. k # Len(s)
    BY <1>1
  <2>2. k + 1 \in 1 .. Len(s)
    BY <1>1, <2>1
  <2> QED BY <2>2
<1>4. L.next[h] \in N => L.next[h] \in S
  <2>1. 0 \in 0 .. Len(s)
    BY <1>1
  <2> HIDE DEF S
  <2> QED BY <1>1, <1>2, <1>3, <2>1
<1>5. \A m \in S : L.next[m] \in N => L.next[m] \in S
  <2> SUFFICES ASSUME NEW k \in 1 .. Len(s), L.next[At(h, s, k)] \in N
               PROVE  L.next[At(h, s, k)] \in S
    OBVIOUS
  <2>1. k \in 0 .. Len(s)
    BY <1>1
  <2> HIDE DEF S
  <2> QED BY <1>2, <1>3, <2>1
<1>6. S \in SUBSET N
  BY <1>1
<1>7. Elem(h, p) \in S
  <2> HIDE DEF S
  <2>1. ({L.next[h]} \cup {L.next[m] : m \in S}) \cap N \subseteq S
    BY <1>4, <1>5
  <2> QED BY <1>6, <2>1 DEF list_for_each
<1>8. PICK k \in 1 .. Len(s) : Elem(h, p) = Elem(h, s[k])
  BY <1>1, <1>7
<1>9. p = s[k]
  BY <1>1, <1>8, ElemFacts
<1> QED BY <1>9

\* allocPcb takes the first of the pool.
LEMMA AllocSteps ==
  ASSUME IInv, Threaded, ListxAssumption, allocPcb
  PROVE  Threaded' /\ Lists!AllocPcb
<1>1. links.next[pcbFree_h] # pcbFree_h /\ links' = list_del(links, links.next[pcbFree_h])
  BY AllocLinks DEF allocPcb, list_empty
<1>2. /\ Threaded' /\ Pool # << >> /\ Owners(links', pcbFree_h) = Tail(Pool)
      /\ \A g \in Heads \ {pcbFree_h} : Owners(links', g) = Owners(links, g)
  BY <1>1, FirstStep, HeadsFacts DEF Pool
<1>3. Pool' = Tail(Pool) /\ UNCHANGED << Queues, Children >>
  BY <1>2, OnlyPool, ReadNext
<1> QED BY <1>2, <1>3 DEF Lists!AllocPcb, Pool, Queues, Children

\* freePcb makes its PCB the first of the pool.
LEMMA FreeSteps ==
  ASSUME IInv, Threaded, ListxAssumption, NEW p \in Pcb, Unqueued(p), Unrelated(p), freePcb(p)
  PROVE  Threaded' /\ Lists!FreePcb(p)
<1>1. /\ p \in used /\ Alone(p_list(p)) /\ Alone(p_child(p)) /\ p_parent[p] = NULL
      /\ links' = list_add(links, p_list(p), pcbFree_h)
  BY DEF freePcb, Unqueued, Unrelated
<1>2. p \in Lists!Used /\ ~ Lists!Queued(p) /\ ~ Lists!IsChild(p) /\ Children[p] = << >>
  BY <1>1, GuardFacts DEF Children
<1>3. /\ Threaded' /\ Owners(links', pcbFree_h) = << p >> \o Pool
      /\ \A g \in Heads \ {pcbFree_h} : Owners(links', g) = Owners(links, g)
  BY <1>1, PushStep, HeadsFacts DEF Pool, Alone
<1>4. Pool' = << p >> \o Pool /\ UNCHANGED << Queues, Children >>
  BY <1>3, OnlyPool, ReadNext
<1> QED BY <1>2, <1>3, <1>4 DEF Lists!FreePcb, Pool, Queues, Children

\* insertProcQ: the node before the head is the last of the queue.
LEMMA InsertSteps ==
  ASSUME IInv, Threaded, ListxAssumption, NEW h \in Queue, NEW p \in Pcb, Unqueued(p), insertProcQ(h, p)
  PROVE  Threaded' /\ Lists!InsertProcQ(h, p)
<1> DEFINE s == Owners(links, head(h))
<1>1. p \in used /\ Alone(p_list(p)) /\ links' = list_add_tail(links, p_list(p), head(h))
  BY DEF insertProcQ, Unqueued
<1>2. p \in Lists!Used /\ ~ Lists!Queued(p)
  BY <1>1, GuardFacts
<1>3. Threads(links, head(h), s) /\ s \in Seq(Pcb) /\ head(h) \in Heads
  BY HeadsFacts DEF Threaded, Threads
<1> HIDE DEF s
<1>4. /\ Len(s) \in Nat /\ Len(s) \in 0 .. Len(s) /\ At(head(h), s, Len(s)) \in Node
      /\ At(head(h), s, Len(s) + 1) = head(h)
  BY <1>3, AtFacts
<1>5. links.next[At(head(h), s, Len(s))] = head(h)
  BY <1>3, <1>4 DEF Threads
<1>6. links.prev[head(h)] = At(head(h), s, Len(s))
  BY <1>4, <1>5, LinksFacts DEF IInv, Chained
<1>7. links' = list_insert(links, Elem(head(h), p), At(head(h), s, Len(s)),
                           links.next[At(head(h), s, Len(s))])
      /\ links.next[Elem(head(h), p)] = Elem(head(h), p)
  BY <1>1, <1>5, <1>6, HeadsFacts DEF list_add_tail, Alone
<1> DEFINE r == Lists!insertProcQ(s, p)
<1>8. /\ r \in Seq(Pcb) /\ Len(r) = Len(s) + 1
      /\ \A i \in 1 .. Len(s) + 1 :
           r[i] = IF i <= Len(s) THEN s[i] ELSE IF i = Len(s) + 1 THEN p ELSE s[i - 1]
  BY ONLY <1>3, OrderOfAppend, p \in Pcb
<1> HIDE DEF r
<1>9. /\ Threaded' /\ Owners(links', head(h)) = r
      /\ \A g \in Heads \ {head(h)} : Owners(links', g) = Owners(links, g)
  BY <1>3, <1>4, <1>7, <1>8, InsertStep DEF s
<1>10. Queues' = [Queues EXCEPT ![h] = r] /\ UNCHANGED << Pool, Children >>
  BY <1>9, OnlyQueue
<1>11. Queues[h] = s
  BY DEF Queues, s
<1>12. Queues' = [Queues EXCEPT ![h] = Lists!insertProcQ(@, p)]
  BY <1>10, <1>11 DEF r
<1> QED BY <1>2, <1>9, <1>10, <1>12 DEF Lists!InsertProcQ, Pool, Queues, Children

\* removeProcQ takes the first of the queue.
LEMMA RemoveSteps ==
  ASSUME IInv, Threaded, ListxAssumption, NEW h \in Queue, removeProcQ(h)
  PROVE  Threaded' /\ Lists!RemoveProcQ(h)
<1>1. PICK at \in [Pcb -> Queue \cup {NULL}] : SortedBy(at)
  BY DEF IInv, Sorted
<1>2. links.next[head(h)] # head(h)
  BY DEF removeProcQ, list_empty
<1>3. PICK p \in used : links.next[head(h)] = p_list(p)
  BY <1>1, <1>2, Neighbours DEF IInv
<1>4. links' = list_del(links, links.next[head(h)])
  BY <1>3, NodeFacts DEF removeProcQ, IInv, TypeOK
<1>5. /\ Threaded' /\ Queues[h] # << >> /\ Owners(links', head(h)) = Tail(Queues[h])
      /\ \A g \in Heads \ {head(h)} : Owners(links', g) = Owners(links, g)
  BY <1>2, <1>4, FirstStep, HeadsFacts DEF Queues
<1>6. Queues' = [Queues EXCEPT ![h] = Tail(@)] /\ UNCHANGED << Pool, Children >>
  BY <1>5, OnlyQueue
<1> QED BY <1>5, <1>6 DEF Lists!RemoveProcQ, Lists!removeProcQ, Lists!emptyProcQ, Pool, Queues, Children

\* outProcQ finds p only if the queue has it.
LEMMA OutSteps ==
  ASSUME IInv, Threaded, ListxAssumption, NEW h \in Queue, NEW p \in Pcb, outProcQ(h, p)
  PROVE  Threaded' /\ Lists!OutProcQ(h, p)
<1> DEFINE s == Owners(links, head(h))
<1>1. p_list(p) \in list_for_each(links, head(h), ListNode) /\ links' = list_del(links, p_list(p))
  BY DEF outProcQ
<1>2. Threads(links, head(h), s) /\ s \in Seq(Pcb) /\ head(h) \in Heads
  BY HeadsFacts DEF Threaded, Threads
<1> HIDE DEF s
<1>3. p \in Lists!ToSet(s)
  <2>1. p \in {s[k] : k \in 1 .. Len(s)}
    <3>1. head(h) \notin ListNode /\ \A q \in Pcb : Elem(head(h), q) = p_list(q) /\ p_list(q) \in ListNode
      BY HeadsFacts, HeadFacts, NodeFacts, KindsDisjoint
    <3>2. Elem(head(h), p) \in list_for_each(links, head(h), ListNode)
      BY <1>1, <3>1
    <3>3. \A q \in Pcb : Elem(head(h), q) \in ListNode
      BY <3>1
    <3> QED BY <1>2, <3>1, <3>2, <3>3, Visited
  <2> QED BY <1>2, <2>1, SameOps
<1>4. /\ Threaded' /\ Owners(links', head(h)) = Lists!outProcQ(s, p)
      /\ \A g \in Heads \ {head(h)} : Owners(links', g) = Owners(links, g)
  BY <1>1, <1>2, <1>3, OutStep, HeadsFacts DEF s
<1>5. Queues' = [Queues EXCEPT ![h] = Lists!outProcQ(s, p)] /\ UNCHANGED << Pool, Children >>
  BY <1>4, OnlyQueue
<1>6. Queues[h] = s
  BY DEF Queues, s
<1>7. Queues' = [Queues EXCEPT ![h] = Lists!outProcQ(@, p)]
  BY <1>5, <1>6
<1> QED BY <1>3, <1>4, <1>5, <1>6, <1>7 DEF Lists!OutProcQ, Pool, Queues, Children

\* insertChild makes p the first child.
LEMMA InsertChildSteps ==
  ASSUME IInv, Threaded, ListxAssumption, NEW q \in Pcb, NEW p \in Pcb, Adopts(q, p), insertChild(q, p)
  PROVE  Threaded' /\ Lists!InsertChild(q, p)
<1>1. PICK at \in [Pcb -> Queue \cup {NULL}] : SortedBy(at)
  BY DEF IInv, Sorted
<1>2. /\ q # p /\ p \in used /\ q \in used /\ p_parent[p] = NULL /\ Alone(p_child(p))
      /\ links' = list_add(links, p_sib(p), p_child(q))
  BY DEF insertChild, Adopts, Unrelated
<1>3. Alone(p_sib(p))
  BY <1>1, <1>2, Neighbours DEF IInv
<1>4. {p, q} \subseteq Lists!Used /\ ~ Lists!IsChild(p) /\ Children[p] = << >>
  BY <1>2, GuardFacts DEF Children
<1>5. /\ Threaded' /\ Owners(links', p_child(q)) = << p >> \o Children[q]
      /\ \A g \in Heads \ {p_child(q)} : Owners(links', g) = Owners(links, g)
  BY <1>2, <1>3, PushStep, HeadsFacts DEF Children, Alone
<1>6. Children' = [Children EXCEPT ![q] = << p >> \o @] /\ UNCHANGED << Pool, Queues >>
  BY <1>5, OnlyChildren
<1> QED BY <1>2, <1>4, <1>5, <1>6 DEF Lists!InsertChild, Pool, Queues, Children

\* removeChild takes the first child.
LEMMA RemoveChildSteps ==
  ASSUME IInv, Threaded, ListxAssumption, NEW q \in Pcb, removeChild(q)
  PROVE  Threaded' /\ Lists!RemoveChild(q)
<1>1. links.next[p_child(q)] # p_child(q) /\ links' = list_del(links, links.next[p_child(q)])
  BY DEF removeChild, list_empty
<1>2. /\ Threaded' /\ Children[q] # << >> /\ Owners(links', p_child(q)) = Tail(Children[q])
      /\ \A g \in Heads \ {p_child(q)} : Owners(links', g) = Owners(links, g)
  BY <1>1, FirstStep, HeadsFacts DEF Children
<1>3. Children' = [Children EXCEPT ![q] = Tail(@)] /\ UNCHANGED << Pool, Queues >>
  BY <1>2, OnlyChildren
<1> QED BY <1>2, <1>3 DEF Lists!RemoveChild, Pool, Queues, Children

\* outChild takes p from the children of its parent; nobody else has it.
LEMMA OutChildSteps ==
  ASSUME IInv, Threaded, ListxAssumption, NEW p \in Pcb, outChild(p)
  PROVE  Threaded' /\ Lists!OutChild(p)
<1>1. PICK at \in [Pcb -> Queue \cup {NULL}] : SortedBy(at)
  BY DEF IInv, Sorted
<1> DEFINE prnt == p_parent[p]
           s == Children[prnt]
<1>2. /\ prnt \in Pcb /\ p_sib(p) \in list_for_each(links, p_child(prnt), SibNode)
      /\ links' = list_del(links, p_sib(p))
  BY DEF outChild, IInv, TypeOK, Found
<1>3. s = Owners(links, p_child(prnt)) /\ p_child(prnt) \in Heads
  BY <1>2, HeadsFacts DEF Children
<1>4. \A q \in Pcb :
        /\ Threads(links, p_child(q), Children[q]) /\ Children[q] \in Seq(Pcb)
        /\ \A i, j \in 1 .. Len(Children[q]) : Children[q][i] = Children[q][j] => i = j
        /\ Lists!ToSet(Children[q]) = {Children[q][k] : k \in 1 .. Len(Children[q])}
  BY HeadsFacts, SameOps DEF Threaded, Threads, Children
<1> HIDE DEF prnt, s
<1>5. Threads(links, p_child(prnt), s) /\ Lists!ToSet(s) = {s[k] : k \in 1 .. Len(s)}
  BY <1>2, <1>4 DEF s
<1>6. p \in Lists!ToSet(s)
  <2>1. p_child(prnt) \notin SibNode /\ \A q \in Pcb : Elem(p_child(prnt), q) = p_sib(q) /\ p_sib(q) \in SibNode
    BY <1>2, HeadsFacts, NodeFacts, KindsDisjoint
  <2>2. Elem(p_child(prnt), p) \in list_for_each(links, p_child(prnt), SibNode)
    BY <1>2, <2>1
  <2>3. \A q \in Pcb : Elem(p_child(prnt), q) \in SibNode
    BY <2>1
  <2>4. p \in {s[k] : k \in 1 .. Len(s)}
    BY <1>3, <1>5, <2>1, <2>2, <2>3, Visited
  <2> QED BY <1>5, <2>4
<1>7. /\ Threaded' /\ Owners(links', p_child(prnt)) = Lists!outProcQ(s, p)
      /\ \A g \in Heads \ {p_child(prnt)} : Owners(links', g) = Owners(links, g)
  BY <1>2, <1>3, <1>6, OutStep, HeadsFacts
<1>8. Children' = [Children EXCEPT ![prnt] = Lists!outProcQ(s, p)] /\ UNCHANGED << Pool, Queues >>
  BY <1>2, <1>7, OnlyChildren
<1>9. ASSUME NEW q \in Pcb, q # prnt PROVE Lists!outProcQ(Children[q], p) = Children[q]
  <2> DEFINE h == p_child(q)
             c == Children[q]
  <2>1. Threads(links, h, c) /\ h \in Heads /\ Lists!ToSet(c) = {c[k] : k \in 1 .. Len(c)}
    BY <1>4, HeadsFacts
  <2> HIDE DEF c
  <2>2. \A k \in 1 .. Len(c) : p_parent[c[k]] = q
    <3> SUFFICES ASSUME NEW k \in 1 .. Len(c) PROVE p_parent[c[k]] = q
      OBVIOUS
    <3>1. \A g \in Pcb : h = p_child(g) => p_parent[c[k]] = g
      <4> HIDE DEF h
      <4> QED BY ONLY <1>1, <2>1, k \in 1 .. Len(c), Members
    <3> QED BY <3>1
  <2>3. p \notin Lists!ToSet(c)
    BY <1>9, <2>1, <2>2 DEF prnt
  <2> QED BY <1>4, <2>3, OrderOfOut DEF c
<1>10. Children' = [q \in Pcb |-> Lists!outProcQ(Children[q], p)]
  <2>1. DOMAIN Children = Pcb /\ Children = [q \in Pcb |-> Children[q]]
    BY DEF Children
  <2> QED BY <1>8, <1>9, <2>1 DEF s
<1>11. Lists!IsChild(p)
  BY <1>2, <1>3, <1>6 DEF Lists!IsChild
<1> QED BY <1>7, <1>8, <1>10, <1>11 DEF Lists!OutChild, Pool, Queues, Children

\* initPcbs leaves the whole table in the pool, the last PCB first, and all else empty.
LEMMA InitSteps ==
  ASSUME ListxAssumption, Init
  PROVE  Threaded /\ Lists!Init
<1> DEFINE s == [i \in 1 .. MAXPROC |-> MAXPROC + 1 - i]
<1>1. MAXPROC \in Nat \ {0} /\ \A i \in 1 .. MAXPROC : MAXPROC + 1 - i \in Pcb
  BY DEF ListxAssumption, Pcb
<1>2. s \in Seq(Pcb) /\ Len(s) = MAXPROC /\ \A i \in 1 .. MAXPROC : s[i] = MAXPROC + 1 - i
  BY <1>1
<1> HIDE DEF s
<1>3. Threads(links, pcbFree_h, s)
  <2>1. \A i, j \in 1 .. Len(s) : s[i] = s[j] => i = j
    BY <1>1, <1>2
  <2>2. \A k \in 0 .. MAXPROC + 1 :
          At(pcbFree_h, s, k) = IF k \in 1 .. MAXPROC THEN p_list(MAXPROC + 1 - k) ELSE pcbFree_h
    BY <1>1, <1>2, HeadsFacts DEF At
  <2>3. ASSUME NEW k \in 0 .. Len(s)
        PROVE  links.next[At(pcbFree_h, s, k)] = At(pcbFree_h, s, k + 1)
    <3>1. k \in 0 .. MAXPROC + 1 /\ k + 1 \in 0 .. MAXPROC + 1
      BY <1>1, <1>2
    <3>2. CASE k = 0
      <4>1. k \notin 1 .. MAXPROC /\ k + 1 \in 1 .. MAXPROC /\ MAXPROC + 1 - (k + 1) = MAXPROC
        BY <1>1, <3>2
      <4>2. At(pcbFree_h, s, k) = pcbFree_h /\ At(pcbFree_h, s, k + 1) = p_list(MAXPROC)
        BY <2>2, <3>1, <4>1
      <4> QED BY <4>2, InitNodes
    <3>3. CASE k \in 1 .. MAXPROC - 1
      <4>1. /\ k \in 1 .. MAXPROC /\ k + 1 \in 1 .. MAXPROC /\ MAXPROC + 1 - k \in Pcb
            /\ MAXPROC + 1 - k # 1 /\ MAXPROC + 1 - (k + 1) = (MAXPROC + 1 - k) - 1
        BY <1>1, <3>3
      <4>2. /\ At(pcbFree_h, s, k) = p_list(MAXPROC + 1 - k)
            /\ At(pcbFree_h, s, k + 1) = p_list((MAXPROC + 1 - k) - 1)
        BY <2>2, <3>1, <4>1
      <4> QED BY <4>1, <4>2, InitNodes
    <3>4. CASE k = MAXPROC
      <4>1. k \in 1 .. MAXPROC /\ k + 1 \notin 1 .. MAXPROC /\ MAXPROC + 1 - k = 1
        BY <1>1, <3>4
      <4>2. At(pcbFree_h, s, k) = p_list(1) /\ At(pcbFree_h, s, k + 1) = pcbFree_h
        BY <2>2, <3>1, <4>1
      <4> QED BY <4>2, InitNodes
    <3> QED BY <1>1, <1>2, <3>2, <3>3, <3>4
  <2> QED BY <1>2, <2>1, <2>3 DEF Threads
<1>4. \A h \in Heads \ {pcbFree_h} : Threads(links, h, << >>)
  <2> SUFFICES ASSUME NEW h \in Heads \ {pcbFree_h} PROVE Threads(links, h, << >>)
    OBVIOUS
  <2> DEFINE none == << >>
  <2>1. none \in Seq(Pcb) /\ Len(none) = 0
    OBVIOUS
  <2>2. links.next[h] = h
    BY InitNodes, KindsDisjoint, ElemFacts DEF Heads
  <2> HIDE DEF none
  <2>3. \A k : At(h, none, k) = h
    BY <2>1 DEF At
  <2> QED BY <2>1, <2>2, <2>3 DEF Threads, none
<1>5. Pool = s /\ \A h \in Heads \ {pcbFree_h} : Owners(links, h) = << >>
  BY <1>3, <1>4, ThreadOwners, HeadsFacts DEF Pool
<1>6. Threaded
  BY <1>3, <1>4, <1>5 DEF Threaded, Pool
<1>7. Queues = [h \in Queue |-> << >>] /\ Children = [p \in Pcb |-> << >>]
  BY <1>5, HeadsFacts DEF Queues, Children
<1>8. Lists!Distinct(Pool) /\ Lists!ToSet(Pool) = Pcb
  <2>1. DOMAIN s = 1 .. MAXPROC
    BY <1>2, LenProperties
  <2>2. \A p \in Pcb : MAXPROC + 1 - p \in 1 .. MAXPROC /\ MAXPROC + 1 - (MAXPROC + 1 - p) = p
    BY <1>1 DEF Pcb
  <2>3. Lists!Distinct(s)
    BY <1>1, <1>2, <2>1 DEF Lists!Distinct
  <2>4. Lists!ToSet(s) = {s[i] : i \in 1 .. MAXPROC}
    BY <2>1 DEF Lists!ToSet
  <2>5. \A p \in Pcb : s[MAXPROC + 1 - p] = p
    BY <1>2, <2>2
  <2>6. Lists!ToSet(s) = Pcb
    BY <1>1, <1>2, <2>2, <2>4, <2>5
  <2> QED BY <1>5, <2>3, <2>6
<1> QED BY <1>6, <1>7, <1>8 DEF Lists!Init, Lists!mkEmptyProcQ, Pool, Queues, Children

\* Each operation of pcb.c is the one of PcbLists, or changes no list.
LEMMA StepImplements ==
  ASSUME IInv, Threaded, ListxAssumption, [Next]_vars
  PROVE  Threaded' /\ [Lists!Next]_(Lists!lists)
<1>1. CASE allocPcb
  BY <1>1, AllocSteps DEF Lists!Next
<1>2. ASSUME NEW p \in Pcb, Unqueued(p), Unrelated(p), freePcb(p) PROVE Threaded' /\ Lists!Next
  BY <1>2, FreeSteps DEF Lists!Next
<1>3. ASSUME NEW p \in Pcb, removeChild(p) PROVE Threaded' /\ Lists!Next
  BY <1>3, RemoveChildSteps DEF Lists!Next
<1>4. ASSUME NEW p \in Pcb, outChild(p) PROVE Threaded' /\ Lists!Next
  BY <1>4, OutChildSteps DEF Lists!Next
<1>5. ASSUME NEW prnt \in Pcb, NEW p \in Pcb, Adopts(prnt, p), insertChild(prnt, p) PROVE Threaded' /\ Lists!Next
  BY <1>5, InsertChildSteps DEF Lists!Next
<1>6. ASSUME NEW h \in Queue, removeProcQ(h) PROVE Threaded' /\ Lists!Next
  BY <1>6, RemoveSteps DEF Lists!Next
<1>7. ASSUME NEW h \in Queue, NEW p \in Pcb, Unqueued(p), insertProcQ(h, p) PROVE Threaded' /\ Lists!Next
  BY <1>7, InsertSteps DEF Lists!Next
<1>8. ASSUME NEW h \in Queue, NEW p \in Pcb, outProcQ(h, p) PROVE Threaded' /\ Lists!Next
  BY <1>8, OutSteps DEF Lists!Next
<1>9. CASE UNCHANGED vars
  <2>1. links' = links
    BY <1>9 DEF vars
  <2>2. Threaded'
    BY <2>1, OwnersNext DEF Threaded
  <2>3. UNCHANGED << Pool, Queues, Children >>
    BY <2>1, ReadNext DEF Pool, Queues, Children
  <2> QED BY <2>2, <2>3 DEF Lists!lists, Pool, Queues, Children
<1> QED BY <1>1, <1>2, <1>3, <1>4, <1>5, <1>6, <1>7, <1>8, <1>9 DEF Next

\* The linked lists implement the sequences that pcb.c promises (src/phase1/pcb.c:18-174),
\* whatever the calls, as long as the callers see to what pcb.c does not test.
THEOREM Refinement == Spec => ListsSpec
<1>1. Init => IInv /\ Threaded /\ Lists!Init
  BY InitHolds, InitSteps, ListxAssumption
<1>2. IInv /\ Threaded /\ [Next]_vars => IInv' /\ Threaded' /\ [Lists!Next]_(Lists!lists)
  BY StepKeeps, StepImplements, ListxAssumption
<1> QED BY <1>1, <1>2, PTL DEF Spec, ListsSpec, Lists!Spec
=============================================================================
