----------------------------- MODULE AslProofs -----------------------------
(***************************************************************************)
(* For any number of PCBs and semaphores, the Active Semaphore List keeps  *)
(* its invariants and implements BlockedQueues.                            *)
(***************************************************************************)
EXTENDS Asl, ProcQTheorems, FiniteSetTheorems

\* The inductive invariant: the invariants of Asl need each other.
IInv == TypeOK /\ DistinctKeys /\ DescriptorsAccounted /\ BlockedOnce /\ BlockedHasSemAdd

\* A search of semd_h for a key that is there finds a descriptor with it.
LEMMA SearchFinds ==
  ASSUME NEW k, Active(k)
  PROVE  SemdOf(k) \in semd_h /\ s_key[SemdOf(k)] = k
BY DEF Active, SemdOf

\* With distinct keys the search for a descriptor's key finds that descriptor.
LEMMA SearchFindsIt ==
  ASSUME DistinctKeys, NEW d \in semd_h
  PROVE  Active(s_key[d]) /\ SemdOf(s_key[d]) = d
BY DEF Active, SemdOf, DistinctKeys

\* Taking PCBs out of the queue of an active descriptor (asl.c:83-91, 130-134,
\* 155-159) keeps the invariant.
LEMMA ShrinkKeeps ==
  ASSUME IInv, NEW d \in semd_h, NEW q \in Seq(Pcb),
         ToSet(q) \subseteq ToSet(s_procq[d]), Distinct(q), Shrink(d, q)
  PROVE  IInv'
<1> USE DEF Shrink, emptyProcQ, IInv
<1>1. TypeOK'
  BY DEF TypeOK
<1>2. DistinctKeys'
  BY DEF DistinctKeys
<1>3. DescriptorsAccounted'
  BY DEF DescriptorsAccounted, TypeOK
<1>4. semd_h' \subseteq semd_h /\ s_key' = s_key /\ p_semAdd' = p_semAdd
  OBVIOUS
<1>5. \A e \in semd_h' : ToSet(s_procq'[e]) \subseteq ToSet(s_procq[e]) /\ Distinct(s_procq'[e])
  BY DEF TypeOK, BlockedOnce
<1>6. BlockedOnce'
  BY <1>4, <1>5 DEF BlockedOnce, Holds
<1>7. BlockedHasSemAdd'
  BY <1>4, <1>5 DEF BlockedHasSemAdd, Holds
<1> QED BY <1>1, <1>2, <1>3, <1>6, <1>7

\* Blocking a PCB that is in no queue keeps the invariant (asl.c:37-68).
LEMMA InsertKeeps ==
  ASSUME IInv, AslAssumption, NEW k \in Key, NEW p \in Pcb, insertBlocked(k, p)
  PROVE  IInv'
<1> USE DEF IInv
<1>1. \A d \in semd_h : p \notin ToSet(s_procq[d])
  BY DEF insertBlocked, IsBlocked, Holds, TypeOK
<1>2. CASE Active(k)
  <2> DEFINE d == SemdOf(k)
             q == insertProcQ(s_procq[d], p)
  <2>1. d \in semd_h /\ s_key[d] = k
    BY <1>2, SearchFinds
  <2> HIDE DEF d
  <2>2. /\ q \in Seq(Pcb) /\ q # << >> /\ ToSet(q) = ToSet(s_procq[d]) \cup {p}
        /\ Distinct(q)
    BY <1>1, <2>1, InsertProcQ DEF TypeOK, BlockedOnce, emptyProcQ
  <2> HIDE DEF q
  <2>3. /\ s_procq' = [s_procq EXCEPT ![d] = q]
        /\ p_semAdd' = [p_semAdd EXCEPT ![p] = k]
        /\ UNCHANGED << semd_h, semdFree, s_key >>
    BY <1>2 DEF insertBlocked, JoinQueue, BlockedOn, d, q
  <2>4. TypeOK'
    BY <2>2, <2>3 DEF TypeOK
  <2>5. DistinctKeys' /\ DescriptorsAccounted'
    BY <2>1, <2>2, <2>3 DEF DistinctKeys, DescriptorsAccounted, TypeOK, emptyProcQ
  <2>6. \A e \in semd_h : ToSet(s_procq'[e]) = IF e = d THEN ToSet(s_procq[e]) \cup {p}
                                                      ELSE ToSet(s_procq[e])
    BY <2>2, <2>3 DEF TypeOK
  <2>7. BlockedOnce'
    BY <1>1, <2>2, <2>3, <2>6 DEF BlockedOnce, Holds, TypeOK
  <2>8. BlockedHasSemAdd'
    <3> SUFFICES ASSUME NEW e \in semd_h, NEW r \in Pcb, r \in ToSet(s_procq'[e])
                 PROVE  p_semAdd'[r] = s_key[e]
      BY <2>3 DEF BlockedHasSemAdd, Holds
    <3>1. CASE r = p
      BY <3>1, <1>1, <2>1, <2>3, <2>6 DEF TypeOK
    <3>2. CASE r # p
      BY <3>2, <2>3, <2>6 DEF BlockedHasSemAdd, Holds, TypeOK
    <3> QED BY <3>1, <3>2
  <2> QED BY <2>4, <2>5, <2>7, <2>8
<1>3. CASE ~ Active(k) /\ semdFree = {}
  BY <1>3 DEF insertBlocked, Return, TypeOK, DistinctKeys, DescriptorsAccounted, BlockedOnce,
              BlockedHasSemAdd, Holds
<1>4. CASE ~ Active(k) /\ semdFree # {}
  <2> DEFINE q == insertProcQ(mkEmptyProcQ, p)
  <2>1. PICK d \in semdFree :
          /\ semdFree' = semdFree \ {d}
          /\ semd_h' = semd_h \cup {d}
          /\ s_key' = [s_key EXCEPT ![d] = k]
          /\ s_procq' = [s_procq EXCEPT ![d] = q]
          /\ p_semAdd' = [p_semAdd EXCEPT ![p] = k]
    BY <1>4 DEF insertBlocked, NewQueue, BlockedOn
  <2>2. q \in Seq(Pcb) /\ q # << >> /\ ToSet(q) = {p} /\ Distinct(q)
    <3>1. mkEmptyProcQ \in Seq(Pcb) /\ ToSet(mkEmptyProcQ) = {} /\ Distinct(mkEmptyProcQ)
      BY DEF mkEmptyProcQ, ToSet, Distinct
    <3>2. /\ q \in Seq(Pcb) /\ ~ emptyProcQ(q) /\ ToSet(q) = ToSet(mkEmptyProcQ) \cup {p}
          /\ p \notin ToSet(mkEmptyProcQ) /\ Distinct(mkEmptyProcQ) => Distinct(q)
      BY <3>1, InsertProcQ
    <3> QED BY <3>1, <3>2 DEF emptyProcQ
  <2> HIDE DEF q
  <2>3. d \notin semd_h /\ d \in Semd /\ k # NULL
    BY DEF DescriptorsAccounted, TypeOK, AslAssumption
  <2>4. TypeOK'
    BY <2>1, <2>2, <2>3 DEF TypeOK
  <2>5. DistinctKeys'
    BY <1>4, <2>1, <2>3 DEF DistinctKeys, Active, TypeOK
  <2>6. DescriptorsAccounted'
    BY <2>1, <2>2, <2>3 DEF DescriptorsAccounted, TypeOK, emptyProcQ
  <2>7. /\ \A e \in semd_h : s_procq'[e] = s_procq[e] /\ s_key'[e] = s_key[e]
        /\ ToSet(s_procq'[d]) = {p} /\ s_key'[d] = k
    BY <2>1, <2>2, <2>3 DEF TypeOK
  <2>8. BlockedOnce'
    BY <1>1, <2>1, <2>2, <2>3, <2>7 DEF BlockedOnce, Holds, TypeOK
  <2>9. BlockedHasSemAdd'
    BY <1>1, <2>1, <2>3, <2>7 DEF BlockedHasSemAdd, Holds, TypeOK
  <2> QED BY <2>4, <2>5, <2>6, <2>8, <2>9
<1> QED BY <1>2, <1>3, <1>4

\* The queue a removal leaves behind has no new members and no duplicates.
LEMMA RemovalShrinks ==
  ASSUME IInv, NEW d \in semd_h
  PROVE  /\ /\ headProcQ(s_procq[d]) \in ToSet(s_procq[d])
            /\ removeProcQ(s_procq[d]) \in Seq(Pcb)
            /\ ToSet(removeProcQ(s_procq[d])) \subseteq ToSet(s_procq[d])
            /\ Distinct(removeProcQ(s_procq[d]))
         /\ \A p \in Pcb : /\ outProcQ(s_procq[d], p) \in Seq(Pcb)
                           /\ ToSet(outProcQ(s_procq[d], p)) \subseteq ToSet(s_procq[d])
                           /\ Distinct(outProcQ(s_procq[d], p))
<1>1. s_procq[d] \in Seq(Pcb) /\ ~ emptyProcQ(s_procq[d]) /\ Distinct(s_procq[d])
  BY DEF IInv, TypeOK, DescriptorsAccounted, BlockedOnce
<1> QED BY <1>1, RemoveProcQ, OutProcQ

\* Calls that change no list keep the invariant.
LEMMA ReturnKeeps ==
  ASSUME IInv, UNCHANGED << semd_h, semdFree, s_key, s_procq, p_semAdd >>
  PROVE  IInv'
BY DEF IInv, TypeOK, DistinctKeys, DescriptorsAccounted, BlockedOnce, BlockedHasSemAdd, Holds

LEMMA InitIInv == Init => IInv
BY DEF Init, IInv, TypeOK, DistinctKeys, DescriptorsAccounted, BlockedOnce, BlockedHasSemAdd,
       Holds, mkEmptyProcQ

LEMMA NextIInv == IInv /\ [Next]_vars => IInv'
<1> SUFFICES ASSUME IInv, [Next]_vars PROVE IInv'
  OBVIOUS
<1>1. ASSUME NEW k \in Key, NEW p \in Pcb, insertBlocked(k, p) PROVE IInv'
  BY <1>1, InsertKeeps, AslAssumption
<1>2. ASSUME NEW k \in Key, removeBlocked(k) PROVE IInv'
  <2>1. CASE Active(k) /\ Shrink(SemdOf(k), removeProcQ(s_procq[SemdOf(k)]))
    <3>1. SemdOf(k) \in semd_h
      BY <2>1, SearchFinds
    <3> QED BY <3>1, <2>1, RemovalShrinks, ShrinkKeeps
  <2> QED BY <1>2, <2>1, ReturnKeeps DEF removeBlocked, Return
<1>3. ASSUME NEW p \in Pcb, outBlocked(p) PROVE IInv'
  <2> DEFINE d == SemdOf(p_semAdd[p])
  <2>1. CASE Active(p_semAdd[p]) /\ Shrink(d, outProcQ(s_procq[d], p))
    <3>1. d \in semd_h
      BY <2>1, SearchFinds
    <3> HIDE DEF d
    <3> QED BY <3>1, <2>1, RemovalShrinks, ShrinkKeeps
  <2> QED BY <1>3, <2>1, ReturnKeeps DEF outBlocked, Return
<1>4. ASSUME NEW p \in Pcb, outBlockedPid(p) PROVE IInv'
  <2>1. ASSUME NEW d \in Semd, Holds(d, p), Shrink(d, outProcQ(s_procq[d], p)) PROVE IInv'
    <3>1. d \in semd_h
      BY <2>1 DEF Holds
    <3> QED BY <3>1, <2>1, RemovalShrinks, ShrinkKeeps
  <2> QED BY <1>4, <2>1, ReturnKeeps DEF outBlockedPid, Return
<1>5. ASSUME NEW p \in Pcb, allocPcb(p) PROVE IInv'
  BY <1>5 DEF allocPcb, IsBlocked, IInv, TypeOK, DistinctKeys, DescriptorsAccounted, BlockedOnce,
              BlockedHasSemAdd, Holds
<1>6. ASSUME NEW k \in Key, headBlocked(k) PROVE IInv'
  BY <1>6, ReturnKeeps DEF headBlocked, Return
<1>7. ASSUME NEW p \in Pcb, getProc(p) PROVE IInv'
  BY <1>7, ReturnKeeps DEF getProc, Return
<1>8. CASE UNCHANGED vars
  BY <1>8, ReturnKeeps DEF vars
<1> QED BY <1>1, <1>2, <1>3, <1>4, <1>5, <1>6, <1>7, <1>8 DEF Next

LEMMA Invariance == Spec => []IInv
<1> QED BY InitIInv, NextIInv, PTL DEF Spec

\* Every descriptor in use has a first waiter, different ones have different
\* first waiters, and p is none of them: fewer descriptors are in use than
\* there are PCBs, hence than there are descriptors.
LEMMA RoomToBlock == ASSUME IInv, AslAssumption PROVE DescriptorForEveryBlock
<1> SUFFICES ASSUME NEW p \in Pcb, ~ IsBlocked(p), semdFree = {} PROVE FALSE
  BY DEF DescriptorForEveryBlock
<1> DEFINE first == [d \in Semd |-> headProcQ(s_procq[d])]
<1>1. semd_h = Semd
  BY DEF IInv, DescriptorsAccounted
<1>2. \A d \in Semd : first[d] \in ToSet(s_procq[d]) /\ first[d] \in Pcb
  <2>1. \A d \in Semd : s_procq[d] \in Seq(Pcb) /\ ~ emptyProcQ(s_procq[d])
    BY <1>1 DEF IInv, TypeOK, DescriptorsAccounted
  <2> QED BY <2>1, RemoveProcQ
<1>3. \A d \in Semd : first[d] # p
  BY <1>1, <1>2 DEF IsBlocked, Holds
<1>4. first \in [Semd -> Pcb \ {p}]
  BY <1>2, <1>3
<1>5. \A d, e \in Semd : first[d] = first[e] => d = e
  BY <1>1, <1>2 DEF IInv, BlockedOnce, Holds
<1>6. IsFiniteSet(Pcb \ {p}) /\ Cardinality(Pcb \ {p}) = Cardinality(Pcb) - 1
  BY FS_RemoveElement DEF AslAssumption
<1>7. Cardinality(Pcb \ {p}) < Cardinality(Semd)
  BY <1>6, FS_CardinalityType DEF AslAssumption
<1> HIDE DEF first
<1> QED BY <1>4, <1>5, <1>6, <1>7, FS_PigeonHole DEF AslAssumption

\* Every field of the list keeps its type.
THEOREM TypeCorrect == Spec => []TypeOK
BY Invariance, PTL DEF IInv

\* A semaphore address has one descriptor at most (asl.c:42-68).
THEOREM OneDescriptor == Spec => []DistinctKeys
BY Invariance, PTL DEF IInv

\* A descriptor is free or has a queue with somebody in it: none leaks (asl.c:85-91).
THEOREM NoneLeaks == Spec => []DescriptorsAccounted
BY Invariance, PTL DEF IInv

\* A PCB is in the queue of one semaphore, once (asl.c:42-68).
THEOREM InOneQueue == Spec => []BlockedOnce
BY Invariance, PTL DEF IInv

\* p_semAdd names the semaphore a PCB is blocked on, for outBlocked (asl.c:142).
THEOREM SemAddNames == Spec => []BlockedHasSemAdd
BY Invariance, PTL DEF IInv

\* insertBlocked never finds semdFree_h empty.
THEOREM AlwaysRoom == Spec => []DescriptorForEveryBlock
<1>1. IInv => DescriptorForEveryBlock
  BY RoomToBlock, AslAssumption
<1> QED BY <1>1, Invariance, PTL

-----------------------------------------------------------------------------

\* The abstract queue of a semaphore is the queue of its descriptor, and empty
\* when it has none.
QueueOfDescriptor ==
  /\ \A d \in semd_h : s_key[d] \in Key /\ blocked[s_key[d]] = s_procq[d]
  /\ \A k \in Key : ~ Active(k) => blocked[k] = << >>

LEMMA BlockedIs == IInv => QueueOfDescriptor
<1> SUFFICES ASSUME IInv PROVE QueueOfDescriptor
  OBVIOUS
<1>1. ASSUME NEW d \in semd_h PROVE s_key[d] \in Key /\ blocked[s_key[d]] = s_procq[d]
  <2>1. s_key[d] \in Key
    BY DEF IInv, TypeOK, DescriptorsAccounted
  <2>2. Active(s_key[d]) /\ SemdOf(s_key[d]) = d
    BY SearchFindsIt DEF IInv
  <2> QED BY <2>1, <2>2 DEF blocked
<1>2. \A k \in Key : ~ Active(k) => blocked[k] = << >>
  BY DEF blocked, mkEmptyProcQ
<1> QED BY <1>1, <1>2 DEF QueueOfDescriptor

LEMMA WaitingIs ==
  ASSUME IInv, QueueOfDescriptor, NEW p \in Pcb
  PROVE  p \in Queues!Waiting <=> IsBlocked(p)
<1>1. ASSUME NEW k \in Key, p \in ToSet(blocked[k]) PROVE IsBlocked(p)
  <2>1. Active(k)
    BY <1>1 DEF QueueOfDescriptor, ToSet
  <2>2. PICK d \in semd_h : s_key[d] = k
    BY <2>1 DEF Active
  <2> QED BY <1>1, <2>2 DEF QueueOfDescriptor, IsBlocked, Holds, IInv, TypeOK
<1>2. ASSUME NEW d \in Semd, Holds(d, p) PROVE p \in Queues!Waiting
  BY <1>2 DEF Holds, QueueOfDescriptor, Queues!Waiting, Queues!ToSet, ToSet
<1> QED BY <1>1, <1>2 DEF IsBlocked, Queues!Waiting, Queues!ToSet, ToSet

\* A removal from a descriptor's queue is the removal from its semaphore's queue.
LEMMA ShrinkIs ==
  ASSUME IInv, QueueOfDescriptor, QueueOfDescriptor',
         NEW d \in semd_h, NEW q \in Seq(Pcb), Shrink(d, q)
  PROVE  blocked' = [blocked EXCEPT ![s_key[d]] = q]
<1>1. s_procq' = [s_procq EXCEPT ![d] = q] /\ s_key' = s_key
  BY DEF Shrink
<1>2. semd_h' = IF q = << >> THEN semd_h \ {d} ELSE semd_h
  BY DEF Shrink, emptyProcQ
<1>3. \A e \in semd_h : s_key[e] = s_key[d] => e = d
  BY DEF IInv, DistinctKeys
<1>4. ASSUME NEW k \in Key PROVE blocked'[k] = IF k = s_key[d] THEN q ELSE blocked[k]
  <2>1. CASE k = s_key[d] /\ q # << >>
    BY <2>1, <1>1, <1>2 DEF QueueOfDescriptor, IInv, TypeOK
  <2>2. CASE k = s_key[d] /\ q = << >>
    <3>1. ~ Active(k)'
      BY <2>2, <1>1, <1>2, <1>3 DEF Active
    <3> QED BY <3>1, <2>2 DEF QueueOfDescriptor
  <2>3. CASE k # s_key[d] /\ Active(k)
    <3>1. PICK e \in semd_h : s_key[e] = k
      BY <2>3 DEF Active
    <3>2. e \in semd_h' /\ s_procq'[e] = s_procq[e]
      BY <3>1, <2>3, <1>1, <1>2 DEF IInv, TypeOK
    <3> QED BY <3>1, <3>2, <2>3, <1>1 DEF QueueOfDescriptor
  <2>4. CASE k # s_key[d] /\ ~ Active(k)
    <3>1. ~ Active(k)'
      BY <2>4, <1>1, <1>2 DEF Active
    <3> QED BY <3>1, <2>4 DEF QueueOfDescriptor
  <2> QED BY <2>1, <2>2, <2>3, <2>4
<1> QED BY <1>4 DEF blocked

\* insertBlocked adds to one abstract queue, whether it finds a descriptor or
\* takes one, and has one to take.
LEMMA InsertIs ==
  ASSUME IInv, AslAssumption, QueueOfDescriptor, QueueOfDescriptor',
         NEW k \in Key, NEW p \in Pcb, insertBlocked(k, p)
  PROVE  /\ blocked' = [blocked EXCEPT ![k] = insertProcQ(@, p)]
         /\ ret' = "FALSE"
<1>1. semdFree # {}
  BY RoomToBlock DEF DescriptorForEveryBlock, insertBlocked
<1>2. PICK d \in Semd :
        /\ semd_h' = semd_h \cup {d}
        /\ s_key' = [s_key EXCEPT ![d] = k]
        /\ s_procq' = [s_procq EXCEPT ![d] = insertProcQ(blocked[k], p)]
        /\ ret' = "FALSE"
        /\ \A e \in semd_h : s_key[e] = k => e = d
        /\ d \in semd_h => s_key[d] = k
  <2>1. CASE Active(k)
    <3> DEFINE d == SemdOf(k)
    <3>1. d \in semd_h /\ s_key[d] = k
      BY <2>1, SearchFinds
    <3>2. /\ s_procq' = [s_procq EXCEPT ![d] = insertProcQ(s_procq[d], p)]
          /\ ret' = "FALSE"
          /\ UNCHANGED << semd_h, s_key >>
      BY <2>1 DEF insertBlocked, JoinQueue
    <3> HIDE DEF d
    <3>3. blocked[k] = s_procq[d]
      BY <3>1 DEF QueueOfDescriptor
    <3>4. d \in Semd /\ s_key = [s_key EXCEPT ![d] = k] /\ semd_h = semd_h \cup {d}
      BY <3>1 DEF IInv, TypeOK
    <3>5. \A e \in semd_h : s_key[e] = k => e = d
      BY <3>1 DEF IInv, DistinctKeys
    <3>6. /\ semd_h' = semd_h \cup {d}
          /\ s_key' = [s_key EXCEPT ![d] = k]
          /\ s_procq' = [s_procq EXCEPT ![d] = insertProcQ(blocked[k], p)]
      BY <3>2, <3>3, <3>4
    <3> QED BY <3>1, <3>2, <3>4, <3>5, <3>6
  <2>2. CASE ~ Active(k)
    <3>1. blocked[k] = mkEmptyProcQ
      BY <2>2 DEF QueueOfDescriptor, mkEmptyProcQ
    <3>2. \A e \in semd_h : s_key[e] # k
      BY <2>2 DEF Active
    <3>3. \A e \in semdFree : e \in Semd /\ e \notin semd_h
      BY DEF IInv, TypeOK, DescriptorsAccounted
    <3> QED BY <2>2, <1>1, <3>1, <3>2, <3>3 DEF insertBlocked, NewQueue
  <2> QED BY <2>1, <2>2
<1>3. ASSUME NEW j \in Key
      PROVE  blocked'[j] = IF j = k THEN insertProcQ(blocked[k], p) ELSE blocked[j]
  <2>1. CASE j = k
    BY <2>1, <1>2 DEF QueueOfDescriptor, IInv, TypeOK
  <2>2. CASE j # k /\ Active(j)
    <3>1. PICK e \in semd_h : s_key[e] = j
      BY <2>2 DEF Active
    <3>2. e # d /\ e \in semd_h' /\ s_key'[e] = j /\ s_procq'[e] = s_procq[e]
      BY <3>1, <2>2, <1>2 DEF IInv, TypeOK
    <3> QED BY <3>1, <3>2, <2>2 DEF QueueOfDescriptor
  <2>3. CASE j # k /\ ~ Active(j)
    <3>1. ~ Active(j)'
      BY <2>3, <1>2 DEF Active, IInv, TypeOK
    <3> QED BY <3>1, <2>3 DEF QueueOfDescriptor
  <2> QED BY <2>1, <2>2, <2>3
<1> QED BY <1>2, <1>3 DEF blocked

\* A call that changes no list changes no abstract queue.
LEMMA ReturnIs ==
  ASSUME UNCHANGED << semd_h, s_key, s_procq >>
  PROVE  UNCHANGED blocked
BY DEF blocked, Active, SemdOf

LEMMA InitIs == Init => Queues!Init
BY DEF Init, Queues!Init, blocked, Active, Queues!mkEmptyProcQ, mkEmptyProcQ

\* BlockedQueues sees the same queue operations.
LEMMA SameOperations ==
  /\ Queues!mkEmptyProcQ = mkEmptyProcQ
  /\ \A q : /\ Queues!emptyProcQ(q) = emptyProcQ(q)
            /\ Queues!headProcQ(q) = headProcQ(q)
            /\ Queues!removeProcQ(q) = removeProcQ(q)
            /\ Queues!ToSet(q) = ToSet(q)
  /\ \A q, p : /\ Queues!insertProcQ(q, p) = insertProcQ(q, p)
               /\ Queues!outProcQ(q, p) = outProcQ(q, p)
BY DEF mkEmptyProcQ, emptyProcQ, headProcQ, removeProcQ, insertProcQ, outProcQ, ToSet,
       RemoveFirst, RemoveAt, SelectInSeq, Min,
       Queues!mkEmptyProcQ, Queues!emptyProcQ, Queues!headProcQ, Queues!removeProcQ,
       Queues!insertProcQ, Queues!outProcQ, Queues!ToSet,
       Queues!RemoveFirst, Queues!RemoveAt, Queues!SelectInSeq, Queues!Min

\* Each call of asl.c is a call of BlockedQueues or changes nothing it shows.
LEMMA NextIs ==
  ASSUME IInv, QueueOfDescriptor, QueueOfDescriptor', [Next]_vars
  PROVE  [Queues!Next]_(Queues!vars)
<1> USE SameOperations
<1>1. ASSUME NEW k \in Key, NEW p \in Pcb, insertBlocked(k, p) PROVE Queues!Next
  <2>1. p \notin Queues!Waiting
    BY <1>1, WaitingIs DEF insertBlocked
  <2> QED BY <1>1, <2>1, InsertIs, AslAssumption DEF Queues!Next, Queues!Block
<1>2. ASSUME NEW k \in Key, removeBlocked(k) PROVE Queues!Next
  <2>1. CASE Active(k)
    <3> DEFINE d == SemdOf(k)
    <3>1. d \in semd_h /\ s_key[d] = k
      BY <2>1, SearchFinds
    <3>2. ret' = headProcQ(s_procq[d]) /\ Shrink(d, removeProcQ(s_procq[d]))
      BY <1>2, <2>1 DEF removeBlocked
    <3> HIDE DEF d
    <3>3. blocked[k] = s_procq[d] /\ ~ emptyProcQ(blocked[k])
      BY <3>1 DEF QueueOfDescriptor, IInv, DescriptorsAccounted
    <3>4. blocked' = [blocked EXCEPT ![k] = removeProcQ(s_procq[d])]
      BY <3>1, <3>2, RemovalShrinks, ShrinkIs
    <3> QED BY <3>2, <3>3, <3>4 DEF Queues!Next, Queues!Wake
  <2>2. CASE ~ Active(k)
    <3>1. ret' = NULL /\ UNCHANGED blocked
      BY <1>2, <2>2, ReturnIs DEF removeBlocked, Return
    <3>2. emptyProcQ(blocked[k])
      BY <2>2 DEF QueueOfDescriptor, emptyProcQ
    <3> QED BY <3>1, <3>2 DEF Queues!Next, Queues!Look
  <2> QED BY <2>1, <2>2
<1>3. ASSUME NEW p \in Pcb, NEW d \in semd_h, p \in ToSet(s_procq[d]),
             Shrink(d, outProcQ(s_procq[d], p)), ret' = p
      PROVE  Queues!Next
  <2>1. s_key[d] \in Key /\ blocked[s_key[d]] = s_procq[d]
    BY DEF QueueOfDescriptor
  <2>2. blocked' = [blocked EXCEPT ![s_key[d]] = outProcQ(s_procq[d], p)]
    BY <1>3, RemovalShrinks, ShrinkIs
  <2>3. Queues!Withdraw(p)
    BY <1>3, <2>1, <2>2 DEF Queues!Withdraw
  <2> QED BY <2>3 DEF Queues!Next
<1>4. ASSUME NEW p \in Pcb, outBlocked(p) PROVE Queues!Next
  <2> DEFINE d == SemdOf(p_semAdd[p])
  <2>1. CASE Active(p_semAdd[p])
    <3>1. d \in semd_h /\ s_key[d] = p_semAdd[p]
      BY <2>1, SearchFinds
    <3>2. /\ ret' = IF p \in ToSet(s_procq[d]) THEN p ELSE NULL
          /\ Shrink(d, outProcQ(s_procq[d], p))
      BY <1>4, <2>1 DEF outBlocked
    <3> HIDE DEF d
    <3>3. CASE p \in ToSet(s_procq[d])
      BY <3>1, <3>2, <3>3, <1>3
    <3>4. CASE p \notin ToSet(s_procq[d])
      <4>1. ~ IsBlocked(p)
        BY <3>1, <3>4 DEF IsBlocked, Holds, IInv, BlockedHasSemAdd, DistinctKeys
      <4>2. outProcQ(s_procq[d], p) = s_procq[d]
        BY <3>1, <3>4, OutProcQ DEF IInv, TypeOK, BlockedOnce
      <4>3. blocked' = [blocked EXCEPT ![s_key[d]] = s_procq[d]]
        BY <3>1, <3>2, <4>2, ShrinkIs DEF IInv, TypeOK
      <4>4. UNCHANGED blocked
        <5>1. blocked = [k \in Key |-> blocked[k]]
          BY DEF blocked
        <5>2. s_key[d] \in Key /\ blocked[s_key[d]] = s_procq[d]
          BY <3>1 DEF QueueOfDescriptor
        <5> QED BY <4>3, <5>1, <5>2
      <4> QED BY <3>2, <3>4, <4>1, <4>4, WaitingIs DEF Queues!Next, Queues!Look
    <3> QED BY <3>3, <3>4
  <2>2. CASE ~ Active(p_semAdd[p])
    <3>1. ret' = NULL /\ UNCHANGED blocked
      BY <1>4, <2>2, ReturnIs DEF outBlocked, Return
    <3>2. ~ IsBlocked(p)
      BY <2>2 DEF IsBlocked, Holds, Active, IInv, BlockedHasSemAdd
    <3> QED BY <3>1, <3>2, WaitingIs DEF Queues!Next, Queues!Look
  <2> QED BY <2>1, <2>2
<1>5. ASSUME NEW p \in Pcb, outBlockedPid(p) PROVE Queues!Next
  <2>1. ASSUME NEW d \in Semd, Holds(d, p), ret' = p, Shrink(d, outProcQ(s_procq[d], p))
        PROVE  Queues!Next
    BY <2>1, <1>3 DEF Holds
  <2>2. ASSUME ~ IsBlocked(p), Return(NULL) PROVE Queues!Next
    <3>1. ret' = NULL /\ UNCHANGED blocked
      BY <2>2, ReturnIs DEF Return
    <3> QED BY <2>2, <3>1, WaitingIs DEF Queues!Next, Queues!Look
  <2> QED BY <1>5, <2>1, <2>2 DEF outBlockedPid
<1>6. ASSUME NEW k \in Key, headBlocked(k) PROVE Queues!Next
  <2>1. UNCHANGED blocked
    BY <1>6, ReturnIs DEF headBlocked, Return
  <2>2. ret' = IF Active(k) THEN headProcQ(s_procq[SemdOf(k)]) ELSE NULL
    BY <1>6 DEF headBlocked, Return
  <2>3. CASE Active(k)
    <3>1. SemdOf(k) \in semd_h /\ s_key[SemdOf(k)] = k
      BY <2>3, SearchFinds
    <3>2. blocked[k] = s_procq[SemdOf(k)] /\ ~ emptyProcQ(blocked[k])
      BY <3>1 DEF QueueOfDescriptor, IInv, DescriptorsAccounted
    <3> QED BY <2>1, <2>2, <2>3, <3>2 DEF Queues!Next, Queues!Look
  <2>4. CASE ~ Active(k)
    <3>1. emptyProcQ(blocked[k])
      BY <2>4 DEF QueueOfDescriptor, emptyProcQ
    <3> QED BY <2>1, <2>2, <2>4, <3>1 DEF Queues!Next, Queues!Look
  <2> QED BY <2>3, <2>4
<1>7. ASSUME NEW p \in Pcb, getProc(p) PROVE Queues!Next
  <2>1. ret' = (IF IsBlocked(p) THEN p ELSE NULL) /\ UNCHANGED blocked
    BY <1>7, ReturnIs DEF getProc, Return
  <2> QED BY <2>1, WaitingIs DEF Queues!Next, Queues!Look
<1>8. ASSUME NEW p \in Pcb, allocPcb(p) PROVE UNCHANGED << blocked, ret >>
  BY <1>8, ReturnIs DEF allocPcb
<1>9. CASE UNCHANGED vars
  BY <1>9, ReturnIs DEF vars, Queues!vars
<1> QED
  BY <1>1, <1>2, <1>4, <1>5, <1>6, <1>7, <1>8, <1>9 DEF Next, Queues!vars

\* asl.c implements one FIFO queue per semaphore address, in which insertBlocked
\* never fails.
THEOREM Refinement == Spec => QueuesSpec
<1>1. IInv /\ IInv' /\ [Next]_vars => [Queues!Next]_(Queues!vars)
  <2>1. IInv => QueueOfDescriptor
    BY BlockedIs
  <2>2. IInv' => QueueOfDescriptor'
    BY <2>1, BlockedIs, PTL
  <2> QED BY <2>1, <2>2, NextIs
<1> QED BY <1>1, InitIs, Invariance, PTL DEF Spec, QueuesSpec, Queues!Spec
=============================================================================
