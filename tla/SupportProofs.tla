--------------------------- MODULE SupportProofs ---------------------------
(***************************************************************************)
(* Proofs about Support for any number of U-procs and any exceptions that  *)
(* their programs raise: the mutex of the swap pool, the semaphore of the  *)
(* shutdown, and the limits of what is counted.                            *)
(***************************************************************************)
EXTENDS Support, ProcQTheorems

KernelTypes ==
  /\ pcbFree \subseteq Pcb
  /\ p_parent \in [Pcb -> Pcb \cup {NULL}]
  /\ p_semAdd \in [Pcb -> Sem \cup {NULL}]
  /\ blocked \in [Sem -> Seq(Pcb)]
  /\ sem \in [Sem -> Int]

SupportTypes ==
  /\ holder_pid \in Pcb \cup {NULL}
  /\ at \in [Pcb -> Places]
  /\ i \in 0 .. UPROC_NUM - 1
  /\ lost \in BOOLEAN /\ signals \in Nat /\ extra \in Nat

\* test is the only parent, and nobody else executes test.
OneTest ==
  /\ at[Test] \in {"create", "wait", "stop", "gone", "returned"}
  /\ \A p \in Pcb \ {Test} : at[p] \notin {"create", "wait", "stop"}
  /\ \A p \in Pcb : p_parent[p] \in {NULL, Test}

\* A U-proc that blocks on masterSemaphore does so in its V.
SignalsLast ==
  \A p \in Pcb \ {Test} : p_semAdd[p] = masterSemaphore => at[p] \in {"end", "gone"}

\* The U-procs that have not signalled, be it for ever, and those that were
\* blocked in their V
Before == {"user", "fault", "got", "out", "in", "release", "reset", "fail", "die",
           "dieReset", "signal", "astray"}
NotYet == {p \in Pcb \ {Test} : at[p] \in Before}
Blockers == {p \in Live \ {Test} : at[p] = "end" /\ p_semAdd[p] = masterSemaphore}
Created == IF at[Test] = "create" THEN i ELSE UPROC_NUM

\* Every U-proc signals once.  The first does not block: there is no unit yet
\* that would make it.  So the units from blocked ones are fewer than the signals;
\* test itself may add one at its end.
Counts ==
  /\ signals + Cardinality(NotYet) <= Created
  /\ IF signals = 0 THEN TestUp /\ extra = 0 /\ Blockers = {}
     ELSE extra + Cardinality(Blockers) < signals + (IF at[Test] = "gone" THEN 1 ELSE 0)

\* While test is up nobody is freed but those that have terminated.
AllWell ==
  /\ stray = {} /\ Test \notin pcbFree
  /\ \A p \in pcbFree : at[p] \in {"unborn", "gone"}

Waiters == ToSet(blocked[swap_pool_sem])

\* InSection, seen from the program counters only: AllWell makes them the same.
Section == {"got", "out", "in", "release", "fail"}
Inside == {p \in Pcb : at[p] \in Section /\ p \notin Waiters}

\* Who waits for the mutex is in its P.  Whoever waited goes on to a transfer,
\* and so its p_semAdd names another semaphore when it terminates.
MutexQueue ==
  /\ \A p \in Waiters : at[p] = "got"
  /\ Distinct(blocked[swap_pool_sem])
  /\ \A p \in Pcb : p_semAdd[p] = swap_pool_sem => at[p] \in {"got", "out", "in"}

\* A process writes itself into holder_pid and takes only itself out, if not
\* another, before it comes to the next P.
Holder ==
  /\ holder_pid # NULL =>
       at[holder_pid] \in {"out", "in", "release", "fail", "reset", "dieReset"}
  /\ \A p \in Inside : at[p] # "got" => holder_pid \in {p, NULL}

\* SwapExclusive and MutexUnits without Cardinality; a lost mutex stays lost
MutexInv ==
  /\ \A p, q \in Inside : p = q
  /\ lost => Inside = {}
  /\ sem[swap_pool_sem] = (IF Inside = {} THEN 1 ELSE 0) - Len(blocked[swap_pool_sem])
                            - (IF lost THEN 1 ELSE 0)

\* test is behind the P it began unless it waits.
MasterInv ==
  /\ sem[masterSemaphore] = signals + extra - Waits
  /\ sem[masterSemaphore] >= -1
  /\ Test \notin ToSet(blocked[masterSemaphore]) => sem[masterSemaphore] >= 0

UpInv == AllWell /\ MutexQueue /\ Holder /\ MutexInv /\ MasterInv

IInv == KernelTypes /\ SupportTypes /\ OneTest /\ SignalsLast /\ Counts /\ (TestUp => UpInv)

-----------------------------------------------------------------------------
(* What the steps of Kernel do *)

LEMMA ConstantFacts ==
  /\ swap_pool_sem \in Sem /\ masterSemaphore \in Sem /\ flash \in Sem
  /\ swap_pool_sem # masterSemaphore /\ flash # swap_pool_sem /\ flash # masterSemaphore
  /\ NULL \notin Sem /\ NULL \notin Pcb /\ Test \in Pcb /\ IsFiniteSet(Pcb)
  /\ UPROC_NUM \in Nat /\ UPROC_NUM >= 1
BY SupportAssumption DEF Sem

\* p joins the queue of s.
LEMMA BlockEffect ==
  ASSUME KernelTypes, NEW p \in Pcb, NEW s \in Sem, Block(p, s)
  PROVE  /\ UNCHANGED << pcbFree, p_parent >>
         /\ p_semAdd' \in [Pcb -> Sem \cup {NULL}] /\ p_semAdd'[p] = s
         /\ \A q \in Pcb \ {p} : p_semAdd'[q] = p_semAdd[q]
         /\ blocked' \in [Sem -> Seq(Pcb)]
         /\ \A t \in Sem \ {s} : blocked'[t] = blocked[t]
         /\ ToSet(blocked'[s]) = ToSet(blocked[s]) \cup {p}
         /\ Len(blocked'[s]) = Len(blocked[s]) + 1
         /\ p \notin ToSet(blocked[s]) /\ Distinct(blocked[s]) => Distinct(blocked'[s])
<1>1. blocked[s] \in Seq(Pcb)
  BY DEF KernelTypes
<1>2. /\ insertProcQ(blocked[s], p) \in Seq(Pcb)
      /\ ToSet(insertProcQ(blocked[s], p)) = ToSet(blocked[s]) \cup {p}
      /\ Len(insertProcQ(blocked[s], p)) = Len(blocked[s]) + 1
      /\ p \notin ToSet(blocked[s]) /\ Distinct(blocked[s])
           => Distinct(insertProcQ(blocked[s], p))
  <2>1. /\ insertProcQ(blocked[s], p) \in Seq(Pcb)
        /\ ToSet(insertProcQ(blocked[s], p)) = ToSet(blocked[s]) \cup {p}
        /\ p \notin ToSet(blocked[s]) /\ Distinct(blocked[s])
             => Distinct(insertProcQ(blocked[s], p))
    <3>1. \A x \in Seq(Pcb), e \in Pcb :
            /\ insertProcQ(x, e) \in Seq(Pcb)
            /\ ToSet(insertProcQ(x, e)) = ToSet(x) \cup {e}
            /\ e \notin ToSet(x) /\ Distinct(x) => Distinct(insertProcQ(x, e))
      BY InsertProcQ
    <3> QED BY ONLY <1>1, <3>1, p \in Pcb
  <2>2. Len(insertProcQ(blocked[s], p)) = Len(blocked[s]) + 1
    BY ONLY <1>1, p \in Pcb, QueueLengths
  <2> QED BY <2>1, <2>2
<1>3. /\ blocked' = [blocked EXCEPT ![s] = insertProcQ(blocked[s], p)]
      /\ p_semAdd' = [p_semAdd EXCEPT ![p] = s]
      /\ UNCHANGED << pcbFree, p_parent >>
  BY DEF Block
<1>4. /\ blocked'[s] = insertProcQ(blocked[s], p) /\ blocked' \in [Sem -> Seq(Pcb)]
      /\ \A t \in Sem \ {s} : blocked'[t] = blocked[t]
  BY <1>2, <1>3 DEF KernelTypes
<1>5. /\ p_semAdd' \in [Pcb -> Sem \cup {NULL}] /\ p_semAdd'[p] = s
      /\ \A q \in Pcb \ {p} : p_semAdd'[q] = p_semAdd[q]
  BY <1>3 DEF KernelTypes
<1> QED BY <1>2, <1>3, <1>4, <1>5

\* The first process in the queue of s leaves it.
LEMMA WakeEffect ==
  ASSUME KernelTypes, NEW s \in Sem, Wake(s)
  PROVE  /\ UNCHANGED << pcbFree, p_parent, p_semAdd >>
         /\ blocked' \in [Sem -> Seq(Pcb)]
         /\ \A t \in Sem \ {s} : blocked'[t] = blocked[t]
         /\ ToSet(blocked'[s]) \subseteq ToSet(blocked[s])
         /\ Distinct(blocked[s]) => Distinct(blocked'[s])
         /\ Len(blocked[s]) = 0 => blocked'[s] = blocked[s]
         /\ Len(blocked[s]) # 0 =>
              /\ Len(blocked'[s]) = Len(blocked[s]) - 1
              /\ \E h \in Pcb : /\ ToSet(blocked[s]) = ToSet(blocked'[s]) \cup {h}
                                /\ Distinct(blocked[s]) => h \notin ToSet(blocked'[s])
<1> DEFINE q == blocked[s]
<1>1. q \in Seq(Pcb)
  BY DEF KernelTypes
<1>2. /\ blocked'[s] = IF emptyProcQ(q) THEN q ELSE removeProcQ(q)
      /\ \A t \in Sem \ {s} : blocked'[t] = blocked[t]
      /\ blocked' = [blocked EXCEPT ![s] = blocked'[s]]
      /\ UNCHANGED << pcbFree, p_parent, p_semAdd >>
  BY DEF Wake, KernelTypes, procs
<1> HIDE DEF q
<1>3. emptyProcQ(q) <=> Len(q) = 0
  BY <1>1, QueueLengths
<1>4. CASE emptyProcQ(q)
  <2>1. blocked'[s] = q /\ blocked' \in [Sem -> Seq(Pcb)]
    BY <1>1, <1>2, <1>4 DEF KernelTypes
  <2> QED BY <2>1, <1>2, <1>3, <1>4 DEF q
<1>5. CASE ~ emptyProcQ(q)
  <2>1. /\ headProcQ(q) \in Pcb /\ removeProcQ(q) \in Seq(Pcb)
        /\ ToSet(q) = ToSet(removeProcQ(q)) \cup {headProcQ(q)}
        /\ Distinct(q) => Distinct(removeProcQ(q)) /\ headProcQ(q) \notin ToSet(removeProcQ(q))
    BY ONLY <1>1, <1>5, RemoveProcQ
  <2>2. Len(removeProcQ(q)) = Len(q) - 1
    BY ONLY <1>1, <1>5, QueueLengths
  <2>3. blocked'[s] = removeProcQ(q) /\ blocked' \in [Sem -> Seq(Pcb)]
    BY <1>2, <1>5, <2>1 DEF KernelTypes
  <2> QED BY <2>1, <2>2, <2>3, <1>2, <1>3, <1>5 DEF q
<1> QED BY <1>4, <1>5

\* A P, a V or a DOIO of p: of the kernel's state only the value and the queue
\* of s change, and p_semAdd of p.
LEMMA CallEffect ==
  ASSUME KernelTypes, NEW p \in Pcb, NEW s \in Sem,
         Passeren(p, s) \/ Verhogen(p, s) \/ DoIO(p, s)
  PROVE  /\ KernelTypes' /\ stray = {} /\ p \in Live /\ p \notin Waiting
         /\ UNCHANGED << pcbFree, p_parent, stray >>
         /\ \A q \in Pcb \ {p} : p_semAdd'[q] = p_semAdd[q]
         /\ p_semAdd'[p] \in {p_semAdd[p], s}
         /\ \A t \in Sem \ {s} : blocked'[t] = blocked[t] /\ sem'[t] = sem[t]
<1>1. stray = {} /\ p \in Live /\ p \notin Waiting
  <2>1. p \in Runnable
    BY DEF Passeren, Verhogen, DoIO
  <2> QED BY <2>1 DEF Runnable
<1>2. /\ sem' \in [Sem -> Int] /\ \A t \in Sem \ {s} : sem'[t] = sem[t]
      /\ UNCHANGED stray
  BY DEF Passeren, Verhogen, DoIO, KernelTypes
<1>3. Block(p, s) \/ Wake(s) \/ UNCHANGED << procs, blocked >>
  BY DEF Passeren, Verhogen, DoIO
<1>4. CASE Block(p, s)
  <2>1. /\ UNCHANGED << pcbFree, p_parent >> /\ p_semAdd' \in [Pcb -> Sem \cup {NULL}]
        /\ \A q \in Pcb \ {p} : p_semAdd'[q] = p_semAdd[q]
        /\ p_semAdd'[p] = s /\ blocked' \in [Sem -> Seq(Pcb)]
        /\ \A t \in Sem \ {s} : blocked'[t] = blocked[t]
    BY <1>4, BlockEffect
  <2> QED BY <1>1, <1>2, <2>1 DEF KernelTypes
<1>5. CASE Wake(s)
  <2>1. /\ UNCHANGED << pcbFree, p_parent, p_semAdd >> /\ blocked' \in [Sem -> Seq(Pcb)]
        /\ \A t \in Sem \ {s} : blocked'[t] = blocked[t]
    BY <1>5, WakeEffect
  <2> QED BY <1>1, <1>2, <2>1 DEF KernelTypes
<1>6. CASE UNCHANGED << procs, blocked >>
  BY <1>1, <1>2, <1>6 DEF KernelTypes, procs
<1> QED BY <1>3, <1>4, <1>5, <1>6

\* The device touches its own semaphore.
LEMMA DeviceEffect ==
  ASSUME KernelTypes, Device(flash)
  PROVE  /\ KernelTypes' /\ UNCHANGED << pcbFree, p_parent, p_semAdd, stray >>
         /\ \A t \in Sem \ {flash} : blocked'[t] = blocked[t] /\ sem'[t] = sem[t]
<1>1. CASE Command(flash) \/ Complete(flash)
  BY <1>1 DEF Command, Complete, KernelTypes, procs
<1>2. CASE Interrupt(flash)
  <2>1. flash \in Sem
    BY ConstantFacts
  <2>2. Wake(flash) /\ UNCHANGED stray /\ sem' = [sem EXCEPT ![flash] = @ + 1]
    BY <1>2 DEF Interrupt
  <2>3. /\ UNCHANGED << pcbFree, p_parent, p_semAdd >> /\ blocked' \in [Sem -> Seq(Pcb)]
        /\ \A t \in Sem \ {flash} : blocked'[t] = blocked[t]
    BY <2>1, <2>2, WakeEffect
  <2>4. sem' \in [Sem -> Int] /\ \A t \in Sem \ {flash} : sem'[t] = sem[t]
    BY <2>1, <2>2 DEF KernelTypes
  <2> QED BY <2>2, <2>3, <2>4 DEF KernelTypes
<1> QED BY <1>1, <1>2 DEF Device

LEMMA CreateEffect ==
  ASSUME KernelTypes, NEW p \in Pcb, NEW q \in pcbFree, CreateProcess(p, q)
  PROVE  /\ KernelTypes' /\ q \in Pcb /\ p # q /\ stray = {} /\ UNCHANGED << blocked, sem, stray >>
         /\ pcbFree' = pcbFree \ {q}
         /\ p_parent'[q] = p /\ p_semAdd'[q] = NULL
         /\ \A x \in Pcb \ {q} : p_parent'[x] = p_parent[x] /\ p_semAdd'[x] = p_semAdd[x]
<1>1. p \in Runnable
  BY DEF CreateProcess
<1>2. stray = {} /\ p \notin pcbFree
  BY <1>1 DEF Runnable, Live
<1> QED BY <1>2 DEF CreateProcess, KernelTypes

\* TERMPROCESS(0) of p frees processes, and changes nothing about those that
\* have left it.
LEMMA TerminateTypes ==
  ASSUME KernelTypes, NEW p \in Pcb, NEW R \in SUBSET Runnable, Terminate(p, p, R)
  PROVE  /\ KernelTypes' /\ UNCHANGED p_semAdd /\ pcbFree \subseteq pcbFree'
         /\ \A x \in Pcb : p_parent'[x] \in {p_parent[x], NULL}
         /\ stray = {} /\ p \in Live /\ p \notin Waiting
<1> DEFINE freed == {r \in Family(p) : p_semAdd[r] # NULL \/ r \in Runnable \ R}
           gives(s) == {r \in freed : p_semAdd[r] = s}
<1>1. /\ UNCHANGED p_semAdd /\ pcbFree' = pcbFree \cup freed
      /\ blocked' = [s \in Sem |-> outAllProcQ(blocked[s], gives(s))]
      /\ sem' = [s \in Sem |-> sem[s] + Cardinality(gives(s))]
      /\ p_parent' = [r \in Pcb |-> IF r \in freed \cup (Family(p) \ {p}) THEN NULL
                                    ELSE p_parent[r]]
      /\ p \in Runnable
  BY DEF Terminate
<1>2. freed \subseteq Pcb
  BY DEF Family
<1>3. \A s \in Sem : Cardinality(gives(s)) \in Int /\ outAllProcQ(blocked[s], gives(s)) \in Seq(Pcb)
  <2> SUFFICES ASSUME NEW s \in Sem
               PROVE  Cardinality(gives(s)) \in Int /\ outAllProcQ(blocked[s], gives(s)) \in Seq(Pcb)
    OBVIOUS
  <2>1. gives(s) \in SUBSET Pcb
    BY <1>2
  <2>2. blocked[s] \in Seq(Pcb)
    BY DEF KernelTypes
  <2> HIDE DEF gives
  <2>3. Cardinality(gives(s)) \in Nat
    BY <2>1, ConstantFacts, FS_Subset, FS_CardinalityType
  <2>4. outAllProcQ(blocked[s], gives(s)) \in Seq(Pcb)
    BY <2>2, OutAllProcQ
  <2> QED BY <2>3, <2>4
<1>4. stray = {} /\ p \in Live /\ p \notin Waiting
  BY <1>1 DEF Runnable
<1> HIDE DEF gives, freed
<1>5. sem' \in [Sem -> Int] /\ blocked' \in [Sem -> Seq(Pcb)]
  BY <1>1, <1>3 DEF KernelTypes
<1>6. /\ p_parent' \in [Pcb -> Pcb \cup {NULL}] /\ pcbFree' \subseteq Pcb
      /\ \A x \in Pcb : p_parent'[x] \in {p_parent[x], NULL}
  BY <1>1, <1>2 DEF KernelTypes
<1> QED BY <1>1, <1>4, <1>5, <1>6 DEF KernelTypes

\* A U-proc has no children: it frees at most itself, and the semaphore in its
\* p_semAdd gets a unit.
LEMMA TerminateOwn ==
  ASSUME KernelTypes, OneTest, NEW p \in Pcb \ {Test}, NEW R \in SUBSET Runnable,
         Terminate(p, p, R)
  PROVE  /\ stray' = {} /\ UNCHANGED blocked
         /\ pcbFree' = pcbFree \cup (IF p_semAdd[p] = NULL THEN {} ELSE {p})
         /\ \A s \in Sem : sem'[s] = sem[s] + (IF p_semAdd[p] = s THEN 1 ELSE 0)
<1> DEFINE freed == {r \in Family(p) : p_semAdd[r] # NULL \/ r \in Runnable \ R}
           gives(s) == {r \in freed : p_semAdd[r] = s}
<1>1. Family(p) = {p}
  <2>1. p \in Family(p) /\ Family(p) \subseteq Pcb
    BY DEF Family
  <2>2. \A x \in Pcb : p_parent[x] \in {p} => x \in {p}
    BY ConstantFacts DEF OneTest
  <2>3. Family(p) \subseteq {p}
    <3> SUFFICES ASSUME NEW r \in Family(p) PROVE r \in {p}
      OBVIOUS
    <3>1. {p} \in SUBSET Pcb /\ p \in {p}
      OBVIOUS
    <3> QED BY <2>2, <3>1 DEF Family
  <2> QED BY <2>1, <2>3
<1>2. p \in R /\ p \notin Waiting
  BY DEF Terminate, Runnable
<1>3. freed = IF p_semAdd[p] = NULL THEN {} ELSE {p}
  BY <1>1, <1>2
<1>4. \A s \in Sem : gives(s) = IF p_semAdd[p] = s THEN {p} ELSE {}
  BY <1>3, ConstantFacts
<1>5. /\ pcbFree' = pcbFree \cup freed
      /\ blocked' = [s \in Sem |-> outAllProcQ(blocked[s], gives(s))]
      /\ sem' = [s \in Sem |-> sem[s] + Cardinality(gives(s))]
      /\ stray' = {r \in (freed \cap Runnable) \ {p} : p_semAdd[r] # NULL}
  BY DEF Terminate
<1> HIDE DEF gives, freed
<1>6. \A s \in Sem : outAllProcQ(blocked[s], gives(s)) = blocked[s]
  <2> SUFFICES ASSUME NEW s \in Sem PROVE outAllProcQ(blocked[s], gives(s)) = blocked[s]
    OBVIOUS
  <2>1. blocked[s] \in Seq(Pcb)
    BY DEF KernelTypes
  <2>2. ToSet(blocked[s]) \cap gives(s) = {}
    BY <1>2, <1>4 DEF Waiting
  <2> QED BY ONLY <2>1, <2>2, OutAllNothing
<1>7. blocked' = blocked
  BY <1>5, <1>6 DEF KernelTypes
<1>8. \A s \in Sem : sem'[s] = sem[s] + (IF p_semAdd[p] = s THEN 1 ELSE 0)
  <2>1. Cardinality({p}) = 1 /\ Cardinality({}) = 0
    BY FS_Singleton, FS_EmptySet
  <2> QED BY <1>4, <1>5, <2>1
<1>9. stray' = {}
  BY <1>3, <1>5
<1> QED BY <1>3, <1>5, <1>7, <1>8, <1>9

-----------------------------------------------------------------------------
(* The kinds of steps *)

\* A step of p between two places of a U-proc, all before its V on
\* masterSemaphore
Inner(p) ==
  /\ stray = {} /\ p \in Live \ {Test} /\ p \notin Waiting
  /\ at[p] \in Before /\ at' \in [Pcb -> Places]
  /\ at'[p] \in Before /\ \A q \in Pcb \ {p} : at'[q] = at[q]
  /\ KernelTypes' /\ UNCHANGED << pcbFree, p_parent, stray, i, signals, extra >>
  /\ \A q \in Pcb \ {p} : p_semAdd'[q] = p_semAdd[q]
  /\ p_semAdd'[p] \in {p_semAdd[p], swap_pool_sem, flash}
  /\ blocked'[masterSemaphore] = blocked[masterSemaphore]
  /\ sem'[masterSemaphore] = sem[masterSemaphore]

\* The steps of Inner
Paging(p) ==
  \/ GetMutex(p) \/ Got(p) \/ Transfer(p, "out", "in") \/ Transfer(p, "in", "release")
  \/ Release(p, "release", "reset", "user") \/ Reset(p, "reset", "user")
  \/ Release(p, "fail", "dieReset", "signal") \/ Release(p, "die", "dieReset", "signal")
  \/ Reset(p, "dieReset", "signal") \/ User(p)

LEMMA PagingIsInner ==
  ASSUME KernelTypes, SupportTypes, OneTest, NEW p \in Pcb, Paging(p)
  PROVE  Inner(p) /\ p \in Pcb \ {Test}
<1>1. PICK from, to : /\ from \in Before /\ to \in Before
                      /\ Step(p, from, to)
  <2>1. \A e : Handler(e) \subseteq Before
    BY DEF Handler, Before
  <2> QED BY <2>1 DEF Paging, GetMutex, Got, Transfer, Release, Reset, User, Before
<1>2. /\ at[p] \in Before /\ at'[p] \in Before /\ \A q \in Pcb \ {p} : at'[q] = at[q]
      /\ at' \in [Pcb -> Places] /\ p # Test
  <2>1. Before \subseteq Places
    BY DEF Before, Places
  <2>2. p # Test
    BY <1>1 DEF Step, OneTest, Before
  <2> QED BY <1>1, <2>1, <2>2 DEF Step, SupportTypes
<1>3. UNCHANGED << i, signals, extra >>
  BY DEF Paging, GetMutex, Got, Transfer, Release, Reset, User, history
<1>4. \/ Local(p)
      \/ \E s \in {swap_pool_sem, flash} : Passeren(p, s) \/ Verhogen(p, s) \/ DoIO(p, s)
  BY DEF Paging, GetMutex, Got, Transfer, Release, Reset, User
<1>5. CASE Local(p)
  <2>1. stray = {} /\ p \in Live /\ p \notin Waiting
    BY <1>5 DEF Local, Runnable
  <2>2. KernelTypes' /\ UNCHANGED << pcbFree, p_parent, p_semAdd, stray, blocked, sem >>
    BY <1>5 DEF Local, kernel, procs, KernelTypes
  <2> QED BY <1>2, <1>3, <2>1, <2>2 DEF Inner
<1>6. ASSUME NEW s \in {swap_pool_sem, flash},
             Passeren(p, s) \/ Verhogen(p, s) \/ DoIO(p, s)
      PROVE  Inner(p)
  <2>1. s \in Sem /\ s # masterSemaphore /\ masterSemaphore \in Sem
    BY ConstantFacts
  <2>2. /\ KernelTypes' /\ stray = {} /\ p \in Live /\ p \notin Waiting
        /\ UNCHANGED << pcbFree, p_parent, stray >>
        /\ \A q \in Pcb \ {p} : p_semAdd'[q] = p_semAdd[q]
        /\ p_semAdd'[p] \in {p_semAdd[p], s}
        /\ \A t \in Sem \ {s} : blocked'[t] = blocked[t] /\ sem'[t] = sem[t]
    BY <1>6, <2>1, CallEffect
  <2> QED BY <1>2, <1>3, <2>1, <2>2 DEF Inner
<1> QED BY <1>2, <1>4, <1>5, <1>6

LEMMA Steps ==
  ASSUME OneTest, [SupportNext]_vars
  PROVE  \/ Create(Test) \/ Wait(Test) \/ TerminateSelf(Test, "stop")
         \/ \E p \in Pcb \ {Test} : Paging(p) \/ Signal(p) \/ TerminateSelf(p, "end")
         \/ Device(flash) /\ UNCHANGED svars
         \/ UNCHANGED vars
<1>1. ASSUME NEW p \in Pcb, Create(p) \/ Wait(p) \/ TerminateSelf(p, "stop") PROVE p = Test
  BY <1>1 DEF OneTest, Create, Wait, Loop, TerminateSelf
<1>2. ASSUME NEW p \in Pcb, Signal(p) \/ TerminateSelf(p, "end") PROVE p # Test
  BY <1>2 DEF OneTest, Signal, Step, TerminateSelf
<1>3. ASSUME NEW p \in Pcb, Paging(p) PROVE p # Test
  <2>1. at[p] \in Before
    BY <1>3 DEF Paging, GetMutex, Got, Transfer, Release, Reset, User, Step, Before
  <2> QED BY <2>1 DEF OneTest, Before
<1>4. ASSUME NEW p \in Pcb, Proceed(p) \/ User(p)
      PROVE  \/ Create(p) \/ Wait(p) \/ TerminateSelf(p, "stop")
             \/ Paging(p) \/ Signal(p) \/ TerminateSelf(p, "end")
  BY <1>4 DEF Proceed, Paging
<1> QED BY <1>1, <1>2, <1>3, <1>4 DEF SupportNext

-----------------------------------------------------------------------------
(* Types, and who is who *)

\* The kernel's part of what Wait, Signal and the terminations do
LEMMA WaitEffect ==
  ASSUME KernelTypes, SupportTypes, Wait(Test)
  PROVE  /\ KernelTypes' /\ stray = {} /\ UNCHANGED << pcbFree, p_parent, stray >>
         /\ Test \in Live /\ Test \notin Waiting
         /\ \A q \in Pcb \ {Test} : p_semAdd'[q] = p_semAdd[q]
         /\ p_semAdd'[Test] \in {p_semAdd[Test], masterSemaphore}
         /\ \A t \in Sem \ {masterSemaphore} : blocked'[t] = blocked[t] /\ sem'[t] = sem[t]
         /\ at[Test] = "wait" /\ i' = IF i + 1 = UPROC_NUM THEN 0 ELSE i + 1
         /\ at' \in [Pcb -> Places]
         /\ at'[Test] = IF i + 1 = UPROC_NUM THEN "stop" ELSE "wait"
         /\ \A q \in Pcb \ {Test} : at'[q] = at[q]
         /\ UNCHANGED << holder_pid, lost, signals, extra >>
<1>1. Test \in Pcb /\ masterSemaphore \in Sem
  BY ConstantFacts
<1>2. Passeren(Test, masterSemaphore)
  BY DEF Wait
<1>3. /\ KernelTypes' /\ stray = {} /\ UNCHANGED << pcbFree, p_parent, stray >>
      /\ Test \in Live /\ Test \notin Waiting
      /\ \A q \in Pcb \ {Test} : p_semAdd'[q] = p_semAdd[q]
      /\ p_semAdd'[Test] \in {p_semAdd[Test], masterSemaphore}
      /\ \A t \in Sem \ {masterSemaphore} : blocked'[t] = blocked[t] /\ sem'[t] = sem[t]
  BY <1>1, <1>2, CallEffect
<1>4. /\ at[Test] = "wait" /\ i' = IF i + 1 = UPROC_NUM THEN 0 ELSE i + 1
      /\ at' = [at EXCEPT ![Test] = IF i + 1 = UPROC_NUM THEN "stop" ELSE "wait"]
      /\ UNCHANGED << holder_pid, lost, signals, extra >>
  BY DEF Wait, Loop, After, history
<1>5. /\ at' \in [Pcb -> Places]
      /\ at'[Test] = IF i + 1 = UPROC_NUM THEN "stop" ELSE "wait"
      /\ \A q \in Pcb \ {Test} : at'[q] = at[q]
  BY <1>1, <1>4 DEF SupportTypes, Places
<1> QED BY <1>3, <1>4, <1>5

LEMMA SignalEffect ==
  ASSUME KernelTypes, SupportTypes, NEW p \in Pcb, Signal(p)
  PROVE  /\ KernelTypes' /\ stray = {} /\ UNCHANGED << pcbFree, p_parent, stray >>
         /\ p \in Live /\ p \notin Waiting
         /\ \A q \in Pcb \ {p} : p_semAdd'[q] = p_semAdd[q]
         /\ p_semAdd'[p] \in {p_semAdd[p], masterSemaphore}
         /\ \A t \in Sem \ {masterSemaphore} : blocked'[t] = blocked[t] /\ sem'[t] = sem[t]
         /\ at[p] = "signal" /\ at'[p] = "end" /\ at' \in [Pcb -> Places]
         /\ \A q \in Pcb \ {p} : at'[q] = at[q]
         /\ signals' = signals + 1 /\ UNCHANGED << holder_pid, i, lost, extra >>
<1>1. masterSemaphore \in Sem
  BY ConstantFacts
<1>2. Verhogen(p, masterSemaphore) /\ Step(p, "signal", "end")
  BY DEF Signal
<1>3. /\ KernelTypes' /\ stray = {} /\ UNCHANGED << pcbFree, p_parent, stray >>
      /\ p \in Live /\ p \notin Waiting
      /\ \A q \in Pcb \ {p} : p_semAdd'[q] = p_semAdd[q]
      /\ p_semAdd'[p] \in {p_semAdd[p], masterSemaphore}
      /\ \A t \in Sem \ {masterSemaphore} : blocked'[t] = blocked[t] /\ sem'[t] = sem[t]
  BY <1>1, <1>2, CallEffect
<1>4. /\ at[p] = "signal" /\ at'[p] = "end" /\ at' \in [Pcb -> Places]
      /\ \A q \in Pcb \ {p} : at'[q] = at[q]
  BY <1>2 DEF Step, SupportTypes, Places
<1>5. signals' = signals + 1 /\ UNCHANGED << holder_pid, i, lost, extra >>
  BY DEF Signal
<1> QED BY <1>3, <1>4, <1>5

LEMMA EndEffect ==
  ASSUME KernelTypes, SupportTypes, NEW p \in Pcb, NEW from, TerminateSelf(p, from)
  PROVE  /\ KernelTypes' /\ stray = {} /\ UNCHANGED p_semAdd /\ pcbFree \subseteq pcbFree'
         /\ \A x \in Pcb : p_parent'[x] \in {p_parent[x], NULL}
         /\ p \in Live /\ p \notin Waiting
         /\ at[p] = from /\ at' \in [Pcb -> Places]
         /\ at'[p] = IF p \in pcbFree' THEN "gone" ELSE "returned"
         /\ \A q \in Pcb \ {p} : at'[q] = at[q]
         /\ extra' = extra + (IF p \in pcbFree' /\ p_semAdd[p] = masterSemaphore THEN 1 ELSE 0)
         /\ UNCHANGED << holder_pid, i, lost, signals >>
<1>1. PICK R \in SUBSET Runnable : Terminate(p, p, R)
  BY DEF TerminateSelf
<1>2. /\ KernelTypes' /\ stray = {} /\ UNCHANGED p_semAdd /\ pcbFree \subseteq pcbFree'
      /\ \A x \in Pcb : p_parent'[x] \in {p_parent[x], NULL}
      /\ p \in Live /\ p \notin Waiting
  BY <1>1, TerminateTypes
<1>3. /\ at[p] = from
      /\ at' = [at EXCEPT ![p] = IF p \in pcbFree' THEN "gone" ELSE "returned"]
      /\ extra' = extra + (IF p \in pcbFree' /\ p_semAdd[p] = masterSemaphore THEN 1 ELSE 0)
      /\ UNCHANGED << holder_pid, i, lost, signals >>
  BY DEF TerminateSelf
<1>4. /\ at' \in [Pcb -> Places]
      /\ at'[p] = IF p \in pcbFree' THEN "gone" ELSE "returned"
      /\ \A q \in Pcb \ {p} : at'[q] = at[q]
  BY <1>3 DEF SupportTypes, Places
<1> QED BY <1>2, <1>3, <1>4

LEMMA CreateStep ==
  ASSUME KernelTypes, SupportTypes, OneTest, Create(Test)
  PROVE  /\ KernelTypes' /\ stray = {} /\ UNCHANGED << blocked, sem, stray >>
         /\ at[Test] = "create" /\ i' = (IF i + 1 = UPROC_NUM THEN 0 ELSE i + 1)
         /\ at'[Test] = (IF i + 1 = UPROC_NUM THEN "wait" ELSE "create")
         /\ at' \in [Pcb -> Places] /\ UNCHANGED << holder_pid, lost, signals, extra >>
         /\ \E q \in pcbFree \ {Test} :
              /\ q \in Pcb /\ pcbFree' = pcbFree \ {q} /\ at'[q] = "fault"
              /\ p_parent'[q] = Test /\ p_semAdd'[q] = NULL
              /\ \A x \in Pcb \ {q} : p_parent'[x] = p_parent[x] /\ p_semAdd'[x] = p_semAdd[x]
              /\ \A x \in Pcb \ {q, Test} : at'[x] = at[x]
<1>1. /\ at[Test] = "create" /\ i' = IF i + 1 = UPROC_NUM THEN 0 ELSE i + 1
      /\ UNCHANGED << holder_pid, lost, signals, extra >>
  BY DEF Create, Loop, history
<1>2. PICK q \in pcbFree :
        /\ CreateProcess(Test, q)
        /\ at' = [at EXCEPT ![Test] = After("create", "wait"), ![q] = "fault"]
  BY DEF Create
<1>3. Test \in Pcb /\ pcbFree \subseteq Pcb
  BY ConstantFacts DEF KernelTypes
<1>4. /\ KernelTypes' /\ q \in Pcb /\ Test # q /\ stray = {} /\ UNCHANGED << blocked, sem, stray >>
      /\ pcbFree' = pcbFree \ {q} /\ p_parent'[q] = Test /\ p_semAdd'[q] = NULL
      /\ \A x \in Pcb \ {q} : p_parent'[x] = p_parent[x] /\ p_semAdd'[x] = p_semAdd[x]
  BY <1>2, <1>3, CreateEffect
<1>5. After("create", "wait") = IF i + 1 = UPROC_NUM THEN "wait" ELSE "create"
  BY DEF After
<1>6. /\ at' \in [Pcb -> Places] /\ at'[q] = "fault"
      /\ at'[Test] = IF i + 1 = UPROC_NUM THEN "wait" ELSE "create"
      /\ \A x \in Pcb \ {q, Test} : at'[x] = at[x]
  BY <1>2, <1>3, <1>4, <1>5 DEF SupportTypes, Places
<1> QED BY <1>1, <1>4, <1>6

\* A step of the flash device, or none
LEMMA OtherEffect ==
  ASSUME KernelTypes, (Device(flash) /\ UNCHANGED svars) \/ UNCHANGED vars
  PROVE  /\ KernelTypes' /\ UNCHANGED << pcbFree, p_parent, p_semAdd, stray, svars >>
         /\ \A t \in Sem \ {flash} : blocked'[t] = blocked[t] /\ sem'[t] = sem[t]
<1>1. CASE Device(flash) /\ UNCHANGED svars
  BY <1>1, DeviceEffect
<1>2. CASE UNCHANGED vars
  BY <1>2 DEF vars, kernel, procs, KernelTypes
<1> QED BY <1>1, <1>2

LEMMA NextTypes ==
  ASSUME KernelTypes, SupportTypes, OneTest, SignalsLast, [SupportNext]_vars
  PROVE  KernelTypes' /\ SupportTypes' /\ OneTest' /\ SignalsLast'
<1> USE ConstantFacts
<1>1. CASE Create(Test)
  <2>1. /\ KernelTypes' /\ at[Test] = "create" /\ i' = (IF i + 1 = UPROC_NUM THEN 0 ELSE i + 1)
        /\ at'[Test] = (IF i + 1 = UPROC_NUM THEN "wait" ELSE "create")
        /\ at' \in [Pcb -> Places] /\ UNCHANGED << holder_pid, lost, signals, extra >>
    BY <1>1, CreateStep
  <2>2. PICK q \in pcbFree \ {Test} :
          /\ q \in Pcb /\ at'[q] = "fault" /\ p_parent'[q] = Test /\ p_semAdd'[q] = NULL
          /\ \A x \in Pcb \ {q} : p_parent'[x] = p_parent[x] /\ p_semAdd'[x] = p_semAdd[x]
          /\ \A x \in Pcb \ {q, Test} : at'[x] = at[x]
    BY <1>1, CreateStep
  <2>3. SupportTypes'
    BY <2>1 DEF SupportTypes
  <2>4. OneTest'
    BY <2>1, <2>2 DEF OneTest
  <2>5. SignalsLast'
    BY <2>2 DEF SignalsLast
  <2> QED BY <2>1, <2>3, <2>4, <2>5
<1>2. CASE Wait(Test)
  <2>1. /\ KernelTypes' /\ UNCHANGED p_parent
        /\ \A q \in Pcb \ {Test} : p_semAdd'[q] = p_semAdd[q]
        /\ at[Test] = "wait" /\ i' = IF i + 1 = UPROC_NUM THEN 0 ELSE i + 1
        /\ at' \in [Pcb -> Places]
        /\ at'[Test] = IF i + 1 = UPROC_NUM THEN "stop" ELSE "wait"
        /\ \A q \in Pcb \ {Test} : at'[q] = at[q]
        /\ UNCHANGED << holder_pid, lost, signals, extra >>
    BY <1>2, WaitEffect
  <2>3. SupportTypes'
    BY <2>1 DEF SupportTypes
  <2>4. OneTest'
    BY <2>1 DEF OneTest
  <2>5. SignalsLast'
    BY <2>1 DEF SignalsLast
  <2> QED BY <2>1, <2>3, <2>4, <2>5
<1>3. ASSUME NEW p \in Pcb, NEW from, TerminateSelf(p, from)
      PROVE  KernelTypes' /\ SupportTypes' /\ OneTest' /\ SignalsLast'
  <2>1. /\ KernelTypes' /\ UNCHANGED p_semAdd
        /\ \A x \in Pcb : p_parent'[x] \in {p_parent[x], NULL}
        /\ at[p] = from /\ at' \in [Pcb -> Places]
        /\ at'[p] = IF p \in pcbFree' THEN "gone" ELSE "returned"
        /\ \A q \in Pcb \ {p} : at'[q] = at[q]
        /\ extra' = extra + (IF p \in pcbFree' /\ p_semAdd[p] = masterSemaphore THEN 1 ELSE 0)
        /\ UNCHANGED << holder_pid, i, lost, signals >>
    BY <1>3, EndEffect
  <2>3. SupportTypes'
    BY <2>1 DEF SupportTypes
  <2>4. OneTest'
    BY <2>1 DEF OneTest
  <2>5. SignalsLast'
    <3>1. CASE p = Test
      BY <2>1, <3>1 DEF SignalsLast
    <3>2. CASE p # Test
      <4>1. PICK R \in SUBSET Runnable : Terminate(p, p, R)
        BY <1>3 DEF TerminateSelf
      <4>2. pcbFree' = pcbFree \cup (IF p_semAdd[p] = NULL THEN {} ELSE {p})
        BY <3>2, <4>1, TerminateOwn
      <4> QED BY <2>1, <3>2, <4>2 DEF SignalsLast
    <3> QED BY <3>1, <3>2
  <2> QED BY <2>1, <2>3, <2>4, <2>5
<1>4. ASSUME NEW p \in Pcb \ {Test}, Paging(p)
      PROVE  KernelTypes' /\ SupportTypes' /\ OneTest' /\ SignalsLast'
  <2>1. Inner(p)
    BY <1>4, PagingIsInner
  <2>2. holder_pid' \in {holder_pid, p, NULL} /\ lost' \in BOOLEAN
    BY <1>4 DEF Paging, GetMutex, Got, Transfer, Release, Reset, User, SupportTypes
  <2>3. SupportTypes'
    BY <2>1, <2>2 DEF SupportTypes, Inner
  <2>4. OneTest'
    BY <2>1 DEF OneTest, Inner, Before
  <2>5. SignalsLast'
    BY <2>1 DEF SignalsLast, Inner, Before
  <2> QED BY <2>1, <2>3, <2>4, <2>5 DEF Inner
<1>5. ASSUME NEW p \in Pcb \ {Test}, Signal(p)
      PROVE  KernelTypes' /\ SupportTypes' /\ OneTest' /\ SignalsLast'
  <2>1. /\ KernelTypes' /\ UNCHANGED p_parent
        /\ \A q \in Pcb \ {p} : p_semAdd'[q] = p_semAdd[q]
        /\ at[p] = "signal" /\ at'[p] = "end" /\ at' \in [Pcb -> Places]
        /\ \A q \in Pcb \ {p} : at'[q] = at[q]
        /\ signals' = signals + 1 /\ UNCHANGED << holder_pid, i, lost, extra >>
    BY <1>5, SignalEffect
  <2>3. SupportTypes'
    BY <2>1 DEF SupportTypes
  <2>4. OneTest'
    BY <2>1 DEF OneTest
  <2>5. SignalsLast'
    BY <2>1 DEF SignalsLast
  <2> QED BY <2>1, <2>3, <2>4, <2>5
<1>6. CASE (Device(flash) /\ UNCHANGED svars) \/ UNCHANGED vars
  <2>1. KernelTypes' /\ UNCHANGED << p_parent, p_semAdd, svars >>
    BY <1>6, OtherEffect
  <2> QED BY <2>1 DEF svars, SupportTypes, OneTest, SignalsLast
<1>7. \/ Create(Test) \/ Wait(Test) \/ TerminateSelf(Test, "stop")
      \/ \E p \in Pcb \ {Test} : Paging(p) \/ Signal(p) \/ TerminateSelf(p, "end")
      \/ Device(flash) /\ UNCHANGED svars
      \/ UNCHANGED vars
  BY Steps
<1> QED BY <1>1, <1>2, <1>3, <1>4, <1>5, <1>6, <1>7

-----------------------------------------------------------------------------
(* The counters *)

LEMMA CountFacts ==
  /\ IsFiniteSet(NotYet) /\ Cardinality(NotYet) \in Nat
  /\ IsFiniteSet(Blockers) /\ Cardinality(Blockers) \in Nat
  /\ IsFiniteSet(Blockers') /\ Cardinality(Blockers') \in Nat
<1>1. NotYet \in SUBSET Pcb /\ Blockers \in SUBSET Pcb /\ Blockers' \in SUBSET Pcb
  BY DEF NotYet, Blockers, Live
<1>2. \A S \in SUBSET Pcb : IsFiniteSet(S) /\ Cardinality(S) \in Nat
  BY ConstantFacts, FS_Subset, FS_CardinalityType
<1> QED BY <1>1, <1>2

\* Counts speaks of nothing else.
LEMMA SameCounts ==
  ASSUME Counts, NotYet' = NotYet, Blockers' = Blockers, at'[Test] = at[Test],
         UNCHANGED << i, signals, extra >>
  PROVE  Counts'
BY DEF Counts, Created, TestUp

LEMMA CreateCounts ==
  ASSUME KernelTypes, SupportTypes, OneTest, Counts, TestUp => AllWell, Create(Test)
  PROVE  Counts'
<1>1. /\ at[Test] = "create" /\ i' = (IF i + 1 = UPROC_NUM THEN 0 ELSE i + 1)
      /\ at'[Test] = (IF i + 1 = UPROC_NUM THEN "wait" ELSE "create")
      /\ UNCHANGED << signals, extra >>
  BY CreateStep
<1>2. PICK q \in pcbFree \ {Test} :
        /\ q \in Pcb /\ pcbFree' = pcbFree \ {q} /\ at'[q] = "fault"
        /\ \A x \in Pcb \ {q} : p_semAdd'[x] = p_semAdd[x]
        /\ \A x \in Pcb \ {q, Test} : at'[x] = at[x]
  BY CreateStep
<1>3. TestUp /\ TestUp' /\ at[q] \in {"unborn", "gone"}
  BY <1>1, <1>2 DEF TestUp, AllWell
<1>4. NotYet' = NotYet \cup {q} /\ q \notin NotYet
  BY <1>2, <1>3 DEF NotYet, Before
<1>5. Blockers' = Blockers
  BY <1>2 DEF Blockers, Live
<1>6. Cardinality(NotYet') = Cardinality(NotYet) + 1
  BY <1>4, CountFacts, FS_AddElement
<1>7. Created = i /\ Created' = i + 1
  BY <1>1 DEF Created
<1>8. at[Test] # "gone" /\ at'[Test] # "gone"
  BY <1>1
<1> QED BY <1>1, <1>3, <1>5, <1>6, <1>7, <1>8, CountFacts DEF Counts, SupportTypes

LEMMA WaitCounts ==
  ASSUME KernelTypes, SupportTypes, Counts, Wait(Test)
  PROVE  Counts'
<1>1. /\ UNCHANGED << pcbFree, signals, extra >>
      /\ \A q \in Pcb \ {Test} : p_semAdd'[q] = p_semAdd[q]
      /\ at[Test] = "wait" /\ at'[Test] = (IF i + 1 = UPROC_NUM THEN "stop" ELSE "wait")
      /\ \A q \in Pcb \ {Test} : at'[q] = at[q]
  BY WaitEffect
<1>2. NotYet' = NotYet /\ Blockers' = Blockers
  BY <1>1 DEF NotYet, Blockers, Live
<1>3. Created' = Created /\ TestUp /\ TestUp' /\ at[Test] # "gone" /\ at'[Test] # "gone"
  BY <1>1 DEF Created, TestUp
<1> QED BY <1>1, <1>2, <1>3 DEF Counts

\* Test at its end finds a unit for each of its P.
LEMMA StopSignals ==
  ASSUME SupportTypes, Counts, TestUp => MasterInv, at[Test] = "stop", Test \notin Waiting
  PROVE  signals # 0
<1>1. masterSemaphore \in Sem /\ UPROC_NUM \in Nat /\ UPROC_NUM >= 1
  BY ConstantFacts
<1>2. Test \notin ToSet(blocked[masterSemaphore])
  BY <1>1 DEF Waiting
<1>3. signals + extra - UPROC_NUM >= 0
  BY <1>2 DEF MasterInv, TestUp, Waits
<1> QED BY <1>1, <1>3 DEF Counts, SupportTypes

LEMMA StopCounts ==
  ASSUME KernelTypes, SupportTypes, Counts, TestUp => MasterInv, TerminateSelf(Test, "stop")
  PROVE  Counts'
<1>1. /\ pcbFree \subseteq pcbFree' /\ UNCHANGED << p_semAdd, i, signals >>
      /\ Test \notin Waiting /\ at[Test] = "stop"
      /\ at'[Test] = (IF Test \in pcbFree' THEN "gone" ELSE "returned")
      /\ \A q \in Pcb \ {Test} : at'[q] = at[q]
      /\ extra' = extra + (IF Test \in pcbFree' /\ p_semAdd[Test] = masterSemaphore THEN 1 ELSE 0)
  BY EndEffect, ConstantFacts
<1>2. signals # 0
  BY <1>1, StopSignals
<1>3. NotYet' = NotYet
  BY <1>1 DEF NotYet
<1>4. Cardinality(Blockers') <= Cardinality(Blockers)
  <2>1. Blockers' \in SUBSET Blockers
    BY <1>1 DEF Blockers, Live
  <2> QED BY <2>1, CountFacts, FS_Subset
<1>5. Created' = Created
  BY <1>1 DEF Created
<1>6. extra' <= extra + (IF at'[Test] = "gone" THEN 1 ELSE 0) /\ extra' \in Nat
  BY <1>1 DEF SupportTypes
<1>7. extra + Cardinality(Blockers) < signals
  <2>1. at[Test] # "gone"
    BY <1>1
  <2> QED BY <2>1, <1>2, CountFacts DEF Counts, SupportTypes
<1>8. extra' + Cardinality(Blockers') < signals + (IF at'[Test] = "gone" THEN 1 ELSE 0)
  BY <1>4, <1>6, <1>7, CountFacts DEF SupportTypes
<1> QED BY <1>1, <1>2, <1>3, <1>5, <1>8 DEF Counts

LEMMA SignalCounts ==
  ASSUME KernelTypes, SupportTypes, OneTest, SignalsLast, Counts, TestUp => MasterInv,
         NEW p \in Pcb \ {Test}, Signal(p)
  PROVE  Counts'
<1>1. /\ UNCHANGED pcbFree
      /\ \A q \in Pcb \ {p} : p_semAdd'[q] = p_semAdd[q]
      /\ at[p] = "signal" /\ at'[p] = "end"
      /\ \A q \in Pcb \ {p} : at'[q] = at[q]
      /\ signals' = signals + 1 /\ UNCHANGED << i, extra >>
  BY SignalEffect
<1>2. NotYet' = NotYet \ {p} /\ p \in NotYet
  BY <1>1 DEF NotYet, Before
<1>3. Cardinality(NotYet') = Cardinality(NotYet) - 1
  BY <1>2, CountFacts, FS_RemoveElement
<1>4. at'[Test] = at[Test] /\ Created' = Created
  BY <1>1, ConstantFacts DEF Created
<1>5. Blockers' = Blockers \/ (Blockers' = Blockers \cup {p} /\ p_semAdd'[p] = masterSemaphore)
  BY <1>1 DEF Blockers, Live
<1>6. p_semAdd'[p] = masterSemaphore => sem[masterSemaphore] >= 1
  <2>1. p_semAdd[p] # masterSemaphore
    BY <1>1 DEF SignalsLast
  <2>2. sem[masterSemaphore] >= 1 \/ UNCHANGED p_semAdd
    BY DEF Signal, Verhogen, Wake, procs
  <2> QED BY <2>1, <2>2
<1>7. sem[masterSemaphore] >= 1 => signals # 0
  BY ConstantFacts DEF MasterInv, Waits, TestUp, Counts, SupportTypes
<1>8. Cardinality(Blockers') <= Cardinality(Blockers) + 1
  BY <1>5, CountFacts, FS_AddElement
<1>9. extra + Cardinality(Blockers') < signals + 1 + (IF at[Test] = "gone" THEN 1 ELSE 0)
  <2>1. CASE signals = 0
    <3>1. Blockers' = {} /\ extra = 0
      BY <2>1, <1>5, <1>6, <1>7 DEF Counts
    <3> QED BY <2>1, <3>1, FS_EmptySet
  <2>2. CASE signals # 0
    BY <2>2, <1>8, CountFacts DEF Counts, SupportTypes
  <2> QED BY <2>1, <2>2
<1>10. signals' + Cardinality(NotYet') <= Created' /\ signals' # 0
  BY <1>1, <1>3, <1>4, CountFacts DEF Counts, SupportTypes
<1> QED BY <1>1, <1>4, <1>9, <1>10 DEF Counts

LEMMA EndCounts ==
  ASSUME KernelTypes, SupportTypes, OneTest, SignalsLast, Counts,
         NEW p \in Pcb \ {Test}, TerminateSelf(p, "end")
  PROVE  Counts'
<1>1. /\ UNCHANGED << p_semAdd, i, signals >> /\ p \in Live
      /\ at[p] = "end" /\ at'[p] = (IF p \in pcbFree' THEN "gone" ELSE "returned")
      /\ \A q \in Pcb \ {p} : at'[q] = at[q]
      /\ extra' = extra + (IF p \in pcbFree' /\ p_semAdd[p] = masterSemaphore THEN 1 ELSE 0)
  BY EndEffect
<1>2. pcbFree' = pcbFree \cup (IF p_semAdd[p] = NULL THEN {} ELSE {p})
  <2>1. PICK R \in SUBSET Runnable : Terminate(p, p, R)
    BY DEF TerminateSelf
  <2> QED BY <2>1, TerminateOwn
<1>3. NotYet' = NotYet
  BY <1>1 DEF NotYet, Before
<1>4. Blockers' = Blockers \ {p} /\ (p \in Blockers <=> p_semAdd[p] = masterSemaphore)
  BY <1>1, <1>2 DEF Blockers, Live
<1>5. extra' = extra + (IF p \in Blockers THEN 1 ELSE 0)
  BY <1>1, <1>2, <1>4, ConstantFacts
<1>6. Cardinality(Blockers') = Cardinality(Blockers) - (IF p \in Blockers THEN 1 ELSE 0)
  BY <1>4, CountFacts, FS_RemoveElement
<1>7. at'[Test] = at[Test] /\ Created' = Created /\ TestUp' = TestUp
  BY <1>1, ConstantFacts DEF Created, TestUp
<1>8. CASE signals = 0
  <2>1. p \notin Blockers
    BY <1>8 DEF Counts
  <2>2. Blockers' = Blockers /\ extra' = extra
    BY <2>1, <1>4, <1>5 DEF SupportTypes
  <2> QED BY <1>1, <1>3, <1>7, <2>2, SameCounts
<1>9. CASE signals # 0
  BY <1>9, <1>1, <1>3, <1>5, <1>6, <1>7, CountFacts DEF Counts, SupportTypes
<1> QED BY <1>8, <1>9

LEMMA NextCounts ==
  ASSUME IInv, [SupportNext]_vars
  PROVE  Counts'
<1>1. /\ KernelTypes /\ SupportTypes /\ OneTest /\ SignalsLast /\ Counts
      /\ TestUp => AllWell /\ MasterInv
  BY DEF IInv, UpInv
<1>2. ASSUME NEW p \in Pcb \ {Test}, Paging(p) PROVE Counts'
  <2>1. Inner(p) /\ at'[Test] = at[Test]
    BY <1>1, <1>2, PagingIsInner, ConstantFacts DEF Inner
  <2>2. NotYet' = NotYet /\ Blockers' = Blockers
    BY <2>1 DEF Inner, NotYet, Blockers, Live, Before
  <2> QED BY <1>1, <2>1, <2>2, SameCounts DEF Inner
<1>3. CASE (Device(flash) /\ UNCHANGED svars) \/ UNCHANGED vars
  <2>1. UNCHANGED << pcbFree, p_semAdd, svars >>
    BY <1>1, <1>3, OtherEffect
  <2>2. NotYet' = NotYet /\ Blockers' = Blockers
    BY <2>1 DEF svars, NotYet, Blockers, Live
  <2> QED BY <1>1, <2>1, <2>2, SameCounts DEF svars
<1>4. ASSUME NEW p \in Pcb \ {Test}, Signal(p) \/ TerminateSelf(p, "end") PROVE Counts'
  BY <1>1, <1>4, SignalCounts, EndCounts
<1>5. CASE Create(Test) \/ Wait(Test) \/ TerminateSelf(Test, "stop")
  BY <1>1, <1>5, CreateCounts, WaitCounts, StopCounts
<1> QED BY <1>1, <1>2, <1>3, <1>4, <1>5, Steps

-----------------------------------------------------------------------------
(* While test is up *)

LEMMA UpBefore ==
  ASSUME KernelTypes, SupportTypes, OneTest, [SupportNext]_vars, TestUp'
  PROVE  TestUp
<1>1. ASSUME NEW p \in Pcb \ {Test}, Paging(p) \/ Signal(p) \/ TerminateSelf(p, "end")
      PROVE  TestUp
  <2>1. at'[Test] = at[Test]
    BY <1>1, PagingIsInner, SignalEffect, EndEffect, ConstantFacts DEF Inner
  <2> QED BY <2>1 DEF TestUp
<1>2. CASE Create(Test) \/ Wait(Test) \/ TerminateSelf(Test, "stop")
  BY <1>2 DEF Create, Wait, Loop, TerminateSelf, TestUp
<1>3. CASE (Device(flash) /\ UNCHANGED svars) \/ UNCHANGED vars
  BY <1>3 DEF svars, vars, TestUp
<1> QED BY <1>1, <1>2, <1>3, Steps

LEMMA NextAllWell ==
  ASSUME KernelTypes, SupportTypes, OneTest, AllWell, [SupportNext]_vars, TestUp'
  PROVE  AllWell'
<1>1. CASE Create(Test)
  <2>1. stray' = stray
    BY <1>1, CreateStep
  <2>2. \E q \in pcbFree \ {Test} : /\ pcbFree' = pcbFree \ {q}
                                    /\ \A x \in Pcb \ {q, Test} : at'[x] = at[x]
    BY <1>1, CreateStep
  <2> QED BY <2>1, <2>2 DEF AllWell, KernelTypes
<1>2. CASE Wait(Test)
  <2>1. UNCHANGED << pcbFree, stray >> /\ \A q \in Pcb \ {Test} : at'[q] = at[q]
    BY <1>2, WaitEffect
  <2> QED BY <2>1 DEF AllWell, KernelTypes
<1>3. CASE TerminateSelf(Test, "stop")
  <2>1. at'[Test] \in {"gone", "returned"}
    BY <1>3, EndEffect, ConstantFacts
  <2> QED BY <2>1 DEF TestUp
<1>4. ASSUME NEW p \in Pcb \ {Test}, Paging(p) \/ Signal(p) PROVE AllWell'
  <2>1. UNCHANGED << pcbFree, stray >> /\ p \in Live /\ \A q \in Pcb \ {p} : at'[q] = at[q]
    BY <1>4, PagingIsInner, SignalEffect DEF Inner
  <2> QED BY <2>1 DEF AllWell, KernelTypes, Live
<1>5. ASSUME NEW p \in Pcb \ {Test}, TerminateSelf(p, "end") PROVE AllWell'
  <2>1. /\ at'[p] = (IF p \in pcbFree' THEN "gone" ELSE "returned")
        /\ \A q \in Pcb \ {p} : at'[q] = at[q]
    BY <1>5, EndEffect
  <2>2. stray' = {} /\ pcbFree' \subseteq pcbFree \cup {p}
    <3>1. PICK R \in SUBSET Runnable : Terminate(p, p, R)
      BY <1>5 DEF TerminateSelf
    <3> QED BY <3>1, TerminateOwn
  <2> QED BY <2>1, <2>2 DEF AllWell, KernelTypes
<1>6. CASE (Device(flash) /\ UNCHANGED svars) \/ UNCHANGED vars
  <2>1. UNCHANGED << pcbFree, stray, at >>
    BY <1>6, OtherEffect DEF svars
  <2> QED BY <2>1 DEF AllWell
<1> QED BY <1>1, <1>2, <1>3, <1>4, <1>5, <1>6, Steps

Mutex == MutexQueue /\ Holder /\ MutexInv

\* The processes of C move outside the mutex, the others not at all.
Outside(C) ==
  /\ C \subseteq Pcb /\ UNCHANGED << lost, holder_pid >>
  /\ blocked'[swap_pool_sem] = blocked[swap_pool_sem]
  /\ sem'[swap_pool_sem] = sem[swap_pool_sem]
  /\ \A x \in Pcb \ C : at'[x] = at[x] /\ p_semAdd'[x] = p_semAdd[x]
  /\ \A x \in C : /\ at[x] \notin Section \cup {"reset", "dieReset"}
                  /\ at'[x] \notin Section
                  /\ p_semAdd'[x] = swap_pool_sem => p_semAdd[x] = swap_pool_sem

LEMMA MutexFrame ==
  ASSUME KernelTypes, SupportTypes, Mutex, NEW C, Outside(C)
  PROVE  Mutex'
<1>1. /\ C \subseteq Pcb /\ UNCHANGED << lost, holder_pid >>
      /\ blocked'[swap_pool_sem] = blocked[swap_pool_sem]
      /\ sem'[swap_pool_sem] = sem[swap_pool_sem]
      /\ \A x \in Pcb \ C : at'[x] = at[x] /\ p_semAdd'[x] = p_semAdd[x]
  BY DEF Outside
<1>2. \A x \in C : /\ at[x] \notin {"got", "out", "in", "release", "fail", "reset", "dieReset"}
                   /\ at'[x] \notin Section
                   /\ p_semAdd'[x] = swap_pool_sem => p_semAdd[x] = swap_pool_sem
  BY DEF Outside, Section
<1>3. Waiters' = Waiters /\ Waiters \subseteq Pcb
  <2>1. blocked[swap_pool_sem] \in Seq(Pcb)
    BY ConstantFacts DEF KernelTypes
  <2>2. ToSet(blocked[swap_pool_sem]) \subseteq Pcb
    BY <2>1, ElementOfSeq, LenProperties DEF ToSet
  <2> QED BY <1>1, <2>2 DEF Waiters
<1>4. Inside' = Inside /\ Inside \cap C = {}
  BY <1>1, <1>2, <1>3 DEF Inside, Section
<1>5. MutexQueue'
  <2>1. Waiters \cap C = {}
    BY <1>1, <1>2 DEF Mutex, MutexQueue
  <2>2. \A x \in C : p_semAdd'[x] # swap_pool_sem
    BY <1>1, <1>2 DEF Mutex, MutexQueue
  <2>3. \A x \in Waiters' : at'[x] = "got"
    BY <1>1, <1>3, <2>1 DEF Mutex, MutexQueue
  <2>4. \A x \in Pcb : p_semAdd'[x] = swap_pool_sem => at'[x] \in {"got", "out", "in"}
    BY <1>1, <2>2 DEF Mutex, MutexQueue
  <2> QED BY <1>1, <2>3, <2>4 DEF Mutex, MutexQueue
<1>6. Holder'
  <2>1. holder_pid # NULL => holder_pid \in Pcb \ C
    BY <1>2 DEF Mutex, Holder, SupportTypes
  <2> QED BY <1>1, <2>1, <1>4 DEF Mutex, Holder, Inside
<1>7. MutexInv'
  BY <1>1, <1>4 DEF Mutex, MutexInv
<1> QED BY <1>5, <1>6, <1>7 DEF Mutex

LEMMA WaitersFacts ==
  ASSUME KernelTypes
  PROVE  Waiters \subseteq Pcb /\ Waiters \subseteq Waiting
<1>1. blocked[swap_pool_sem] \in Seq(Pcb) /\ swap_pool_sem \in Sem
  BY ConstantFacts DEF KernelTypes
<1>2. ToSet(blocked[swap_pool_sem]) \subseteq Pcb
  BY <1>1, ElementOfSeq, LenProperties DEF ToSet
<1>3. ToSet(blocked[swap_pool_sem]) \subseteq Waiting
  BY <1>1 DEF Waiting
<1> QED BY <1>2, <1>3 DEF Waiters

\* What the semaphore tells of the mutex
LEMMA MutexCases ==
  ASSUME KernelTypes, SupportTypes, MutexInv
  PROVE  /\ Len(blocked[swap_pool_sem]) \in Nat /\ sem[swap_pool_sem] \in Int
         /\ sem[swap_pool_sem] <= 1
         /\ sem[swap_pool_sem] = 1 =>
              Inside = {} /\ ~ lost /\ Len(blocked[swap_pool_sem]) = 0
         /\ Inside # {} => ~ lost /\ sem[swap_pool_sem] = - Len(blocked[swap_pool_sem])
<1> DEFINE l == Len(blocked[swap_pool_sem])
           one == IF Inside = {} THEN 1 ELSE 0
           less == IF lost THEN 1 ELSE 0
<1>1. l \in Nat /\ sem[swap_pool_sem] \in Int
  BY ConstantFacts, LenProperties DEF KernelTypes
<1>2. sem[swap_pool_sem] = one - l - less
  BY DEF MutexInv
<1>3. /\ one \in {0, 1} /\ (one = 1 <=> Inside = {})
      /\ less \in {0, 1} /\ (less = 1 <=> lost)
  OBVIOUS
<1>4. Inside # {} => ~ lost
  BY DEF MutexInv
<1> HIDE DEF l, one, less
<1>5. /\ sem[swap_pool_sem] <= 1
      /\ sem[swap_pool_sem] = 1 => one = 1 /\ less = 0 /\ l = 0
      /\ one = 0 /\ less = 0 => sem[swap_pool_sem] = - l
  BY <1>1, <1>2, <1>3
<1> QED BY <1>1, <1>3, <1>4, <1>5 DEF l

\* The P blocks behind the process inside, or its caller is then inside.
LEMMA GetMutexStep ==
  ASSUME KernelTypes, SupportTypes, OneTest, Mutex, NEW p \in Pcb, GetMutex(p)
  PROVE  Mutex'
<1>1. /\ at[p] = "fault" /\ at'[p] = "got" /\ \A q \in Pcb \ {p} : at'[q] = at[q]
      /\ UNCHANGED << holder_pid, lost >>
  BY DEF GetMutex, Step, SupportTypes, Places
<1>2. /\ p \in Runnable /\ sem'[swap_pool_sem] = sem[swap_pool_sem] - 1
      /\ \/ sem[swap_pool_sem] <= 0 /\ Block(p, swap_pool_sem)
         \/ sem[swap_pool_sem] = 1 /\ UNCHANGED << procs, blocked >>
         \/ sem[swap_pool_sem] >= 2 /\ Wake(swap_pool_sem)
  BY ConstantFacts DEF GetMutex, Passeren, KernelTypes
<1>3. p \notin Waiters /\ Waiters \subseteq Pcb /\ p \notin Inside
  BY <1>1, <1>2, WaitersFacts DEF Runnable, Inside, Section
<1>4. /\ Len(blocked[swap_pool_sem]) \in Nat /\ swap_pool_sem \in Sem
      /\ sem[swap_pool_sem] \in Int
  BY ConstantFacts, LenProperties DEF KernelTypes
<1>5. sem[swap_pool_sem] <= 1
  BY MutexCases DEF Mutex
<1>6. p # holder_pid
  BY <1>1, ConstantFacts DEF Mutex, Holder
<1>7. CASE Block(p, swap_pool_sem) /\ sem[swap_pool_sem] <= 0
  <2>1. /\ p_semAdd'[p] = swap_pool_sem
        /\ \A q \in Pcb \ {p} : p_semAdd'[q] = p_semAdd[q]
        /\ ToSet(blocked'[swap_pool_sem]) = ToSet(blocked[swap_pool_sem]) \cup {p}
        /\ Len(blocked'[swap_pool_sem]) = Len(blocked[swap_pool_sem]) + 1
        /\ p \notin ToSet(blocked[swap_pool_sem]) /\ Distinct(blocked[swap_pool_sem])
             => Distinct(blocked'[swap_pool_sem])
    BY <1>4, <1>7, BlockEffect
  <2>2. Waiters' = Waiters \cup {p}
    BY <2>1 DEF Waiters
  <2>3. Inside' = Inside
    BY <1>1, <1>3, <2>2 DEF Inside
  <2>4. MutexQueue'
    BY <1>1, <1>3, <2>1, <2>2 DEF Mutex, MutexQueue, Waiters
  <2>5. Holder'
    BY <1>1, <1>3, <1>6, <2>3 DEF Mutex, Holder, Inside, SupportTypes
  <2>6. MutexInv'
    BY <1>1, <1>2, <1>4, <2>1, <2>3 DEF Mutex, MutexInv
  <2> QED BY <2>4, <2>5, <2>6 DEF Mutex
<1>8. CASE sem[swap_pool_sem] = 1 /\ UNCHANGED << procs, blocked >>
  <2>1. UNCHANGED << p_semAdd, blocked >> /\ Waiters' = Waiters
    BY <1>8 DEF procs, Waiters
  <2>2. Inside = {} /\ ~ lost /\ Len(blocked[swap_pool_sem]) = 0
    BY <1>8, MutexCases DEF Mutex
  <2>3. Inside' = {p}
    BY <1>1, <1>3, <2>1, <2>2 DEF Inside, Section
  <2>4. MutexQueue'
    BY <1>1, <1>3, <2>1 DEF Mutex, MutexQueue
  <2>5. Holder'
    BY <1>1, <1>6, <2>3 DEF Mutex, Holder, SupportTypes
  <2>6. MutexInv'
    BY <1>1, <1>2, <1>8, <2>1, <2>2, <2>3 DEF MutexInv
  <2> QED BY <2>4, <2>5, <2>6 DEF Mutex
<1> QED BY <1>2, <1>4, <1>5, <1>7, <1>8

\* Who is inside is alone, and goes on to its transfer.
LEMMA GotStep ==
  ASSUME KernelTypes, SupportTypes, OneTest, Mutex, NEW p \in Pcb, Got(p)
  PROVE  Mutex'
<1>1. /\ at[p] = "got" /\ at'[p] \in {"out", "in"} /\ \A q \in Pcb \ {p} : at'[q] = at[q]
      /\ holder_pid' = p /\ UNCHANGED lost /\ p \in Runnable
      /\ UNCHANGED << p_semAdd, blocked, sem >>
  BY DEF Got, Step, Local, kernel, procs, SupportTypes, Places
<1>2. p \notin Waiters /\ p \in Inside
  BY <1>1, WaitersFacts DEF Runnable, Inside, Section
<1>3. Waiters' = Waiters /\ Inside' = Inside
  BY <1>1 DEF Inside, Section, Waiters
<1>4. MutexQueue'
  BY <1>1, <1>2, <1>3, WaitersFacts DEF Mutex, MutexQueue
<1>5. Holder'
  BY <1>1, <1>2, <1>3 DEF Mutex, Holder, MutexInv, Inside
<1>6. MutexInv'
  BY <1>1, <1>3 DEF Mutex, MutexInv
<1> QED BY <1>4, <1>5, <1>6 DEF Mutex

LEMMA TransferStep ==
  ASSUME KernelTypes, SupportTypes, OneTest, Mutex, NEW p \in Pcb,
         Transfer(p, "out", "in") \/ Transfer(p, "in", "release")
  PROVE  Mutex'
<1>1. /\ at[p] \in {"out", "in"} /\ at'[p] \in {"in", "release", "fail"}
      /\ \A q \in Pcb \ {p} : at'[q] = at[q]
      /\ UNCHANGED << holder_pid, lost >> /\ DoIO(p, flash)
  BY DEF Transfer, Step, SupportTypes, Places
<1>2. /\ \A q \in Pcb \ {p} : p_semAdd'[q] = p_semAdd[q]
      /\ p_semAdd'[p] # swap_pool_sem /\ p \notin Waiting
      /\ blocked'[swap_pool_sem] = blocked[swap_pool_sem]
      /\ sem'[swap_pool_sem] = sem[swap_pool_sem]
  <2>1. Block(p, flash)
    BY <1>1 DEF DoIO
  <2>2. p_semAdd'[p] = flash
    BY <2>1, BlockEffect, ConstantFacts
  <2> QED BY <1>1, <2>2, CallEffect, ConstantFacts
<1>3. Waiters' = Waiters /\ p \notin Waiters /\ Waiters \subseteq Pcb
  BY <1>2, WaitersFacts DEF Waiters
<1>4. Inside' = Inside
  BY <1>1, <1>3 DEF Inside, Section
<1>5. MutexQueue'
  BY <1>1, <1>2, <1>3 DEF Mutex, MutexQueue
<1>6. Holder'
  BY <1>1, <1>4 DEF Mutex, Holder, Inside, SupportTypes
<1>7. MutexInv'
  BY <1>1, <1>2, <1>4 DEF Mutex, MutexInv
<1> QED BY <1>5, <1>6, <1>7 DEF Mutex

\* The V of the process inside lets the next one in, if any waits.
LEMMA ReleaseV ==
  ASSUME KernelTypes, SupportTypes, Mutex, NEW p \in Pcb, NEW from, NEW to,
         from \in {"release", "fail", "die"}, to \in {"reset", "dieReset"},
         holder_pid = p, Step(p, from, to), Verhogen(p, swap_pool_sem),
         UNCHANGED << holder_pid, lost >>
  PROVE  Mutex'
<1> DEFINE q == blocked[swap_pool_sem]
<1>1. /\ at[p] = from /\ at'[p] = to /\ \A x \in Pcb \ {p} : at'[x] = at[x]
  BY DEF Step, SupportTypes, Places
<1>2. from # "die" /\ p \notin Waiters /\ Waiters \subseteq Pcb
  BY <1>1, WaitersFacts, ConstantFacts DEF Mutex, Holder, Verhogen, Runnable
<1>3. p \in Inside /\ Inside = {p}
  <2>1. p \in Inside
    BY <1>1, <1>2 DEF Inside, Section
  <2> QED BY <2>1 DEF Mutex, MutexInv
<1>4. ~ lost /\ sem[swap_pool_sem] = - Len(q) /\ Len(q) \in Nat
  BY <1>3, MutexCases DEF Mutex
<1>5. /\ sem'[swap_pool_sem] = sem[swap_pool_sem] + 1
      /\ \/ sem[swap_pool_sem] = 0 /\ UNCHANGED << procs, blocked >>
         \/ sem[swap_pool_sem] < 0 /\ Wake(swap_pool_sem)
  BY <1>4, ConstantFacts DEF Verhogen, KernelTypes
<1>6. UNCHANGED p_semAdd /\ p_semAdd[p] # swap_pool_sem
  <2>1. at[p] \notin {"got", "out", "in"}
    BY <1>1
  <2> QED BY <1>5, <2>1 DEF Mutex, MutexQueue, Wake, procs
<1>7. Holder' /\ MutexQueue' /\ MutexInv' <=> Mutex'
  BY DEF Mutex
<1>8. CASE sem[swap_pool_sem] = 0 /\ UNCHANGED << procs, blocked >>
  <2>1. Len(q) = 0 /\ UNCHANGED blocked /\ Waiters' = Waiters
    BY <1>4, <1>8 DEF Waiters
  <2>2. Inside' = {}
    BY <1>1, <1>3, <2>1 DEF Inside, Section
  <2>3. MutexQueue'
    BY <1>1, <1>2, <1>6, <2>1 DEF Mutex, MutexQueue
  <2>4. Holder'
    BY <1>1, <2>2 DEF Mutex, Holder
  <2>5. MutexInv'
    BY <1>4, <1>5, <1>8, <2>1, <2>2 DEF MutexInv
  <2> QED BY <1>7, <2>3, <2>4, <2>5
<1>9. CASE sem[swap_pool_sem] < 0 /\ Wake(swap_pool_sem)
  <2>1. Len(q) # 0
    BY <1>4, <1>9
  <2>2. /\ Waiters' \subseteq Waiters /\ Distinct(blocked'[swap_pool_sem])
        /\ Len(blocked'[swap_pool_sem]) = Len(q) - 1
        /\ \E h \in Pcb : Waiters = Waiters' \cup {h} /\ h \notin Waiters'
    <3>1. Distinct(q) /\ swap_pool_sem \in Sem
      BY ConstantFacts DEF Mutex, MutexQueue
    <3> QED BY <1>9, <2>1, <3>1, WakeEffect DEF Waiters
  <2>3. PICK h \in Pcb : Waiters = Waiters' \cup {h} /\ h \notin Waiters'
    BY <2>2
  <2>4. at'[h] = "got" /\ h # p
    BY <1>1, <1>2, <2>3 DEF Mutex, MutexQueue
  <2>5. Inside' = {h}
    BY <1>1, <1>3, <2>3, <2>4 DEF Inside, Section
  <2>6. MutexQueue'
    BY <1>1, <1>2, <1>6, <2>2 DEF Mutex, MutexQueue
  <2>7. Holder'
    BY <1>1, <2>4, <2>5 DEF Mutex, Holder
  <2>8. MutexInv'
    <3>1. sem'[swap_pool_sem] = 0 - Len(blocked'[swap_pool_sem])
      BY <1>4, <1>5, <2>2
    <3>2. ~ lost' /\ Inside' # {}
      BY <1>4, <2>5
    <3> QED BY <1>4, <2>2, <2>5, <3>1, <3>2 DEF MutexInv
  <2> QED BY <1>7, <2>6, <2>7, <2>8
<1> QED BY <1>5, <1>8, <1>9

\* Who finds another in holder_pid leaves with the mutex.
LEMMA ReleaseLost ==
  ASSUME KernelTypes, SupportTypes, Mutex, NEW p \in Pcb, NEW from, NEW to,
         from \in {"release", "fail"}, to \in {"user", "signal"},
         holder_pid # p, Step(p, from, to), Local(p), lost', UNCHANGED holder_pid
  PROVE  Mutex'
<1>1. /\ at[p] = from /\ at'[p] = to /\ (\A x \in Pcb \ {p} : at'[x] = at[x])
      /\ p \in Runnable /\ UNCHANGED << p_semAdd, blocked, sem >>
  BY DEF Step, SupportTypes, Places, Local, kernel, procs
<1>2. p \notin Waiters /\ Waiters \subseteq Pcb /\ Waiters' = Waiters
  BY <1>1, WaitersFacts DEF Runnable, Waiters
<1>3. Inside = {p} /\ Inside' = {}
  <2>1. p \in Inside
    BY <1>1, <1>2 DEF Inside, Section
  <2>2. Inside = {p}
    BY <2>1 DEF Mutex, MutexInv
  <2> QED BY <1>1, <1>2, <2>2 DEF Inside, Section
<1>4. MutexQueue'
  BY <1>1, <1>2 DEF Mutex, MutexQueue
<1>5. Holder'
  BY <1>1, <1>3 DEF Mutex, Holder, SupportTypes
<1>6. MutexInv'
  <2>1. sem[swap_pool_sem] = - Len(blocked[swap_pool_sem]) /\ Len(blocked[swap_pool_sem]) \in Nat
    BY <1>3, MutexCases DEF Mutex
  <2> QED BY <1>1, <1>3, <2>1 DEF MutexInv
<1> QED BY <1>4, <1>5, <1>6 DEF Mutex

LEMMA ReleaseStep ==
  ASSUME KernelTypes, SupportTypes, OneTest, Mutex, NEW p \in Pcb,
         NEW from, NEW reset, NEW to,
         \/ from = "release" /\ reset = "reset" /\ to = "user"
         \/ from \in {"fail", "die"} /\ reset = "dieReset" /\ to = "signal",
         Release(p, from, reset, to)
  PROVE  Mutex'
<1>1. UNCHANGED holder_pid /\ lost' = (lost \/ (from \in {"release", "fail"} /\ holder_pid # p))
  BY DEF Release
<1>2. CASE holder_pid = p /\ Step(p, from, reset) /\ Verhogen(p, swap_pool_sem)
  <2>1. lost' = lost
    BY <1>1, <1>2 DEF SupportTypes
  <2> QED BY <1>1, <1>2, <2>1, ReleaseV
<1>3. CASE holder_pid # p /\ Step(p, from, to) /\ Local(p) /\ from # "die"
  <2>1. from \in {"release", "fail"} /\ lost'
    BY <1>1, <1>3
  <2> QED BY <1>1, <1>3, <2>1, ReleaseLost
<1>4. CASE holder_pid # p /\ Step(p, from, to) /\ Local(p) /\ from = "die"
  <2>1. /\ at[p] = "die" /\ at'[p] = "signal" /\ \A x \in Pcb \ {p} : at'[x] = at[x]
        /\ UNCHANGED << p_semAdd, blocked, sem, lost >>
    BY <1>1, <1>4 DEF Step, SupportTypes, Places, Local, kernel, procs
  <2>2. Outside({p})
    BY <1>1, <2>1 DEF Outside, Section
  <2> QED BY <2>2, MutexFrame
<1> QED BY <1>2, <1>3, <1>4 DEF Release

LEMMA ResetStep ==
  ASSUME KernelTypes, SupportTypes, OneTest, Mutex, NEW p \in Pcb,
         Reset(p, "reset", "user") \/ Reset(p, "dieReset", "signal")
  PROVE  Mutex'
<1>1. /\ at[p] \in {"reset", "dieReset"} /\ at'[p] \in {"user", "signal"}
      /\ \A x \in Pcb \ {p} : at'[x] = at[x]
      /\ holder_pid' = NULL /\ p \in Runnable /\ UNCHANGED << p_semAdd, blocked, sem, lost >>
  BY DEF Reset, Step, SupportTypes, Places, Local, kernel, procs
<1>2. p \notin Waiters /\ Waiters \subseteq Pcb /\ Waiters' = Waiters
  BY <1>1, WaitersFacts DEF Runnable, Waiters
<1>3. Inside' = Inside
  BY <1>1, <1>2 DEF Inside, Section
<1>4. MutexQueue'
  BY <1>1, <1>2 DEF Mutex, MutexQueue
<1>5. Holder'
  BY <1>1 DEF Holder
<1>6. MutexInv'
  BY <1>1, <1>3 DEF Mutex, MutexInv
<1> QED BY <1>4, <1>5, <1>6 DEF Mutex

LEMMA PagingStep ==
  ASSUME KernelTypes, SupportTypes, OneTest, Mutex, NEW p \in Pcb, Paging(p)
  PROVE  Mutex'
<1>1. CASE User(p)
  <2>1. /\ at[p] = "user" /\ at'[p] \in {"user", "fault", "die", "astray"}
        /\ \A x \in Pcb \ {p} : at'[x] = at[x]
        /\ UNCHANGED << p_semAdd, blocked, sem, lost, holder_pid >>
    <3>1. \A e : Handler(e) \subseteq {"user", "fault", "die", "astray"} \cap Places
      BY DEF Handler, Places
    <3> QED BY <1>1, <3>1 DEF User, Step, SupportTypes, Local, kernel, procs
  <2>2. Outside({p})
    BY <2>1 DEF Outside, Section
  <2> QED BY <2>2, MutexFrame
<1> QED BY <1>1, GetMutexStep, GotStep, TransferStep, ReleaseStep, ResetStep DEF Paging

LEMMA NextMutex ==
  ASSUME KernelTypes, SupportTypes, OneTest, AllWell, Mutex, [SupportNext]_vars, TestUp'
  PROVE  Mutex'
<1>1. Test \in Pcb /\ swap_pool_sem \in Sem /\ swap_pool_sem # masterSemaphore
      /\ swap_pool_sem # flash
  BY ConstantFacts
<1>2. CASE Create(Test)
  <2>1. /\ UNCHANGED << blocked, sem, holder_pid, lost >> /\ at[Test] = "create"
        /\ at'[Test] \in {"wait", "create"}
    BY <1>2, CreateStep
  <2>2. PICK q \in pcbFree \ {Test} :
          /\ q \in Pcb /\ at'[q] = "fault" /\ p_semAdd'[q] = NULL
          /\ \A x \in Pcb \ {q} : p_semAdd'[x] = p_semAdd[x]
          /\ \A x \in Pcb \ {q, Test} : at'[x] = at[x]
    BY <1>2, CreateStep
  <2>3. at[q] \in {"unborn", "gone"} /\ NULL # swap_pool_sem
    BY <2>2, ConstantFacts DEF AllWell
  <2>4. \A x \in {q, Test} : /\ at[x] \notin Section \cup {"reset", "dieReset"}
                             /\ at'[x] \notin Section
                             /\ p_semAdd'[x] = swap_pool_sem => p_semAdd[x] = swap_pool_sem
    BY <1>1, <2>1, <2>2, <2>3 DEF Section
  <2>5. Outside({q, Test})
    BY <1>1, <2>1, <2>2, <2>4 DEF Outside
  <2> QED BY <2>5, MutexFrame
<1>3. CASE Wait(Test)
  <2>1. /\ \A q \in Pcb \ {Test} : p_semAdd'[q] = p_semAdd[q] /\ at'[q] = at[q]
        /\ p_semAdd'[Test] \in {p_semAdd[Test], masterSemaphore}
        /\ blocked'[swap_pool_sem] = blocked[swap_pool_sem]
        /\ sem'[swap_pool_sem] = sem[swap_pool_sem]
        /\ at[Test] = "wait" /\ at'[Test] \in {"stop", "wait"}
        /\ UNCHANGED << holder_pid, lost >>
    BY <1>1, <1>3, WaitEffect
  <2>2. Outside({Test})
    BY <1>1, <2>1 DEF Outside, Section
  <2> QED BY <2>2, MutexFrame
<1>4. CASE TerminateSelf(Test, "stop")
  <2>1. at'[Test] \in {"gone", "returned"}
    BY <1>1, <1>4, EndEffect
  <2> QED BY <2>1 DEF TestUp
<1>5. ASSUME NEW p \in Pcb \ {Test}, Signal(p) PROVE Mutex'
  <2>1. /\ \A q \in Pcb \ {p} : p_semAdd'[q] = p_semAdd[q] /\ at'[q] = at[q]
        /\ p_semAdd'[p] \in {p_semAdd[p], masterSemaphore}
        /\ blocked'[swap_pool_sem] = blocked[swap_pool_sem]
        /\ sem'[swap_pool_sem] = sem[swap_pool_sem]
        /\ at[p] = "signal" /\ at'[p] = "end" /\ UNCHANGED << holder_pid, lost >>
    BY <1>1, <1>5, SignalEffect
  <2>2. Outside({p})
    BY <1>1, <2>1 DEF Outside, Section
  <2> QED BY <2>2, MutexFrame
<1>6. ASSUME NEW p \in Pcb \ {Test}, TerminateSelf(p, "end") PROVE Mutex'
  <2>1. /\ UNCHANGED << p_semAdd, holder_pid, lost >> /\ at[p] = "end"
        /\ at'[p] \in {"gone", "returned"} /\ \A q \in Pcb \ {p} : at'[q] = at[q]
    BY <1>6, EndEffect
  <2>2. PICK R \in SUBSET Runnable : Terminate(p, p, R)
    BY <1>6 DEF TerminateSelf
  <2>3. p_semAdd[p] # swap_pool_sem
    BY <2>1 DEF Mutex, MutexQueue
  <2>4. UNCHANGED blocked /\ sem'[swap_pool_sem] = sem[swap_pool_sem] + 0
    BY <1>1, <2>2, <2>3, TerminateOwn
  <2>5. sem'[swap_pool_sem] = sem[swap_pool_sem]
    BY <1>1, <2>4 DEF KernelTypes
  <2>6. Outside({p})
    BY <1>1, <2>1, <2>4, <2>5 DEF Outside, Section
  <2> QED BY <2>6, MutexFrame
<1>7. CASE (Device(flash) /\ UNCHANGED svars) \/ UNCHANGED vars
  <2>1. /\ UNCHANGED << at, p_semAdd, holder_pid, lost >>
        /\ blocked'[swap_pool_sem] = blocked[swap_pool_sem]
        /\ sem'[swap_pool_sem] = sem[swap_pool_sem]
    BY <1>1, <1>7, OtherEffect DEF svars
  <2>2. Outside({})
    BY <2>1 DEF Outside
  <2> QED BY <2>2, MutexFrame
<1> QED BY <1>2, <1>3, <1>4, <1>5, <1>6, <1>7, PagingStep, Steps

LEMMA NextMaster ==
  ASSUME KernelTypes, SupportTypes, OneTest, MasterInv, [SupportNext]_vars, TestUp, TestUp'
  PROVE  MasterInv'
<1> DEFINE m == masterSemaphore
<1>1. /\ Test \in Pcb /\ m \in Sem /\ m # flash /\ sem[m] \in Int /\ sem'[m] = sem'[m]
      /\ UPROC_NUM \in Nat /\ i \in Nat /\ signals \in Nat /\ extra \in Nat /\ Waits \in Nat
  BY ConstantFacts DEF KernelTypes, SupportTypes, Waits
<1>2. /\ sem[m] = signals + extra - Waits /\ sem[m] >= -1
      /\ Test \notin ToSet(blocked[m]) => sem[m] >= 0
  BY DEF MasterInv
<1>3. CASE Create(Test)
  <2>1. /\ UNCHANGED << blocked, sem, signals, extra >> /\ at[Test] = "create"
        /\ i' = (IF i + 1 = UPROC_NUM THEN 0 ELSE i + 1)
        /\ at'[Test] = (IF i + 1 = UPROC_NUM THEN "wait" ELSE "create")
    BY <1>3, CreateStep
  <2>2. Waits' = 0 /\ Waits = 0
    BY <2>1 DEF Waits
  <2> QED BY <2>1, <2>2, <1>2 DEF MasterInv
<1>4. CASE Wait(Test)
  <2>1. /\ at[Test] = "wait" /\ i' = (IF i + 1 = UPROC_NUM THEN 0 ELSE i + 1)
        /\ at'[Test] = (IF i + 1 = UPROC_NUM THEN "stop" ELSE "wait")
        /\ Test \notin Waiting /\ UNCHANGED << signals, extra >>
    BY <1>4, WaitEffect
  <2>2. Waits' = Waits + 1
    BY <1>1, <2>1 DEF Waits
  <2>3. sem[m] >= 0
    BY <1>1, <1>2, <2>1 DEF Waiting
  <2>4. sem'[m] = sem[m] - 1 /\ (sem[m] <= 0 => Test \in ToSet(blocked'[m]))
    <3>1. /\ sem' = [sem EXCEPT ![m] = @ - 1]
          /\ (sem[m] <= 0 /\ Block(Test, m)) \/ sem[m] > 0
      BY <1>1, <1>4 DEF Wait, Passeren
    <3>2. Block(Test, m) => Test \in ToSet(blocked'[m])
      BY <1>1, BlockEffect
    <3> QED BY <1>1, <3>1, <3>2 DEF KernelTypes
  <2>5. sem'[m] >= -1 /\ (sem[m] > 0 => sem'[m] >= 0)
    BY <1>1, <2>3, <2>4
  <2>6. sem'[m] = signals' + extra' - Waits'
    BY <1>1, <1>2, <2>1, <2>2, <2>4
  <2> QED BY <1>1, <2>4, <2>5, <2>6 DEF MasterInv
<1>5. ASSUME NEW p \in Pcb \ {Test}, Signal(p) PROVE MasterInv'
  <2>1. at'[Test] = at[Test] /\ signals' = signals + 1 /\ UNCHANGED << i, extra >>
    BY <1>1, <1>5, SignalEffect
  <2>2. sem'[m] = sem[m] + 1
    BY <1>1, <1>5 DEF Signal, Verhogen, KernelTypes
  <2>3. Waits' = Waits
    BY <2>1 DEF Waits
  <2> QED BY <1>1, <1>2, <2>1, <2>2, <2>3 DEF MasterInv
<1>6. ASSUME NEW p \in Pcb \ {Test}, TerminateSelf(p, "end") PROVE MasterInv'
  <2>1. /\ at'[Test] = at[Test] /\ p \in Live /\ UNCHANGED << i, signals, p_semAdd >>
        /\ extra' = extra + (IF p \in pcbFree' /\ p_semAdd[p] = m THEN 1 ELSE 0)
    BY <1>1, <1>6, EndEffect
  <2>2. PICK R \in SUBSET Runnable : Terminate(p, p, R)
    BY <1>6 DEF TerminateSelf
  <2>3. /\ UNCHANGED blocked /\ sem'[m] = sem[m] + (IF p_semAdd[p] = m THEN 1 ELSE 0)
        /\ p_semAdd[p] = m => p \in pcbFree'
    BY <1>1, <2>2, TerminateOwn, ConstantFacts
  <2>4. Waits' = Waits
    BY <2>1 DEF Waits
  <2> QED BY <1>1, <1>2, <2>1, <2>3, <2>4 DEF MasterInv
<1>7. ASSUME NEW p \in Pcb \ {Test}, Paging(p) PROVE MasterInv'
  <2>1. /\ at'[Test] = at[Test] /\ UNCHANGED << i, signals, extra >>
        /\ blocked'[m] = blocked[m] /\ sem'[m] = sem[m]
    BY <1>1, <1>7, PagingIsInner DEF Inner
  <2>2. Waits' = Waits
    BY <2>1 DEF Waits
  <2> QED BY <1>2, <2>1, <2>2 DEF MasterInv
<1>8. CASE (Device(flash) /\ UNCHANGED svars) \/ UNCHANGED vars
  <2>1. UNCHANGED << at, i, signals, extra >> /\ blocked'[m] = blocked[m] /\ sem'[m] = sem[m]
    BY <1>1, <1>8, OtherEffect DEF svars
  <2>2. Waits' = Waits
    BY <2>1 DEF Waits
  <2> QED BY <1>2, <2>1, <2>2 DEF MasterInv
<1>9. ~ TerminateSelf(Test, "stop")
  BY <1>1, EndEffect DEF TestUp
<1> QED BY <1>3, <1>4, <1>5, <1>6, <1>7, <1>8, <1>9, Steps

-----------------------------------------------------------------------------
(* The theorems *)

LEMMA InitEstablishes ==
  ASSUME SupportInit
  PROVE  IInv
<1> USE ConstantFacts
<1>1. /\ pcbFree = Pcb \ {Test} /\ stray = {}
      /\ p_parent = [p \in Pcb |-> NULL] /\ p_semAdd = [p \in Pcb |-> NULL]
      /\ blocked = [s \in Sem |-> << >>] /\ sem \in [Sem -> {0, 1}]
  BY DEF SupportInit, Init, mkEmptyProcQ
<1>2. /\ sem[swap_pool_sem] = 1 /\ sem[masterSemaphore] = 0
      /\ at \in [Pcb -> Places] /\ at[Test] = "create"
      /\ \A p \in Pcb \ {Test} : at[p] = "unborn"
      /\ holder_pid = NULL /\ i = 0 /\ lost = FALSE /\ signals = 0 /\ extra = 0
  BY DEF SupportInit, Places
<1>3. \A s \in Sem : blocked[s] \in Seq(Pcb) /\ ToSet(blocked[s]) = {} /\ Len(blocked[s]) = 0
                     /\ Distinct(blocked[s])
  BY <1>1, EmptySeq DEF ToSet, Distinct
<1>4. KernelTypes
  BY <1>1, <1>3 DEF KernelTypes
<1>5. SupportTypes
  <2>1. i \in 0 .. UPROC_NUM - 1 /\ signals \in Nat /\ extra \in Nat
    BY <1>2
  <2>2. lost \in BOOLEAN
    BY <1>2
  <2> QED BY <1>2, <2>1, <2>2 DEF SupportTypes
<1>6. OneTest /\ SignalsLast
  BY <1>1, <1>2 DEF OneTest, SignalsLast
<1>7. TestUp
  BY <1>2 DEF TestUp
<1>8. NotYet = {} /\ Blockers = {} /\ Cardinality(NotYet) = 0
  <2>1. NotYet = {}
    BY <1>2 DEF NotYet, Before
  <2>2. Blockers = {}
    BY <1>2 DEF Blockers, Live
  <2> QED BY <2>1, <2>2, FS_EmptySet
<1>9. Counts
  BY <1>2, <1>7, <1>8 DEF Counts, Created
<1>10. AllWell
  BY <1>1, <1>2 DEF AllWell
<1>11. Inside = {} /\ Waiters = {}
  BY <1>2, <1>3 DEF Inside, Section, Waiters
<1>12. MutexQueue /\ Holder
  BY <1>1, <1>2, <1>3, <1>11 DEF MutexQueue, Holder
<1>13. MutexInv
  BY <1>2, <1>3, <1>11 DEF MutexInv
<1>14. MasterInv
  BY <1>2 DEF MasterInv, Waits
<1> QED BY <1>4, <1>5, <1>6, <1>9, <1>10, <1>12, <1>13, <1>14 DEF IInv, UpInv

LEMMA NextPreserves ==
  ASSUME IInv, [SupportNext]_vars
  PROVE  IInv'
<1>1. /\ KernelTypes /\ SupportTypes /\ OneTest /\ SignalsLast
      /\ TestUp => AllWell /\ Mutex /\ MasterInv
  BY DEF IInv, UpInv, Mutex
<1>2. KernelTypes' /\ SupportTypes' /\ OneTest' /\ SignalsLast'
  BY <1>1, NextTypes
<1>3. Counts'
  BY NextCounts
<1>4. TestUp' => AllWell' /\ Mutex' /\ MasterInv'
  BY <1>1, UpBefore, NextAllWell, NextMutex, NextMaster
<1> QED BY <1>2, <1>3, <1>4 DEF IInv, UpInv, Mutex

\* The inductive invariant holds in every behaviour of the support level.
THEOREM Invariance == SupportSpec => []IInv
<1>1. SupportInit => IInv
  BY InitEstablishes
<1>2. IInv /\ [SupportNext]_vars => IInv'
  BY NextPreserves
<1> QED BY <1>1, <1>2, PTL DEF SupportSpec

\* The counters of the shutdown, and all else, stay within their limits: no more
\* V on masterSemaphore than U-procs were created, and no more units from
\* terminations than V (sysSupport.c:65, exceptions.c:359).
THEOREM TypeCorrect == SupportSpec => []TypeOK
<1>1. IInv => TypeOK
  <2> SUFFICES ASSUME IInv PROVE TypeOK
    OBVIOUS
  <2>1. KernelTypes /\ SupportTypes /\ Counts
    BY DEF IInv
  <2>2. Created \in Nat /\ Created <= UPROC_NUM
    BY <2>1, ConstantFacts DEF Created, SupportTypes
  <2>3. signals <= UPROC_NUM
    BY <2>1, <2>2, CountFacts, ConstantFacts DEF Counts, SupportTypes
  <2>4. extra <= signals
    <3>1. CASE signals = 0
      BY <2>1, <3>1 DEF Counts
    <3>2. CASE signals # 0
      BY <2>1, <3>2, CountFacts DEF Counts, SupportTypes
    <3> QED BY <3>1, <3>2
  <2>5. signals \in 0 .. UPROC_NUM /\ extra \in 0 .. UPROC_NUM /\ i \in 0 .. UPROC_NUM
    BY <2>1, <2>3, <2>4, ConstantFacts DEF SupportTypes
  <2> QED BY <2>1, <2>5 DEF TypeOK, KernelTypes, SupportTypes
<1> QED BY <1>1, Invariance, PTL

\* While test is up the processes inside are at most one, and all of them live.
LEMMA SectionSize ==
  ASSUME IInv, TestUp
  PROVE  /\ InSection = Inside
         /\ InSection = {} \/ \E p \in Pcb : InSection = {p}
         /\ Cardinality(InSection) = (IF Inside = {} THEN 0 ELSE 1)
<1>1. AllWell /\ MutexInv
  BY DEF IInv, UpInv
<1>2. InSection = Inside
  BY <1>1 DEF AllWell, InSection, Inside, Section, Waiters, Live
<1>3. Inside = {} \/ \E p \in Pcb : Inside = {p}
  BY <1>1 DEF MutexInv, Inside
<1>4. Cardinality(Inside) = (IF Inside = {} THEN 0 ELSE 1)
  <2>1. CASE Inside = {}
    BY <2>1, FS_EmptySet
  <2>2. ASSUME NEW p \in Pcb, Inside = {p} PROVE Cardinality(Inside) = 1 /\ Inside # {}
    BY <2>2, FS_Singleton
  <2> QED BY <1>3, <2>1, <2>2
<1> QED BY <1>2, <1>3, <1>4

\* One process at a time works on the swap pool table, for every number of
\* U-procs and although holder_pid is written outside any lock
\* (initProc.c:99-109).
THEOREM OneInside == SupportSpec => []SwapExclusive
<1>1. IInv => SwapExclusive
  BY SectionSize DEF SwapExclusive
<1> QED BY <1>1, Invariance, PTL

\* The semaphore of the swap pool counts exactly who is inside, who waits, and
\* whether the mutex was lost (initProc.c:107-109).
THEOREM MutexUnitsCount == SupportSpec => []MutexUnits
<1>1. IInv => MutexUnits
  <2> SUFFICES ASSUME IInv, TestUp
               PROVE  sem[swap_pool_sem] = 1 - Cardinality(InSection)
                        - Len(blocked[swap_pool_sem]) - (IF lost THEN 1 ELSE 0)
    BY DEF MutexUnits
  <2>1. Cardinality(InSection) = (IF Inside = {} THEN 0 ELSE 1)
    BY SectionSize
  <2>2. sem[swap_pool_sem] = (IF Inside = {} THEN 1 ELSE 0) - Len(blocked[swap_pool_sem])
                               - (IF lost THEN 1 ELSE 0)
    BY DEF IInv, UpInv, MutexInv
  <2> QED BY <2>1, <2>2
<1> QED BY <1>1, Invariance, PTL

\* Whoever is inside finds itself or nobody in holder_pid: releaseMutex never
\* does a V on behalf of another process (initProc.c:107).
THEOREM NoForeignOwner == SupportSpec => []OwnerOrNobody
<1>1. IInv => OwnerOrNobody
  BY SectionSize DEF IInv, UpInv, Holder, OwnerOrNobody
<1> QED BY <1>1, Invariance, PTL

\* The semaphore on which test waits for the U-procs holds the V that were done
\* and the units of terminations, less the P of test (initProc.c:91,
\* sysSupport.c:65, exceptions.c:359).
THEOREM MasterUnitsCount == SupportSpec => []MasterUnits
<1>1. IInv => MasterUnits
  BY DEF IInv, UpInv, MasterInv, MasterUnits
<1> QED BY <1>1, Invariance, PTL

\* A mutex once lost lets nobody in again: whoever pages from then on waits for
\* ever (initProc.c:107).
THEOREM LostForGood == SupportSpec => [](TestUp /\ lost => InSection = {})
<1>1. IInv => (TestUp /\ lost => InSection = {})
  BY SectionSize DEF IInv, UpInv, MutexInv
<1> QED BY <1>1, Invariance, PTL

\* test does not wait for all U-procs (WaitsForAll fails), but for more than half
\* of them: a V that blocked pays for one U-proc besides its own (initProc.c:91,
\* exceptions.c:359).
THEOREM WaitsForHalf ==
  SupportSpec => [](at[Test] = "stop" /\ Test \in Runnable => 2 * signals > UPROC_NUM)
<1>1. IInv => (at[Test] = "stop" /\ Test \in Runnable => 2 * signals > UPROC_NUM)
  <2> SUFFICES ASSUME IInv, at[Test] = "stop", Test \in Runnable PROVE 2 * signals > UPROC_NUM
    OBVIOUS
  <2>1. TestUp /\ SupportTypes /\ Counts /\ MasterInv
    BY DEF IInv, UpInv, TestUp
  <2>2. masterSemaphore \in Sem /\ UPROC_NUM \in Nat /\ UPROC_NUM >= 1
    BY ConstantFacts
  <2>3. Test \notin ToSet(blocked[masterSemaphore]) /\ Test \notin Waiting
    BY <2>2 DEF Runnable, Waiting
  <2>4. signals + extra >= UPROC_NUM
    BY <2>1, <2>2, <2>3 DEF MasterInv, Waits, SupportTypes
  <2>5. signals # 0
    BY <2>1, <2>3, StopSignals
  <2>6. extra < signals
    <3>1. at[Test] # "gone"
      OBVIOUS
    <3> QED BY <2>1, <2>5, <3>1, CountFacts DEF Counts, SupportTypes
  <2> QED BY <2>1, <2>2, <2>4, <2>6 DEF SupportTypes
<1> QED BY <1>1, Invariance, PTL
=============================================================================
