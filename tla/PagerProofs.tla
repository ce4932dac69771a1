---------------------------- MODULE PagerProofs ----------------------------
(***************************************************************************)
(* Proofs for Pager, for any U-procs, CPUs, pages and size of the pool.    *)
(***************************************************************************)
EXTENDS Pager, TLAPS

Paging(p) == at[p] \in {"fault", "out", "in"}
Transferring(p) == at[p] \in {"out", "in"}
Refilling(p) == at[p] = "refill"

\* Whoever moves a page is inside the mutex
Owner == \A p \in Proc : Transferring(p) => mutex = p

\* The refill handler and the pager work for the process that they were called by
OwnFault ==
  \A p \in Proc : Refilling(p) \/ Paging(p) => fault[p] \in Page /\ fault[p][1] = p

\* No valid entry names a frame that is being moved
Unmapped == \A p \in Proc : Transferring(p) => \A k \in Page : pte[k] # victim[p]

Tables == Owner /\ OwnFault /\ Unmapped /\ ValidBacked

\* Unless there was a hazard: a valid entry of any TLB agrees with the page table,
TLBAgrees ==
  ~ hazard =>
    \A c \in Cpu, p \in Proc, v \in Vpn :
      tlb[c][<< p, v >>] \in Frame => pte[<< p, PageIndex(v) >>] = tlb[c][<< p, v >>]

\* ... so does a valid entry that a refill handler is about to write,
PendingAgrees ==
  ~ hazard =>
    \A p \in Proc : Refilling(p) /\ loaded[p] \in Frame => pte[fault[p]] = loaded[p]

\* ... the page that the pager was called for stays invalid,
StillInvalid == ~ hazard => \A p \in Proc : Paging(p) => pte[fault[p]] = INVALID

\* ... and so is a page in the swap pool table only while its frame is moved
Backed ==
  ~ hazard =>
    \A f \in Frame :
      ~ isSwapFrameFree(f) /\ (\A p \in Proc : Transferring(p) => victim[p] # f)
        => pte[swap_pool_table[f]] = f

\* What is being written out is the latest copy
WritesLatest ==
  ~ hazard =>
    \A p \in Proc : at[p] = "out" =>
      ~ isSwapFrameFree(victim[p]) /\ victim[p] \in latest[swap_pool_table[victim[p]]]

Clean == /\ TLBAgrees /\ PendingAgrees /\ StillInvalid
         /\ Backed /\ WritesLatest /\ NothingLost /\ OneFrame

IInv == TypeOK /\ Tables /\ Clean

-----------------------------------------------------------------------------
(* Keys and the TLB *)

LEMMA PageOfKey ==
  ASSUME NEW p \in Proc, NEW v \in Vpn
  PROVE  << p, PageIndex(v) >> \in Page /\ PageNumber(PageIndex(v)) = v /\ << p, v >> \in Key
  BY PagerAssumption DEF Page, Key

LEMMA KeyOfPage ==
  ASSUME NEW k \in Page
  PROVE  /\ k[1] \in Proc /\ KeyOf(k) \in Key
         /\ \E v \in Vpn : k = << k[1], PageIndex(v) >> /\ PageNumber(k[2]) = v
<1>1. PICK p \in Proc, v \in Vpn : k = << p, PageIndex(v) >>
  BY DEF Page
<1>2. k[1] = p /\ k[2] = PageIndex(v)
  BY <1>1
<1> QED BY <1>1, <1>2, PageOfKey DEF KeyOf

\* updateTLB changes one entry of one TLB, if it is there
LEMMA TLBUpdate ==
  ASSUME TypeOK, NEW c \in Cpu, NEW k \in Page, NEW entry \in Entry, updateTLB(c, k, entry)
  PROVE  /\ tlb' \in [Cpu -> [Key -> Entry \cup {ABSENT}]]
         /\ \A b \in Cpu, p \in Proc, v \in Vpn :
              tlb'[b][<< p, v >>] =
                IF b = c /\ << p, PageIndex(v) >> = k /\ tlb[b][<< p, v >>] # ABSENT
                THEN entry ELSE tlb[b][<< p, v >>]
<1> DEFINE key == KeyOf(k)
<1>1. key \in Key
  BY KeyOfPage
<1>2. tlb' = [tlb EXCEPT ![c] = [tlb[c] EXCEPT ![key] =
                IF tlb[c][key] = ABSENT THEN tlb[c][key] ELSE entry]]
  BY DEF updateTLB, TypeOK
<1>3. tlb \in [Cpu -> [Key -> Entry \cup {ABSENT}]]
  BY DEF TypeOK
<1>4. ASSUME NEW p \in Proc, NEW v \in Vpn
      PROVE  << p, v >> \in Key /\ (<< p, v >> = key <=> << p, PageIndex(v) >> = k)
  <2>1. PICK w \in Vpn : k = << k[1], PageIndex(w) >> /\ PageNumber(k[2]) = w
    BY KeyOfPage
  <2>2. k[2] = PageIndex(w)
    BY <2>1
  <2>3. << p, v >> = key <=> p = k[1] /\ v = w
    BY <2>1 DEF KeyOf
  <2>4. << p, PageIndex(v) >> = k <=> p = k[1] /\ PageIndex(v) = PageIndex(w)
    BY <2>1, <2>2
  <2>5. PageIndex(v) = PageIndex(w) <=> v = w
    BY PageOfKey
  <2> QED BY <2>3, <2>4, <2>5, PageOfKey
<1> HIDE DEF key
<1> QED BY <1>1, <1>2, <1>3, <1>4

\* A frame that the pager chooses is a frame, and the hand stays in the pool
LEMMA SwapFrame ==
  ASSUME TypeOK, NEW f \in Frame, getSwapFrame(f)
  PROVE  fifo_hand' \in Frame
<1>1. POOLSIZE \in Nat \ {0}
  BY PagerAssumption
<1>2. CASE UNCHANGED fifo_hand
  BY <1>2 DEF TypeOK
<1>3. CASE fifo_hand' = (fifo_hand + 1) % POOLSIZE
  <2>1. fifo_hand \in Nat
    BY <1>1 DEF TypeOK, Frame
  <2> QED BY <1>1, <1>3, <2>1 DEF Frame
<1> QED BY <1>2, <1>3 DEF getSwapFrame

LEMMA TrackType ==
  ASSUME hazard \in BOOLEAN, NEW places \in [Page -> SUBSET (Frame \cup {FLASH})],
         NEW risk \in BOOLEAN, Track(places, risk)
  PROVE  /\ hazard' \in BOOLEAN
         /\ latest' \in [Page -> SUBSET (Frame \cup {FLASH})]
         /\ ~ hazard' => ~ hazard /\ ~ risk /\ latest' = places
<1>1. hazard' = (hazard \/ risk)
  BY DEF Track
<1>2. latest' = IF hazard' THEN [k \in Page |-> {}] ELSE places
  BY DEF Track
<1>3. CASE hazard'
  BY <1>1, <1>2, <1>3
<1>4. CASE ~ hazard'
  BY <1>1, <1>2, <1>4
<1> QED BY <1>3, <1>4

-----------------------------------------------------------------------------
(* Types *)

LEMMA InitType == Init => TypeOK
<1> SUFFICES ASSUME Init
             PROVE  TypeOK
  OBVIOUS
<1>1. 0 \in Frame
  BY PagerAssumption DEF Frame
<1>2. latest \in [Page -> SUBSET (Frame \cup {FLASH})]
  BY DEF Init
<1> QED BY <1>1, <1>2 DEF Init, TypeOK, Entry, Free

\* The state changes that no table takes part in
LEMMA QuietType ==
  ASSUME TypeOK, NEW p \in Proc, NEW c \in Cpu,
         Preempt(p) \/ Dispatch(p, c) \/ WaitMutex(p) \/ Terminate(p)
  PROVE  TypeOK'
<1>1. UNCHANGED << fault, loaded, victim, mutex, table, tlb, latest, hazard >>
  BY DEF Preempt, Dispatch, WaitMutex, Terminate
<1>2. at' \in [Proc -> {"user", "refill", "fault", "out", "in", "dead"}]
  BY DEF Preempt, Dispatch, WaitMutex, Terminate, TypeOK
<1>3. cpu' \in [Proc -> Cpu \cup {NULL}]
  BY DEF Preempt, Dispatch, WaitMutex, Terminate, TypeOK
<1> QED BY <1>1, <1>2, <1>3 DEF TypeOK, table

LEMMA ProgramType ==
  ASSUME TypeOK, NEW p \in Proc, NEW v \in Vpn,
         Store(p, v) \/ RefillRead(p, v) \/ Fault(p, v)
  PROVE  TypeOK'
<1> DEFINE k == << p, PageIndex(v) >>
<1>0. k \in Page /\ PageNumber(PageIndex(v)) = v /\ << p, v >> \in Key
  BY PageOfKey
<1>1. CASE Store(p, v)
  <2> DEFINE f == Cached(p, v)
             places == [q \in Page |-> IF q = k THEN {f} ELSE latest[q] \ {f}]
  <2>1. f \in Frame /\ Track(places, FALSE)
    BY <1>1 DEF Store
  <2>2. places \in [Page -> SUBSET (Frame \cup {FLASH})]
    BY <2>1 DEF TypeOK
  <2>3. hazard \in BOOLEAN
    BY DEF TypeOK
  <2> HIDE DEF places
  <2>4. hazard' \in BOOLEAN /\ latest' \in [Page -> SUBSET (Frame \cup {FLASH})]
    BY <2>1, <2>2, <2>3, TrackType
  <2>5. UNCHANGED << at, cpu, fault, loaded, victim, mutex, table, tlb >>
    BY <1>1 DEF Store
  <2> QED BY <2>4, <2>5 DEF TypeOK, table
<1>2. CASE RefillRead(p, v)
  <2>1. loaded' \in [Proc -> Entry \cup {ABSENT}] /\ fault' \in [Proc -> Page \cup {NULL}]
    BY <1>0, <1>2 DEF RefillRead, TypeOK
  <2>2. at' \in [Proc -> {"user", "refill", "fault", "out", "in", "dead"}]
    BY <1>2 DEF RefillRead, TypeOK
  <2>3. UNCHANGED << cpu, victim, mutex, table, tlb, latest, hazard >>
    BY <1>2 DEF RefillRead
  <2> QED BY <2>1, <2>2, <2>3 DEF TypeOK, table
<1>3. CASE Fault(p, v)
  <2>1. Track(latest, pte[k] # INVALID)
    BY <1>3 DEF Fault
  <2>2. hazard' \in BOOLEAN /\ latest' \in [Page -> SUBSET (Frame \cup {FLASH})]
    BY <2>1, TrackType DEF TypeOK
  <2>3. UNCHANGED << cpu, loaded, victim, mutex, table, tlb >>
    BY <1>3 DEF Fault
  <2>4. at' \in [Proc -> {"user", "refill", "fault", "out", "in", "dead"}]
    BY <1>3 DEF Fault, TypeOK
  <2>5. fault' \in [Proc -> Page \cup {NULL}]
    BY <1>0, <1>3 DEF Fault, TypeOK
  <2> QED BY <2>2, <2>3, <2>4, <2>5 DEF TypeOK, table
<1> QED BY <1>1, <1>2, <1>3

LEMMA RefillType ==
  ASSUME TypeOK, OwnFault, NEW p \in Proc, RefillWrite(p) \/ RefillOutside(p)
  PROVE  TypeOK'
<1>1. CASE RefillWrite(p)
  <2>1. PICK out \in Key : tlb' = [tlb EXCEPT ![cpu[p]] =
          [tlb[cpu[p]] EXCEPT ![out] = ABSENT, ![KeyOf(fault[p])] = loaded[p]]]
    BY <1>1 DEF RefillWrite
  <2>2. fault[p] \in Page
    BY <1>1 DEF RefillWrite, OwnFault, Refilling
  <2>3. KeyOf(fault[p]) \in Key /\ loaded[p] \in Entry \cup {ABSENT}
    BY <2>2, KeyOfPage DEF TypeOK
  <2>4. tlb' \in [Cpu -> [Key -> Entry \cup {ABSENT}]]
    BY <2>1, <2>3 DEF TypeOK
  <2>5. loaded' \in [Proc -> Entry \cup {ABSENT}] /\ fault' \in [Proc -> Page \cup {NULL}]
    BY <1>1 DEF RefillWrite, TypeOK
  <2>6. at' \in [Proc -> {"user", "refill", "fault", "out", "in", "dead"}]
    BY <1>1 DEF RefillWrite, TypeOK
  <2>7. UNCHANGED << cpu, victim, mutex, table, latest, hazard >>
    BY <1>1 DEF RefillWrite
  <2> QED BY <2>4, <2>5, <2>6, <2>7 DEF TypeOK, table
<1>2. CASE RefillOutside(p)
  <2>1. Track(latest, TRUE)
    BY <1>2 DEF RefillOutside
  <2>2. hazard' \in BOOLEAN /\ latest' \in [Page -> SUBSET (Frame \cup {FLASH})]
    BY <2>1, TrackType DEF TypeOK
  <2>3. /\ at' \in [Proc -> {"user", "refill", "fault", "out", "in", "dead"}]
        /\ cpu' \in [Proc -> Cpu \cup {NULL}]
    BY <1>2 DEF RefillOutside, TypeOK
  <2>4. UNCHANGED << fault, loaded, victim, mutex, table, tlb >>
    BY <1>2 DEF RefillOutside
  <2> QED BY <2>2, <2>3, <2>4 DEF TypeOK, table
<1> QED BY <1>1, <1>2

\* What ChooseFrame leaves of an eviction, with the type of what it changes
LEMMA EvictType ==
  ASSUME TypeOK, NEW c \in Cpu, NEW k \in Page, Evict(c, k)
  PROVE  /\ pte' \in [Page -> Entry]
         /\ tlb' \in [Cpu -> [Key -> Entry \cup {ABSENT}]]
         /\ hazard' \in BOOLEAN /\ latest' \in [Page -> SUBSET (Frame \cup {FLASH})]
<1>1. pte' \in [Page -> Entry]
  BY DEF Evict, TypeOK, Entry
<1>2. tlb' \in [Cpu -> [Key -> Entry \cup {ABSENT}]]
  BY TLBUpdate DEF Evict, Entry
<1>3. hazard' \in BOOLEAN /\ latest' \in [Page -> SUBSET (Frame \cup {FLASH})]
  <2>1. HeldElsewhere(c, k) \in BOOLEAN
    BY DEF HeldElsewhere
  <2>2. Track(latest, HeldElsewhere(c, k))
    BY DEF Evict
  <2> QED BY <2>1, <2>2, TrackType DEF TypeOK
<1> QED BY <1>1, <1>2, <1>3

LEMMA PagerType ==
  ASSUME TypeOK, OwnFault, NEW p \in Proc, NEW c \in Cpu, NEW f \in Frame,
         ChooseFrame(p, c, f) \/ WriteDone(p) \/ ReadDone(p, c) \/ TransferFailed(p)
  PROVE  TypeOK'
<1>0. hazard \in BOOLEAN /\ latest \in [Page -> SUBSET (Frame \cup {FLASH})]
  BY DEF TypeOK
<1>1. CASE ChooseFrame(p, c, f)
  <2>1. fifo_hand' \in Frame
    BY <1>1, SwapFrame DEF ChooseFrame
  <2>2. /\ victim' \in [Proc -> Frame] /\ mutex' \in Proc \cup {NULL}
        /\ cpu' \in [Proc -> Cpu \cup {NULL}]
        /\ at' \in [Proc -> {"user", "refill", "fault", "out", "in", "dead"}]
    BY <1>1 DEF ChooseFrame, TypeOK
  <2>3. UNCHANGED << fault, loaded, swap_pool_table >>
    BY <1>1 DEF ChooseFrame
  <2>4. /\ pte' \in [Page -> Entry] /\ tlb' \in [Cpu -> [Key -> Entry \cup {ABSENT}]]
        /\ hazard' \in BOOLEAN /\ latest' \in [Page -> SUBSET (Frame \cup {FLASH})]
    <3>1. CASE UNCHANGED << pte, tlb, latest, hazard >>
      BY <3>1 DEF TypeOK
    <3>2. CASE ~ isSwapFrameFree(f) /\ Evict(c, swap_pool_table[f])
      <4>1. swap_pool_table[f] \in Page
        BY <3>2 DEF isSwapFrameFree, TypeOK
      <4> QED BY <3>2, <4>1, EvictType
    <3> QED BY <1>1, <3>1, <3>2 DEF ChooseFrame
  <2> QED BY <2>1, <2>2, <2>3, <2>4 DEF TypeOK
<1>2. CASE WriteDone(p)
  <2> DEFINE k == swap_pool_table[victim[p]]
             places == [latest EXCEPT ![k] =
               IF victim[p] \in @ THEN @ \cup {FLASH} ELSE @ \ {FLASH}]
  <2>1. Track(places, FALSE) /\ UNCHANGED << cpu, fault, loaded, victim, mutex, table, tlb >>
    BY <1>2 DEF WriteDone
  <2>2. places \in [Page -> SUBSET (Frame \cup {FLASH})]
    BY <1>0
  <2> HIDE DEF places
  <2>3. hazard' \in BOOLEAN /\ latest' \in [Page -> SUBSET (Frame \cup {FLASH})]
    BY <1>0, <2>1, <2>2, TrackType
  <2>4. at' \in [Proc -> {"user", "refill", "fault", "out", "in", "dead"}]
    BY <1>2 DEF WriteDone, TypeOK
  <2> QED BY <2>1, <2>3, <2>4 DEF TypeOK, table
<1>3. CASE ReadDone(p, c)
  <2> DEFINE f1 == victim[p]
             k == fault[p]
             places == [q \in Page |-> IF q = k /\ FLASH \in latest[k] THEN latest[k] \cup {f1}
                                       ELSE latest[q] \ {f1}]
  <2>1. /\ Track(places, FALSE) /\ Map(k, f1) /\ updateTLB(c, k, f1)
        /\ mutex' = NULL /\ Leave(p) /\ UNCHANGED << loaded, fifo_hand >>
        /\ at' = [at EXCEPT ![p] = "user"] /\ cpu' = [cpu EXCEPT ![p] = c]
    BY <1>3 DEF ReadDone
  <2>2. k \in Page /\ f1 \in Frame
    BY <1>3 DEF ReadDone, OwnFault, Paging, TypeOK
  <2>3. places \in [Page -> SUBSET (Frame \cup {FLASH})]
    BY <1>0, <2>2
  <2> HIDE DEF places
  <2>4. hazard' \in BOOLEAN /\ latest' \in [Page -> SUBSET (Frame \cup {FLASH})]
    BY <1>0, <2>1, <2>3, TrackType
  <2>5. tlb' \in [Cpu -> [Key -> Entry \cup {ABSENT}]]
    BY <2>1, <2>2, TLBUpdate DEF Entry
  <2>6. swap_pool_table' \in [Frame -> Page \cup {Free}] /\ pte' \in [Page -> Entry]
    BY <2>1, <2>2 DEF Map, TypeOK, Entry
  <2>7. 0 \in Frame
    BY PagerAssumption DEF Frame
  <2>8. fault' \in [Proc -> Page \cup {NULL}] /\ victim' \in [Proc -> Frame]
    BY <2>1, <2>7 DEF Leave, TypeOK
  <2>9. /\ at' \in [Proc -> {"user", "refill", "fault", "out", "in", "dead"}]
        /\ cpu' \in [Proc -> Cpu \cup {NULL}] /\ mutex' \in Proc \cup {NULL}
        /\ fifo_hand' \in Frame /\ loaded' \in [Proc -> Entry \cup {ABSENT}]
    BY <2>1 DEF TypeOK
  <2> HIDE DEF f1, k
  <2> QED BY <2>4, <2>5, <2>6, <2>8, <2>9 DEF TypeOK
<1>4. CASE TransferFailed(p)
  <2>1. /\ Track(latest, ~ isSwapFrameFree(victim[p])) /\ Leave(p) /\ mutex' = NULL
        /\ at' = [at EXCEPT ![p] = "dead"] /\ UNCHANGED << cpu, loaded, table, tlb >>
    BY <1>4 DEF TransferFailed
  <2>2. hazard' \in BOOLEAN /\ latest' \in [Page -> SUBSET (Frame \cup {FLASH})]
    BY <1>0, <2>1, TrackType
  <2>3. 0 \in Frame
    BY PagerAssumption DEF Frame
  <2>4. fault' \in [Proc -> Page \cup {NULL}] /\ victim' \in [Proc -> Frame]
    BY <2>1, <2>3 DEF Leave, TypeOK
  <2>5. at' \in [Proc -> {"user", "refill", "fault", "out", "in", "dead"}] /\ mutex' \in Proc \cup {NULL}
    BY <2>1 DEF TypeOK
  <2> QED BY <2>1, <2>2, <2>4, <2>5 DEF TypeOK, table
<1> QED BY <1>1, <1>2, <1>3, <1>4

-----------------------------------------------------------------------------
(* The swap pool table and the page tables *)

LEMMA InitHolds == Init => IInv
<1> SUFFICES ASSUME Init
             PROVE  IInv
  OBVIOUS
<1>1. TypeOK
  BY InitType
<1>2. Tables
  BY PagerAssumption DEF Init, Tables, Owner, OwnFault, Unmapped, ValidBacked,
                         Paging, Transferring, Refilling
<1>3. TLBAgrees /\ PendingAgrees /\ StillInvalid
  <2>1. \A c \in Cpu, p \in Proc, v \in Vpn : tlb[c][<< p, v >>] = ABSENT
    BY PageOfKey DEF Init
  <2> QED BY <2>1, PagerAssumption DEF Init, TLBAgrees, PendingAgrees, StillInvalid, Paging, Refilling
<1>4. Backed /\ WritesLatest
  BY DEF Init, Backed, WritesLatest, isSwapFrameFree
<1>5. NothingLost /\ OneFrame
  BY PagerAssumption DEF Init, NothingLost, OneFrame, isSwapFrameFree
<1> QED BY <1>1, <1>2, <1>3, <1>4, <1>5 DEF IInv, Clean

\* Steps that no table of the pager takes part in
LEMMA QuietKeeps ==
  ASSUME IInv, UNCHANGED << fault, loaded, victim, mutex, table, tlb, latest, hazard >>,
         \A q \in Proc : /\ Refilling(q)' <=> Refilling(q)
                         /\ Paging(q)' <=> Paging(q)
                         /\ Transferring(q)' <=> Transferring(q)
                         /\ at'[q] = "out" <=> at[q] = "out"
  PROVE  Tables' /\ Clean'
<1> USE DEF table, Refilling, Paging, Transferring
<1>1. Tables'
  BY DEF IInv, Tables, Owner, OwnFault, Unmapped, ValidBacked
<1>2. TLBAgrees' /\ PendingAgrees' /\ StillInvalid'
  BY DEF IInv, Clean, TLBAgrees, PendingAgrees, StillInvalid
<1>3. Backed' /\ WritesLatest'
  BY DEF IInv, Clean, Backed, WritesLatest, isSwapFrameFree
<1>4. NothingLost'
  BY DEF IInv, Clean, NothingLost
<1>5. OneFrame'
  BY DEF IInv, Clean, OneFrame, isSwapFrameFree
<1> QED BY <1>1, <1>2, <1>3, <1>4, <1>5 DEF Clean

\* Two frames that hold valid pages hold different ones
LEMMA OneEntry ==
  ASSUME IInv, NEW q \in Page, NEW r \in Page, pte[q] \in Frame, pte[q] = pte[r]
  PROVE  q = r
  BY DEF IInv, Tables, ValidBacked

LEMMA StoreKeeps ==
  ASSUME IInv, NEW p \in Proc, NEW v \in Vpn, Store(p, v)
  PROVE  Tables' /\ Clean'
<1> DEFINE k == << p, PageIndex(v) >>
           f == Cached(p, v)
           places == [q \in Page |-> IF q = k THEN {f} ELSE latest[q] \ {f}]
<1>1. /\ Running(p) /\ f \in Frame /\ Track(places, FALSE)
      /\ UNCHANGED << at, cpu, fault, loaded, victim, mutex, table, tlb >>
  BY DEF Store
<1>2. ~ hazard' => ~ hazard /\ latest' = places
  BY <1>1 DEF Track
<1>3. k \in Page /\ cpu[p] \in Cpu /\ << p, v >> \in Key
  BY <1>1, PageOfKey DEF Running, IInv, TypeOK
<1>4. ~ hazard => pte[k] = f
  BY <1>1, <1>3 DEF IInv, Clean, TLBAgrees, Cached
<1> USE DEF table, Refilling, Paging, Transferring
<1>5. Tables'
  BY <1>1 DEF IInv, Tables, Owner, OwnFault, Unmapped, ValidBacked
<1>6. TLBAgrees' /\ PendingAgrees' /\ StillInvalid'
  BY <1>1, <1>2 DEF IInv, Clean, TLBAgrees, PendingAgrees, StillInvalid
<1>7. Backed' /\ OneFrame'
  BY <1>1, <1>2 DEF IInv, Clean, Backed, OneFrame, isSwapFrameFree
<1>8. ASSUME ~ hazard', NEW q \in Proc, at[q] = "out"
      PROVE  ~ isSwapFrameFree(victim[q])' /\ victim'[q] \in latest'[swap_pool_table'[victim'[q]]]
  <2> DEFINE w == swap_pool_table[victim[q]]
  <2>1. ~ isSwapFrameFree(victim[q]) /\ victim[q] \in latest[w] /\ w \in Page /\ victim[q] \in Frame
    BY <1>2, <1>8 DEF IInv, Clean, WritesLatest, isSwapFrameFree, TypeOK
  <2>2. victim[q] # f
    BY <1>2, <1>3, <1>4, <1>8 DEF IInv, Tables, Unmapped
  <2>3. w # k
    <3>1. swap_pool_table[f] = k
      BY <1>1, <1>2, <1>3, <1>4, <1>8 DEF IInv, Tables, ValidBacked
    <3> QED BY <1>1, <1>2, <1>8, <2>1, <2>2, <3>1 DEF IInv, Clean, OneFrame
  <2> HIDE DEF f, k
  <2> QED BY <1>1, <1>2, <1>8, <2>1, <2>2, <2>3 DEF isSwapFrameFree
<1>9. WritesLatest'
  BY <1>1, <1>8 DEF WritesLatest, isSwapFrameFree
<1>10. NothingLost'
  <2> SUFFICES ASSUME ~ hazard', NEW q \in Page
               PROVE  IF pte[q] \in Frame THEN pte[q] \in latest'[q]
                      ELSE \/ FLASH \in latest'[q]
                           \/ \E r \in Proc : /\ at[r] = "out" /\ swap_pool_table[victim[r]] = q
                                             /\ victim[r] \in latest'[q]
    BY <1>1 DEF NothingLost
  <2>1. latest'[q] = IF q = k THEN {f} ELSE latest[q] \ {f}
    BY <1>2
  <2>2. CASE q = k
    BY <1>1, <1>2, <1>4, <2>1, <2>2
  <2>3. CASE q # k /\ pte[q] \in Frame
    <3>1. pte[q] # f
      BY <1>1, <1>2, <1>3, <1>4, <2>3, OneEntry
    <3> QED BY <1>2, <2>1, <2>3, <3>1 DEF IInv, Clean, NothingLost
  <2>4. CASE q # k /\ pte[q] \notin Frame
    <3>1. FLASH # f
      BY <1>1, PagerAssumption
    <3>2. \A r \in Proc : at[r] = "out" => victim[r] # f
      BY <1>2, <1>3, <1>4 DEF IInv, Tables, Unmapped
    <3> HIDE DEF f, k
    <3> QED BY <1>2, <2>1, <2>4, <3>1, <3>2 DEF IInv, Clean, NothingLost
  <2> QED BY <2>2, <2>3, <2>4
<1> QED BY <1>5, <1>6, <1>7, <1>9, <1>10 DEF Clean

LEMMA RefillReadKeeps ==
  ASSUME IInv, NEW p \in Proc, NEW v \in Vpn, RefillRead(p, v)
  PROVE  Tables' /\ Clean'
<1> DEFINE k == << p, PageIndex(v) >>
<1>1. /\ at[p] = "user" /\ at' = [at EXCEPT ![p] = "refill"]
      /\ fault' = [fault EXCEPT ![p] = k] /\ loaded' = [loaded EXCEPT ![p] = pte[k]]
      /\ UNCHANGED << cpu, victim, mutex, table, tlb, latest, hazard >>
  BY DEF RefillRead, Running
<1>2. k \in Page /\ k[1] = p
  BY PageOfKey
<1>3. /\ at'[p] = "refill" /\ fault'[p] = k /\ loaded'[p] = pte[k]
      /\ \A q \in Proc \ {p} : at'[q] = at[q] /\ fault'[q] = fault[q] /\ loaded'[q] = loaded[q]
  BY <1>1 DEF IInv, TypeOK
<1>4. \A q \in Proc : /\ Transferring(q)' <=> Transferring(q)
                      /\ at'[q] = "out" <=> at[q] = "out"
                      /\ Paging(q)' => Paging(q) /\ fault'[q] = fault[q]
  BY <1>1, <1>3 DEF Transferring, Paging
<1> HIDE DEF k
<1>5. Owner' /\ Unmapped' /\ ValidBacked'
  BY <1>1, <1>4 DEF IInv, Tables, Owner, Unmapped, ValidBacked, table
<1>6. OwnFault'
  BY <1>2, <1>3 DEF IInv, Tables, OwnFault, Refilling, Paging
<1>7. TLBAgrees' /\ OneFrame'
  BY <1>1 DEF IInv, Clean, TLBAgrees, OneFrame, isSwapFrameFree, table
<1>8. PendingAgrees'
  BY <1>1, <1>3 DEF IInv, Clean, PendingAgrees, Refilling, table
<1>9. StillInvalid'
  BY <1>1, <1>4 DEF IInv, Clean, StillInvalid, table
<1>10. Backed' /\ WritesLatest' /\ NothingLost'
  BY <1>1, <1>4 DEF IInv, Clean, Backed, WritesLatest, NothingLost, isSwapFrameFree, table
<1> QED BY <1>5, <1>6, <1>7, <1>8, <1>9, <1>10 DEF Tables, Clean

LEMMA RefillWriteKeeps ==
  ASSUME IInv, NEW p \in Proc, RefillWrite(p)
  PROVE  Tables' /\ Clean'
<1> DEFINE k == fault[p]
<1>1. /\ at[p] = "refill" /\ at' = [at EXCEPT ![p] = "user"]
      /\ fault' = [fault EXCEPT ![p] = NULL] /\ loaded' = [loaded EXCEPT ![p] = ABSENT]
      /\ UNCHANGED << cpu, victim, mutex, table, latest, hazard >>
  BY DEF RefillWrite
<1>2. k \in Page
  BY <1>1 DEF IInv, Tables, OwnFault, Refilling
<1>3. /\ at'[p] = "user"
      /\ \A q \in Proc \ {p} : at'[q] = at[q] /\ fault'[q] = fault[q] /\ loaded'[q] = loaded[q]
  BY <1>1 DEF IInv, TypeOK
<1>4. \A q \in Proc : /\ Transferring(q)' <=> Transferring(q)
                      /\ at'[q] = "out" <=> at[q] = "out"
                      /\ Paging(q)' => Paging(q) /\ fault'[q] = fault[q]
                      /\ Refilling(q)' => q # p /\ Refilling(q)
  BY <1>1, <1>3 DEF Transferring, Paging, Refilling
<1>5. Owner' /\ Unmapped' /\ ValidBacked'
  BY <1>1, <1>4 DEF IInv, Tables, Owner, Unmapped, ValidBacked, table
<1>6. OwnFault'
  BY <1>3, <1>4 DEF IInv, Tables, OwnFault
<1>7. PendingAgrees' /\ OneFrame'
  BY <1>1, <1>3, <1>4 DEF IInv, Clean, PendingAgrees, OneFrame, isSwapFrameFree, table
<1>8. TLBAgrees'
  <2> SUFFICES ASSUME ~ hazard, NEW b \in Cpu, NEW q \in Proc, NEW w \in Vpn,
                      tlb'[b][<< q, w >>] \in Frame
               PROVE  pte[<< q, PageIndex(w) >>] = tlb'[b][<< q, w >>]
    BY <1>1 DEF TLBAgrees, table
  <2>1. KeyOf(k) \in Key /\ << q, w >> \in Key
    BY <1>2, KeyOfPage, PageOfKey
  <2>2. PICK out \in Key : tlb' = [tlb EXCEPT ![cpu[p]] =
          [tlb[cpu[p]] EXCEPT ![out] = ABSENT, ![KeyOf(k)] = loaded[p]]]
    BY DEF RefillWrite
  <2> HIDE DEF k
  <2>3. \/ tlb'[b][<< q, w >>] = tlb[b][<< q, w >>]
        \/ tlb'[b][<< q, w >>] = ABSENT
        \/ << q, w >> = KeyOf(k) /\ tlb'[b][<< q, w >>] = loaded[p]
    BY <2>1, <2>2 DEF IInv, TypeOK
  <2>4. << q, w >> = KeyOf(k) => << q, PageIndex(w) >> = k
    BY <1>2, KeyOfPage DEF KeyOf
  <2>5. loaded[p] \in Frame => pte[k] = loaded[p]
    BY <1>1 DEF IInv, Clean, PendingAgrees, Refilling, k
  <2>6. ABSENT \notin Frame
    BY PagerAssumption
  <2> QED BY <2>3, <2>4, <2>5, <2>6 DEF IInv, Clean, TLBAgrees
<1>9. StillInvalid'
  BY <1>1, <1>4 DEF IInv, Clean, StillInvalid, table
<1>10. Backed' /\ WritesLatest' /\ NothingLost'
  BY <1>1, <1>4 DEF IInv, Clean, Backed, WritesLatest, NothingLost, isSwapFrameFree, table
<1> QED BY <1>5, <1>6, <1>7, <1>8, <1>9, <1>10 DEF Tables, Clean

\* Nothing is claimed of the contents of the pages any more
LEMMA RefillOutsideKeeps ==
  ASSUME IInv, NEW p \in Proc, RefillOutside(p)
  PROVE  Tables' /\ Clean'
<1>1. /\ at[p] = "user" /\ at' = [at EXCEPT ![p] = "dead"] /\ Track(latest, TRUE)
      /\ UNCHANGED << fault, loaded, victim, mutex, table, tlb >>
  BY DEF RefillOutside, Running
<1>2. hazard'
  BY <1>1 DEF Track
<1>3. \A q \in Proc : /\ Transferring(q)' <=> Transferring(q)
                      /\ Refilling(q)' \/ Paging(q)' => Refilling(q) \/ Paging(q)
  BY <1>1 DEF IInv, TypeOK, Transferring, Paging, Refilling
<1>4. Tables'
  BY <1>1, <1>3 DEF IInv, Tables, Owner, OwnFault, Unmapped, ValidBacked, table
<1>5. Clean'
  BY <1>2 DEF Clean, TLBAgrees, PendingAgrees, StillInvalid, Backed, WritesLatest,
              NothingLost, OneFrame
<1> QED BY <1>4, <1>5

LEMMA FaultKeeps ==
  ASSUME IInv, NEW p \in Proc, NEW v \in Vpn, Fault(p, v)
  PROVE  Tables' /\ Clean'
<1> DEFINE k == << p, PageIndex(v) >>
<1>1. /\ at[p] = "user" /\ at' = [at EXCEPT ![p] = "fault"]
      /\ fault' = [fault EXCEPT ![p] = k]
      /\ Track(latest, pte[k] # INVALID)
      /\ UNCHANGED << cpu, loaded, victim, mutex, table, tlb >>
  BY DEF Fault, Running
<1>2. ~ hazard' => ~ hazard /\ latest' = latest /\ pte[k] = INVALID
  BY <1>1 DEF Track
<1>3. k \in Page /\ k[1] = p
  BY PageOfKey
<1>4. \A q \in Proc : /\ Transferring(q)' <=> Transferring(q)
                      /\ at'[q] = "out" <=> at[q] = "out"
                      /\ q # p => fault'[q] = fault[q] /\ at'[q] = at[q]
  BY <1>1 DEF IInv, TypeOK, Transferring
<1>5. at'[p] = "fault" /\ fault'[p] = k
  BY <1>1 DEF IInv, TypeOK
<1> HIDE DEF k
<1>6. Owner' /\ Unmapped' /\ ValidBacked'
  BY <1>1, <1>4 DEF IInv, Tables, Owner, Unmapped, ValidBacked, table
<1>7. OwnFault'
  BY <1>3, <1>4, <1>5 DEF IInv, Tables, OwnFault, Refilling, Paging
<1>8. TLBAgrees' /\ PendingAgrees'
  BY <1>1, <1>2, <1>4, <1>5 DEF IInv, Clean, TLBAgrees, PendingAgrees, Refilling, table
<1>9. StillInvalid'
  BY <1>1, <1>2, <1>4, <1>5 DEF IInv, Clean, StillInvalid, Paging, table
<1>10. Backed' /\ WritesLatest' /\ OneFrame'
  BY <1>1, <1>2, <1>4 DEF IInv, Clean, Backed, WritesLatest, OneFrame, isSwapFrameFree, table
<1>11. NothingLost'
  BY <1>1, <1>2, <1>4 DEF IInv, Clean, NothingLost, table
<1> QED BY <1>6, <1>7, <1>8, <1>9, <1>10, <1>11 DEF Tables, Clean

-----------------------------------------------------------------------------
(* The pager *)

\* Nobody but the process inside the mutex moves a page
LEMMA OnlyOne ==
  ASSUME Owner, NEW p \in Proc, NEW q \in Proc, Transferring(p), Transferring(q)
  PROVE  q = p
  BY DEF Owner

LEMMA NobodyIn ==
  ASSUME Owner, mutex = NULL, NEW p \in Proc
  PROVE  ~ Transferring(p)
  BY PagerAssumption DEF Owner

LEMMA ChooseFrameKeeps ==
  ASSUME IInv, NEW p \in Proc, NEW c \in Cpu, NEW f \in Frame, ChooseFrame(p, c, f)
  PROVE  Tables' /\ Clean'
<1> DEFINE k == swap_pool_table[f]
<1>1. /\ at[p] = "fault" /\ mutex = NULL /\ mutex' = p
      /\ victim' = [victim EXCEPT ![p] = f]
      /\ UNCHANGED << fault, loaded, swap_pool_table >>
  BY DEF ChooseFrame
<1>2. at'[p] \in {"out", "in"} /\ victim'[p] = f
  BY <1>1 DEF ChooseFrame, IInv, TypeOK
<1>3. \A q \in Proc : ~ Transferring(q)
  BY <1>1, NobodyIn DEF IInv, Tables
<1>4. \A q \in Proc \ {p} : at'[q] = at[q] /\ ~ Transferring(q)'
  BY <1>3 DEF ChooseFrame, IInv, TypeOK, Transferring
<1>5. Owner' /\ OwnFault'
  <2>1. Owner'
    BY <1>1, <1>4 DEF Owner
  <2>2. Paging(p)
    BY <1>1 DEF Paging
  <2>3. OwnFault'
    BY <1>1, <1>2, <1>4, <2>2 DEF IInv, Tables, OwnFault, Refilling, Paging
  <2> QED BY <2>1, <2>3
\* The tables after the step, for both cases
<1>6. \A q \in Page : pte'[q] = pte[q] \/ pte'[q] = INVALID
  BY DEF ChooseFrame, Evict, IInv, TypeOK
<1>7. \A q \in Page : pte'[q] # f
  <2> SUFFICES ASSUME NEW q \in Page, pte'[q] = f
               PROVE  FALSE
    OBVIOUS
  <2>1. pte[q] = f
    BY <1>6, PagerAssumption
  <2>2. k = q
    BY <2>1 DEF IInv, Tables, ValidBacked
  <2>3. ~ isSwapFrameFree(f)
    BY <2>2, PagerAssumption DEF isSwapFrameFree, Free
  <2>4. pte'[q] = INVALID
    BY <2>2, <2>3 DEF ChooseFrame, Evict, IInv, TypeOK
  <2> QED BY <2>4, PagerAssumption
<1>8. Unmapped' /\ ValidBacked'
  <2>1. Unmapped'
    BY <1>2, <1>4, <1>7 DEF Unmapped
  <2>2. ValidBacked'
    BY <1>1, <1>6, PagerAssumption DEF IInv, Tables, ValidBacked
  <2> QED BY <2>1, <2>2
<1>9. CASE isSwapFrameFree(f)
  <2>1. UNCHANGED << pte, tlb, latest, hazard >> /\ at' = [at EXCEPT ![p] = "in"]
    BY <1>9 DEF ChooseFrame
  <2>2. at'[p] = "in"
    BY <2>1 DEF IInv, TypeOK
  <2>3. TLBAgrees' /\ PendingAgrees'
    BY <1>1, <1>2, <1>4, <2>1 DEF IInv, Clean, TLBAgrees, PendingAgrees, Refilling
  <2>4. StillInvalid'
    BY <1>1, <1>4, <2>1 DEF IInv, Clean, StillInvalid, Paging
  <2>5. Backed'
    BY <1>1, <1>3, <2>1 DEF IInv, Clean, Backed, isSwapFrameFree
  <2>6. WritesLatest'
    BY <1>3, <1>4, <2>2 DEF WritesLatest, Transferring
  <2>7. NothingLost'
    BY <1>3, <1>4, <2>1 DEF IInv, Clean, NothingLost, Transferring
  <2>8. OneFrame'
    BY <1>1, <2>1 DEF IInv, Clean, OneFrame, isSwapFrameFree
  <2> QED BY <1>5, <1>8, <2>3, <2>4, <2>5, <2>6, <2>7, <2>8 DEF Tables, Clean
<1>10. CASE ~ isSwapFrameFree(f)
  <2>1. Evict(c, k) /\ at' = [at EXCEPT ![p] = "out"] /\ k \in Page
    BY <1>10 DEF ChooseFrame, isSwapFrameFree, IInv, TypeOK
  <2>2. at'[p] = "out"
    BY <2>1 DEF IInv, TypeOK
  <2>3. pte' = [pte EXCEPT ![k] = INVALID] /\ updateTLB(c, k, INVALID)
    BY <2>1 DEF Evict
  <2>4. ~ hazard' => /\ ~ hazard /\ latest' = latest
                     /\ \A b \in Cpu \ {c} : tlb[b][KeyOf(k)] \notin Frame
                     /\ \A q \in Proc : Refilling(q) /\ fault[q] = k => loaded[q] \notin Frame
    BY <2>1 DEF Evict, Track, HeldElsewhere, Refilling
  <2>5. ~ hazard => pte[k] = f /\ f \in latest[k]
    BY <1>3, <1>10, <2>1 DEF IInv, Clean, Backed, NothingLost
  <2>6. pte'[k] = INVALID /\ \A q \in Page \ {k} : pte'[q] = pte[q]
    BY <2>1, <2>3 DEF IInv, TypeOK
  <2>7. TLBAgrees'
    <3> SUFFICES ASSUME ~ hazard', NEW b \in Cpu, NEW q \in Proc, NEW w \in Vpn,
                        tlb'[b][<< q, w >>] \in Frame
                 PROVE  pte'[<< q, PageIndex(w) >>] = tlb'[b][<< q, w >>]
      BY DEF TLBAgrees
    <3>1. tlb'[b][<< q, w >>] =
            IF b = c /\ << q, PageIndex(w) >> = k /\ tlb[b][<< q, w >>] # ABSENT
            THEN INVALID ELSE tlb[b][<< q, w >>]
      BY <2>1, <2>3, TLBUpdate DEF IInv, Entry
    <3>2. << q, PageIndex(w) >> \in Page /\ PageNumber(PageIndex(w)) = w
      BY PageOfKey
    <3>3. CASE << q, PageIndex(w) >> # k
      BY <2>4, <2>6, <3>1, <3>2, <3>3 DEF IInv, Clean, TLBAgrees
    <3>4. CASE << q, PageIndex(w) >> = k
      <4>1. KeyOf(k) = << q, w >>
        BY <3>2, <3>4 DEF KeyOf
      <4>2. b # c => tlb'[b][<< q, w >>] \notin Frame
        BY <2>4, <3>1, <4>1
      <4> QED BY <3>1, <3>4, <4>2, PagerAssumption
    <3> QED BY <3>3, <3>4
  <2>13. PendingAgrees'
    <3> SUFFICES ASSUME ~ hazard', NEW q \in Proc, Refilling(q)', loaded[q] \in Frame
                 PROVE  pte'[fault[q]] = loaded[q]
      BY <1>1 DEF PendingAgrees
    <3>1. Refilling(q)
      BY <1>2, <1>4 DEF Refilling
    <3>2. fault[q] \in Page \ {k} /\ pte[fault[q]] = loaded[q]
      BY <2>4, <3>1 DEF IInv, Tables, OwnFault, Clean, PendingAgrees
    <3> QED BY <2>6, <3>2
  <2>8. StillInvalid'
    <3> SUFFICES ASSUME ~ hazard', NEW q \in Proc, Paging(q)'
                 PROVE  pte'[fault'[q]] = INVALID
      BY DEF StillInvalid
    <3>1. Paging(q)
      BY <1>1, <1>4 DEF Paging
    <3>2. fault[q] \in Page /\ pte[fault[q]] = INVALID
      BY <2>4, <3>1 DEF IInv, Tables, OwnFault, Clean, StillInvalid
    <3> QED BY <1>1, <2>6, <3>2
  <2>9. Backed'
    <3> SUFFICES ASSUME ~ hazard', NEW g \in Frame, ~ isSwapFrameFree(g), g # f
                 PROVE  pte'[swap_pool_table[g]] = g
      BY <1>1, <1>2, <2>2 DEF Backed, isSwapFrameFree, Transferring
    <3>1. swap_pool_table[g] # k
      BY <1>10, <2>4 DEF IInv, Clean, OneFrame
    <3>2. pte[swap_pool_table[g]] = g /\ swap_pool_table[g] \in Page
      BY <1>3, <2>4 DEF IInv, Clean, Backed, TypeOK, isSwapFrameFree
    <3> QED BY <2>6, <3>1, <3>2
  <2>10. WritesLatest'
    <3> SUFFICES ASSUME ~ hazard', NEW q \in Proc, at'[q] = "out"
                 PROVE  /\ ~ isSwapFrameFree(victim[q])'
                        /\ victim'[q] \in latest'[swap_pool_table'[victim'[q]]]
      BY DEF WritesLatest, isSwapFrameFree
    <3>1. q = p
      BY <1>4 DEF Transferring
    <3> QED BY <1>1, <1>2, <1>10, <2>4, <2>5, <3>1 DEF isSwapFrameFree
  <2>11. NothingLost'
    <3> SUFFICES ASSUME ~ hazard', NEW q \in Page
                 PROVE  IF pte'[q] \in Frame THEN pte'[q] \in latest[q]
                        ELSE \/ FLASH \in latest[q]
                             \/ \E r \in Proc : /\ at'[r] = "out"
                                                /\ swap_pool_table'[victim'[r]] = q
                                                /\ victim'[r] \in latest[q]
      BY <2>4 DEF NothingLost
    <3>1. CASE q = k
      BY <1>1, <1>2, <2>2, <2>4, <2>5, <2>6, <3>1, PagerAssumption
    <3>2. CASE q # k
      BY <1>3, <2>4, <2>6, <3>2 DEF IInv, Clean, NothingLost, Transferring
    <3> QED BY <3>1, <3>2
  <2>12. OneFrame'
    BY <1>1, <2>4 DEF IInv, Clean, OneFrame, isSwapFrameFree
  <2> QED BY <1>5, <1>8, <2>7, <2>8, <2>9, <2>10, <2>11, <2>12, <2>13 DEF Tables, Clean
<1> QED BY <1>9, <1>10

LEMMA WriteDoneKeeps ==
  ASSUME IInv, NEW p \in Proc, WriteDone(p)
  PROVE  Tables' /\ Clean'
<1> DEFINE f == victim[p]
           k == swap_pool_table[f]
           places == [latest EXCEPT ![k] = IF f \in @ THEN @ \cup {FLASH} ELSE @ \ {FLASH}]
<1>1. /\ at[p] = "out" /\ at' = [at EXCEPT ![p] = "in"]
      /\ Track(places, FALSE)
      /\ UNCHANGED << cpu, fault, loaded, victim, mutex, table, tlb >>
  BY DEF WriteDone
<1>2. ~ hazard' => ~ hazard /\ latest' = places
  BY <1>1 DEF Track
<1>3. at'[p] = "in" /\ \A q \in Proc \ {p} : at'[q] = at[q] /\ ~ Transferring(q)
  BY <1>1, OnlyOne DEF IInv, Tables, TypeOK, Transferring
<1>4. \A q \in Proc : /\ Refilling(q)' <=> Refilling(q)
                      /\ Paging(q)' <=> Paging(q)
                      /\ Transferring(q)' <=> Transferring(q)
  BY <1>1, <1>3 DEF Refilling, Paging, Transferring
<1>5. Tables'
  BY <1>1, <1>4 DEF IInv, Tables, Owner, OwnFault, Unmapped, ValidBacked, table
<1>6. TLBAgrees' /\ PendingAgrees' /\ StillInvalid'
  BY <1>1, <1>2, <1>4 DEF IInv, Clean, TLBAgrees, PendingAgrees, StillInvalid, table
<1>7. Backed' /\ OneFrame'
  BY <1>1, <1>2, <1>4 DEF IInv, Clean, Backed, OneFrame, isSwapFrameFree, table
<1>8. WritesLatest'
  BY <1>3 DEF WritesLatest, Transferring
<1>9. NothingLost'
  <2> SUFFICES ASSUME ~ hazard', NEW q \in Page
               PROVE  IF pte[q] \in Frame THEN pte[q] \in places[q] ELSE FLASH \in places[q]
    BY <1>1, <1>2 DEF NothingLost, table
  <2>1. latest \in [Page -> SUBSET (Frame \cup {FLASH})] /\ pte \in [Page -> Entry]
    BY DEF IInv, TypeOK
  <2>2. ~ hazard /\ f \in latest[k] /\ FLASH \notin Frame
    BY <1>1, <1>2, PagerAssumption DEF IInv, Clean, WritesLatest
  <2>3. places[q] = IF q = k THEN latest[q] \cup {FLASH} ELSE latest[q]
    BY <2>1, <2>2
  <2>4. \A r \in Proc : at[r] = "out" => r = p
    BY <1>3 DEF Transferring
  <2> HIDE DEF places
  <2> QED BY <2>2, <2>3, <2>4 DEF IInv, Clean, NothingLost
<1> QED BY <1>5, <1>6, <1>7, <1>8, <1>9 DEF Clean

LEMMA TransferFailedKeeps ==
  ASSUME IInv, NEW p \in Proc, TransferFailed(p)
  PROVE  Tables' /\ Clean'
<1>1. /\ Transferring(p) /\ at' = [at EXCEPT ![p] = "dead"]
      /\ Track(latest, ~ isSwapFrameFree(victim[p])) /\ Leave(p)
      /\ UNCHANGED << cpu, loaded, table, tlb >>
  BY DEF TransferFailed, Transferring
<1>2. ~ hazard' => ~ hazard /\ latest' = latest /\ isSwapFrameFree(victim[p])
  BY <1>1 DEF Track
<1>3. /\ at'[p] = "dead"
      /\ \A q \in Proc \ {p} : at'[q] = at[q] /\ fault'[q] = fault[q] /\ ~ Transferring(q)
  BY <1>1, OnlyOne DEF IInv, Tables, TypeOK, Leave
<1>4. \A q \in Proc : /\ ~ Transferring(q)'
                      /\ Paging(q)' => q # p /\ Paging(q)
                      /\ Refilling(q)' => q # p /\ Refilling(q)
  BY <1>3 DEF Transferring, Paging, Refilling
<1>5. Tables'
  BY <1>1, <1>3, <1>4 DEF IInv, Tables, Owner, OwnFault, Unmapped, ValidBacked, table
<1>6. TLBAgrees' /\ PendingAgrees'
  BY <1>1, <1>2, <1>3, <1>4 DEF IInv, Clean, TLBAgrees, PendingAgrees, table
<1>7. StillInvalid'
  BY <1>1, <1>2, <1>3, <1>4 DEF IInv, Clean, StillInvalid, table
<1>8. Backed'
  <2> SUFFICES ASSUME ~ hazard', NEW f \in Frame, ~ isSwapFrameFree(f)
               PROVE  pte[swap_pool_table[f]] = f
    BY <1>1 DEF Backed, isSwapFrameFree, table
  <2>1. \A q \in Proc : Transferring(q) => victim[q] # f
    BY <1>2, <1>3
  <2> QED BY <1>2, <2>1 DEF IInv, Clean, Backed
<1>9. WritesLatest'
  BY <1>4 DEF WritesLatest, Transferring
<1>10. NothingLost'
  <2> SUFFICES ASSUME ~ hazard', NEW q \in Page
               PROVE  IF pte[q] \in Frame THEN pte[q] \in latest[q] ELSE FLASH \in latest[q]
    BY <1>1, <1>2 DEF NothingLost, table
  <2>1. ASSUME NEW r \in Proc, at[r] = "out", swap_pool_table[victim[r]] = q
        PROVE  FALSE
    <3>1. r = p
      BY <1>3, <2>1 DEF Transferring
    <3> QED BY <1>2, <2>1, <3>1, PagerAssumption DEF isSwapFrameFree, Free
  <2> QED BY <1>2, <2>1 DEF IInv, Clean, NothingLost
<1>11. OneFrame'
  BY <1>1, <1>2 DEF IInv, Clean, OneFrame, isSwapFrameFree, table
<1> QED BY <1>5, <1>6, <1>7, <1>8, <1>9, <1>10, <1>11 DEF Clean

LEMMA ReadDoneKeeps ==
  ASSUME IInv, NEW p \in Proc, NEW c \in Cpu, ReadDone(p, c)
  PROVE  Tables' /\ Clean'
<1> DEFINE f == victim[p]
           k == fault[p]
           places == [q \in Page |-> IF q = k /\ FLASH \in latest[k] THEN latest[k] \cup {f}
                                     ELSE latest[q] \ {f}]
<1>1. /\ at[p] = "in" /\ at' = [at EXCEPT ![p] = "user"]
      /\ Track(places, FALSE) /\ Map(k, f) /\ updateTLB(c, k, f) /\ Leave(p)
      /\ UNCHANGED loaded
  BY DEF ReadDone
<1>2. ~ hazard' => ~ hazard /\ latest' = places
  BY <1>1 DEF Track
<1>3. Transferring(p) /\ Paging(p)
  BY <1>1 DEF Transferring, Paging
<1>4. k \in Page /\ k[1] = p /\ f \in Frame
  BY <1>3 DEF IInv, Tables, OwnFault, TypeOK
<1>5. \A q \in Page : pte[q] # f
  BY <1>3 DEF IInv, Tables, Unmapped
<1>6. \A q \in Proc \ {p} : ~ Transferring(q)
  BY <1>3, OnlyOne DEF IInv, Tables
<1>7. /\ at'[p] = "user"
      /\ \A q \in Proc \ {p} : at'[q] = at[q] /\ fault'[q] = fault[q]
  BY <1>1 DEF IInv, TypeOK, Leave
<1>8. \A q \in Proc : /\ ~ Transferring(q)'
                      /\ Paging(q)' => q # p /\ Paging(q)
                      /\ Refilling(q)' => q # p /\ Refilling(q)
  BY <1>6, <1>7 DEF Transferring, Paging, Refilling
<1>9. /\ swap_pool_table'[f] = k /\ pte'[k] = f
      /\ \A g \in Frame \ {f} : swap_pool_table'[g] = swap_pool_table[g]
      /\ \A q \in Page \ {k} : pte'[q] = pte[q]
  BY <1>1, <1>4 DEF IInv, TypeOK, Map
<1>10. ~ hazard => pte[k] = INVALID
  BY <1>3 DEF IInv, Clean, StillInvalid
<1> HIDE DEF f, k, places
<1>11. Tables'
  <2>1. Owner' /\ Unmapped'
    BY <1>8 DEF Owner, Unmapped
  <2>2. OwnFault'
    BY <1>7, <1>8 DEF IInv, Tables, OwnFault
  <2>3. ValidBacked'
    BY <1>4, <1>5, <1>9 DEF IInv, Tables, ValidBacked
  <2> QED BY <2>1, <2>2, <2>3 DEF Tables
\* The page read in had no other frame
<1>12. ASSUME ~ hazard, NEW g \in Frame \ {f}, ~ isSwapFrameFree(g)
       PROVE  swap_pool_table[g] \in Page \ {k} /\ pte[swap_pool_table[g]] = g
  <2>1. \A q \in Proc : Transferring(q) => victim[q] # g
    BY <1>6, <1>12 DEF f
  <2>2. pte[swap_pool_table[g]] = g /\ swap_pool_table[g] \in Page
    BY <1>12, <2>1 DEF IInv, Clean, Backed, isSwapFrameFree, TypeOK
  <2> QED BY <1>10, <1>12, <2>2, PagerAssumption
<1>13. TLBAgrees'
  <2> SUFFICES ASSUME ~ hazard', NEW b \in Cpu, NEW q \in Proc, NEW w \in Vpn,
                      tlb'[b][<< q, w >>] \in Frame
               PROVE  pte'[<< q, PageIndex(w) >>] = tlb'[b][<< q, w >>]
    BY DEF TLBAgrees
  <2>1. tlb'[b][<< q, w >>] =
          IF b = c /\ << q, PageIndex(w) >> = k /\ tlb[b][<< q, w >>] # ABSENT
          THEN f ELSE tlb[b][<< q, w >>]
    BY <1>1, <1>4, TLBUpdate DEF IInv, Entry
  <2>2. << q, PageIndex(w) >> \in Page
    BY PageOfKey
  <2>3. tlb[b][<< q, w >>] \in Frame => pte[<< q, PageIndex(w) >>] = tlb[b][<< q, w >>]
    BY <1>2 DEF IInv, Clean, TLBAgrees
  <2> QED BY <1>2, <1>9, <1>10, <2>1, <2>2, <2>3, PagerAssumption
<1>19. PendingAgrees'
  <2> SUFFICES ASSUME ~ hazard', NEW q \in Proc, Refilling(q)', loaded[q] \in Frame
               PROVE  pte'[fault'[q]] = loaded[q]
    BY <1>1 DEF PendingAgrees
  <2>1. q # p /\ Refilling(q) /\ fault'[q] = fault[q]
    BY <1>7, <1>8
  <2>2. fault[q] \in Page /\ fault[q][1] = q /\ pte[fault[q]] = loaded[q]
    BY <1>2, <2>1 DEF IInv, Tables, OwnFault, Clean, PendingAgrees
  <2> QED BY <1>4, <1>9, <2>1, <2>2
<1>14. StillInvalid'
  <2> SUFFICES ASSUME ~ hazard', NEW q \in Proc, Paging(q)'
               PROVE  pte'[fault'[q]] = INVALID
    BY DEF StillInvalid
  <2>1. q # p /\ Paging(q) /\ fault'[q] = fault[q]
    BY <1>7, <1>8
  <2>2. fault[q] \in Page /\ fault[q][1] = q /\ pte[fault[q]] = INVALID
    BY <1>2, <2>1 DEF IInv, Tables, OwnFault, Clean, StillInvalid
  <2> QED BY <1>4, <1>9, <2>1, <2>2
<1>15. Backed'
  <2> SUFFICES ASSUME ~ hazard', NEW g \in Frame, ~ isSwapFrameFree(g)'
               PROVE  pte'[swap_pool_table'[g]] = g
    BY DEF Backed
  <2>1. CASE g = f
    BY <1>9, <2>1
  <2>2. CASE g # f
    BY <1>2, <1>9, <1>12, <2>2 DEF isSwapFrameFree
  <2> QED BY <2>1, <2>2
<1>16. WritesLatest'
  BY <1>8 DEF WritesLatest, Transferring
<1>17. NothingLost'
  <2> SUFFICES ASSUME ~ hazard', NEW q \in Page
               PROVE  IF pte'[q] \in Frame THEN pte'[q] \in places[q] ELSE FLASH \in places[q]
    BY <1>2 DEF NothingLost
  <2>1. \A r \in Proc : at[r] # "out"
    BY <1>1, <1>6 DEF Transferring
  <2>2. IF pte[q] \in Frame THEN pte[q] \in latest[q] ELSE FLASH \in latest[q]
    BY <1>2, <2>1 DEF IInv, Clean, NothingLost
  <2>3. places[q] = IF q = k /\ FLASH \in latest[k] THEN latest[k] \cup {f} ELSE latest[q] \ {f}
    BY DEF places
  <2>4. CASE q = k
    BY <1>2, <1>4, <1>9, <1>10, <2>2, <2>3, <2>4, PagerAssumption
  <2>5. CASE q # k
    BY <1>4, <1>5, <1>9, <2>2, <2>3, <2>5, PagerAssumption
  <2> QED BY <2>4, <2>5
<1>18. OneFrame'
  <2> SUFFICES ASSUME ~ hazard', NEW g \in Frame, NEW h \in Frame, g # h,
                      swap_pool_table'[g] = swap_pool_table'[h]
               PROVE  isSwapFrameFree(g)'
    BY DEF OneFrame
  <2>1. CASE g # f /\ h # f
    BY <1>2, <1>9, <2>1 DEF IInv, Clean, OneFrame, isSwapFrameFree
  <2>2. CASE g = f \/ h = f
    <3>1. PICK x \in Frame \ {f} : swap_pool_table[x] = k
      BY <1>9, <2>2
    <3>2. ~ isSwapFrameFree(x)
      BY <1>4, <3>1, PagerAssumption DEF isSwapFrameFree, Free
    <3> QED BY <1>2, <1>12, <3>1, <3>2
  <2> QED BY <2>1, <2>2
<1> QED BY <1>11, <1>13, <1>14, <1>15, <1>16, <1>17, <1>18, <1>19 DEF Clean

-----------------------------------------------------------------------------
(* The theorems *)

LEMMA StepKeeps ==
  ASSUME IInv, [Next]_vars
  PROVE  IInv'
<1>1. CASE UNCHANGED vars
  <2>1. TypeOK'
    BY <1>1 DEF IInv, TypeOK, vars, table
  <2>2. Tables' /\ Clean'
    BY <1>1, QuietKeeps DEF vars, table, Refilling, Paging, Transferring
  <2> QED BY <2>1, <2>2 DEF IInv
<1>2. ASSUME NEW p \in Proc, NEW c \in Cpu,
             Preempt(p) \/ Dispatch(p, c) \/ WaitMutex(p) \/ Terminate(p)
      PROVE  IInv'
  <2>1. TypeOK'
    BY <1>2, QuietType DEF IInv
  <2>2. UNCHANGED << fault, loaded, victim, mutex, table, tlb, latest, hazard >>
    BY <1>2 DEF Preempt, Dispatch, WaitMutex, Terminate
  <2>3. \A q \in Proc : at'[q] = at[q] \/ (at[q] = "user" /\ at'[q] = "dead")
    BY <1>2 DEF Preempt, Dispatch, WaitMutex, Terminate, Running, IInv, TypeOK
  <2>4. \A q \in Proc : /\ Refilling(q)' <=> Refilling(q)
                        /\ Paging(q)' <=> Paging(q)
                        /\ Transferring(q)' <=> Transferring(q)
                        /\ at'[q] = "out" <=> at[q] = "out"
    BY <2>3 DEF Refilling, Paging, Transferring
  <2>5. Tables' /\ Clean'
    BY <2>2, <2>4, QuietKeeps
  <2> QED BY <2>1, <2>5 DEF IInv
<1>3. ASSUME NEW p \in Proc, NEW v \in Vpn,
             Store(p, v) \/ RefillRead(p, v) \/ Fault(p, v)
      PROVE  IInv'
  <2>1. TypeOK'
    BY <1>3, ProgramType DEF IInv
  <2>2. Tables' /\ Clean'
    BY <1>3, StoreKeeps, RefillReadKeeps, FaultKeeps
  <2> QED BY <2>1, <2>2 DEF IInv
<1>6. ASSUME NEW p \in Proc, RefillWrite(p) \/ RefillOutside(p)
      PROVE  IInv'
  <2>1. TypeOK'
    BY <1>6, RefillType DEF IInv, Tables
  <2>2. Tables' /\ Clean'
    BY <1>6, RefillWriteKeeps, RefillOutsideKeeps
  <2> QED BY <2>1, <2>2 DEF IInv
<1>4. ASSUME NEW p \in Proc, NEW c \in Cpu, NEW f \in Frame,
             ChooseFrame(p, c, f) \/ WriteDone(p) \/ ReadDone(p, c) \/ TransferFailed(p)
      PROVE  IInv'
  <2>1. TypeOK'
    BY <1>4, PagerType DEF IInv, Tables
  <2>2. Tables' /\ Clean'
    BY <1>4, ChooseFrameKeeps, WriteDoneKeeps, ReadDoneKeeps, TransferFailedKeeps
  <2> QED BY <2>1, <2>2 DEF IInv
<1>5. CASE Next
  <2>1. PICK p \in Proc :
          \/ Preempt(p) \/ Terminate(p) \/ RefillWrite(p) \/ RefillOutside(p)
          \/ TransferFailed(p) \/ Serve(p)
          \/ \E c \in Cpu : Dispatch(p, c)
          \/ \E v \in Vpn : Store(p, v) \/ RefillRead(p, v) \/ Fault(p, v)
    BY <1>5 DEF Next
  <2>2. 0 \in Frame
    BY PagerAssumption DEF Frame
  <2>3. CASE \E c \in Cpu : Dispatch(p, c)
    BY <1>2, <2>3
  <2>4. CASE \E v \in Vpn : Store(p, v) \/ RefillRead(p, v) \/ Fault(p, v)
    BY <1>3, <2>4
  <2>5. CASE \E c \in Cpu : ReadDone(p, c) \/ \E f \in Frame : ChooseFrame(p, c, f)
    BY <1>4, <2>2, <2>5
  <2>6. CASE Preempt(p) \/ Terminate(p) \/ WaitMutex(p) \/ WriteDone(p) \/ TransferFailed(p)
    <3>1. PICK c \in Cpu : TRUE
      BY PagerAssumption
    <3>2. CASE Preempt(p) \/ Terminate(p) \/ WaitMutex(p)
      BY <1>2, <3>1, <3>2
    <3>3. CASE WriteDone(p) \/ TransferFailed(p)
      BY <1>4, <2>2, <3>1, <3>3
    <3> QED BY <2>6, <3>2, <3>3
  <2> QED BY <1>6, <2>1, <2>3, <2>4, <2>5, <2>6 DEF Serve
<1> QED BY <1>1, <1>5

\* What is claimed of the tables, the TLBs and the contents of the pages holds
\* for any number of U-procs, CPUs and pages and any size of the swap pool.
THEOREM Invariance == Spec => []IInv
<1>1. Init => IInv
  BY InitHolds
<1>2. IInv /\ [Next]_vars => IInv'
  BY StepKeeps
<1> QED BY <1>1, <1>2, PTL DEF Spec

\* The tables keep their types, and fifo_hand stays in the pool (vmSupport.c:114-128).
THEOREM TypeCorrect == Spec => []TypeOK
<1>1. IInv => TypeOK
  BY DEF IInv
<1> QED BY <1>1, Invariance, PTL

\* Every valid page table entry has its frame, through failures and terminations
\* as well (vmSupport.c:48, 60, 69).
THEOREM EntriesBacked == Spec => []ValidBacked
<1>1. IInv => ValidBacked
  BY DEF IInv, Tables
<1> QED BY <1>1, Invariance, PTL

\* Outside the hazards, no store is lost (vmSupport.c:48-71).
THEOREM StoresSurvive == Spec => []NothingLost
<1>1. IInv => NothingLost
  BY DEF IInv, Clean
<1> QED BY <1>1, Invariance, PTL

\* Outside the hazards, no page has two frames in the swap pool table
\* (vmSupport.c:60).
THEOREM FramesApart == Spec => []OneFrame
<1>1. IInv => OneFrame
  BY DEF IInv, Clean
<1> QED BY <1>1, Invariance, PTL

\* Outside the hazards, a program reads what it last stored, on whatever CPU
\* (vmSupport.c:48-51, 71, exceptions.c:415-422).
THEOREM ReadsLatest == Spec => []Coherent
<1>1. IInv => Coherent
  <2> SUFFICES ASSUME IInv, ~ hazard, NEW p \in Proc, NEW v \in Vpn,
                      Running(p), Cached(p, v) \in Frame
               PROVE  Cached(p, v) \in latest[<< p, PageIndex(v) >>]
    BY DEF Coherent
  <2>1. cpu[p] \in Cpu /\ << p, PageIndex(v) >> \in Page
    BY PageOfKey DEF Running, IInv, TypeOK
  <2>2. pte[<< p, PageIndex(v) >>] = Cached(p, v)
    BY <2>1 DEF IInv, Clean, TLBAgrees, Cached
  <2> QED BY <2>1, <2>2 DEF IInv, Clean, NothingLost
<1> QED BY <1>1, Invariance, PTL
=============================================================================
