------------------------------- MODULE Pager -------------------------------
(***************************************************************************)
(* The virtual memory of the U-procs: pager and its helpers (vmSupport.c), *)
(* the TLB refill handler (exceptions.c), and what a program reads and     *)
(* writes through the TLB of the CPU it runs on.                           *)
(*                                                                         *)
(* swap_pool_sem is one process at a time (Support).  A handler of the     *)
(* support level runs with interrupts off, so a process changes CPU only   *)
(* while its program runs or where it blocks: on the mutex and in DOIO.    *)
(* The refill handler takes no lock: the pager of another CPU may act      *)
(* between its read of the page table and its write to the TLB.            *)
(* Of the contents of a page only this matters: which frames, and its flash*)
(* device or not, hold what the program last stored.                       *)
(***************************************************************************)
EXTENDS Exceptions, FiniteSets

CONSTANTS Proc,      \* the U-procs, by ASID
          Cpu,
          Vpn,       \* the virtual page numbers of the pages they use
          POOLSIZE,
          NULL,
          INVALID,   \* an entry without its valid bit
          ABSENT,    \* no entry
          FLASH      \* the flash device of a process, as a place of its pages

Frame == 0 .. POOLSIZE - 1

Free == NULL                                 \* sw_asid is -1
Page == Proc \X {PageIndex(v) : v \in Vpn}
Key == Proc \X Vpn                           \* EntryHi: ASID and page number

ASSUME PagerAssumption ==
  /\ POOLSIZE \in Nat \ {0} /\ Cpu # {}
  /\ \A v \in Vpn : PageIndex(v) \in 0 .. MAXPAGES - 1 /\ PageNumber(PageIndex(v)) = v
  /\ NULL \notin Proc \cup Cpu \cup Page
  /\ {INVALID, ABSENT, FLASH} \cap Frame = {} /\ INVALID # ABSENT

VARIABLES
  at,                \* user, refill, fault, out, in, or dead
  cpu,               \* the CPU a process runs on, or NULL
  fault,             \* the page that the refill handler or the pager is called for
  loaded,            \* the entry that the refill handler has read, ABSENT if none
  victim,            \* the frame that it chose
  mutex,             \* the process inside swap_pool_sem
  pte,               \* a page table entry: the frame, if it is valid
  swap_pool_table, fifo_hand,
  tlb,               \* what the TLB of a CPU holds for a key
  latest,            \* where the latest contents of a page are
  hazard             \* history: data may be lost, and is not followed any more

table == << pte, swap_pool_table, fifo_hand >>
vars == << at, cpu, fault, loaded, victim, mutex, table, tlb, latest, hazard >>

Entry == Frame \cup {INVALID}

TypeOK ==
  /\ at \in [Proc -> {"user", "refill", "fault", "out", "in", "dead"}]
  /\ cpu \in [Proc -> Cpu \cup {NULL}]
  /\ fault \in [Proc -> Page \cup {NULL}] /\ loaded \in [Proc -> Entry \cup {ABSENT}]
  /\ victim \in [Proc -> Frame]
  /\ mutex \in Proc \cup {NULL}
  /\ pte \in [Page -> Entry]
  /\ swap_pool_table \in [Frame -> Page \cup {Free}]
  /\ fifo_hand \in Frame
  /\ tlb \in [Cpu -> [Key -> Entry \cup {ABSENT}]]
  /\ latest \in [Page -> SUBSET (Frame \cup {FLASH})]
  /\ hazard \in BOOLEAN

Init ==
  /\ at = [p \in Proc |-> "user"]
  /\ cpu = [p \in Proc |-> NULL]
  /\ fault = [p \in Proc |-> NULL]
  /\ loaded = [p \in Proc |-> ABSENT]
  /\ victim = [p \in Proc |-> 0]
  /\ mutex = NULL
  /\ pte = [k \in Page |-> INVALID]
  /\ swap_pool_table = [f \in Frame |-> Free] /\ fifo_hand = 0
  /\ tlb = [c \in Cpu |-> [key \in Key |-> ABSENT]]
  /\ latest = [k \in Page |-> {FLASH}]
  /\ hazard = FALSE

\* The latest contents are in these places, unless this step is a hazard
Track(places, risk) ==
  /\ hazard' = (hazard \/ risk)
  /\ latest' = IF hazard' THEN [k \in Page |-> {}] ELSE places

-----------------------------------------------------------------------------
(* Programs and CPUs *)

\* A CPU without a process dispatches a ready one
Dispatch(p, c) ==
  /\ at[p] = "user" /\ cpu[p] = NULL /\ \A q \in Proc : cpu[q] # c
  /\ cpu' = [cpu EXCEPT ![p] = c]
  /\ UNCHANGED << at, fault, loaded, victim, mutex, table, tlb, latest, hazard >>

\* The time slice of a program ends
Preempt(p) ==
  /\ at[p] = "user" /\ cpu[p] # NULL
  /\ cpu' = [cpu EXCEPT ![p] = NULL]
  /\ UNCHANGED << at, fault, loaded, victim, mutex, table, tlb, latest, hazard >>

Running(p) == at[p] = "user" /\ cpu[p] # NULL
Cached(p, v) == tlb[cpu[p]][<< p, v >>]

\* The program stores into a page: what other copies there are become old
Store(p, v) ==
  LET k == << p, PageIndex(v) >>  f == Cached(p, v)
  IN /\ Running(p) /\ f \in Frame
     /\ Track([q \in Page |-> IF q = k THEN {f} ELSE latest[q] \ {f}], FALSE)
     /\ UNCHANGED << at, cpu, fault, loaded, victim, mutex, table, tlb >>

\* The key of page k in a TLB: the page number that its entry has
KeyOf(k) == << k[1], PageNumber(k[2]) >>

\* uTLB_RefillHandler: it reads the page table entry ...
RefillRead(p, v) ==
  LET k == << p, PageIndex(v) >>
  IN /\ Running(p) /\ Cached(p, v) = ABSENT
     /\ at' = [at EXCEPT ![p] = "refill"]
     /\ fault' = [fault EXCEPT ![p] = k]
     /\ loaded' = [loaded EXCEPT ![p] = pte[k]]
     /\ UNCHANGED << cpu, victim, mutex, table, tlb, latest, hazard >>

\* ... and writes what it read to a random place of the TLB
RefillWrite(p) ==
  /\ at[p] = "refill"
  /\ \E out \in Key : tlb' = [tlb EXCEPT ![cpu[p]] =
       [@ EXCEPT ![out] = ABSENT, ![KeyOf(fault[p])] = loaded[p]]]
  /\ at' = [at EXCEPT ![p] = "user"]
  /\ fault' = [fault EXCEPT ![p] = NULL] /\ loaded' = [loaded EXCEPT ![p] = ABSENT]
  /\ UNCHANGED << cpu, victim, mutex, table, latest, hazard >>

\* For a page number that has no entry it loads a context_t as the processor
\* state: the program goes on with an ASID and at an address that nobody chose,
\* which is not followed and is a hazard for everybody's pages
RefillOutside(p) ==
  /\ Running(p)
  /\ at' = [at EXCEPT ![p] = "dead"] /\ cpu' = [cpu EXCEPT ![p] = NULL]
  /\ Track(latest, TRUE)
  /\ UNCHANGED << fault, loaded, victim, mutex, table, tlb >>

\* A TLB entry that is not valid raises the page fault that pager handles.  The
\* pager does not look whether the page table entry is valid by now.
Fault(p, v) ==
  LET k == << p, PageIndex(v) >>
  IN /\ Running(p) /\ Cached(p, v) = INVALID
     /\ at' = [at EXCEPT ![p] = "fault"]
     /\ fault' = [fault EXCEPT ![p] = k]
     /\ Track(latest, pte[k] # INVALID)
     /\ UNCHANGED << cpu, loaded, victim, mutex, table, tlb >>

\* SYS2 or a trap: the frames and the entries of the process stay as they are
Terminate(p) ==
  /\ Running(p)
  /\ at' = [at EXCEPT ![p] = "dead"] /\ cpu' = [cpu EXCEPT ![p] = NULL]
  /\ UNCHANGED << fault, loaded, victim, mutex, table, tlb, latest, hazard >>

-----------------------------------------------------------------------------
(* The pager *)

\* A process that finds the mutex taken blocks
WaitMutex(p) ==
  /\ at[p] = "fault" /\ cpu[p] # NULL /\ mutex # NULL
  /\ cpu' = [cpu EXCEPT ![p] = NULL]
  /\ UNCHANGED << at, fault, loaded, victim, mutex, table, tlb, latest, hazard >>

isSwapFrameFree(f) == swap_pool_table[f] = Free

\* A bug of getSwapFrame: the hand does not wrap around
getSwapFrameNoWrap(f) ==
  \/ isSwapFrameFree(f) /\ (\A g \in 0 .. f - 1 : ~ isSwapFrameFree(g)) /\ UNCHANGED fifo_hand
  \/ /\ \A g \in Frame : ~ isSwapFrameFree(g)
     /\ f = fifo_hand /\ fifo_hand' = fifo_hand + 1

\* getSwapFrame: f is the first free frame, else the one at the hand
getSwapFrame(f) ==
  \/ isSwapFrameFree(f) /\ (\A g \in 0 .. f - 1 : ~ isSwapFrameFree(g)) /\ UNCHANGED fifo_hand
  \/ /\ \A g \in Frame : ~ isSwapFrameFree(g)
     /\ f = fifo_hand /\ fifo_hand' = (fifo_hand + 1) % POOLSIZE

\* A bug of updateTLB: it does nothing
updateTLBNot(c, k, entry) == UNCHANGED tlb

\* updateTLB, on CPU c: the entry of page k, if this TLB has one
updateTLB(c, k, entry) ==
  tlb' = [tlb EXCEPT ![c][KeyOf(k)] = IF @ = ABSENT THEN @ ELSE entry]

\* A bug of Evict: the page table entry stays valid
EvictKeepsValid(c, k) ==
  /\ UNCHANGED pte
  /\ Track(latest, FALSE)
  /\ updateTLB(c, k, INVALID)

\* A CPU other than c has a valid entry of page k, or is about to
HeldElsewhere(c, k) ==
  \/ \E b \in Cpu \ {c} : tlb[b][KeyOf(k)] \in Frame
  \/ \E q \in Proc : at[q] = "refill" /\ fault[q] = k /\ loaded[q] \in Frame

\* The page table entry of a page to be written out, and the TLB of this CPU.
\* The other CPUs keep what their TLBs and their refill handlers hold.
Evict(c, k) ==
  /\ pte' = [pte EXCEPT ![k] = INVALID]
  /\ updateTLB(c, k, INVALID)
  /\ Track(latest, HeldElsewhere(c, k))

\* A bug of ChooseFrame: the page in the frame is not written out
ChooseFrameUnwritten(p, c, f) ==
  /\ at[p] = "fault" /\ mutex = NULL
  /\ cpu[p] = c \/ (cpu[p] = NULL /\ \A q \in Proc : cpu[q] # c)
  /\ mutex' = p
  /\ getSwapFrame(f) /\ victim' = [victim EXCEPT ![p] = f]
  /\ at' = [at EXCEPT ![p] = "in"]
  /\ IF isSwapFrameFree(f) THEN UNCHANGED << pte, tlb, latest, hazard >>
     ELSE Evict(c, swap_pool_table[f])
  /\ cpu' = [cpu EXCEPT ![p] = NULL]
  /\ UNCHANGED << fault, loaded, swap_pool_table >>

\* pager, with the mutex, up to its first DOIO: a page is written out first, or
\* the page is read.  A process that had to wait for the mutex resumes anywhere.
ChooseFrame(p, c, f) ==
  /\ at[p] = "fault" /\ mutex = NULL
  /\ cpu[p] = c \/ (cpu[p] = NULL /\ \A q \in Proc : cpu[q] # c)
  /\ mutex' = p
  /\ getSwapFrame(f) /\ victim' = [victim EXCEPT ![p] = f]
  /\ \/ /\ isSwapFrameFree(f)
        /\ at' = [at EXCEPT ![p] = "in"]
        /\ UNCHANGED << pte, tlb, latest, hazard >>
     \/ /\ ~ isSwapFrameFree(f)
        /\ at' = [at EXCEPT ![p] = "out"]
        /\ Evict(c, swap_pool_table[f])
  /\ cpu' = [cpu EXCEPT ![p] = NULL]
  /\ UNCHANGED << fault, loaded, swap_pool_table >>

\* The flash device has written the page out, whatever the frame holds by now
WriteDone(p) ==
  LET f == victim[p]  k == swap_pool_table[f]
  IN /\ at[p] = "out"
     /\ at' = [at EXCEPT ![p] = "in"]
     /\ Track([latest EXCEPT ![k] = IF f \in @ THEN @ \cup {FLASH} ELSE @ \ {FLASH}], FALSE)
     /\ UNCHANGED << cpu, fault, loaded, victim, mutex, table, tlb >>

\* A bug of Map: the page table entry does not become valid
MapInvalid(k, f) ==
  /\ swap_pool_table' = [swap_pool_table EXCEPT ![f] = k]
  /\ UNCHANGED pte

\* Frame f is for page k, in the swap pool table and in the page table
Map(k, f) ==
  /\ swap_pool_table' = [swap_pool_table EXCEPT ![f] = k]
  /\ pte' = [pte EXCEPT ![k] = f]

\* The end of pager, or of the process: its local variables are gone
Leave(p) == fault' = [fault EXCEPT ![p] = NULL] /\ victim' = [victim EXCEPT ![p] = 0]

\* The device has read the page in, and p goes on with it on CPU c
ReadDone(p, c) ==
  LET f == victim[p]  k == fault[p]
  IN /\ at[p] = "in" /\ \A q \in Proc : cpu[q] # c
     /\ Track([q \in Page |-> IF q = k /\ FLASH \in latest[k] THEN latest[k] \cup {f}
                              ELSE latest[q] \ {f}], FALSE)
     /\ Map(k, f)
     /\ updateTLB(c, k, f)
     /\ mutex' = NULL
     /\ at' = [at EXCEPT ![p] = "user"] /\ cpu' = [cpu EXCEPT ![p] = c]
     /\ Leave(p)
     /\ UNCHANGED << loaded, fifo_hand >>

\* A transfer fails: a program trap of the process that waited for it.  The page
\* written out has lost its entry, the frame still has the page in the table;
\* after a failed read the frame holds an unfinished copy.
TransferFailed(p) ==
  /\ at[p] \in {"out", "in"}
  /\ at' = [at EXCEPT ![p] = "dead"]
  /\ mutex' = NULL
  /\ Track(latest, ~ isSwapFrameFree(victim[p]))
  /\ Leave(p)
  /\ UNCHANGED << cpu, loaded, table, tlb >>

-----------------------------------------------------------------------------

Serve(p) == \/ WaitMutex(p) \/ WriteDone(p)
            \/ \E c \in Cpu : ReadDone(p, c) \/ \E f \in Frame : ChooseFrame(p, c, f)

Next ==
  \E p \in Proc :
    \/ Preempt(p) \/ Terminate(p) \/ RefillWrite(p) \/ RefillOutside(p)
    \/ TransferFailed(p) \/ Serve(p)
    \/ \E c \in Cpu : Dispatch(p, c)
    \/ \E v \in Vpn : Store(p, v) \/ RefillRead(p, v) \/ Fault(p, v)

Spec == Init /\ [][Next]_vars

-----------------------------------------------------------------------------

\* A valid page table entry names the frame that the swap pool table gives to
\* that page: no two valid entries share a frame, after reloads, failed
\* transfers and terminations as well (vmSupport.c:48, 60, 69).
ValidBacked == \A k \in Page : pte[k] \in Frame => swap_pool_table[pte[k]] = k

\* Until a hazard, a program finds in every page its TLB admits what it last
\* stored, on whatever CPU it runs and whenever the pager of another CPU gets
\* between the two steps of a refill.  The hazards are that a page is evicted
\* while another CPU has a valid entry of it, in its TLB or in its refill
\* handler, is loaded although it is there, or is half moved by a failed
\* transfer, and that a page number without an entry is refilled: no other step
\* makes a TLB wrong (vmSupport.c:48-51, 59-71, exceptions.c:408-422).
Coherent ==
  ~ hazard =>
    \A p \in Proc, v \in Vpn :
      Running(p) /\ Cached(p, v) \in Frame => Cached(p, v) \in latest[<< p, PageIndex(v) >>]

\* ... the latest contents of a page are where the pager will look for them: in
\* its frame, on flash, or in a frame that is being written out,
NothingLost ==
  ~ hazard =>
    \A k \in Page :
      IF pte[k] \in Frame THEN pte[k] \in latest[k]
      ELSE \/ FLASH \in latest[k]
           \/ \E p \in Proc : /\ at[p] = "out" /\ swap_pool_table[victim[p]] = k
                             /\ victim[p] \in latest[k]

\* ... and no page has two frames in the swap pool table.
OneFrame ==
  ~ hazard =>
    \A f, g \in Frame : swap_pool_table[f] = swap_pool_table[g] /\ f # g => isSwapFrameFree(f)
=============================================================================
