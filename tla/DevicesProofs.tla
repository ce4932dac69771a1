--------------------------- MODULE DevicesProofs ---------------------------
(***************************************************************************)
(* Proofs about device interrupts, for any number of CPUs and any programs *)
(* of the U-procs, and what the index computations of Exceptions, on which *)
(* they rest, guarantee to their callers.                                  *)
(***************************************************************************)
EXTENDS Devices, FiniteSetTheorems, SequenceTheorems, TLAPS

IntLine == 3 .. 7
DevNumber == 0 .. 7

\* The command registers that DOIO is called for: a terminal has two
CommandRegister(line, d, half) ==
  DevRegAddr(line, d) + (IF line = IL_TERMINAL /\ half = "transmitter" THEN 12 ELSE 4)

Half == {"receiver", "transmitter"}

\* The index in device_semaphores of a command register, without the address
SemaphoreIndex(line, d, half) ==
  IF line = IL_TERMINAL THEN 32 + 2 * d + (IF half = "transmitter" THEN 1 ELSE 0)
  ELSE 8 * (line - 3) + d

LEMMA IndexOfRegister ==
  ASSUME NEW line \in IntLine, NEW d \in DevNumber, NEW half \in Half
  PROVE  findDeviceIndex(CommandRegister(line, d, half)) = SemaphoreIndex(line, d, half)
<1> DEFINE word == IF line = IL_TERMINAL /\ half = "transmitter" THEN 12 ELSE 4
           reg == CommandRegister(line, d, half)
           distance == (line - 3) * 128 + d * 16 + word
<1>1. reg - START_DEVREG = distance /\ distance \in Nat
  BY DEF CommandRegister, DevRegAddr, START_DEVREG, IntLine, DevNumber
<1>2. findDeviceIndex(reg) = IF distance >= 32 * 16 THEN 32 + (distance - 32 * 16) \div 8
                             ELSE distance \div 16
  <2> HIDE DEF reg, distance
  <2> QED BY <1>1 DEF findDeviceIndex
<1>3. CASE line = IL_TERMINAL
  <2>1. distance >= 32 * 16 /\ distance - 32 * 16 = d * 16 + word
    BY <1>3 DEF IL_TERMINAL, DevNumber
  <2>2. (d * 16 + word) \div 8 = 2 * d + (IF half = "transmitter" THEN 1 ELSE 0)
    BY <1>3 DEF DevNumber
  <2>3. findDeviceIndex(reg) = 32 + (d * 16 + word) \div 8
    <3> HIDE DEF reg, distance, word
    <3> QED BY <1>2, <2>1
  <2> QED BY <1>3, <2>2, <2>3 DEF SemaphoreIndex, DevNumber
<1>4. CASE line # IL_TERMINAL
  <2>1. ~ (distance >= 32 * 16) /\ distance = 16 * (8 * (line - 3) + d) + 4
    BY <1>4 DEF IL_TERMINAL, IntLine, DevNumber
  <2>2. distance \div 16 = 8 * (line - 3) + d
    BY <2>1 DEF IntLine, DevNumber
  <2>3. findDeviceIndex(reg) = distance \div 16
    <3> HIDE DEF reg, distance
    <3> QED BY <1>2, <2>1
  <2> QED BY <1>4, <2>2, <2>3 DEF SemaphoreIndex
<1> QED BY <1>3, <1>4

\* Two command registers never share a semaphore, and none has that of the
\* pseudo-clock, the last of the 49 (exceptions.c:193-201, 237): a process that
\* waits for one device is not woken by another.
THEOREM DeviceIndexInjective ==
  \A l1, l2 \in IntLine, d1, d2 \in DevNumber, h1, h2 \in Half :
    LET x == findDeviceIndex(CommandRegister(l1, d1, h1))
        y == findDeviceIndex(CommandRegister(l2, d2, h2))
    IN /\ x \in 0 .. 47
       /\ x = y => l1 = l2 /\ d1 = d2 /\ (l1 = IL_TERMINAL => h1 = h2)
<1> TAKE l1, l2 \in IntLine, d1, d2 \in DevNumber, h1, h2 \in Half
<1>1. SemaphoreIndex(l1, d1, h1) \in 0 .. 47
  BY DEF SemaphoreIndex, IntLine, DevNumber, IL_TERMINAL
<1>2. ASSUME SemaphoreIndex(l1, d1, h1) = SemaphoreIndex(l2, d2, h2)
      PROVE  l1 = l2 /\ d1 = d2 /\ (l1 = IL_TERMINAL => h1 = h2)
  BY <1>2 DEF SemaphoreIndex, IntLine, DevNumber, IL_TERMINAL, Half
<1> QED BY <1>1, <1>2, IndexOfRegister

\* intHandler computes the semaphore of a printer or a disk from the first word
\* of its registers, DOIO from the second: it is the same one (interrupts.c:125,
\* exceptions.c:190).
THEOREM SameSemaphore ==
  \A line \in IntLine \ {IL_TERMINAL}, d \in DevNumber, half \in Half :
    findDeviceIndex(DevRegAddr(line, d)) = findDeviceIndex(CommandRegister(line, d, half))
<1> TAKE line \in IntLine \ {IL_TERMINAL}, d \in DevNumber, half \in Half
<1>1. DevRegAddr(line, d) - START_DEVREG = 16 * (8 * (line - 3) + d)
  BY DEF DevRegAddr, START_DEVREG, IntLine, DevNumber
<1>2. /\ ~ (16 * (8 * (line - 3) + d) >= 32 * 16)
      /\ (16 * (8 * (line - 3) + d)) \div 16 = 8 * (line - 3) + d
  BY DEF IntLine, DevNumber, IL_TERMINAL
<1>3. findDeviceIndex(DevRegAddr(line, d)) = SemaphoreIndex(line, d, half)
  BY <1>1, <1>2 DEF findDeviceIndex, SemaphoreIndex
<1> QED BY <1>3, IndexOfRegister

\* Each page of a process has an entry of its own: the index that pager and
\* uTLB_RefillHandler compute from the page number that test wrote into entry j
\* is j (initProc.c:69, vmSupport.c:22-26, exceptions.c:400-405).
THEOREM OwnEntry == \A j \in 0 .. MAXPAGES - 1 : PageIndex(PageNumber(j)) = j
  BY DEF PageIndex, PageNumber, MAXPAGES, FirstVPN, StackVPN

\* Different entries of a page table are for different page numbers; and a page
\* number that passes the range check has the entry that is for it, save 0x8001F,
\* which has the entry of the stack page (initProc.c:69, vmSupport.c:24-30).
THEOREM OwnPage ==
  /\ \A j, k \in 0 .. MAXPAGES - 1 : j # k => PageNumber(j) # PageNumber(k)
  /\ \A vpn \in Nat :
       PageIndex(vpn) \in 0 .. MAXPAGES - 1 /\ vpn # FirstVPN + MAXPAGES - 1
         => PageNumber(PageIndex(vpn)) = vpn
<1>1. \A j, k \in 0 .. MAXPAGES - 1 : j # k => PageNumber(j) # PageNumber(k)
  BY DEF PageNumber, MAXPAGES, FirstVPN, StackVPN
<1>2. \A vpn \in Nat :
        PageIndex(vpn) \in 0 .. MAXPAGES - 1 /\ vpn # FirstVPN + MAXPAGES - 1
          => PageNumber(PageIndex(vpn)) = vpn
  BY DEF PageIndex, PageNumber, MAXPAGES, FirstVPN, StackVPN
<1> QED BY <1>1, <1>2

\* The chain of tests of getdevNo returns a device that interrupts, the one with
\* the lowest number, and -1 when no device does (interrupts.c:173-184).
THEOREM LowestDevice ==
  ASSUME NEW bitmap \in SUBSET DevNumber
  PROVE  /\ bitmap = {} => getdevNo(bitmap) = -1
         /\ bitmap # {} => /\ getdevNo(bitmap) \in bitmap
                           /\ \A d \in bitmap : getdevNo(bitmap) <= d
<1>1. CASE bitmap = {}
  BY <1>1 DEF getdevNo
<1>2. CASE bitmap # {}
  <2>1. \A d \in bitmap : d \in 0 .. 7
    BY DEF DevNumber
  <2>2. getdevNo(bitmap) \in bitmap
    <3>1. PICK d \in bitmap : d \in 0 .. 7
      BY <1>2, <2>1
    <3>2. d = 0 \/ d = 1 \/ d = 2 \/ d = 3 \/ d = 4 \/ d = 5 \/ d = 6 \/ d = 7
      BY <3>1
    <3> QED BY <3>1, <3>2 DEF getdevNo
  <2>3. ASSUME NEW d \in bitmap PROVE getdevNo(bitmap) <= d
    <3>1. d \in 0 .. 7
      BY <2>1
    <3>2. d = 0 \/ d = 1 \/ d = 2 \/ d = 3 \/ d = 4 \/ d = 5 \/ d = 6 \/ d = 7
      BY <3>1
    <3> QED BY <3>2 DEF getdevNo
  <2> QED BY <1>2, <2>2, <2>3
<1> QED BY <1>1, <1>2

-----------------------------------------------------------------------------
(* The units of Devices *)

LEMMA DeviceFacts ==
  /\ \A d \in DevNo : d \in DevNumber
  /\ Cardinality(Cpu) \in Nat
BY DevicesAssumption, FS_CardinalityType DEF DevNumber

\* The three units of a U-proc and their semaphores
LEMMA UnitIndices ==
  ASSUME NEW d \in DevNo
  PROVE  /\ findDeviceIndex(Printer(d)) = 24 + d
         /\ findDeviceIndex(Receiver(d)) = 32 + 2 * d
         /\ findDeviceIndex(Transmitter(d)) = 33 + 2 * d
<1>1. /\ d \in DevNumber /\ IL_PRINTER \in IntLine /\ IL_TERMINAL \in IntLine
      /\ IL_PRINTER # IL_TERMINAL /\ "receiver" \in Half /\ "transmitter" \in Half
  BY DeviceFacts DEF IL_PRINTER, IL_TERMINAL, IntLine, Half
<1>2. /\ Printer(d) = CommandRegister(IL_PRINTER, d, "receiver")
      /\ Receiver(d) = CommandRegister(IL_TERMINAL, d, "receiver")
      /\ Transmitter(d) = CommandRegister(IL_TERMINAL, d, "transmitter")
  BY <1>1 DEF Printer, Receiver, Transmitter, CommandRegister
<1>3. /\ SemaphoreIndex(IL_PRINTER, d, "receiver") = 24 + d
      /\ SemaphoreIndex(IL_TERMINAL, d, "receiver") = 32 + 2 * d
      /\ SemaphoreIndex(IL_TERMINAL, d, "transmitter") = 33 + 2 * d
  BY <1>1 DEF SemaphoreIndex, IL_PRINTER, IL_TERMINAL, DevNumber
<1> QED BY <1>1, <1>2, <1>3, IndexOfRegister

\* Who calls for a unit is known from the unit.
LEMMA OwnUnit ==
  ASSUME NEW d \in DevNo, NEW call \in DeviceCall
  PROVE  /\ UnitOf(d, call) \in Unit
         /\ \A e \in DevNo, other \in DeviceCall :
              findDeviceIndex(UnitOf(d, call)) = findDeviceIndex(UnitOf(e, other))
                => d = e /\ call = other
<1>1. /\ UnitOf(d, "SYS3") = Printer(d) /\ UnitOf(d, "SYS4") = Transmitter(d)
      /\ UnitOf(d, "SYS5") = Receiver(d)
  BY DEF UnitOf
<1>2. \A e \in DevNo :
        /\ findDeviceIndex(UnitOf(e, "SYS3")) = 24 + e /\ e \in 0 .. 7
        /\ findDeviceIndex(UnitOf(e, "SYS4")) = 33 + 2 * e
        /\ findDeviceIndex(UnitOf(e, "SYS5")) = 32 + 2 * e
  BY UnitIndices, DeviceFacts DEF UnitOf, DevNumber
<1>3. UnitOf(d, call) \in Unit
  BY <1>1 DEF Unit, DeviceCall
<1>4. ASSUME NEW e \in DevNo, NEW other \in DeviceCall,
             findDeviceIndex(UnitOf(d, call)) = findDeviceIndex(UnitOf(e, other))
      PROVE  d = e /\ call = other
  <2>1. call \in {"SYS3", "SYS4", "SYS5"} /\ other \in {"SYS3", "SYS4", "SYS5"}
    BY DEF DeviceCall
  <2> QED BY <1>2, <1>4, <2>1
<1> QED BY <1>3, <1>4

LEMMA EveryUnit ==
  \A u \in Unit : \E d \in DevNo, call \in DeviceCall : u = UnitOf(d, call)
BY DEF Unit, UnitOf, DeviceCall

\* Units with one semaphore are one unit.
LEMMA OwnIndex ==
  ASSUME NEW u \in Unit, NEW v \in Unit, findDeviceIndex(u) = findDeviceIndex(v)
  PROVE  u = v
<1>1. PICK d \in DevNo, call \in DeviceCall : u = UnitOf(d, call)
  BY EveryUnit
<1>2. PICK e \in DevNo, other \in DeviceCall : v = UnitOf(e, other)
  BY EveryUnit
<1> QED BY <1>1, <1>2, OwnUnit

\* The status that a terminal has at its completion is no printer's.
LEMMA DoneValues ==
  ASSUME NEW d \in DevNo
  PROVE  DONE(Receiver(d)) = 5 /\ DONE(Transmitter(d)) = 5 /\ DONE(Printer(d)) = READY
<1>1. \A e \in DevNo : Printer(e) # Receiver(d) /\ Printer(e) # Transmitter(d)
  BY UnitIndices, DeviceFacts DEF DevNumber
<1> QED BY <1>1 DEF DONE

-----------------------------------------------------------------------------
(* The inductive invariant *)

\* The queue of a unit
Queue(u) == blocked[findDeviceIndex(u)]

\* In the queue of a unit is at most the U-proc whose call is about the unit.
OwnQueue ==
  \A u \in Unit : Queue(u) # << >> =>
    \E d \in DevNo, call \in DeviceCall :
      at[d] = call /\ UnitOf(d, call) = u /\ Queue(u) = << d >>

\* A unit that interrupts has finished.
Finished == \A u \in Unit : irq[u] # NULL => status[u] \in {DONE(u), ERROR}

\* OneWaiterPerOperation, and a unit without an operation was acknowledged
Matched ==
  ~ stale => \A u \in Unit : /\ Len(Queue(u)) = Operations(u)
                             /\ irq[u] = NULL /\ status[u] # BUSY => status[u] = READY

IInv == TypeOK /\ OwnQueue /\ WaiterServed /\ Finished /\ Matched

LEMMA InitEstablishes ==
  ASSUME Init
  PROVE  IInv
<1>1. << >> \in Seq(DevNo) /\ Len(<< >>) = 0
  BY EmptySeq
<1>2. \A u \in Unit : /\ findDeviceIndex(u) \in Index /\ Queue(u) = << >>
                      /\ status[u] = READY /\ irq[u] = NULL /\ commands[u] = 0
  BY DEF Init, Index, Queue
<1>3. TypeOK
  <2>1. 0 \in 0 .. Cardinality(Cpu)
    BY DeviceFacts
  <2>2. /\ at \in [DevNo -> DeviceCall \cup {"user", "gone"}]
        /\ ret \in [DevNo -> {0, READY, 2, BUSY, ERROR, 5}]
        /\ blocked \in [Index -> Seq(DevNo)]
    BY <1>1 DEF Init
  <2>3. /\ commands \in [Unit -> 0 .. Cardinality(Cpu)]
        /\ status \in [Unit -> {READY, BUSY, ERROR, 5}]
        /\ irq \in [Unit -> Cpu \cup {NULL}]
    BY <2>1 DEF Init
  <2>4. cpu \in [Cpu -> [line : Line \cup {0}, dev : DevNo \cup {-1, NULL}]]
    BY DEF Init, Idle
  <2>5. stale \in BOOLEAN
    BY DEF Init
  <2> QED BY <2>2, <2>3, <2>4, <2>5 DEF TypeOK
<1>4. OwnQueue /\ WaiterServed /\ Finished
  BY <1>2 DEF OwnQueue, WaiterServed, Finished, Queue
<1>5. \A u \in Unit : Operations(u) = 0
  BY <1>2 DEF Operations, READY, BUSY
<1>6. Matched
  BY <1>1, <1>2, <1>5 DEF Matched
<1> QED BY <1>3, <1>4, <1>6 DEF IInv

-----------------------------------------------------------------------------
(* The calls *)

\* A DOIO of a U-proc that does not wait finds its queue empty and waits in it.
LEMMA DoIOStep ==
  ASSUME IInv, NEW d \in DevNo, NEW call \in DeviceCall, DoIO(d, UnitOf(d, call)),
         at' = [at EXCEPT ![d] = call],
         at[d] = "user" \/ (at[d] = call /\ ~ Waits(d)),
         ret' \in [DevNo -> {0, READY, 2, BUSY, ERROR, 5}],
         UNCHANGED << status, irq, cpu, stale >>
  PROVE  IInv'
<1> DEFINE w == UnitOf(d, call)
           x == findDeviceIndex(w)
<1>1. /\ TypeOK /\ OwnQueue /\ WaiterServed /\ Finished /\ Matched
  BY DEF IInv
<1>2. w \in Unit /\ x \in Index /\ \A u \in Unit : findDeviceIndex(u) \in Index
  BY OwnUnit DEF Index
<1>3. blocked[x] = << >>
  <2> SUFFICES ASSUME blocked[x] # << >> PROVE FALSE
    OBVIOUS
  <2>1. PICK e \in DevNo, other \in DeviceCall :
          at[e] = other /\ UnitOf(e, other) = w /\ blocked[x] = << e >>
    BY <1>1, <1>2 DEF OwnQueue, Queue
  <2>2. e = d /\ other = call
    BY <2>1, OwnUnit
  <2>3. at[d] = call /\ call # "user" /\ blocked[x] = << d >>
    BY <2>1, <2>2 DEF DeviceCall
  <2>4. Waits(d)
    BY <1>2, <2>3 DEF Waits
  <2> QED BY <2>3, <2>4
<1>4. /\ commands[w] < Cardinality(Cpu)
      /\ blocked' = [blocked EXCEPT ![x] = Append(@, d)]
      /\ commands' = [commands EXCEPT ![w] = @ + 1]
  BY DEF DoIO
<1>5. Append(<< >>, d) = << d >> /\ << d >> \in Seq(DevNo) /\ Len(<< d >>) = 1 /\ << d >> # << >>
  BY EmptySeq, AppendProperties
<1>6. \A u \in Unit \ {w} : findDeviceIndex(u) # x
  BY <1>2, OwnIndex
<1>7. /\ blocked' \in [Index -> Seq(DevNo)] /\ Queue(w)' = << d >>
      /\ \A u \in Unit \ {w} : Queue(u)' = Queue(u)
  BY <1>1, <1>2, <1>3, <1>4, <1>5, <1>6 DEF TypeOK, Queue
<1>8. /\ commands' \in [Unit -> 0 .. Cardinality(Cpu)] /\ commands'[w] = commands[w] + 1
      /\ commands[w] \in Nat
      /\ \A u \in Unit \ {w} : commands'[u] = commands[u]
  BY <1>1, <1>2, <1>4, DeviceFacts DEF TypeOK
<1>9. /\ at' \in [DevNo -> DeviceCall \cup {"user", "gone"}] /\ at'[d] = call
      /\ \A e \in DevNo \ {d} : at'[e] = at[e]
  BY <1>1 DEF TypeOK
<1> HIDE DEF x, w
<1>10. TypeOK'
  BY <1>1, <1>7, <1>8, <1>9 DEF TypeOK
<1>11. OwnQueue'
  <2> SUFFICES ASSUME NEW u \in Unit, Queue(u)' # << >>
               PROVE  \E e \in DevNo, other \in DeviceCall :
                        at'[e] = other /\ UnitOf(e, other) = u /\ Queue(u)' = << e >>
    BY DEF OwnQueue
  <2>1. CASE u = w
    BY <2>1, <1>7, <1>9 DEF w
  <2>2. CASE u # w
    <3>1. PICK e \in DevNo, other \in DeviceCall :
            at[e] = other /\ UnitOf(e, other) = u /\ Queue(u) = << e >>
      BY <1>1, <1>7, <2>2 DEF OwnQueue
    <3>2. e # d
      BY <2>2, <3>1 DEF w, DeviceCall
    <3> QED BY <1>7, <1>9, <2>2, <3>1, <3>2
  <2> QED BY <2>1, <2>2
<1>12. /\ Operations(w)' = Operations(w) + 1 /\ Operations(w) \in Nat
       /\ \A u \in Unit \ {w} : Operations(u)' = Operations(u)
  BY <1>2, <1>8 DEF Operations, w
<1>13. WaiterServed'
  <2>1. \A u \in Unit \ {w} : Queue(u)' # << >> => Operations(u)' > 0
    BY <1>1, <1>7, <1>12 DEF WaiterServed, Queue
  <2>2. Operations(w)' > 0
    BY <1>12
  <2> QED BY <2>1, <2>2 DEF WaiterServed, Queue
<1>14. Finished'
  BY <1>1 DEF Finished
<1>15. Matched'
  <2>1. Len(Queue(w)) = 0 /\ Len(Queue(w)') = 1
    BY <1>3, <1>5, <1>7, EmptySeq DEF Queue, x
  <2>2. w \in Unit
    BY <1>2 DEF w
  <2> SUFFICES ASSUME ~ stale', NEW u \in Unit
               PROVE  /\ Len(Queue(u)') = Operations(u)'
                      /\ irq'[u] = NULL /\ status'[u] # BUSY => status'[u] = READY
    BY DEF Matched
  <2>3. /\ Len(Queue(u)) = Operations(u)
        /\ irq[u] = NULL /\ status[u] # BUSY => status[u] = READY
    BY <1>1 DEF Matched
  <2>4. Len(Queue(u)') = Operations(u)'
    <3>1. CASE u = w
      BY <1>12, <2>1, <2>3, <3>1
    <3>2. CASE u # w
      BY <1>7, <1>12, <2>3, <3>2
    <3> QED BY <3>1, <3>2
  <2> QED BY <2>3, <2>4
<1> QED BY <1>10, <1>11, <1>13, <1>14, <1>15 DEF IInv

\* A U-proc that does not wait goes on somewhere else.
LEMMA LeaveStep ==
  ASSUME IInv, NEW d \in DevNo, NEW place \in {"user", "gone"}, Leave(d, place),
         at[d] = "user" \/ ~ Waits(d), UNCHANGED << status, irq, cpu, stale >>
  PROVE  IInv'
<1>1. /\ TypeOK /\ OwnQueue /\ WaiterServed /\ Finished /\ Matched
  BY DEF IInv
<1>2. /\ at' \in [DevNo -> DeviceCall \cup {"user", "gone"}]
      /\ ret' \in [DevNo -> {0, READY, 2, BUSY, ERROR, 5}]
      /\ \A e \in DevNo \ {d} : at'[e] = at[e]
      /\ UNCHANGED << blocked, commands >>
  BY <1>1 DEF Leave, TypeOK
<1>3. TypeOK'
  BY <1>1, <1>2 DEF TypeOK
<1>4. OwnQueue'
  <2> SUFFICES ASSUME NEW u \in Unit, Queue(u)' # << >>
               PROVE  \E e \in DevNo, other \in DeviceCall :
                        at'[e] = other /\ UnitOf(e, other) = u /\ Queue(u)' = << e >>
    BY DEF OwnQueue
  <2>1. Queue(u)' = Queue(u) /\ findDeviceIndex(u) \in Index
    BY <1>2 DEF Queue, Index
  <2>2. PICK e \in DevNo, other \in DeviceCall :
          at[e] = other /\ UnitOf(e, other) = u /\ Queue(u) = << e >>
    BY <1>1, <2>1 DEF OwnQueue
  <2>3. e # d
    <3>1. Waits(e) /\ at[e] # "user"
      BY <2>1, <2>2 DEF Waits, Queue, DeviceCall
    <3> QED BY <3>1
  <2> QED BY <1>2, <2>1, <2>2, <2>3
<1>5. \A u \in Unit : Queue(u)' = Queue(u) /\ Operations(u)' = Operations(u)
  BY <1>2 DEF Queue, Operations
<1>6. WaiterServed' /\ Finished' /\ Matched'
  BY <1>1, <1>5 DEF WaiterServed, Finished, Matched, Queue
<1> QED BY <1>3, <1>4, <1>6 DEF IInv

LEMMA UprocStep ==
  ASSUME IInv, NEW d \in DevNo,
         \/ \E call \in Program[d] : Call(d, call)
         \/ PrinterDone(d) \/ TerminalNext(d, "SYS4") \/ TerminalNext(d, "SYS5")
  PROVE  IInv'
<1>1. TypeOK /\ Program[d] \subseteq DeviceCall
  BY DevicesAssumption DEF IInv
<1>2. ASSUME NEW call \in DeviceCall, Call(d, call) PROVE IInv'
  <2>1. CASE Leave(d, "gone")
    BY <1>2, <2>1, LeaveStep DEF Call
  <2>2. CASE at' = [at EXCEPT ![d] = call] /\ DoIO(d, UnitOf(d, call)) /\ UNCHANGED ret
    <3>1. ret' \in [DevNo -> {0, READY, 2, BUSY, ERROR, 5}]
      BY <1>1, <2>2 DEF TypeOK
    <3>2. at[d] = "user" /\ UNCHANGED << status, irq, cpu, stale >>
      BY <1>2 DEF Call
    <3>3. /\ DoIO(d, UnitOf(d, call)) /\ at' = [at EXCEPT ![d] = call]
          /\ at[d] = "user" \/ (at[d] = call /\ ~ Waits(d))
      BY <2>2, <3>2
    <3> QED BY <3>1, <3>2, <3>3, DoIOStep
  <2> QED BY <1>2, <2>1, <2>2 DEF Call
<1>3. CASE PrinterDone(d)
  BY <1>3, LeaveStep DEF PrinterDone
<1>4. ASSUME NEW call \in {"SYS4", "SYS5"}, TerminalNext(d, call) PROVE IInv'
  <2>1. CASE Leave(d, "gone")
    BY <1>4, <2>1, LeaveStep DEF TerminalNext
  <2>2. CASE DoIO(d, UnitOf(d, call)) /\ ret' = [ret EXCEPT ![d] = 0] /\ UNCHANGED at
    <3>1. ret' \in [DevNo -> {0, READY, 2, BUSY, ERROR, 5}]
      BY <1>1, <2>2 DEF TypeOK
    <3>2. at' = [at EXCEPT ![d] = call] /\ call \in DeviceCall
      BY <1>1, <1>4, <2>2 DEF TerminalNext, TypeOK, DeviceCall
    <3> QED BY <1>4, <2>2, <3>1, <3>2, DoIOStep DEF TerminalNext
  <2> QED BY <1>4, <2>1, <2>2 DEF TerminalNext
<1> QED BY <1>1, <1>2, <1>3, <1>4

-----------------------------------------------------------------------------
(* The devices *)

LEMMA CommandStep ==
  ASSUME IInv, NEW u \in Unit, Command(u)
  PROVE  IInv'
<1>1. /\ TypeOK /\ OwnQueue /\ WaiterServed /\ Finished /\ Matched
  BY DEF IInv
<1>2. /\ commands[u] \in Nat /\ commands[u] > 0 /\ commands'[u] = commands[u] - 1
      /\ commands' \in [Unit -> 0 .. Cardinality(Cpu)]
      /\ \A v \in Unit \ {u} : commands'[v] = commands[v]
      /\ UNCHANGED << at, ret, blocked, cpu, stale >>
  BY <1>1, DeviceFacts DEF Command, TypeOK
<1>3. /\ status' \in [Unit -> {READY, BUSY, ERROR, 5}] /\ irq' \in [Unit -> Cpu \cup {NULL}]
      /\ \A v \in Unit \ {u} : status'[v] = status[v] /\ irq'[v] = irq[v]
      /\ status'[u] = BUSY /\ irq'[u] \in {irq[u], NULL}
      /\ status[u] # BUSY => irq'[u] = NULL
  BY <1>1 DEF Command, WriteCommand, TypeOK
<1>4. TypeOK'
  BY <1>1, <1>2, <1>3 DEF TypeOK
<1>5. \A v \in Unit : Queue(v)' = Queue(v)
  BY <1>2 DEF Queue
<1>6. OwnQueue'
  BY <1>1, <1>2, <1>5 DEF OwnQueue
<1>7. \A v \in Unit \ {u} : Operations(v)' = Operations(v)
  BY <1>2, <1>3 DEF Operations
<1>8. Operations(u)' = commands[u]
  BY <1>2, <1>3 DEF Operations
<1>9. WaiterServed'
  BY <1>1, <1>2, <1>5, <1>7, <1>8 DEF WaiterServed, Queue
<1>10. Finished'
  <2>1. irq[u] # NULL => status[u] # BUSY
    <3>1. DONE(u) # BUSY /\ ERROR # BUSY
      BY DEF DONE, BUSY, READY, ERROR
    <3> QED BY <1>1, <3>1 DEF Finished
  <2>2. irq'[u] = NULL
    BY <1>3, <2>1
  <2> QED BY <1>1, <1>3, <2>2 DEF Finished
<1>11. Matched'
  <2> SUFFICES ASSUME ~ stale', NEW v \in Unit
               PROVE  /\ Len(Queue(v)') = Operations(v)'
                      /\ irq'[v] = NULL /\ status'[v] # BUSY => status'[v] = READY
    BY DEF Matched
  <2>1. /\ Len(Queue(v)) = Operations(v)
        /\ irq[v] = NULL /\ status[v] # BUSY => status[v] = READY
    BY <1>1, <1>2 DEF Matched
  <2>2. CASE v # u
    BY <1>3, <1>5, <1>7, <2>1, <2>2
  <2>3. CASE v = u
    <3>1. Len(Queue(u)) \in {0, 1}
      <4>1. \A d \in DevNo : Len(<< d >>) = 1
        OBVIOUS
      <4> QED BY <1>1, <4>1, EmptySeq DEF OwnQueue
    <3>2. Operations(u) = commands[u]
      BY <1>2, <2>1, <2>3, <3>1 DEF Operations
    <3> QED BY <1>3, <1>5, <1>8, <2>1, <2>3, <3>2
  <2> QED BY <2>2, <2>3
<1> QED BY <1>4, <1>6, <1>9, <1>10, <1>11 DEF IInv

LEMMA CompleteStep ==
  ASSUME IInv, NEW u \in Unit, Complete(u)
  PROVE  IInv'
<1>1. /\ TypeOK /\ OwnQueue /\ WaiterServed /\ Finished /\ Matched
  BY DEF IInv
<1>2. NULL \notin Cpu /\ DONE(u) \in {READY, 5}
  BY DevicesAssumption DEF DONE
<1>3. /\ status[u] = BUSY /\ status'[u] \in {DONE(u), ERROR}
      /\ status' \in [Unit -> {READY, BUSY, ERROR, 5}]
      /\ irq' \in [Unit -> Cpu \cup {NULL}] /\ irq'[u] # NULL
      /\ \A v \in Unit \ {u} : status'[v] = status[v] /\ irq'[v] = irq[v]
      /\ UNCHANGED << at, ret, blocked, commands, cpu, stale >>
  BY <1>1, <1>2 DEF Complete, TypeOK
<1>4. TypeOK'
  BY <1>1, <1>3 DEF TypeOK
<1>5. \A v \in Unit : Queue(v)' = Queue(v) /\ Operations(v)' = Operations(v)
  BY <1>3 DEF Queue, Operations
<1>6. OwnQueue' /\ WaiterServed' /\ Finished'
  BY <1>1, <1>3, <1>5 DEF OwnQueue, WaiterServed, Finished, Queue
<1>7. Matched'
  BY <1>1, <1>3, <1>5 DEF Matched
<1> QED BY <1>4, <1>6, <1>7 DEF IInv

-----------------------------------------------------------------------------
(* The interrupts *)

LEMMA ReadStep ==
  ASSUME IInv, NEW c \in Cpu, ReadBitmap(c) \/ \E line \in Line : Take(c, line)
  PROVE  IInv'
<1>1. /\ TypeOK /\ OwnQueue /\ WaiterServed /\ Finished /\ Matched
  BY DEF IInv
<1>2. UNCHANGED << at, ret, blocked, commands, status, irq, stale >>
  BY DEF ReadBitmap, Take
<1>3. \A S \in SUBSET DevNo : getdevNo(S) \in DevNo \cup {-1}
  <2> SUFFICES ASSUME NEW S \in SUBSET DevNo PROVE getdevNo(S) \in DevNo \cup {-1}
    OBVIOUS
  <2>1. S \in SUBSET DevNumber
    BY DeviceFacts
  <2>2. CASE S = {}
    BY <2>1, <2>2, LowestDevice
  <2>3. CASE S # {}
    BY <2>1, <2>3, LowestDevice
  <2> QED BY <2>2, <2>3
<1>4. cpu' \in [Cpu -> [line : Line \cup {0}, dev : DevNo \cup {-1, NULL}]]
  <2>1. cpu \in [Cpu -> [line : Line \cup {0}, dev : DevNo \cup {-1, NULL}]]
    BY <1>1 DEF TypeOK
  <2>2. CASE ReadBitmap(c)
    <3>1. Interrupting(cpu[c].line) \in SUBSET DevNo
      BY DEF Interrupting
    <3>2. PICK d \in DevNo \cup {-1} : cpu' = [cpu EXCEPT ![c].dev = d]
      BY <1>3, <2>2, <3>1 DEF ReadBitmap
    <3> QED BY <2>1, <3>2
  <2>3. ASSUME NEW line \in Line, Take(c, line)
        PROVE  cpu' \in [Cpu -> [line : Line \cup {0}, dev : DevNo \cup {-1, NULL}]]
    <3>1. cpu' = [cpu EXCEPT ![c].line = line]
      BY <2>3 DEF Take
    <3> QED BY <2>1, <3>1
  <2> QED BY <2>2, <2>3
<1>5. TypeOK'
  BY <1>1, <1>2, <1>4 DEF TypeOK
<1>6. \A v \in Unit : Queue(v)' = Queue(v) /\ Operations(v)' = Operations(v)
  BY <1>2 DEF Queue, Operations
<1>7. OwnQueue' /\ WaiterServed' /\ Finished' /\ Matched'
  BY <1>1, <1>2, <1>6 DEF OwnQueue, WaiterServed, Finished, Matched, Queue
<1> QED BY <1>5, <1>7 DEF IInv

Status == {0, READY, 2, BUSY, ERROR, 5}

\* An acknowledgement and a V for the same register.  It may be no unit at all:
\* then no unit is acknowledged, though one may lose its waiter.
LEMMA ServedEffect ==
  ASSUME IInv, NEW a, NEW value \in Status, Acknowledge(a), Wake(a, value)
  PROVE  /\ blocked' \in [Index -> Seq(DevNo)] /\ ret' \in [DevNo -> Status]
         /\ status' \in [Unit -> {READY, BUSY, ERROR, 5}] /\ irq' \in [Unit -> Cpu \cup {NULL}]
         /\ \A u \in Unit : Queue(u)' \in {Queue(u), << >>}
         /\ \A u \in Unit \ {a} : /\ status'[u] = status[u] /\ irq'[u] = irq[u]
                                  /\ a \in Unit => Queue(u)' = Queue(u)
         /\ a \in Unit =>
              /\ Queue(a)' = << >>
              /\ IF status[a] # BUSY THEN status'[a] = READY /\ irq'[a] = NULL
                 ELSE status'[a] = status[a] /\ irq'[a] = irq[a]
<1> DEFINE x == findDeviceIndex(a)
<1>1. TypeOK /\ OwnQueue
  BY DEF IInv
<1>2. /\ status' \in [Unit -> {READY, BUSY, ERROR, 5}] /\ irq' \in [Unit -> Cpu \cup {NULL}]
      /\ \A u \in Unit \ {a} : status'[u] = status[u] /\ irq'[u] = irq[u]
      /\ a \in Unit => IF status[a] # BUSY THEN status'[a] = READY /\ irq'[a] = NULL
                       ELSE status'[a] = status[a] /\ irq'[a] = irq[a]
  BY <1>1 DEF Acknowledge, WriteCommand, TypeOK
<1>3. /\ \A u \in Unit : findDeviceIndex(u) \in Index
      /\ a \in Unit => x \in Index /\ \A u \in Unit \ {a} : findDeviceIndex(u) # x
  BY OwnIndex DEF Index
<1>4. CASE x \in Index /\ blocked[x] # << >>
  <2>1. PICK d \in DevNo : blocked[x] = << d >>
    <3>1. PICK u \in Unit : x = findDeviceIndex(u)
      BY <1>4 DEF Index
    <3> QED BY <1>1, <1>4, <3>1 DEF OwnQueue, Queue
  <2>2. Tail(<< d >>) = << >> /\ Head(<< d >>) = d /\ << >> \in Seq(DevNo)
    BY EmptySeq
  <2>3. /\ blocked' = [blocked EXCEPT ![x] = Tail(blocked[x])]
        /\ ret' = [ret EXCEPT ![Head(blocked[x])] = value]
    BY <1>4 DEF Wake
  <2>4. blocked' = [blocked EXCEPT ![x] = << >>] /\ ret' = [ret EXCEPT ![d] = value]
    BY <2>1, <2>2, <2>3
  <2>5. blocked' \in [Index -> Seq(DevNo)] /\ ret' \in [DevNo -> Status]
    BY <1>1, <2>2, <2>4 DEF TypeOK, Status
  <2>6. /\ blocked'[x] = << >> /\ \A y \in Index \ {x} : blocked'[y] = blocked[y]
    BY <1>1, <1>4, <2>4 DEF TypeOK
  <2> HIDE DEF x
  <2>7. /\ \A u \in Unit : Queue(u)' \in {Queue(u), << >>}
        /\ a \in Unit => \A u \in Unit \ {a} : Queue(u)' = Queue(u)
    BY <1>3, <2>6 DEF Queue
  <2>8. Queue(a)' = << >>
    BY <2>6 DEF Queue, x
  <2> QED BY <1>2, <2>5, <2>7, <2>8
<1>5. CASE ~ (x \in Index /\ blocked[x] # << >>)
  <2>1. UNCHANGED << blocked, ret >>
    BY <1>5 DEF Wake
  <2>2. \A u \in Unit : Queue(u)' = Queue(u)
    BY <2>1 DEF Queue
  <2>3. a \in Unit => Queue(a)' = << >>
    BY <1>3, <1>5, <2>1 DEF Queue
  <2>4. blocked' \in [Index -> Seq(DevNo)] /\ ret' \in [DevNo -> Status]
    BY <1>1, <2>1 DEF TypeOK, Status
  <2> QED BY <1>2, <2>2, <2>3, <2>4
<1> QED BY <1>4, <1>5

\* It leaves nobody without the interrupt to come, and when the register is that
\* of a unit that interrupts, one waiter goes with one operation.
LEMMA ServedKeeps ==
  ASSUME IInv, NEW a, NEW value \in Status, Acknowledge(a), Wake(a, value),
         UNCHANGED << at, commands >>
  PROVE  /\ OwnQueue' /\ WaiterServed' /\ Finished'
         /\ ~ stale /\ a \in Unit /\ irq[a] # NULL => Matched'
<1>1. /\ TypeOK /\ OwnQueue /\ WaiterServed /\ Finished /\ Matched
  BY DEF IInv
<1>2. /\ \A u \in Unit : Queue(u)' \in {Queue(u), << >>}
      /\ \A u \in Unit \ {a} : /\ status'[u] = status[u] /\ irq'[u] = irq[u]
                               /\ a \in Unit => Queue(u)' = Queue(u)
      /\ a \in Unit =>
           /\ Queue(a)' = << >>
           /\ IF status[a] # BUSY THEN status'[a] = READY /\ irq'[a] = NULL
              ELSE status'[a] = status[a] /\ irq'[a] = irq[a]
  BY ServedEffect
<1>3. \A u \in Unit \ {a} : Operations(u)' = Operations(u)
  BY <1>2 DEF Operations
<1>4. OwnQueue'
  BY <1>1, <1>2 DEF OwnQueue
<1>5. WaiterServed'
  <2> SUFFICES ASSUME NEW u \in Unit, Queue(u)' # << >> PROVE Operations(u)' > 0
    BY DEF WaiterServed, Queue
  <2>1. u # a /\ Queue(u)' = Queue(u)
    BY <1>2
  <2> QED BY <1>1, <1>3, <2>1 DEF WaiterServed, Queue
<1>6. Finished'
  BY <1>1, <1>2 DEF Finished
<1>7. ASSUME ~ stale, a \in Unit, irq[a] # NULL PROVE Matched'
  <2>1. commands[a] \in Nat /\ Queue(a)' = << >>
    BY <1>1, <1>2, <1>7, DeviceFacts DEF TypeOK
  <2>2. commands[a] = 0
    <3>1. Len(Queue(a)) \in {0, 1}
      <4>1. \A d \in DevNo : Len(<< d >>) = 1
        OBVIOUS
      <4> QED BY <1>1, <1>7, <4>1, EmptySeq DEF OwnQueue
    <3>2. Len(Queue(a)) = Operations(a)
      BY <1>1, <1>7 DEF Matched
    <3> QED BY <1>7, <2>1, <3>1, <3>2 DEF Operations
  <2>3. status'[a] = READY /\ irq'[a] = NULL
    <3>1. status[a] # BUSY
      BY <1>1, <1>7 DEF Finished, DONE, BUSY, READY, ERROR
    <3> QED BY <1>2, <1>7, <3>1
  <2>4. Len(Queue(a)') = 0 /\ Operations(a)' = 0
    BY <2>1, <2>2, <2>3, EmptySeq DEF Operations, READY, BUSY
  <2>5. \A u \in Unit \ {a} : /\ Len(Queue(u)') = Operations(u)'
                              /\ irq'[u] = NULL /\ status'[u] # BUSY => status'[u] = READY
    BY <1>1, <1>2, <1>3, <1>7 DEF Matched
  <2> QED BY <2>3, <2>4, <2>5 DEF Matched
<1> QED BY <1>4, <1>5, <1>6, <1>7

Served(a, value) == Acknowledge(a) /\ Wake(a, value)

\* What intHandler does is a service of some register, or nothing.
LEMMA HandleEffect ==
  ASSUME IInv, NEW c \in Cpu, Handle(c)
  PROVE  \/ \E a \in Int, value \in Status : Served(a, value)
         \/ UNCHANGED << status, irq, blocked, ret >>
<1> DEFINE base == DevRegAddr(cpu[c].line, cpu[c].dev)
<1>1. /\ TypeOK /\ \A u \in Unit : status[u] \in Status
  BY DEF IInv, TypeOK, Status
<1>2. Recv(base) \in Status /\ Transm(base) \subseteq Status
  BY <1>1 DEF Recv, Transm, Status
<1>3. cpu[c].line \in {IL_PRINTER, IL_TERMINAL} /\ cpu[c].dev # NULL
  BY DEF Handle
<1>4. cpu[c].dev \in Int
  <2>1. cpu[c] \in [line : Line \cup {0}, dev : DevNo \cup {-1, NULL}]
    BY <1>1 DEF TypeOK
  <2>2. cpu[c].dev \in DevNo \cup {-1}
    BY <1>3, <2>1
  <2> QED BY <2>2, DeviceFacts DEF DevNumber
<1>5. base \in Int
  BY <1>3, <1>4 DEF DevRegAddr, START_DEVREG, IL_PRINTER, IL_TERMINAL
<1>6. \/ Served(base + 4, Recv(base))
      \/ \E value \in Transm(base) : Served(base + 12, value)
      \/ UNCHANGED << status, irq, blocked, ret >>
  BY DEF Handle, Served
<1>7. base + 4 \in Int /\ base + 12 \in Int
  BY <1>5
<1> HIDE DEF base
<1> QED BY <1>2, <1>6, <1>7

\* When the device still interrupts, it is the unit that interrupts that is
\* served: the two halves of a terminal are never at work together.
LEMMA HandleServes ==
  ASSUME IInv, NEW c \in Cpu, Handle(c), ~ stale'
  PROVE  ~ stale /\ \E a \in Unit, value \in Status : irq[a] # NULL /\ Served(a, value)
<1> DEFINE d == cpu[c].dev
           line == cpu[c].line
           base == DevRegAddr(line, d)
<1>1. /\ TypeOK /\ OwnQueue /\ Finished /\ Matched
  BY DEF IInv
<1>2. ~ stale /\ d \in Interrupting(line)
  BY DEF Handle
<1>3. d \in DevNo /\ \E u \in UnitsOf(line, d) : irq[u] # NULL
  BY <1>2 DEF Interrupting
<1>4. /\ Printer(d) \in Unit /\ Receiver(d) \in Unit /\ Transmitter(d) \in Unit
      /\ DONE(Receiver(d)) = 5 /\ DONE(Transmitter(d)) = 5
  BY <1>3, DoneValues DEF Unit
<1>5. \A u \in Unit : status[u] \in Status
  BY <1>1 DEF TypeOK, Status
<1>6. CASE line = IL_PRINTER
  <2>1. base + 4 = Printer(d) /\ UnitsOf(line, d) = {Printer(d)}
    BY <1>6 DEF Printer, UnitsOf
  <2>2. Served(base + 4, Recv(base))
    BY <1>6 DEF Handle, Served, IL_PRINTER, IL_TERMINAL
  <2>3. Recv(base) \in Status
    BY <1>5 DEF Recv, Status
  <2>4. irq[Printer(d)] # NULL
    BY <1>3, <2>1
  <2> HIDE DEF base
  <2> QED BY <1>2, <1>4, <2>1, <2>2, <2>3, <2>4
<1>7. CASE line = IL_TERMINAL
  <2> DEFINE t == Transmitter(d)
             r == Receiver(d)
  <2>1. /\ base + 4 = r /\ base + 12 = t /\ UnitsOf(line, d) = {r, t}
    BY <1>7 DEF Receiver, Transmitter, UnitsOf, IL_PRINTER, IL_TERMINAL
  <2>2. Transm(base) = {status[t]} /\ Recv(base) = status[r]
    BY <1>4, <2>1 DEF Transm, Recv
  <2>3. \/ Signals(status[t]) /\ Served(t, status[t])
        \/ ~ Signals(status[t]) /\ Signals(status[r]) /\ Served(r, status[r])
        \/ ~ Signals(status[t]) /\ ~ Signals(status[r])
    BY <1>7, <2>1, <2>2 DEF Handle, Served, IL_PRINTER, IL_TERMINAL
  <2>4. \A u \in {t, r} : irq[u] # NULL => Signals(status[u])
    BY <1>1, <1>4 DEF Finished, Signals, ERROR
  <2>5. CASE irq[t] # NULL
    BY <1>2, <1>4, <1>5, <2>3, <2>4, <2>5
  <2>6. CASE irq[t] = NULL
    <3>1. irq[r] # NULL
      BY <1>3, <2>1, <2>6
    <3>2. Queue(r) # << >>
      <4>1. commands[r] \in Nat
        BY <1>1, <1>4, DeviceFacts DEF TypeOK
      <4>2. Len(Queue(r)) > 0
        BY <1>1, <1>2, <1>4, <3>1, <4>1 DEF Matched, Operations
      <4> QED BY <4>2, EmptySeq
    <3>3. Queue(t) = << >>
      <4>1. t = UnitOf(d, "SYS4") /\ r = UnitOf(d, "SYS5")
        BY DEF UnitOf
      <4>2. \A u \in Unit, call \in DeviceCall :
              Queue(u) # << >> /\ u = UnitOf(d, call) => at[d] = call
        BY <1>1, <1>3, OwnUnit DEF OwnQueue
      <4> QED BY <1>4, <3>2, <4>1, <4>2 DEF DeviceCall
    <3>4. status[t] # BUSY
      <4>1. commands[t] \in Nat
        BY <1>1, <1>4, DeviceFacts DEF TypeOK
      <4>2. Operations(t) = 0
        BY <1>1, <1>2, <1>4, <3>3, EmptySeq DEF Matched
      <4> QED BY <4>1, <4>2 DEF Operations
    <3>5. ~ Signals(status[t])
      BY <1>1, <1>2, <1>4, <2>6, <3>4 DEF Matched, Signals, READY
    <3> QED BY <1>2, <1>4, <1>5, <2>3, <2>4, <3>1, <3>5
  <2> QED BY <2>5, <2>6
<1> QED BY <1>6, <1>7 DEF Handle

LEMMA HandleStep ==
  ASSUME IInv, NEW c \in Cpu, Handle(c)
  PROVE  IInv'
<1>1. /\ TypeOK /\ OwnQueue /\ WaiterServed /\ Finished /\ Matched
  BY DEF IInv
<1>2. UNCHANGED << at, commands >> /\ cpu' = [cpu EXCEPT ![c] = Idle] /\ stale' \in BOOLEAN
  BY DEF Handle
<1>3. cpu' \in [Cpu -> [line : Line \cup {0}, dev : DevNo \cup {-1, NULL}]]
  BY <1>1, <1>2 DEF TypeOK, Idle
<1>4. OwnQueue' /\ WaiterServed' /\ Finished' /\ TypeOK'
  <2>1. ASSUME NEW a \in Int, NEW value \in Status, Served(a, value)
        PROVE  OwnQueue' /\ WaiterServed' /\ Finished' /\ TypeOK'
    <3>1. OwnQueue' /\ WaiterServed' /\ Finished'
      BY <1>2, <2>1, ServedKeeps DEF Served
    <3>2. /\ blocked' \in [Index -> Seq(DevNo)] /\ ret' \in [DevNo -> Status]
          /\ status' \in [Unit -> {READY, BUSY, ERROR, 5}]
          /\ irq' \in [Unit -> Cpu \cup {NULL}]
      BY <2>1, ServedEffect DEF Served
    <3>3. TypeOK'
      BY <1>1, <1>2, <1>3, <3>2 DEF TypeOK, Status
    <3> QED BY <3>1, <3>3
  <2>2. CASE UNCHANGED << status, irq, blocked, ret >>
    <3>1. TypeOK'
      BY <1>1, <1>2, <1>3, <2>2 DEF TypeOK
    <3>2. \A u \in Unit : Queue(u)' = Queue(u) /\ Operations(u)' = Operations(u)
      BY <1>2, <2>2 DEF Queue, Operations
    <3>3. OwnQueue' /\ WaiterServed' /\ Finished'
      BY <1>1, <1>2, <2>2, <3>2 DEF OwnQueue, WaiterServed, Finished, Queue
    <3> QED BY <3>1, <3>3
  <2> QED BY <2>1, <2>2, HandleEffect
<1>5. Matched'
  <2>1. CASE stale'
    BY <2>1 DEF Matched
  <2>2. CASE ~ stale'
    <3>1. PICK a \in Unit, value \in Status : irq[a] # NULL /\ Served(a, value) /\ ~ stale
      BY <2>2, HandleServes
    <3> QED BY <1>2, <3>1, ServedKeeps DEF Served
  <2> QED BY <2>1, <2>2
<1> QED BY <1>4, <1>5 DEF IInv

-----------------------------------------------------------------------------
(* The theorems *)

LEMMA NextPreserves ==
  ASSUME IInv, [Next]_vars
  PROVE  IInv'
<1>1. ASSUME NEW d \in DevNo,
             \/ \E call \in Program[d] : Call(d, call)
             \/ PrinterDone(d) \/ TerminalNext(d, "SYS4") \/ TerminalNext(d, "SYS5")
      PROVE  IInv'
  BY <1>1, UprocStep
<1>2. ASSUME NEW u \in Unit, Command(u) \/ Complete(u) PROVE IInv'
  BY <1>2, CommandStep, CompleteStep
<1>3. ASSUME NEW c \in Cpu, ReadBitmap(c) \/ Handle(c) \/ \E line \in Line : Take(c, line)
      PROVE  IInv'
  BY <1>3, ReadStep, HandleStep
<1>4. CASE UNCHANGED vars
  <2>1. \A u \in Unit : Queue(u)' = Queue(u) /\ Operations(u)' = Operations(u)
    BY <1>4 DEF vars, Queue, Operations
  <2>2. TypeOK'
    BY <1>4 DEF IInv, TypeOK, vars
  <2>3. OwnQueue' /\ WaiterServed' /\ Finished' /\ Matched'
    BY <1>4, <2>1 DEF IInv, OwnQueue, WaiterServed, Finished, Matched, Queue, vars
  <2> QED BY <2>2, <2>3 DEF IInv
<1> QED BY <1>1, <1>2, <1>3, <1>4 DEF Next

\* The inductive invariant holds in every behaviour of the devices.
THEOREM Invariance == Spec => []IInv
<1>1. Init => IInv
  BY InitEstablishes
<1>2. IInv /\ [Next]_vars => IInv'
  BY NextPreserves
<1> QED BY <1>1, <1>2, PTL DEF Spec

\* Whatever two CPUs read of a bitmap and whatever they handle of it, and even
\* when device -1 of the terminals takes printer 7 for a terminal, whoever waits
\* for a device has an operation of it under way (interrupts.c:89-134).
THEOREM NobodyForgotten == Spec => []WaiterServed
<1>1. IInv => WaiterServed
  BY DEF IInv
<1> QED BY <1>1, Invariance, PTL

\* As long as no CPU handles a device that does not interrupt any more, waiters
\* and operations are one to one: no DOIO returns before its own operation is
\* complete (interrupts.c:103, exceptions.c:190-217).
THEOREM OneToOne == Spec => []OneWaiterPerOperation
<1>1. IInv => OneWaiterPerOperation
  BY DEF IInv, Matched, OneWaiterPerOperation, Queue
<1> QED BY <1>1, Invariance, PTL

\* All that the devices and U-procs use stays within its type; so the index of
\* a semaphore that wakes a process is one of a unit (interrupts.c:125).
THEOREM TypeCorrect == Spec => []TypeOK
<1>1. IInv => TypeOK
  BY DEF IInv
<1> QED BY <1>1, Invariance, PTL
=============================================================================
