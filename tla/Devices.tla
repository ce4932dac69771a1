------------------------------ MODULE Devices ------------------------------
(***************************************************************************)
(* Device interrupts on shared lines (intHandler and getdevNo of           *)
(* interrupts.c) and the device calls of the U-procs (SYS3, SYS4, SYS5 of  *)
(* sysSupport.c).  U-proc d + 1 has printer d and terminal d.  Semaphores  *)
(* and registers are those of the real addresses (Exceptions).             *)
(*                                                                         *)
(* A unit is a printer or half a terminal, by the address of its command   *)
(* register.  The value of its semaphore decides nothing in DOIO and in    *)
(* intHandler, so only its queue is kept.                                  *)
(***************************************************************************)
EXTENDS Exceptions, Sequences, FiniteSets

CONSTANTS Cpu, DevNo, NULL,
          Program    \* the device calls that the U-proc of each device number makes

DeviceCall == {"SYS3", "SYS4", "SYS5"}

ASSUME DevicesAssumption ==
  /\ DevNo \subseteq 0 .. 7 /\ IsFiniteSet(Cpu) /\ NULL \notin Cpu \cup 0 .. 7
  /\ Program \in [DevNo -> SUBSET DeviceCall]

Printer(d) == DevRegAddr(IL_PRINTER, d) + 4
Receiver(d) == DevRegAddr(IL_TERMINAL, d) + 4
Transmitter(d) == DevRegAddr(IL_TERMINAL, d) + 12

Unit == {Printer(d) : d \in DevNo} \cup {Receiver(d) : d \in DevNo} \cup {Transmitter(d) : d \in DevNo}
Line == {IL_PRINTER, IL_TERMINAL}
UnitsOf(line, d) == IF line = IL_PRINTER THEN {Printer(d)} ELSE {Receiver(d), Transmitter(d)}
Index == {findDeviceIndex(u) : u \in Unit}

READY == 1
BUSY == 3
ERROR == 4
DONE(u) == IF \E d \in DevNo : u = Printer(d) THEN READY ELSE 5

VARIABLES
  at,          \* what the U-proc of a device number does: its program, a call, or
               \* gone: killed, or returned from a handler to nowhere
  ret,         \* the status that its last DOIO returned, 0 once it is used
  blocked,     \* the queues of the device semaphores
  commands,    \* how many CPUs are about to write a command to a unit
  status,
  irq,         \* the CPU that the interrupt of a unit goes to, or NULL
  cpu,         \* a CPU in intHandler: its line, and the device once it has read it
  stale        \* history: a CPU handled a device that did not interrupt any more

vars == << at, ret, blocked, commands, status, irq, cpu, stale >>

Idle == [line |-> 0, dev |-> NULL]

TypeOK ==
  /\ at \in [DevNo -> DeviceCall \cup {"user", "gone"}]
  /\ ret \in [DevNo -> {0, READY, 2, BUSY, ERROR, 5}]
  /\ blocked \in [Index -> Seq(DevNo)]
  /\ commands \in [Unit -> 0 .. Cardinality(Cpu)]
  /\ status \in [Unit -> {READY, BUSY, ERROR, 5}]
  /\ irq \in [Unit -> Cpu \cup {NULL}]
  /\ cpu \in [Cpu -> [line : Line \cup {0}, dev : DevNo \cup {-1, NULL}]]
  /\ stale \in BOOLEAN

Init ==
  /\ at = [d \in DevNo |-> "user"] /\ ret = [d \in DevNo |-> 0]
  /\ blocked = [x \in Index |-> << >>] /\ commands = [u \in Unit |-> 0]
  /\ status = [u \in Unit |-> READY] /\ irq = [u \in Unit |-> NULL]
  /\ cpu = [c \in Cpu |-> Idle]
  /\ stale = FALSE

Waits(d) == \E x \in Index : \E i \in DOMAIN blocked[x] : blocked[x][i] = d

-----------------------------------------------------------------------------
(* The calls *)

\* DOIO blocks the process; the CPU then writes the command without the lock
DoIO(d, u) ==
  /\ commands[u] < Cardinality(Cpu)
  /\ blocked' = [blocked EXCEPT ![findDeviceIndex(u)] = Append(@, d)]
  /\ commands' = [commands EXCEPT ![u] = @ + 1]

UnitOf(d, call) ==
  CASE call = "SYS3" -> Printer(d) [] call = "SYS4" -> Transmitter(d) [] call = "SYS5" -> Receiver(d)

Leave(d, place) ==
  /\ at' = [at EXCEPT ![d] = place] /\ ret' = [ret EXCEPT ![d] = 0]
  /\ UNCHANGED << blocked, commands >>

\* A device call: a bad address or length is a program trap, an empty string on
\* the terminal returns at once
Call(d, call) ==
  /\ at[d] = "user"
  /\ \/ at' = [at EXCEPT ![d] = call] /\ DoIO(d, UnitOf(d, call)) /\ UNCHANGED ret
     \/ Leave(d, "gone")
  /\ UNCHANGED << status, irq, cpu, stale >>

\* SYS3 after its DOIO: LDST takes the process back, with the length or the status
PrinterDone(d) ==
  /\ at[d] = "SYS3" /\ ~ Waits(d)
  /\ Leave(d, "user")
  /\ UNCHANGED << status, irq, cpu, stale >>

\* SYS4 and SYS5: one DOIO for each character, up to an error or the last one.
\* Then the handler returns without LDST, to no caller.
TerminalNext(d, call) ==
  /\ at[d] = call /\ ~ Waits(d)
  /\ \/ /\ ret[d] = 5 /\ DoIO(d, UnitOf(d, call))
        /\ ret' = [ret EXCEPT ![d] = 0] /\ UNCHANGED at
     \/ Leave(d, "gone")
  /\ UNCHANGED << status, irq, cpu, stale >>

-----------------------------------------------------------------------------
(* The devices *)

\* The command register of u is written: a busy unit ignores that
WriteCommand(u, new) ==
  IF u \in Unit /\ status[u] # BUSY
  THEN status' = [status EXCEPT ![u] = new] /\ irq' = [irq EXCEPT ![u] = NULL]
  ELSE UNCHANGED << status, irq >>

Command(u) ==
  /\ commands[u] > 0
  /\ commands' = [commands EXCEPT ![u] = @ - 1]
  /\ WriteCommand(u, BUSY)
  /\ UNCHANGED << at, ret, blocked, cpu, stale >>

\* A unit finishes, and its interrupt goes to one CPU
Complete(u) ==
  /\ status[u] = BUSY
  /\ \E result \in {DONE(u), ERROR} : status' = [status EXCEPT ![u] = result]
  /\ \E c \in Cpu : irq' = [irq EXCEPT ![u] = c]
  /\ UNCHANGED << at, ret, blocked, commands, cpu, stale >>

-----------------------------------------------------------------------------
(* The interrupts *)

Interrupting(line) == {d \in DevNo : \E u \in UnitsOf(line, d) : irq[u] # NULL}

\* The CPU takes the exception of a line
Take(c, line) ==
  /\ cpu[c] = Idle
  /\ \E d \in DevNo : \E u \in UnitsOf(line, d) : irq[u] = c
  /\ cpu' = [cpu EXCEPT ![c].line = line]
  /\ UNCHANGED << at, ret, blocked, commands, status, irq, stale >>

\* ... reads the bitmap, without the lock ...
ReadBitmap(c) ==
  /\ cpu[c].line # 0 /\ cpu[c].dev = NULL
  /\ cpu' = [cpu EXCEPT ![c].dev = getdevNo(Interrupting(cpu[c].line))]
  /\ UNCHANGED << at, ret, blocked, commands, status, irq, stale >>

\* A bug of Wake: the status is stored, the process stays in the queue
WakeNot(u, value) == UNCHANGED << blocked, ret >>

\* V on the semaphore of u: the first process in its queue gets the status
Wake(u, value) ==
  LET x == findDeviceIndex(u)
  IN IF x \in Index /\ blocked[x] # << >>
     THEN /\ blocked' = [blocked EXCEPT ![x] = Tail(@)]
          /\ ret' = [ret EXCEPT ![Head(blocked[x])] = value]
     ELSE UNCHANGED << blocked, ret >>

\* A bug of Acknowledge: the unit keeps interrupting
AcknowledgeNot(u) == UNCHANGED << status, irq >>

Acknowledge(u) == WriteCommand(u, READY)

\* A bug of Signals: a status of 1 counts
SignalsReady(value) == value \in 1 .. 5

\* The status of half a terminal that is taken for a completion (3 is BUSY)
Signals(value) == value \in 2 .. 5

\* The words that intHandler reads as the status of a transmitter and a receiver.
\* Device -1 of the terminal line is printer 7: its address and status registers.
Transm(base) == IF base + 12 \in Unit THEN {status[base + 12]} ELSE {0, 2}
Recv(base) == IF base + 4 \in Unit THEN status[base + 4] ELSE 0

\* intHandler, with the lock, for the device read before.  A printer is
\* acknowledged whatever its status; of a terminal the transmitter comes first.
Handle(c) ==
  LET base == DevRegAddr(cpu[c].line, cpu[c].dev)
      Served(u, value) == Acknowledge(u) /\ Wake(u, value)
  IN /\ cpu[c].dev # NULL
     /\ \/ /\ cpu[c].line = IL_PRINTER
           /\ Served(base + 4, Recv(base))
        \/ /\ cpu[c].line = IL_TERMINAL
           /\ \E value \in Transm(base) :
                \/ Signals(value) /\ Served(base + 12, value)
                \/ ~ Signals(value) /\ Signals(Recv(base)) /\ Served(base + 4, Recv(base))
                \/ /\ ~ Signals(value) /\ ~ Signals(Recv(base))
                   /\ UNCHANGED << status, irq, blocked, ret >>
     /\ stale' = (stale \/ cpu[c].dev \notin Interrupting(cpu[c].line))
     /\ cpu' = [cpu EXCEPT ![c] = Idle]
     /\ UNCHANGED << at, commands >>

-----------------------------------------------------------------------------

Next ==
  \/ \E d \in DevNo : \/ \E call \in Program[d] : Call(d, call)
                      \/ PrinterDone(d) \/ TerminalNext(d, "SYS4") \/ TerminalNext(d, "SYS5")
  \/ \E u \in Unit : Command(u) \/ Complete(u)
  \/ \E c \in Cpu : ReadBitmap(c) \/ Handle(c) \/ \E line \in Line : Take(c, line)

\* Straight code goes on, devices finish, and a CPU takes the interrupt that is
\* for it when it comes back from handlers again and again
Fairness ==
  /\ \A u \in Unit : WF_vars(Command(u)) /\ WF_vars(Complete(u))
  /\ \A c \in Cpu : /\ WF_vars(ReadBitmap(c)) /\ WF_vars(Handle(c))
                    /\ \A line \in Line : SF_vars(Take(c, line))

Spec == Init /\ [][Next]_vars /\ Fairness

-----------------------------------------------------------------------------

Operations(u) == commands[u] + (IF status[u] = BUSY \/ irq[u] # NULL THEN 1 ELSE 0)

\* Whoever waits for a device has an operation of it under way, even when two
\* CPUs have read the same bitmap and one of them handles an interrupt that the
\* other acknowledged already (interrupts.c:89-94): nobody is left without the
\* interrupt that wakes it.
WaiterServed ==
  \A u \in Unit : blocked[findDeviceIndex(u)] # << >> => Operations(u) > 0

\* Until a CPU does so, there is exactly one waiter for every operation: no
\* process returns from DOIO before its own operation is complete, although the
\* status test of a terminal takes 3 (busy) for a completion (interrupts.c:103).
OneWaiterPerOperation ==
  ~ stale => \A u \in Unit : Len(blocked[findDeviceIndex(u)]) = Operations(u)

\* A process that waits for a device wakes, unless a device before it on its
\* line interrupts for ever: getdevNo serves the lowest number first.
DeviceWakes ==
  \A d \in DevNo :
    (\A b \in DevNo : b < d => <>[](\A line \in Line : b \notin Interrupting(line)))
      => (Waits(d) ~> ~ Waits(d))
=============================================================================
