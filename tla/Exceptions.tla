----------------------------- MODULE Exceptions -----------------------------
(***************************************************************************)
(* Who handles what: the dispatch of exceptions, system calls and          *)
(* interrupts (exceptions.c, interrupts.c, sysSupport.c) and the index     *)
(* computations of the device semaphores and the page tables.  Pure        *)
(* operators over the numbers of the code; an exception is a record of its *)
(* cause, register a0 and mode.                                            *)
(***************************************************************************)
EXTENDS Integers

\* The cause codes of uRISCV
EXC_ECU == 8
EXC_ECM == 11
EXC_MOD == 24
EXC_UTLBS == 28

SYSEXCEPTION == 8
PRIVINSTR == 10

\* exceptionHandler, for what is not an interrupt
exceptionHandler(cause) ==
  CASE cause \in {EXC_ECU, EXC_ECM} -> "syscall"
    [] cause \in EXC_MOD .. EXC_UTLBS -> "pgfault"
    [] OTHER -> "general"

\* The codes that the switch of syscallHandler has a case for
CallCodes == -9 .. -1

\* syscallHandler: the Nucleus serves the call, passes it up, or panics.  A
\* negative code in user mode is passed up as a privileged instruction.
syscallHandler(a0, mode) ==
  CASE mode = "user" /\ a0 < 0 -> "privileged"
    [] a0 >= 1 -> "support"
    [] mode # "user" /\ a0 \in CallCodes -> "nucleus"
    [] OTHER -> "panic"

\* syscallSupHandler: SYS2 to SYS5, anything else is a program trap
syscallSupHandler(a0) ==
  CASE a0 = 2 -> "terminate" [] a0 = 3 -> "SYS3" [] a0 = 4 -> "SYS4" [] a0 = 5 -> "SYS5"
    [] OTHER -> "trap"

\* generalExceptionSupportHandler, by the cause of the exception passed up
generalExceptionSupportHandler(cause, a0) ==
  IF cause = SYSEXCEPTION THEN syscallSupHandler(a0) ELSE "trap"

\* The first test of pager on the cause: a store to a page that is not dirty is
\* a program trap, before the mutex is taken
pager(cause) == IF cause = EXC_MOD THEN "trap" ELSE "pager"

\* What becomes of exception e of a process with a support structure
Outcome(e) ==
  LET handler == exceptionHandler(e.cause)
      call == syscallHandler(e.a0, e.mode)
  IN CASE handler = "pgfault" -> pager(e.cause)
       [] handler = "syscall" /\ call \in {"nucleus", "panic"} -> call
       [] handler = "syscall" /\ call = "privileged" ->
            generalExceptionSupportHandler(PRIVINSTR, e.a0)
       [] OTHER -> generalExceptionSupportHandler(e.cause, e.a0)

-----------------------------------------------------------------------------
(* Interrupt lines and device registers *)

\* getintLineNo, of the code of an interrupt
getintLineNo(code) ==
  CASE code = 7 -> 1 [] code = 3 -> 2 [] code \in 17 .. 21 -> code - 14 [] OTHER -> -1

\* getdevNo: one test after the other of the bits in the bitmap of a line, a set
\* of device numbers; -1 when none is on
getdevNo(bitmap) ==
  IF 0 \in bitmap THEN 0 ELSE IF 1 \in bitmap THEN 1 ELSE
  IF 2 \in bitmap THEN 2 ELSE IF 3 \in bitmap THEN 3 ELSE
  IF 4 \in bitmap THEN 4 ELSE IF 5 \in bitmap THEN 5 ELSE
  IF 6 \in bitmap THEN 6 ELSE IF 7 \in bitmap THEN 7 ELSE -1

START_DEVREG == 268435540
\* Lines by their numbers in getintLineNo
IL_FLASH == 4
IL_PRINTER == 6
IL_TERMINAL == 7

\* DEV_REG_ADDR: eight devices on a line, four words for each
DevRegAddr(line, devNo) == START_DEVREG + (line - 3) * 128 + devNo * 16

\* findDeviceIndex: the semaphore of a device register; those of a terminal are
\* two devices, the receiver and 8 bytes on the transmitter.  For addresses from
\* START_DEVREG on: below, the unsigned offset is huge.
findDeviceIndex(addr) ==
  LET offset == addr - START_DEVREG
  IN IF offset >= 32 * 16 THEN 32 + (offset - 32 * 16) \div 8 ELSE offset \div 16

-----------------------------------------------------------------------------
(* Page numbers *)

MAXPAGES == 32
FirstVPN == 524288     \* UPROCSTARTADDR >> VPNSHIFT
StackVPN == 786431     \* (USERSTACKTOP >> VPNSHIFT) - 1

\* The index into the page table of a virtual page number (pager and
\* uTLB_RefillHandler); outside 0 .. MAXPAGES - 1 it is no page of the process
PageIndex(vpn) == IF vpn = StackVPN THEN MAXPAGES - 1 ELSE vpn - FirstVPN

\* The page number that test writes into entry j of a page table
PageNumber(j) == IF j < MAXPAGES - 1 THEN FirstVPN + j ELSE StackVPN
=============================================================================
