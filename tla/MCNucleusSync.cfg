\* Two CPUs, four PCBs, one semaphore of the processes, one device.
SPECIFICATION SyncSpec
SYMMETRY Alike
CONSTANTS
  Cpu = {c1, c2}
  Pcb = {p1, p2, p3, p4}
  UserSem = {s}
  Dev = {d}
  Clock = Clock
  NULL = NULL
  MaxSem = 0
INVARIANTS
  TypeOK
  OnePlace
  ValueCountsWaiters
  WaiterHasOperation
PROPERTY
  CallsSpec
