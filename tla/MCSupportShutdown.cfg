\* Expected to be violated: test stops before the last U-proc has signalled.
SYMMETRY Alike
SPECIFICATION SupportSpec
CONSTANTS
  Pcb = {test, u1, u2, u3}
  Test = test
  swap_pool_sem = swap_pool_sem
  masterSemaphore = masterSemaphore
  UserSem <- Semaphores
  flash = flash
  Dev = {flash}
  Clock = Clock
  NULL = NULL
  MaxSem = 5
  UPROC_NUM = 3
  Exception <- Exceptions1
INVARIANT
  WaitsForAll
CHECK_DEADLOCK FALSE
