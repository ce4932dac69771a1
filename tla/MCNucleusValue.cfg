\* Expected to be violated: a semaphore above 1 with no process waiting.
SPECIFICATION Spec
CONSTRAINT Followed
SYMMETRY Alike
CONSTANTS
  Cpu = {c1, c2}
  Pcb = {p1, p2, p3}
  UserSem = {s}
  Dev = {d}
  Clock = Clock
  NULL = NULL
  MaxSem = 3
INVARIANT
  WaitersAboveOne
CHECK_DEADLOCK FALSE
