\* Expected to be violated: a freed PCB is left in the ready queue.
SPECIFICATION Spec
SYMMETRY Alike
CONSTANTS
  Cpu = {c1, c2}
  Pcb = {p1, p2, p3}
  UserSem = {s}
  Dev = {d}
  Clock = Clock
  NULL = NULL
  MaxSem = 3
INVARIANT
  FreedIsRemoved
CHECK_DEADLOCK FALSE
