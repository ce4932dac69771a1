\* Expected to be violated: a process that never blocked cannot terminate itself.
SPECIFICATION Spec
CONSTRAINT Followed
SYMMETRY Alike
CONSTANTS
  Cpu = {c1, c2}
  Pcb = {p1, p2, p3}
  UserSem = {s}
  Dev = {d}
  Clock = Clock
  NULL = NULL
  MaxSem = 3
PROPERTY
  SelfTerminates
CHECK_DEADLOCK FALSE
