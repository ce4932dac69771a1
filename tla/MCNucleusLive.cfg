SPECIFICATION LiveSpec
CONSTANTS
  Cpu = {c1, c2}
  Pcb = {p1, p2, p3}
  UserSem = {}
  Dev = {d}
  Clock = Clock
  NULL = NULL
  MaxSem = 0
PROPERTIES
  ReadyRuns
  ClockWakes
  OperationWakes
