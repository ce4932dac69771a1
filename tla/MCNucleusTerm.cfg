SPECIFICATION Spec
CONSTRAINT Followed
SYMMETRY Alike
CONSTANTS
  Cpu = {c1, c2}
  Pcb = {p1, p2, p3}
  UserSem = {}
  Dev = {d}
  Clock = Clock
  NULL = NULL
  MaxSem = 2
INVARIANTS
  CountExact
  TreeSound
  StraysWereWoken
  BlockedAreLive
  AwakeIfReady
  HaltsWhenDone
PROPERTY
  CallsSpec
CHECK_DEADLOCK FALSE
