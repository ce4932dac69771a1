SPECIFICATION Spec
SYMMETRY Alike
CONSTANTS
  Proc = {u1, u2, u3}
  Cpu = {c1, c2}
  Vpn <- Vpns
  POOLSIZE = 2
  NULL = NULL
  INVALID = INVALID
  ABSENT = ABSENT
  FLASH = FLASH
INVARIANTS
  TypeOK
  ValidBacked
  Coherent
  NothingLost
  OneFrame
CHECK_DEADLOCK FALSE
