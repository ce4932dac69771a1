\* Three PCBs and three descriptors, three semaphores.
SPECIFICATION Spec
SYMMETRY Alike
CONSTANTS
  Pcb = {p1, p2, p3}
  Semd = {d1, d2, d3}
  Key = {k1, k2, k3}
  NULL = NULL
INVARIANTS
  TypeOK
  DistinctKeys
  DescriptorsAccounted
  BlockedOnce
  BlockedHasSemAdd
  DescriptorForEveryBlock
PROPERTIES
  QueuesSpec
