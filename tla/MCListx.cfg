SPECIFICATION Spec
SYMMETRY Alike
CONSTANTS
  MAXPROC = 4
  Queue = {q1, q2}
  NULL = NULL
INVARIANTS
  Linked
  Sorted
  Found
PROPERTY
  ListsSpec
