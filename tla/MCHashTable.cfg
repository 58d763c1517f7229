SPECIFICATION Spec
CONSTANTS
  Keys <- Clashing
  Nodes = {n1, n2, n3, n4, n5}
  NULL = NULL
  MIN_SIZE = 2
  UINTS = 64
  Requests = {0, 1, 3}
  MaxShift = 3
SYMMETRY NodeAddresses
INVARIANTS
  TypeOK
  ChainsHoldAll
  TraversalIsComplete
PROPERTIES
  ImplementsMap
