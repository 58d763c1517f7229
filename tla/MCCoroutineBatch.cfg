SPECIFICATION FairSpec
CONSTANTS
  Co = {c1, c2, c3, c4}
  NULL = NULL
  MAX_CO_LIMIT = 8
  MaxId = 5
  HasBuildin = FALSE
INVARIANTS
  RunsInCreationOrder
PROPERTIES
  Completes
