SPECIFICATION Spec
CONSTANTS
  Co = {c1, c2, c3, c4}
  NULL = NULL
  MAX_CO_LIMIT = 2
  MaxId = 7
  HasBuildin = TRUE
SYMMETRY Addresses
INVARIANTS
  TypeOK
  ListsMatchStatus
  RefCountsLiveChildren
  ParentIsCreator
  DiedIsNeeded
  CountIsExact
  WindowIsRunning
  VerdictIsTrue
