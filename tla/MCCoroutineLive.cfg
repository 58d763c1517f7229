SPECIFICATION FairSpec
CONSTANTS
  Co = {c1, c2, c3}
  NULL = NULL
  MAX_CO_LIMIT = 4
  MaxId = 4
  HasBuildin = TRUE
PROPERTIES
  ReadyRuns
  ImplementsTasks
