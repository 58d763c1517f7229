SPECIFICATION Spec
CONSTANTS
  Keys = {1, 2, 3, 4, 5, 6, 7, 8}
  NULL = 0
INVARIANTS
  TypeOK
  RedBlack
  QueriesAreRight
PROPERTIES
  ImplementsSet
