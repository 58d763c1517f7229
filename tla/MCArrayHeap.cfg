SPECIFICATION Spec
CONSTANTS
  Regs = {r1, r2}
  Addr = {a1, a2, a3, a4}
  Longs = {0}
  Strings <- OneString
  APPEND = APPEND
  MaxLength = 2
SYMMETRY Symmetry
INVARIANTS
  TypeOK
  OwnedOnce
  CleanupFreesAll
