SPECIFICATION Spec
CONSTANTS
  Regs = {r1, r2}
  Addr = {a1, a2, a3}
  Longs = {0, 1}
  Strings <- OneString
  APPEND = APPEND
  MaxLength = 2
SYMMETRY Symmetry
PROPERTY
  AppendIsNew
