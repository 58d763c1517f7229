SPECIFICATION Spec
CONSTANTS
  ast <- Node
  Compiler <- Compiled
  NREGS = 16
  STACK = 96
INVARIANTS
  LookupIsLexical
  CodeIsWellFormed
  RegistersAreDistinct
  TypesAreSound
  RunsAsWritten
