SPECIFICATION Spec
CONSTANTS
  Parser <- Parsed
  Texts <- ScannerTexts
  Files <- ProgramFiles
  Drafts <- Edited
INVARIANTS
  TokensAreLongest
  ParsesTheGrammar
CHECK_DEADLOCK FALSE
