SPECIFICATION FairSpec
CONSTANTS
  Programs <- All
  MIN_STACK = 16
  MAX_STACK = 128
  MaxDoublings = 6
INVARIANTS
  TypeOK
  FramesLinked
  FramesFit
  WritesFit
  PcInFunction
  WindowIsCurrent
  FramesAreClean
PROPERTIES
  CallersUntouched
  HandlerIsNearest
  Terminates
