SPECIFICATION Spec
CONSTANTS
  Programs <- WithNested
  MIN_STACK = 16
  MAX_STACK = 64
  MaxDoublings = 6
PROPERTIES
  HandlerIsNearest
