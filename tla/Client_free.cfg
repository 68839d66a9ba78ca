SPECIFICATION Spec
CONSTANTS
  Schemes = {"https"}
  Buffer = 2
  MaxLength = 2
  MaxCalls = 2
CHECK_DEADLOCK FALSE
INVARIANT FreedOnce
