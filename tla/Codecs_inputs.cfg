SPECIFICATION Spec
CONSTANTS
  SizeLimit = 4194304
  MaxLength = 6
CHECK_DEADLOCK FALSE
INVARIANTS EncodedComesBack SaidIsDone
