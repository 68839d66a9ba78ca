SPECIFICATION Spec
CONSTANTS
  Kinds = {"get", "post", "upgrade", "frame", "close"}
  MaxSent = 3
  RecvMax = 6
CHECK_DEADLOCK FALSE
INVARIANTS LockstepMatched OwnRecvServed
