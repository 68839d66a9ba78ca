SPECIFICATION FairSpec
CONSTANTS
  Conns = {c1, c2}
  Fds = {4}
  Kinds = {"upgrade", "frame", "close"}
  Records <- MCRecords
  WebSockets = TRUE
  MaxSent <- MCMaxSent
  Talker = c1
  MayStall = {c2}
  MayStop = TRUE
  None = None
CHECK_DEADLOCK FALSE
INVARIANTS SessionOfSocket NoUseAfterFree SessionsKept
PROPERTIES ImplementsTls DataRead EndedConnectionsClosed
