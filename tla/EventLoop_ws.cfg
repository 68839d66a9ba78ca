SPECIFICATION FairSpec
CONSTANTS
  Conns = {c1, c2}
  Fds = {4}
  Paths = {1, 2}
  WsPaths = {1, 2}
  Kinds = {"upgrade", "frame", "close"}
  WsOps = {"ignore", "send", "close", "isOpen"}
  MaxSent <- MCMaxSent
  Talkers = {c1}
  MayStall = {}
  MayStop = TRUE
  StopEarly = FALSE
  StopMode = "thread"
  PollTimeout = TRUE
  None = None
CHECK_DEADLOCK FALSE
INVARIANTS OpenSocketsListed SoleSubscriberRouted DispatchedToOwnRoute
PROPERTIES EndedConnectionsClosed ClosedSocketsDelisted
