SPECIFICATION FairSpec
CONSTANTS
  Conns = {c1, c2}
  Fds = {4, 5}
  Paths = {}
  WsPaths = {}
  Kinds = {"get"}
  WsOps = {}
  MaxSent <- MCMaxSent
  Talkers = {c1, c2}
  MayStall = {c1}
  MayStop = TRUE
  StopEarly = FALSE
  StopMode = "signal"
  PollTimeout = FALSE
  None = None
CHECK_DEADLOCK FALSE
INVARIANTS ListMatchesSockets EventsFresh AnsweredOnceInOrder
PROPERTIES ImplementsService EveryRequestRead StopEndsLoop
