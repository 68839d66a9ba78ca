SPECIFICATION FeedsSpec
CONSTANTS
  Tables = {"manager", "worker"}
  Conns = {c1, c2}
  Fds = {4, 5}
  Paths = {}
  WsPaths = {}
  Kinds = {"quiet"}
  WsOps = {}
  MaxSent <- MCMaxSent
  MayStall = {c1}
  MayStop = FALSE
  StopEarly = FALSE
  StopMode = "signal"
  PollTimeout = FALSE
  None = None
CHECK_DEADLOCK FALSE
PROPERTIES StreamsEnd LastSubscriberFed EventsOfOwnStream
