SPECIFICATION FairSpec
CONSTANTS
  Schemes = {"http", "https"}
  Buffer = 3
  MaxLength = 7
  MaxCalls = 3
CHECK_DEADLOCK FALSE
INVARIANTS CutOnlyAfterShortRead WholeReturned AllReleased FreedOnceUnlessFailed
PROPERTY CallsReturn
