CONSTANTS
  Calls = {c1, c2}
  Kinds = {"request", "ping"}
  NoCall = NoCall
  Reader = Reader
  MaxStreamId = 3
  Deadlines = {TRUE, FALSE}
  MaxFrames = 1
  MaxPings = 0
  WireCap = 2
SPECIFICATION FairSpec
CHECK_DEADLOCK FALSE
PROPERTIES FrameWaitEnds FailureReleasesRequests
