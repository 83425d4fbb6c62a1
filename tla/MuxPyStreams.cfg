CONSTANTS
  Calls = {c1, c2}
  Kinds = {"request_one", "subscribe"}
  NoCall = NoCall
  Reader = Reader
  MaxStreamId = 3
  Deadlines = {TRUE}
  MaxFrames = 2
  MaxPings = 0
  WireCap = 2
SPECIFICATION Spec
SYMMETRY CallSymmetry
CHECK_DEADLOCK FALSE
INVARIANTS TypeOK OwnFrames FramesInOrder WokenOnFailure FailedTableEmpty NoRouteLeak
