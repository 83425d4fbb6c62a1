CONSTANTS
  Calls = {c1, c2}
  Kinds = {"ping"}
  NoCall = NoCall
  Reader = Reader
  MaxStreamId = 3
  Deadlines = {FALSE}
  MaxFrames = 1
  MaxPings = 0
  WireCap = 2
SPECIFICATION Spec
CHECK_DEADLOCK FALSE
INVARIANT PongAnswersItsPing
