CONSTANTS
  Calls = {c1, c2}
  Kinds = {"ping", "request", "close"}
  NoCall = NoCall
  Reader = Reader
  MaxStreamId = 3
  Deadlines = {TRUE}
  MaxFrames = 1
  MaxPings = 1
  WireCap = 2
SPECIFICATION Spec
SYMMETRY CallSymmetry
CHECK_DEADLOCK FALSE
INVARIANTS WholeFrames WokenOnFailure NoRouteLeak
PROPERTY RouteLostOnlyByOwner
