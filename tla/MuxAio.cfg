CONSTANTS
  Calls = {c1, c2}
  Kinds = {"request_one", "subscribe", "ping", "aclose"}
  NoCall = NoCall
  Reader = Reader
  MaxStreamId = 3
  Deadlines = {TRUE}
  MaxFrames = 2
  MaxPings = 1
  HighWater = 1
  WireCap = 1
SPECIFICATION Spec
SYMMETRY CallSymmetry
CHECK_DEADLOCK FALSE
INVARIANTS TypeOK CancelLeavesNothing WokenOnFailure AcloseEndsReader
PROPERTY Implements
