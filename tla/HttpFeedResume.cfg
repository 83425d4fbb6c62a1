CONSTANTS
  ReadSize = 4
  WireCap = 7
  MaxEvents = 3
  MaxConns = 2
SPECIFICATION Spec
CHECK_DEADLOCK FALSE
INVARIANT NoSkip
