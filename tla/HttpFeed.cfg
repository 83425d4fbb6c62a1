CONSTANTS
  ReadSize = 7
  WireCap = 9
  MaxEvents = 4
  MaxConns = 3
SPECIFICATION FairSpec
CHECK_DEADLOCK FALSE
INVARIANTS TypeOK NoReplay LosesAtMostOnePerDrop
PROPERTY NextReturns
