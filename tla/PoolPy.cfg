CONSTANTS
  Threads = {t1, t2}
  NoThread = NoThread
  Size = 2
  Targets = {TRUE, FALSE}
  MaxConns = 4
SPECIFICATION FairSpec
CHECK_DEADLOCK FALSE
INVARIANTS TypeOK NoOrphan
PROPERTIES OnlyDeadReplaced BorrowReturns
