CONSTANTS
  Clients = {"python", "aio", "rust", "typescript", "http_python", "http_rust", "http_typescript"}
  Verbs = {"recall", "encode", "link"}
  Policies <- MCPolicies
  Hints = {0, 2, 6}
  NoHint = NoHint
  ShiftCap = 2
SPECIFICATION FairSpec
CHECK_DEADLOCK FALSE
INVARIANTS TypeOK StoredOnce GivesUpOnlyWhenSpent WaitInBounds SameCurve
PROPERTIES Returns
