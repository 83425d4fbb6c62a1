CONSTANTS
  Clients = {"http_python", "http_rust"}
  Verbs = {"encode"}
  Policies <- WirePolicies
  Hints = {}
  NoHint = NoHint
  ShiftCap = 31
SPECIFICATION Spec
CHECK_DEADLOCK FALSE
INVARIANTS EncodeStoredOnce
