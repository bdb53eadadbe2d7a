SPECIFICATION Spec
CONSTANTS
  Saves = {"first", "again", "next", "other", "void", "away"}
  Remote = {"away"}
  Loads = {"look"}
  Entities = {"hero", "item"}
  Request <- MCRequest
  FirstRows <- MCRows
  Backends = {"redis", "mongo"}
  Workers = {1, 2}
  Slot <- MCSlot
  MaxAttempts = 2
  Limits = {1, 2}
  MaxRequests = 2
INVARIANTS
  Accounted
  InOrder
PROPERTIES
  ExactlyOnce
CHECK_DEADLOCK FALSE
