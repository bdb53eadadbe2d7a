SPECIFICATION Spec
CONSTANTS
  Saves = {"first", "again", "clash", "other", "void"}
  Loads = {"look"}
  Entities = {"hero", "item"}
  Request <- MCRequest
  FirstRows <- MCRows
  MaxAttempts = 2
  Limits = {1, 2}
  MaxRequests = 2
  ExitInRetry = FALSE
INVARIANTS
  
  NoOrphanTransaction
PROPERTIES
  ExactlyOnce
CHECK_DEADLOCK FALSE
