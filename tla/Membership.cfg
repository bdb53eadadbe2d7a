SPECIFICATION Spec
CONSTANTS
  Nodes = {"a", "b"}
  TTL = 6
  MaxDelay = 1
  MaxFaults = 2
INVARIANTS
  LeaseHolds
PROPERTIES
  RemovedForCause
  Converges
