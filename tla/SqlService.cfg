SPECIFICATION Spec
CONSTANTS
  alice = alice
  bob = bob
  Clients = {alice, bob}
  NSlots = 1
  MaxRequests = 4
  Backends = {"sqlite", "reconnecting"}
  MayStop = TRUE
INVARIANTS
  AnsweredOnce
  SlotOwned
  Atomic
  Honest
SYMMETRY Symmetry
CHECK_DEADLOCK FALSE
