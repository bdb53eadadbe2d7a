SPECIFICATION FairSpec
CONSTANTS
  alice = alice
  bob = bob
  store = store
  query = query
  NoService = NoService
  Clients = {alice}
  Services = {store}
  Added = {}
  MaxReloads = 1
  MaxCalls = 2
  Restricted = FALSE
  Allowed = {alice}
  Remote = {}
  CrossNode = FALSE
  MayUnload = TRUE
  MayStop = TRUE
  Async = TRUE
  QuiesceMayTimeout = FALSE
  SaveMayTimeout = TRUE
  CrashWhen = "always"
INVARIANTS
  InstanceInv
PROPERTIES
  EveryCallAnswered
  ReloadEnds
CHECK_DEADLOCK FALSE
