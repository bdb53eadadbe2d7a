SPECIFICATION Spec
CONSTANTS
  alice = alice
  bob = bob
  store = store
  query = query
  NoService = NoService
  Clients = {alice, bob}
  Services = {store}
  Added = {query}
  MaxReloads = 2
  MaxCalls = 1
  Restricted = TRUE
  Allowed = {alice}
  Remote = {}
  CrossNode = FALSE
  MayUnload = TRUE
  MayStop = FALSE
  Async = FALSE
  QuiesceMayTimeout = FALSE
  SaveMayTimeout = FALSE
  CrashWhen = "never"
INVARIANTS
  ServicesReachable
  
PROPERTIES
  ReloadInvisible
CHECK_DEADLOCK FALSE
