SPECIFICATION FairSpec
CONSTANTS
  db = db
  cache = cache
  biz = biz
  ops = ops
  Plugins = {db, biz}
  Ctls = {ops}
  NoPlugin = NoPlugin
  LoadOrder <- Two
  ShutdownOrder <- NoOrder
  Stateless = {db}
  MaxSignals = 2
  BootDisturbed = FALSE
  ForceMayPreempt = FALSE
  ResolveMayTimeout = FALSE
  SaveMayTimeout = TRUE
  CkptMayFail = TRUE
  CkptMayTimeout = FALSE
  PluginMayCrash = TRUE
  Traffic = FALSE
  MonitorAdditive = TRUE
INVARIANTS
  PhasesInOrder
  NoUnsavedExit
  NoOrphan
PROPERTIES
  ShutdownCompletes
CHECK_DEADLOCK FALSE
