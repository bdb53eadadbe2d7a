SPECIFICATION Spec
CONSTANTS
  db = db
  cache = cache
  biz = biz
  ops = ops
  Plugins = {db, biz}
  Ctls = {ops}
  NoPlugin = NoPlugin
  LoadOrder <- Two
  ShutdownOrder <- NoOrder
  Stateless = {db}
  MaxSignals = 1
  BootDisturbed = TRUE
  ForceMayPreempt = TRUE
  ResolveMayTimeout = TRUE
  SaveMayTimeout = TRUE
  CkptMayFail = TRUE
  CkptMayTimeout = TRUE
  PluginMayCrash = TRUE
  Traffic = TRUE
  MonitorAdditive = TRUE
INVARIANTS
  QuitBarrier
CHECK_DEADLOCK FALSE
