SPECIFICATION MCSpec
CONSTANTS
  Gateways = {"pomelo", "line", "ops"}
  None = None
  Handles = {"h1", "h2"}
  Uids = {"u1"}
  Scripts <- MCScripts
  MaxLives = 2
  MaxPushes = 1
  HandlesReused = TRUE
  LineHandles = {"h1", "h2"}
  LineCalls = {1}
  EchoCalls = {"e1", "e2"}
  MaxConnects = 2
  MaxResults = 2
  OpsNodes = {"n1", "n2"}
  Reliable = {"n1"}
  Commands = {"b1"}
  Singles = {"s1"}
INVARIANTS
  Reassembled
  PushesDirected
  RequestsAnswered
  CallsAnswered
  ReportHonest
PROPERTIES
  GatewaysEnd
CHECK_DEADLOCK FALSE
