SPECIFICATION Spec
CONSTANTS
  Plugins = {1, 2, 3}
  Services = {1, 2, 3}
  NoPlugin = 0
  Inputs <- All
INVARIANTS
  DependenciesFirst
  CompleteOrEmpty
  LeastFirst
  ResolvesClosure
CHECK_DEADLOCK FALSE
