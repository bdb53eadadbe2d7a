SPECIFICATION SpecLeased
CONSTANTS
  Calls = {"c1", "c2", "c3"}
  KeyOf <- MCKeyOf
  Attempts <- MCAttempts
  Routes <- MCRoutes
  MaxSends = 2
INVARIANTS
  AnsweredInOrder
  OkPerformed
PROPERTIES
  PerformedInOrder
  
CHECK_DEADLOCK FALSE
