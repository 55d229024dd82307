CONSTANTS
  Setups <- MCSetups
  IdMax = 5
SPECIFICATION Spec
INVARIANT ContentKept
INVARIANT ReadsFresh
PROPERTY CommandsEnd
CHECK_DEADLOCK FALSE
