CONSTANTS
  Cap = 3
  Inf = 9
  Setups <- MCSetups
SPECIFICATION Spec
PROPERTIES
  Implements
  OpsReturn
CHECK_DEADLOCK FALSE
