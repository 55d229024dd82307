SPECIFICATION Spec
CONSTANTS
  OSDs = {1, 2, 3}
  Monitors = {11, 12}
  PGMax = 2
  EpochMax = 2
  Setups <- XSetups
INVARIANTS
  OnePrimary
  DataFound
  CountSafe
CHECK_DEADLOCK FALSE
