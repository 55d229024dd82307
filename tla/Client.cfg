CONSTANTS
  Units = {1, 2, 3}
  OSDs = {1, 2}
  Setups <- MCSetups
SPECIFICATION Spec
CHECK_DEADLOCK FALSE
CONSTRAINT Asserted
INVARIANTS
  WaitsExact
  SyncDurable
  ReadsFresh
