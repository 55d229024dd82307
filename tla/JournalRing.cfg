CONSTANTS
  Ids = {e1, e2, e3}
  JLen = 8
  PerSector = 2
  DataLens = {0, 1, 2}
  MaxReserve = 2
SPECIFICATION Spec
SYMMETRY IdSymmetry
INVARIANTS
  NoOverwrite
  SuperblockCoversLive
  NoCrossing
CHECK_DEADLOCK FALSE
