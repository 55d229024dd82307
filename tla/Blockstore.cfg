CONSTANTS
  o1 = o1
  o2 = o2
  b1 = b1
  b2 = b2
  Blocks = {b1, b2}
  NoBlock = NoBlock
  NoOid = NoOid
  Setups <- MCSetups
SPECIFICATION Spec
SYMMETRY BlockSymmetry
INVARIANTS
  NoFatalError
  BlocksExclusive
  ReadsCorrect
  ListsExact
PROPERTIES
  CrashKeeps
CHECK_DEADLOCK FALSE
