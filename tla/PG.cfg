SPECIFICATION Spec
CONSTANTS
    OSDs = {1, 2, 3}
    Setups <- MCSetups
    Writes = {1, 2}
    EpochSpan = 4
INVARIANTS
    ReadsFresh
    SafeKept
    OneContent
CHECK_DEADLOCK FALSE
