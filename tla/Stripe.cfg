SPECIFICATION Spec
CONSTANTS
    Size = 3
    Nothing = Nothing
    Setups <- MCSetups
INVARIANTS
    ChunksRight
    ReadsRight
PROPERTIES
    ScrubExact
CONSTRAINT Alive
CHECK_DEADLOCK FALSE
