SPECIFICATION Spec
CONSTANTS
    Ring = 4
    MaxTake = 3
    Half = 2
    Unit = 3
    Steps <- MCSteps
    MaxOut = 6
    Target = 1
    Chunk = 2
    MaxMade = 13
INVARIANTS
    TypeOK
    TapsInside
PROPERTIES
    StreamSpec
CHECK_DEADLOCK FALSE
