SPECIFICATION Spec
CONSTANTS
    Num = 2
    Den = 5
    Ports = {1, 2}
    Values = {0, 1}
    LineClocks = 5
    InsnClocks <- MCInsnClocks
    StartDelay = 11
    MaxRecent = 2
INVARIANTS
    InStep
    ReadsAsOfClock
PROPERTIES
    PendingLands
