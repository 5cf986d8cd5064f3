SPECIFICATION Spec
CONSTANTS
    Programs <- ManyPrograms
    Tries = 16
    MaxDepth = 3
    MaxPushed = 2
INVARIANTS
    RightWidth
    CallsAgree
PROPERTIES
    BuildEnds
    Confirmed
CHECK_DEADLOCK FALSE
