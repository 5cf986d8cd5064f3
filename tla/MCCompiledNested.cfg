SPECIFICATION Spec
CONSTANTS
    Programs <- Nested
    Tries = 16
    MaxDepth = 3
    MaxPushed = 2
INVARIANTS
    CallsAgree
CHECK_DEADLOCK FALSE
