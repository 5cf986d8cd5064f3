SPECIFICATION Spec
CONSTANTS
    WramSize = 2
    PageSize = 1
    Bytes = {0, 1}
    NFuncs = 2
    Addr <- MCAddr
    Lo <- MCLo
    Hi <- MCHi
    Image <- MCImage
    GenMod = 8
    MaxAct = 2
    MaxS = 3
    MaxWrites = 2
    MaxDepth = 2
    MaxFrames = 7
INVARIANTS
    InterruptOwnRti
CHECK_DEADLOCK FALSE
