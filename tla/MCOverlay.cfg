SPECIFICATION Spec
CONSTANTS
    WramSize = 2
    PageSize = 1
    Bytes = {0, 1}
    NFuncs = 2
    Addr <- MCAddr
    Lo <- MCLo
    Hi <- MCHi
    Image <- MCImage
    GenMod = 8
    MaxAct = 2
    MaxS = 1
    MaxWrites = 2
    MaxDepth = 1
    MaxFrames = 5
INVARIANTS
    TypeOK
    CacheSound
    JumpTargetLive
PROPERTIES
    NativeBytesCurrent
CHECK_DEADLOCK FALSE
