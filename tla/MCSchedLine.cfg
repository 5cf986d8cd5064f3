SPECIFICATION Spec
CONSTANTS
    LineClocks = 92
    ShortBy = 4
    Lines = 4
    VBlankLine = 2
    ShortLine = 3
    HdmaClock = 72
    RefreshAt = 38
    RefreshClocks = 16
    InitAt = 12
    NmiAt = 6
    RdnmiAt = 2
    Sync = 8
    IdleClocks = 6
    ReadHold = 4
    StartDelay = 22
    IntEntry <- MCIntEntry
    HMax = 18
    InitCost = 16
    MaxNest = 1
    Insns <- ShortInsn
    Programs = {{"nop", "mdmaen", "hdmaen", "rdnmi", "reset"},
        {"nop", "sei", "cli", "nmitimen", "htime", "vtime", "timeup", "wai", "rti"}}
    NmitimenValues <- TimerModes
    HTimes = {14}
    VTimes = {1}
    DmaUnits = {9}
    HdmaCosts = {24}
INVARIANTS
    WalkCommitAgree
    TransferAligned
    TimeupIsIrqLine
    NoIrqAfterEntry
PROPERTIES
    ChargedWholeIsQuiet
    HdmaNotLost
    AccessClockExact
