SPECIFICATION Spec
CONSTANTS
    LineClocks = 104
    ShortBy = 8
    Lines = 4
    VBlankLine = 2
    ShortLine = 3
    HdmaClock = 80
    RefreshAt = 38
    RefreshClocks = 16
    InitAt = 12
    NmiAt = 6
    RdnmiAt = 2
    Sync = 8
    IdleClocks = 6
    ReadHold = 4
    StartDelay = 22
    IntEntry <- MCIntEntry
    HMax = 25
    InitCost = 16
    MaxNest = 1
    Insns <- OneInsn
    Programs = {{"nmitimen", "rdnmi", "wai", "rti", "reset"}, {"nmitimen", "mdmaen", "rti"}}
    NmitimenValues <- NmiOnOff
    HTimes = {}
    VTimes = {}
    DmaUnits = {3}
    HdmaCosts = {24}
INVARIANTS
    RdnmiInVBlank
PROPERTIES
    WaiEnds
    NmiTaken
    LinesEnd
