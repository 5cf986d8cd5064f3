SPECIFICATION Spec
CONSTANTS
    LineClocks = 40
    ShortBy = 4
    Lines = 3
    ShortLine = 2
    VBlankLine = 1
    HBlankClock = 30
    RefreshAt = 18
    RefreshClocks = 10
    ReadHold = 4
    DmaLead = 4
    DmaTime = 44
    DmaWait = 4
    Offsets = {"a", "b"}
    DmaOffset = "a"
    Values = {0, 1}
    Insns <- MCInsns
    MaxLines = 5
INVARIANTS
    EdgeView
PROPERTIES
    StoresKept
    CountersExact
