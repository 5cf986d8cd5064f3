SPECIFICATION Spec
CONSTANTS
    Bits = 2
    StepClocks = 4
    Grid = 8
    Delay = 5
    LineClocks = 20
    Lines = 4
    VBlankLine = 1
    InsnClocks <- MCInsnClocks
    MaxEnables = 1
INVARIANTS
    FrameSeesItsButtons
PROPERTIES
    ReadsAsOfClock
    BusyEnds
