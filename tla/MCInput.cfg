SPECIFICATION Spec
CONSTANTS
    Buttons = {"a", "b"}
    IdBits = {"id"}
    Keys = {"z", "w"}
    KeyMap <- MCKeyMap
    PadMap = {"b"}
    Script <- MCScript
    Window = 2
    MaxFrame = 4
INVARIANTS
    DuplicatesIgnored
    OthersHeld
    RecordingHolds
CHECK_DEADLOCK FALSE
