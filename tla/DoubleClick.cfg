SPECIFICATION DSpec
CONSTANTS
    TickMod = 12
    IwdgTimeout = 2
    Phys = {"S2"}
    DebounceMs = 1
    HoldMs = 3
    DoubleClickGap = 6
    ComboLong = 3
    AgeMax = 8
PROPERTY DoubleClickReported
