SPECIFICATION HSpec
CONSTANTS
    TickMod = 5
    IwdgTimeout = 1
    Phys = {"S1", "S2"}
    DebounceMs = 1
    HoldMs = 2
    DoubleClickGap = 1
    ComboLong = 2
    Observed = "S2"
    AgeMax = 5
INVARIANTS
    ButtonsType
    SettlesInTime
    HoldInTime
PROPERTIES
    NoBounceReported
    ImplementsKeyReports
    ComboLengths
