SPECIFICATION MCSpec
CONSTANTS
    TickMod = 6
    IwdgTimeout = 1
    BeepPower = 500
    BeepFrequency = 3000
    BeepDuration = 2
    PiezoArr = 499
    Kp = 40000
    Ki = 500
    Kd = 300
    OutMin = 0
    OutMax = 1000
    IntegrMin <- MCIntegrMin
    IntegrMax = 20
    SampleTime = 100000
    Deadband = 1
    IntMod = 1048576
    SetpointDefault = 400
    SetpointMin = 395
    SetpointMax = 400
    SetpointStep = 5
    ErrorDelta = 30
    SetpointDisplayDuration = 0
    DisplayMin <- MCDisplayMin
    DisplayMax = 427
    HeaterArr = 999
    IrqMod = 65536
    TicksPer100 = 2
    UartPressDuration = 2
    Phys = {}
    Bytes = {"S3", "other"}
    Buttons = {"S3"}
    Temps = {}
    QueueMax = 2
    AgeMax = 5
    RxMax = 1
    MaxBacklog = 2
INVARIANTS
    LoopType
    LossOnlyInDecrement
    ReleaseInTime
    BeepEndsInTime
PROPERTIES
    ReleaseNotEarly
    BeepNotCut
    BacklogDrains
