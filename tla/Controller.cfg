SPECIFICATION MCSpec
CONSTANTS
    TickMod = 4
    IwdgTimeout = 2
    BeepPower = 500
    BeepFrequency = 3000
    BeepDuration = 1
    PiezoArr = 499
    Kp = 40000
    Ki = 500
    Kd = 300
    OutMin = 0
    OutMax = 1000
    IntegrMin <- MCIntegrMin
    IntegrMax = 20
    SampleTime = 100000
    Deadband = 1
    IntMod = 1048576
    SetpointDefault = 400
    SetpointMin = 395
    SetpointMax = 400
    SetpointStep = 5
    ErrorDelta = 30
    SetpointDisplayDuration = 1
    DisplayMin <- MCDisplayMin
    DisplayMax = 425
    HeaterArr = 999
    Buttons = {"S1", "S2"}
    Temps = {394, 426}
INVARIANTS
    TypeOK
    NoHeatWhenOverheated
    OutputFollowsPower
    RegulatorIsCurrent
    StateAgrees
    DisplayAgrees
    SoundHasEnd
    IntervalAfterReset
PROPERTIES
    ImplementsThermostat
    DisplayReverts
