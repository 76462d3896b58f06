SPECIFICATION Spec
CONSTANTS
    TickMod = 8
    IwdgTimeout = 1
    BeepPower = 500
    BeepFrequency = 3000
    BeepDuration = 1
    PiezoArr = 499
    Kp = 40000
    Ki = 500
    Kd = 300
    OutMin = 0
    OutMax = 1000
    IntegrMin <- MCIntegrMin
    IntegrMax = 20
    SampleTime = 1
    Deadband = 1
    IntMod = 1048576
    SetpointDefault = 400
    SetpointMin = 395
    SetpointMax = 400
    SetpointStep = 5
    ErrorDelta = 30
    SetpointDisplayDuration = 3
    DisplayMin <- MCDisplayMin
    DisplayMax = 427
    HeaterArr = 999
    Buttons = {"S3"}
    Temps = {428}
PROPERTIES
    BeepKeepsState
