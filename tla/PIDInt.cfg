SPECIFICATION PSpec
CONSTANTS
    Kp = 40000
    Ki = 500
    Kd = 300
    OutMin = 0
    OutMax = 1000
    IntegrMin <- MCIntegrMin
    IntegrMax = 20
    SampleTime = 10
    Deadband = 1
    IntMod = 32768
    Setpoints = {395, 400, 405}
    Samples <- MCSamples
    Intervals = {1, 8, 10, 60}
    ErrorMax = 504
    IntervalMax = 60
INVARIANTS
    CastsAreExact
    ColderNotLess
