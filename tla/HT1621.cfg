SPECIFICATION MSpec
CONSTANTS
    Values <- MCValues
    Numbers <- MCNumbers
    MaxDrawn = 1
INVARIANTS
    DisplayType
    TemperatureReadable
PROPERTY IconsKept
