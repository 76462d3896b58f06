SPECIFICATION HSpec
CONSTANTS
    Edges <- MCEdges
    Answers <- MCAnswers
    Readings <- MCReadings
    Cuts = {0, 7, 9, 33, 64, 71}
    Stalls = {40}
INVARIANT SensorType
PROPERTIES
    ConvertNeedsPresence
    ReadingReported
    CutReadRejected
    MeasurementsGoOn
