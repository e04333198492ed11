SPECIFICATION BadSpec
CONSTANTS
    Sensors = {gyro}
    Gyro = gyro
    Measurements = {0, 1, 3, 6, NaN}
    NaN = NaN
    StuckTolerance = 2
    StuckSampleCount = 3
    MinValue = 1
    MaxValue = 4
    MaxChange = 2
INVARIANTS
    FailedIffFrozen
    TaintLastsUntilReset
    TorqueLostForGood
    InvalidOneUpdateLater
