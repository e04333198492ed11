SPECIFICATION HistorySpec
CONSTANTS
    SafeToNominalRate = 1
    NominalToSafeRate = 1
    MinTimeInMode = 1
    Rates = {0}
    Steps = {1}
    Sensors = {}
    CriticalSensors = {}
    Measurements = {}
    NaN = NaN
    StuckTolerance = 1
    StuckSampleCount = 2
    MinValue = 0
    MaxValue = 5
    MaxChange = 3
    Groups = {}
    Primary <- NoPairs
    Backup <- NoPairs
    Wheels = {1, 2}
    WheelObservations = {"saturated", "idle", "stuck", "weak", "tracking"}
    StuckLimit = 2
    DegradedLimit = 3
    AutoSettings = {TRUE}
    MaxSeen = 4
CHECK_DEADLOCK FALSE
INVARIANTS
    StatusIsVerdict
    ModeTellsLostWheels
