SPECIFICATION FDIRSpec
CONSTANTS
    SafeToNominalRate = 1
    NominalToSafeRate = 1
    MinTimeInMode = 1
    Rates = {0, 1, 2}
    Steps = {1}
    Sensors = {"gyro_primary", "gyro_backup", "mag"}
    CriticalSensors = {"gyro_primary", "gyro_backup"}
    Measurements = {1, 9}
    NaN = NaN
    StuckTolerance = 1
    StuckSampleCount = 2
    MinValue = 0
    MaxValue = 5
    MaxChange = 3
    Groups = {"gyro"}
    Primary <- MCPrimary
    Backup <- MCBackup
    Wheels = {}
    WheelObservations = {"tracking"}
    StuckLimit = 1
    DegradedLimit = 1
    AutoSettings = {TRUE, FALSE}
INVARIANTS
    SpareIsUsable
    LostOnlyWithoutSpare
PROPERTIES
    CriticalLossIsAnswered
