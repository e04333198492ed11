SPECIFICATION UnattendedSpec
CONSTANTS
    SafeToNominalRate = 1
    NominalToSafeRate = 1
    MinTimeInMode = 2
    Rates = {0, 1, 2}
    Steps = {1}
    Sensors = {"gyro_primary", "gyro_backup"}
    CriticalSensors = {"gyro_primary", "gyro_backup"}
    Measurements = {4, 6}
    NaN = NaN
    StuckTolerance = 1
    StuckSampleCount = 1
    MinValue = 0
    MaxValue = 5
    MaxChange = 3
    Groups = {"gyro"}
    Primary <- GyroPrimary
    Backup <- GyroBackup
    Wheels = {1, 2}
    WheelObservations = {"saturated", "tracking"}
    StuckLimit = 1
    DegradedLimit = 1
    AutoSettings = {TRUE}
    MinAllocatable = 1
PROPERTIES
    TumbleEndsInSafe
    DetumbledLeavesSafe
