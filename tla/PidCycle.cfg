SPECIFICATION PidSpec
CONSTANTS
    SafeToNominalRate = 1
    NominalToSafeRate = 1
    MinTimeInMode = 1
    Rates = {0, 2}
    Steps = {1}
    Sensors = {}
    CriticalSensors = {}
    Measurements = {}
    NaN = NaN
    StuckTolerance = 1
    StuckSampleCount = 2
    MinValue = 0
    MaxValue = 5
    MaxChange = 3
    Groups = {}
    Primary <- NoPairs
    Backup <- NoPairs
    Wheels = {1, 2}
    WheelObservations = {"stuck", "tracking"}
    StuckLimit = 1
    DegradedLimit = 1
    AutoSettings = {TRUE}
    MinAllocatable = 1
    Demands <- DemandsMC
    Fields = {0, 1}
    MaxDelta = 3
    Errors <- ErrorsMC
    Feedback <- FeedbackMC
    Nominal <- NominalMC
    LargeErrorPid <- LargeErrorMC
    SmallError = 0
    LargeError = 2
    Limit = 3
    AntiWindup = 2
INVARIANTS
    FailedWheelsNotDriven
    LostWheelsEndSafe
PROPERTIES
    PointingTorqueSmooth
    DetumbleSeesLastChange
    IntegralUnwinds
