SPECIFICATION DesatSpec
CONSTANTS
    MaxTorque = 2
    MaxMomentum = 4
    Friction = 0
    Full = 2
    InitialSpeeds <- SpeedsMC
    Commands <- CommandsMC
    StuckSpeeds = {5}
    Efficiencies = {1}
    ListSizes = {2, 3}
    Fields <- FieldsMC
    Steps = {1, 2}
    Num = 3
    Den = 4
    MaxDesatDuration = 2
    MinTimeBetweenDesat = 1
    MinFieldSq = 1
    MaxDipole = 4
PROPERTY TorqueOpposesMomentum
