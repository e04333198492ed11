SPECIFICATION DownlinkSpec
CONSTANTS
    Products <- ProductsMC
    Period <- PeriodMC
    Steps = {1}
    MaxMade <- MaxMadeMC
    CounterSize = 4
    FieldSize = 2
    MaxBuffer = 2
    Cuts = {0, 1}
INVARIANTS
    DownlinkTypeOK
    PairNeverLags
    GapsAreLosses
PROPERTIES
    GroundNeverGoesBack
    GroundCatchesUp
