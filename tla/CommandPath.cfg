SPECIFICATION CommandSpec
CONSTANTS
    Targets <- MCTargets
    GainSets <- MCGainSets
    InitialGains <- MCInitialGains
    Identity <- MCIdentity
    Cuts = {0, 1, 2}
    MaxRaw = 2
INVARIANTS
    AimsAsCommanded
    GainsAsCommanded
