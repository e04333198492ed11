SPECIFICATION DwellSpec
CONSTANTS
    SafeToNominalRate = 1
    NominalToSafeRate = 2
    MinTimeInMode = 5
    Rates = {0, 1, 2, 3}
    Steps = {0, 1, 2}
INVARIANTS
    ClockNeverAhead
PROPERTIES
    AutomaticTransitionsApart
