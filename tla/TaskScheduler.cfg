SPECIFICATION Spec
CONSTANTS
    Tasks = {"control", "guidance", "telemetry"}
    Period <- MCPeriod
    Priority <- MCPriority
    Throwing = {"guidance"}
    BaseDt = 2
    Durations = {0, 5}
    MaxRuns = 2
    MaxTime = 6
INVARIANTS
    TaskOnTime
    CycleByPriority
PROPERTIES
    NoEarlyCall
