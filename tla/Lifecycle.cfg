SPECIFICATION FairSpec
CONSTANTS
    Replica = {r1, r2}
    NoOne = NoOne
    Settings <- AllSettings
    MaxLosses = 1
    MaxFaults = 1
    MaxRestarts = 1
INVARIANTS
    OverlapOnlyInHandover
    NilMeansClean
PROPERTY ShutdownCompletes
CHECK_DEADLOCK FALSE
