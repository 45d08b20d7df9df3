SPECIFICATION FairSpec
CONSTANTS
    Name = {"a", "b"}
    Worker = {w1}
    QueueSize = 1
    Modes = {"immediate", "grace", "readonly"}
    None = None
    MaxRounds = 2
    MaxFaults = 1
    MaxExternal = 1
    MaxCrashes = 1
INVARIANTS
    DesiredExistAtOnce
    StaleAccountedFor
    OwnObjectsStayManaged
PROPERTIES
    OnlyStaleCollected
    RoundsEnd
    GraceRequestsServed
CHECK_DEADLOCK FALSE
