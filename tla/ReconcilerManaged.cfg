SPECIFICATION Spec
CONSTANTS
    Name = {"a", "b"}
    Worker = {w1}
    QueueSize = 2
    Modes = {"grace"}
    None = None
    MaxRounds = 2
    MaxFaults = 0
    MaxExternal = 1
    MaxCrashes = 0
PROPERTY OnlyManagedStaleDeleted
CHECK_DEADLOCK FALSE
