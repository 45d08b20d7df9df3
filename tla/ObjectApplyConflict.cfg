SPECIFICATION FairSpec
CONSTANTS
    SpecValue = {"s", "t"}
    None = "none"
    MaxAttempts = 5
    MaxChanges = 1
    MaxFaults = 0
    MaxExternal = 0
INVARIANT ConflictRetried
CHECK_DEADLOCK FALSE
