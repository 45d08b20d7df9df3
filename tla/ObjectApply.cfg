SPECIFICATION FairSpec
CONSTANTS
    SpecValue = {"s", "t"}
    None = "none"
    MaxAttempts = 5
    MaxChanges = 2
    MaxFaults = 6
    MaxExternal = 2
PROPERTIES
    SuccessMeansWritten
    AppliesSettle
CHECK_DEADLOCK FALSE
