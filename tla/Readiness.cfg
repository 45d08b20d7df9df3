SPECIFICATION ReadySpec
CONSTANTS
    MaxInt = 31
    MaxErrors = 8
    Steps = 4
    Durations <- AllDurations
    Second = 1
    Followed <- SmallSettings
INVARIANTS
    DoublingIsExact
    
    LoneFailureTolerated
    RecoveryIsPrompt
CHECK_DEADLOCK FALSE
