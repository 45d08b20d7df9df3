SPECIFICATION FairSpec
CONSTANTS
    Class = {"traefik", "other"}
    Default = "traefik"
    Value = {"", "x", "y"}
    Blank = ""
    Invalid = {"!"}
    Absent = Absent
    NoKey = NoKey
    Unset = Unset
    Half = Half
    Settings <- MCSettings
    Strict = TRUE
    MaxEdits = 1
    MaxFaults = 1
    MaxRestarts = 2
INVARIANTS
    NoFalseAlarm
    RestartFindsSame
PROPERTY MismatchIsFatal
CHECK_DEADLOCK FALSE
