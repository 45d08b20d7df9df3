SPECIFICATION FairSpec
CONSTANTS
    Replica = {r1}
    NoOne = NoOne
    Settings <- ElectedSettings
    MaxLosses = 1
    MaxFaults = 0
    MaxRestarts = 0
PROPERTY LossIsHandled
CHECK_DEADLOCK FALSE
