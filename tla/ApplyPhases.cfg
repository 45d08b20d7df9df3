SPECIFICATION FairSpec
CONSTANTS
    Name = {"a", "b"}
    Desired <- MCDesired
    Max = 2
    MaxRounds = 2
    MaxFaults = 1
INVARIANTS
    SuccessMeansConverged
    RoutersFindMiddlewares
PROPERTY ImplementsConvergence
CHECK_DEADLOCK FALSE
