SPECIFICATION FairSpec
CONSTANTS
    Body <- MCBody
    Digest <- MCDigest
    Hash <- MCHash
    NoHash = NoHash
    Config = {"A", "B", "P", "empty"}
    Malformed = "malformed"
    Parse <- MCParse
    ETag = {"W/1", "2", "3", "4", "5"}
    Weak = {"W/1"}
    NoETag = ""
    Version <- MCVersion
    Gone = Gone
    EmptyBody = "{}"
    Phase = {"middlewares", "routers"}
    RefusedBy <- MCRefusedBy
    Mixed = "mixed"
    MaxChanges = 2
    MaxFaults = 1
INVARIANTS
    SignatureMatchesCluster
    SkipIsSafe
    NoRedundantApply
    ReadyNeedsApply
    BackoffMatchesOutcome
PROPERTIES
    UpdatesReachSignatures
    CancelStopsLoop
CHECK_DEADLOCK FALSE
