SPECIFICATION HTTPSpec
CONSTANTS
    Char <- MCChar
    AlphaNum = {"a", "x"}
    Lower <- MCLower
    Hash <- MCHash
    maxK8sNameLength = 5
    nameHashLength = 2
    MaxLength = 6
    Config <- MCConfig
    Part = {"", "a", "b", "ns", "other", "svc", "local"}
    Port = {0, 80, 443}
    Namespace = "ns"
    Gateway = "b"
    GatewayPort = 80
    LBURL <- MCLBURL
    NoURL = NoURL
    Blank = Blank
    NotString = NotString
INVARIANTS
    NothingVanishes
    LastNameWins
    ReferencesFollow
    NamesAreValid
    NamesKeepWords
    ConversionKeepsBackends
    RoutesFollowRouters
CHECK_DEADLOCK FALSE
