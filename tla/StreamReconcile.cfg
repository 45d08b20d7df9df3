SPECIFICATION StreamSpec
CONSTANTS
    Char <- MCChar
    AlphaNum = {"0", "1", "a", "x"}
    Lower <- MCLower
    Hash <- MCHash
    maxK8sNameLength = 10
    nameHashLength = 2
    Digit <- MCDigit
    MaxPort = 3
    Family <- MCFamily
    Section <- MCSection
    Leftover <- MCLeftover
INVARIANTS
    RoutesNameServices
    SlicesAreUniform
    RoutesNeverDangle
CHECK_DEADLOCK FALSE
