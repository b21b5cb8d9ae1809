SPECIFICATION ViewerSpec
CONSTANTS
    Kind <- MCOtherKind
    Filters = {"all", "a"}
    PageLimit = 1
    FillLimit = 2
    MaxCalls = 1
INVARIANT LiveRowsAreKept
CHECK_DEADLOCK FALSE
