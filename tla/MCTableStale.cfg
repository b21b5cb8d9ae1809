SPECIFICATION TableSpec
CONSTANTS
    Tables = {"accounts", "notes"}
    Keys = {1, 2}
    Browsable = {"accounts", "notes"}
    Keyed = {"accounts", "notes"}
    NonDeletable = {"accounts"}
    Referenced <- MCReferenced
    PageSize = 1
    MaxCalls = 2
INVARIANT RowsAreOfTheTableShown
CHECK_DEADLOCK FALSE
