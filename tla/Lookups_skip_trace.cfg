SPECIFICATION LookupsSpec
CONSTANTS
    Request = {r1, r2}
    NumKeys = 2
    DailyLimit = 1
    MaxLookups = 2
INVARIANT SkipTracesWithinLimit
CHECK_DEADLOCK FALSE
