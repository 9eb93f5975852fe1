\* Each service on the smallest instance in which its races happen, one fault each.
\* Some services share model values, so that one small symmetry group serves them all.
SPECIFICATION ServicesSpec
CONSTANTS
    SignSlot = {x1, x2}
    MaxLinks = 3
    MaxDeliveries = 2
    MaxAgentFaults = 1
    Message = {z1, z2, z3}
    MaxPerDay = 1
    MaxInboxFaults = 1
    MaxCallFaults = 1
    Call = {z1, z2, z3}
    FailureThreshold = 2
    SuccessThreshold = 2
    HalfOpenMaxProbes = 1
    MaxCuts = 1
    Request = {x1, x2}
    NumKeys = 2
    DailyLimit = 1
    MaxLookups = 2
    Task = {x1, x2}
    CronRun = {y1, y2}
    MaxCronFaults = 1
    BrowserJob = {z1, z2, z3}
    MaxLosses = 2
SYMMETRY Symmetry
INVARIANTS
    ServicesTypeOK
    SignedOncePerLink
    OneLeadPerCall
    CallAccounted
    LateOnlyIfOnTheWay
    RepliesWithinLimit
    NothingForgotten
    LastReportShown
    AloneTriesEveryKey
    AnnouncedOnce
    LoginOncePerLoss
PROPERTIES
    VoidedStays
CHECK_DEADLOCK FALSE
