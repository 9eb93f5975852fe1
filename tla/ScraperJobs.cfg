SPECIFICATION FairSpec
CONSTANTS
    Worker = {w1, w2}
    Job = {j1}
    CashBuyers = {j1}
    MaxRetries = 2
    MaxAttempts = 2
    MaxFaults = 1
INVARIANTS
    TypeOK
    RetryPendingIsQueued
    NoOrphanRunning
    FinishedNotRequeued
PROPERTIES
    SettledStays
    JobsSettle
CHECK_DEADLOCK FALSE
