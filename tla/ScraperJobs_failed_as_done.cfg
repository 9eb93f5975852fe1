SPECIFICATION Spec
CONSTANTS
    Worker = {w1, w2}
    Job = {j1}
    CashBuyers = {}
    MaxRetries = 1
    MaxAttempts = 2
    MaxFaults = 0
INVARIANT FailedIsNotDone
CHECK_DEADLOCK FALSE
