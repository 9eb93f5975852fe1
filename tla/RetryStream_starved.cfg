\* One container, one retry, no fault.
SPECIFICATION FairSpec
CONSTANTS
    Worker = {w1}
    Ticket = {t1}
    MaxAttempts = 2
    BatchSize = 10
    MaxFaults = 0
PROPERTIES
    RetriesRun
CHECK_DEADLOCK FALSE
