\* Two containers, two retries of two attempts, batches of one message, one fault of any kind.
SPECIFICATION Spec
CONSTANTS
    Worker = {w1, w2}
    Ticket = {t1, t2}
    MaxAttempts = 2
    BatchSize = 1
    MaxFaults = 1
SYMMETRY Symmetry
INVARIANTS
    TypeOK
    OneHolder
    NothingLost
PROPERTIES
    RefinesPolicy
CHECK_DEADLOCK FALSE
