\* The agent, one line, two leads, one call; three retries of two attempts through a
\* deque of two, one raising callback.
CONSTANTS
    l1 = l1
    l2 = l2
    l3 = l3
    Lead = {l1, l2}
    Queue <- MCQueue2
    HasPhone = {l1, l2}
    Lines = 1
    Call = {c1}
    NoCall = NoCall
    NoLead = NoLead
    Disposition = {"dnc", "skip"}
    Inferred = {"no_answer"}
    MaxDials = 1
    MaxDispositions = 4
    MaxFaults = 1
    MaxLate = 1
    MemoryTicket = {t1, t2, t3}
    MemoryAttempts = 2
    MaxQueueSize = 2
    MaxRaises = 1
SPECIFICATION QueuesSpec
CHECK_DEADLOCK FALSE
INVARIANTS
    QueuesTypeOK
    OnePlace
    StatsMatchRecords
    DncMarkedFirst
    ClosedWithItsQueue
PROPERTIES
    RefinesPolicy
    NoneWaitsForever
    NeverReopened
    SessionCloses
