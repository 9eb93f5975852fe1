\* Two servers and two connections each, a run of two hours meeting the next one,
\* one lead that can be reached and one that cannot, one fault.
SPECIFICATION Spec
CONSTANTS
    Server = {p1, p2}
    Conn = {c1, c2}
    Lead = {l1, l2}
    Step = {s0}
    Unreachable = {l2}
    HoursPerDay = 2
    MaxHour = 1
    MaxFaults = 1
CONSTANT DayOffset <- Offsets
SYMMETRY Symmetry
INVARIANTS
    OneServerAtATime
    SentOnce
    RunLogsAll
CHECK_DEADLOCK FALSE
