SPECIFICATION Spec
CONSTANTS
    Server = {p1, p2}
    Conn = {c1, c2}
    Lead = {l1, l2}
    Step = {s0}
    Unreachable = {l2}
    HoursPerDay = 2
    MaxHour = 1
    MaxFaults = 0
CONSTANT DayOffset <- Offsets
SYMMETRY Symmetry
INVARIANT LockMeansRunning
CHECK_DEADLOCK FALSE
