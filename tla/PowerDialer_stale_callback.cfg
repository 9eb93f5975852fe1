\* A callback after the agent logged the result.
CONSTANTS
    l1 = l1
    l2 = l2
    l3 = l3
    Lead = {l1, l2, l3}
    Queue <- MCQueue3
    HasPhone = {l1, l2, l3}
    Lines = 1
    Call = {c1, c2}
    NoCall = NoCall
    NoLead = NoLead
    Disposition = {"no_answer"}
    Inferred = {"no_answer"}
    MaxDials = 1
    MaxDispositions = 1
    MaxFaults = 0
    MaxLate = 0
SPECIFICATION Spec
SYMMETRY CallSymmetry
CHECK_DEADLOCK FALSE
INVARIANT
    StaleCallbackIgnored
