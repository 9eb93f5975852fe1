\* One of two creations fails.
CONSTANTS
    l1 = l1
    l2 = l2
    l3 = l3
    Lead = {l1, l2, l3}
    Queue <- MCQueue3
    HasPhone = {l1, l2, l3}
    Lines = 2
    Call = {c1, c2}
    NoCall = NoCall
    NoLead = NoLead
    Disposition = {"no_answer"}
    Inferred = {"no_answer"}
    MaxDials = 1
    MaxDispositions = 0
    MaxFaults = 1
    MaxLate = 0
SPECIFICATION Spec
SYMMETRY CallSymmetry
CHECK_DEADLOCK FALSE
INVARIANT
    ActiveCallsAttributed
