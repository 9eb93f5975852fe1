\* Two lines, two calls, two /call requests: every AMD and callback interleaving.
CONSTANTS
    l1 = l1
    l2 = l2
    l3 = l3
    Lead = {l1, l2, l3}
    Queue <- MCQueue3
    HasPhone = {l1, l2, l3}
    Lines = 2
    Call = {c1, c2}
    NoCall = NoCall
    NoLead = NoLead
    Disposition = {"dnc"}
    Inferred = {"answered"}
    MaxDials = 2
    MaxDispositions = 1
    MaxFaults = 1
    MaxLate = 0
SPECIFICATION Spec
SYMMETRY CallSymmetry
CHECK_DEADLOCK FALSE
INVARIANTS
    TypeOK
    CountersExactUnlessLost
    FullBatchAttributed
    WinnerNotHungUp
    OneWinnerPerBatch
PROPERTIES
    IndexForwardUnlessLost
