SPECIFICATION Spec
CONSTANTS
    Lead = {l1}
    Dialer = {d1, d2}
    Call = {c1, c2}
    NoCall = NoCall
    MaxConcurrent = 1
    SlotTime = 3
    DialTime = 1
    CallTime = 1
    Failure = {"uncertain", "disconnected"}
SYMMETRY Symmetry
INVARIANTS
    LiveCallHoldsSlot
