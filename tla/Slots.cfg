SPECIFICATION Spec
CONSTANTS
    Lead = {l1, l2, l3}
    Dialer = {d1, d2}
    Call = {c1, c2, c3}
    NoCall = NoCall
    MaxConcurrent = 2
    SlotTime = 3
    DialTime = 1
    CallTime = 1
    Failure = {"uncertain", "disconnected"}
SYMMETRY Symmetry
INVARIANTS
    CapacityHeld
    OneCallPerLead
    KnownCallHoldsSlot
