SPECIFICATION Spec
CONSTANTS
    Lead = {l1}
    Followup = {f1}
    Poller = {p1, p2}
    NoPoller = NoPoller
    FollowupLimit = 1
    CallbackLimit = 1
    ClaimTime = 1
    MaxWait = 1
    LastTime = 1
SYMMETRY Symmetry
INVARIANTS
    CallbackDialledOnce
