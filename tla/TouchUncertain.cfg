SPECIFICATION Spec
CONSTANTS
    Lead = {l1}
    LastTouch = 2
    Worker = {w1, w2}
    NoWorker = NoWorker
    ClaimTime = 1
    MaxDue = 1
SYMMETRY Symmetry
INVARIANTS
    UncertainIsQuarantined
