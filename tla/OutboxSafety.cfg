SPECIFICATION Spec
CONSTANTS
    Event <- OneCall
    Target = {"t1"}
    Worker = {w1, w2}
    NoWorker = NoWorker
    LeaseTime = 1
    LifeTime = 1
    BackoffCap = 1
    ExpCap = 1
    Capacity = 3
    MaxSeq = 3
SYMMETRY Symmetry
INVARIANTS
    OneLeasePerCall
    CallPrecedesItsEvents
    DeliveredIsPersisted
    DeliveredInOrder
PROPERTIES
    LiveLeaseIsExclusive
    ImplementsCallFeed
