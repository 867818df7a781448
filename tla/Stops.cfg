SPECIFICATION FairSpec
CONSTANTS
    Phone = {p1}
    Handler = {h1}
    Sender = {s1}
    Worker = {w1, w2}
    NoWorker = NoWorker
    LeaseTime = 1
    MaxDelay = 1
INVARIANTS
    NoContactAfterStop
    RecoveredIsRecorded
PROPERTIES
    RecoveredStays
    EveryStopIsRecovered
