SPECIFICATION Spec
CONSTANTS
    Lead = {l1}
    LastTouch = 1
    Worker = {w1}
    NoWorker = NoWorker
    ClaimTime = 1
    MaxDue = 1
PROPERTIES
    RevocationSurvives
