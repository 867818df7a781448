SPECIFICATION ContactSpec
CONSTANTS
    Lead = {l1}
    LastTouch = 2
    Worker = {w1, w2}
    NoWorker = NoWorker
    ClaimTime = 1
    MaxDue = 1
    StepDay = {0, 1}
    LastDay = 3
    Ticking <- OneOfThem
    WarmSilence = 2
    ColdSilence = 2
    MailSilence = 1
    MaxStarts = 1
    MaxLapses = 1
    Outcome = {"c1", "c2"}
    Request = {"o1"}
    Running <- AnyTwo
    MaxFailures = 1
INVARIANTS
    AtMostOneDial
    CompletedRang
    SequencesSound
PROPERTIES
    VerdictsStand
    EveryTouchSettles
    SequencesEnd
