SPECIFICATION FairSpec
CONSTANTS
    Message = {text, mail}
    Mail = {mail}
    Entry <- CallAndTurn
    Reports <- ReportsOf
    Sender = {s1, s2}
    Target = {"t1", "t2"}
    Worker = {w1, w2}
    NoWorker = NoWorker
    LeaseTime = 1
    LifeTime = 1
    BackoffCap = 1
    ExpCap = 1
    Capacity = 2
    MaxSeq = 3
    Reported = {"delivered", "bounce"}
    Success = {"delivered"}
    Failure = {"bounce"}
    Suppressing = {"bounce"}
    Deliverer = {w1}
    Limit = 1
    Review = {r1, r2}
    NoReview = NoReview
    Applier = {a1, a2}
    Mailer = {m1}
    MaxAttempts = 1
    MaxReplies = 2
    Retried = {r1}
    MaxRetries = 2
    LastFact = 2
    Flusher = {own, loop}
    Own = own
    NoFlusher = NoFlusher
    Life = 2
    Lease = 1
    MaxLapses = 1
    SilenceEnd = 3
    RenewEnd = 3
    Duration = 1
    MaxTurns = 2
INVARIANTS
    MessagesSound
    RepliesSound
    CallsSound
    EventsStayWithTheirDestination
PROPERTIES
    VerdictsStand
    JournalsSettle
    NothingWaitsForever
