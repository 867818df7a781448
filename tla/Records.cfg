SPECIFICATION RecordsSpec
CONSTANTS
    Lead = {l1}
    Dialer = {x1, x2}
    Call = {y1, y2}
    NoCall = NoCall
    MaxConcurrent = 1
    SlotTime = 3
    DialTime = 1
    CallTime = 1
    Failure = {"uncertain", "disconnected"}
    Guest = {g1, g2}
    Hour = {1, 2}
    HalfDay <- TwoInOneHalfDay
    Command = {a1}
    Reminder = {m1}
    MaxVersion = 2
    MaxTexts = 1
    LastHalfDay = 2
    Question = {1, 2}
    Property = {y1, y2}
    NoProperty = NoProperty
    Price = {1}
    Operator = {x1, x2}
    ReviewTime = 1
    MaxChanges = 1
    House = {y1, y2}
    Batcher = {x1, x2}
    Purchase = {1, 2, 3}
    Cap = 3
    HardCap = 2
    Window = 1
    Writer = {x1, x2}
    Worth = {200, 300}
    Motive = {80}
    Standing = 62
    Threshold = 50
    Payload = {1, 2}
    MaxJobs = 4
    Distress = {"unknown", "pre_foreclosure", "tax_delinquent", "probate"}
    Years <- Tenures
    Standings = {62, 100}
    MaxFacts = 3
    Recent = 0
    Lately = 0
    Once = 1
    LastDay = 2
    Distressed = 60
    Replier = {x1, x2}
    MaxContacts = 2
SYMMETRY Symmetry
INVARIANTS
    CountedOnce
    NewestCallStands
    BookingsSound
    ReviewsSound
    BudgetSound
PROPERTIES
    OutcomesStand
    RecordsSound
