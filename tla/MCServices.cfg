SPECIFICATION ServicesSpec
CONSTANTS
    Minute = 2
    Lead = 2
    Allowance = 1
    ScheduleDay = 6
    ScheduleHorizon = 24
    TraceQueue = 1
    Qps = 2
    Daily = 3
    LimiterDay = 3
    LimiterHorizon = 5
    Messages <- MCMessages
    Topics = {"t1", "t2"}
    TopicOf <- MCTopicOf
    Workers = {"w1", "w2"}
    InboxSize = 2
    MaxDeliveries = 2
    MaxSessions = 4
    MaxTiers = 3
    MinAttempts = 2
    MaxChunks = 2
    LogWindow = 2
    LogLimit = 4
    JobFaultLimit = 2
    CallLimit = 2
    CardLimit = 2
    SinkTraces <- MCSinkTraces
    SinkRequestOf <- MCSinkRequestOf
    SinkMalformed = {"x"}
    SinkQueue = 1
    SinkBatch = 2
    SinkFaults = 1
    GrantCallers = {"image"}
    GrantLife = 3
    GrantSkew = 1
    GrantTimeout = 1
    GrantHorizon = 4
    GrantLimit = 2
    TokenLimit = 3
    GrantFaults = 1
    CallbackLimit = 1
    FileEdits = {"e1", "e2"}
    FileCreates = {"e1"}
    FileTexts = {"x", "y"}
    FileMetas = {"m", "n"}
    TouchLimit = 2
    Entered = {1, 2}
    EntryTurns = 2
    EntryRuns = 2
    EntrySteps = 2
    EntryFeed = 1
    Conns = {k1, k2}
    Callers = {a1, a2}
    Turns = {t1}
    Posts = {p1}
    Owners = {o1, o2}
    Cards = {d1, d2}
    NoTurn = NoTurn
    NoCard = NoCard
    NoFrame = NoFrame
INVARIANTS
    ActsOnAgreement
    CardsAreSettled
    UpstreamAccepts
    TurnsAreAccounted
    OneSessionPerTopic
    WithinBudget
    RetriesAreTold
    GrantIsKept
    GuestEntryIsTold
    JobsAreFollowed
PROPERTIES
    ImplementsConsentGate
    EditsAreHonest
SYMMETRY IdSymmetry
CHECK_DEADLOCK FALSE
