CONSTANTS
    Prompt = {p1, p2}
    Goal = {g1}
    NoPrompt = NoPrompt
    NoGoal = NoGoal
    Imported = {}
    SyncOnNewSession = TRUE
    InitialPrompt = "text"
    Users = {"pause"}
    Faults = {}
    MaxBudget = 2
    Client = {c1, c2}
    MaxClients = 2
    Attempts = 2
    RiskThreshold = 2
    GuardConfig <- TwoGuards
    u1 = u1
    Request = {q1, q2}
    Member = {m1}
    Upstream = {u1}
    UpstreamOf <- OneUpstream
    Room <- OneAtATime
    Rate <- OneAtATime
    PoolAttempts = 2
    Exploration = 1
    MayBeMalformed = FALSE
    QualityKey = {a, b}
    Batch = 2
    FlushAttempts = 2
    LastAttempts = 2
    MaxQuality = 2
    MaxOlder = 0
SPECIFICATION GoesOnSpec
INVARIANT FlushKeeps
PROPERTIES ContinuationGoesOn ManualPromptTyped FailureTold RequestsEnd
CHECK_DEADLOCK FALSE
