CONSTANTS
    Parts = {"guard", "ports", "pool", "smart", "sse", "log", "writer"}
    r1 = r1
    r2 = r2
    r3 = r3
    k1 = k1
    k2 = k2
    Client = {c1, c2, c3}
    MaxClients = 2
    Attempts = 2
    RiskThreshold = 2
    GuardConfig <- BusyGuards
    Keeper = {r1, r2, r3}
    Key = {k1, k2}
    KeyOf <- TwoOfOne
    Port = {1, 2}
    NoPort = 0
    Request = {q1, q2}
    Member = {m1, m2}
    Upstream = {u1}
    UpstreamOf <- OneUpstream
    Room <- PoolRoom
    Rate <- PoolRate
    PoolAttempts = 2
    Exploration = 1
    MayBeMalformed = TRUE
    SmartRequest = {s1, s2}
    SmartKey = {d1, d2}
    Url = {v1}
    UrlOf <- OneUrl
    SmartRoom <- UrlRoom
    SmartAttempts = 2
    NoOne = NoOne
    MaxLines = 3
    LogLines = 4
    LogTurns = 2
    MaxChunk = 3
    QualityKey = {a, b}
    Batch = 2
    FlushAttempts = 2
    LastAttempts = 2
    MaxQuality = 1
    MaxOlder = 1
SPECIFICATION ServicesSpec
INVARIANTS ServicesTypeOK ClientsCounted OneHead FailuresAccounted
    EndOfNewTurn CountExact PortsDistinct PortKept OneSource ResponsePreferred
    FailoverMoves RejectedMoves NoCircularWait VerdictExact
PROPERTY LagsBehind
CHECK_DEADLOCK FALSE
