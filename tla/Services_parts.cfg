SPECIFICATION ServicesSpec
CONSTANTS
    MaxRefreshes = 2
    MaxJobs = 2
    MaxClaims = 2
    Configs = {c1, c2}
    QueueLife = 2
    RunLife = 1
    Gap = 1
    MaxAttempts = 3
    MaxEdits = 1
    Callers = {w1, w2}
    Routes <- SomeRoutes
    Threshold = 2
    Recovery = 1
    Successes = 2
    KeyLife = 2
    Origins <- SomeOrigins
    Delays = {0, 2}
    Hints = {0, 1}
    MaxSeconds = 4
    MaxRequests = 3
    MaxRedirects = 1
    MaxBytes = 1
    MinInterval = 1
    Articles = {a1}
    Workers = {w}
    NoOwner = NoOwner
    Lifetime = 1
    RunningLimit = 1
    Spacings = {1}
    Levels = 2
INVARIANTS
    ServicesTypeOK
PROPERTIES
    CompanyResultsSound
    FetchesPolitely
    ServicesEnd
CHECK_DEADLOCK FALSE
