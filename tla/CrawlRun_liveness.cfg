SPECIFICATION FairSpec
CONSTANTS
    Sources = {s1}
    Workers = {w1}
    Lease = 2
    TimeLimit = 1
    Cooldown = 1
    RetryDelays = {1}
    PeriodDelays = {1}
    AttentionAfter = 1
    MaxClaims = 2
    MaxEdits = 1
    MaxGen = 2
PROPERTIES
    RunsEnd

