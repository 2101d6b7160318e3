SPECIFICATION Spec
CONSTANTS
    Sources = {s1}
    Workers = {w1}
    Lease = 3
    TimeLimit = 2
    Cooldown = 1
    RetryDelays = {1}
    PeriodDelays = {1}
    AttentionAfter = 1
    MaxClaims = 1
    MaxEdits = 0
    MaxGen = 0
INVARIANTS
    TimeoutBeforeLeaseExpiry

