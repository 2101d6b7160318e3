SPECIFICATION Spec
CONSTANTS
    Sources = {s1}
    Workers = {w1, w2}
    Lease = 2
    TimeLimit = 1
    Cooldown = 1
    RetryDelays = {1}
    PeriodDelays = {1}
    AttentionAfter = 2
    MaxClaims = 2
    MaxEdits = 1
    MaxGen = 1
INVARIANTS
    TypeOK
    RowsTell
    WritesInFenceOrder
    ApprovedRecipeRunsNext
PROPERTIES
    LedgerSpec
SYMMETRY WorkerSymmetry

