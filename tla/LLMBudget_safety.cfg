SPECIFICATION Spec
CONSTANTS
    Workers = {w1, w2}
    Configs = {c1, c2}
    Ceilings = {2}
    Tokens = {1, 3}
    Price = 3
    Unit = 2
    Limit = 5
    OldCosts = {1}
    MaxAttempts = 2
    MaxCalls = 3
    MaxDays = 1
INVARIANTS
    TypeOK
    BilledWithinLimit
    OpenHoldsCovered
    SettledBeforeNext
PROPERTIES
    DecidedForGood
SYMMETRY Symmetry
