SPECIFICATION Spec
CONSTANTS
    Articles = {a1}
    Workers = {w1}
    NoOwner = NoOwner
    Lifetime = 1
    RunningLimit = 1
    Spacings = {1}
    MaxJobs = 2
    Levels = 2
INVARIANTS
    ResultsAreCurrent
