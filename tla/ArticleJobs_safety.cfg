SPECIFICATION Spec
CONSTANTS
    Articles = {a1}
    Workers = {w1, w2}
    NoOwner = NoOwner
    Lifetime = 1
    RunningLimit = 1
    Spacings = {1}
    Levels = 2
    MaxJobs = 2
INVARIANTS
    TypeOK
    OneJobOnePayment
PROPERTIES
    NeverAppliesStale
SYMMETRY WorkerSymmetry
