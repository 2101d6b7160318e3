SPECIFICATION FairSpec
CONSTANTS
    Sources = {s1}
    Captures = {c1}
    Workers = {w1, w2}
    Routes = {r1, r2}
    None = None
    MaxRounds = 2
    TimeLimit = 1
    Spacing = 1
    Cooldown = 1
INVARIANTS
    TypeOK
    FencedAttempts
    CandidateIsAccounted
    HistoryTracked
PROPERTIES
    EndedAdmitsNothing
    PaidStaysEnded
    SessionsEnd
