SPECIFICATION Spec
CONSTANTS
    Sources = {s1, s2}
    Captures = {c1, c2}
    Workers = {w1, w2}
    Routes = {r1}
    None = None
    MaxRounds = 1
    TimeLimit = 1
    Spacing = 0
    Cooldown = 0
INVARIANTS
    OneByOne
SYMMETRY Symmetry
