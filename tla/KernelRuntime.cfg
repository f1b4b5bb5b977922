CONSTANTS
    a = a
    b = b
    c = c
    d = d
    e = e
    Tasks <- FiveTasks
    Deps <- Lattice
    Rank <- LatticeRank
    Unbound = {b, d}
    Fatal = {c}
    MaxRuns = 3
SPECIFICATION Spec
INVARIANTS
    HandlersRunOnce
PROPERTIES
    ImplementsDagRun
