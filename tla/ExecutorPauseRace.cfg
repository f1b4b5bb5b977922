CONSTANTS
    a = a
    b = b
    c = c
    d = d
    Tasks <- ThreeTasks
    Deps <- Join
    Rank <- JoinRank
    MaxAttempts = 2
    MaxWorkers = 2
    Unbound = {}
    Guarded = {}
    Poison = {}
    Fatal = {}
    AllowPause = TRUE
    MaxRuns = 1
    MaxEnds = 0
SPECIFICATION Spec
INVARIANTS
    NoTaskLeftBehind
