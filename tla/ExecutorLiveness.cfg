CONSTANTS
    a = a
    b = b
    c = c
    d = d
    Tasks <- ThreeTasks
    Deps <- Join
    Rank <- JoinRank
    MaxAttempts = 2
    MaxWorkers = 1
    Unbound = {}
    Guarded = {a}
    Poison = {}
    Fatal = {b}
    AllowPause = TRUE
    MaxRuns = 1
    MaxEnds = 1
SPECIFICATION FairSpec
PROPERTIES
    CancelEndsRun
    RunEnds
