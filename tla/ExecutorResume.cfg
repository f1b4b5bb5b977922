CONSTANTS
    a = a
    b = b
    c = c
    d = d
    Tasks <- ThreeTasks
    Deps <- Join
    Rank <- JoinRank
    MaxAttempts = 2
    MaxWorkers = 2
    Unbound = {b}
    Guarded = {}
    Poison = {c}
    Fatal = {b}
    AllowPause = FALSE
    MaxRuns = 3
    MaxEnds = 1
SPECIFICATION Spec
INVARIANTS
    ReplayedNotReexecuted
    CheckpointCurrent
    CheckpointDownClosed
    NoTaskLeftBehind
PROPERTIES
    ImplementsDagRun
