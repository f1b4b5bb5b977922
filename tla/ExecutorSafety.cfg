CONSTANTS
    a = a
    b = b
    c = c
    d = d
    Tasks <- FourTasks
    Deps <- Kite
    Rank <- KiteRank
    MaxAttempts = 2
    MaxWorkers = 2
    Unbound = {d}
    Guarded = {b}
    Poison = {}
    Fatal = {}
    AllowPause = TRUE
    MaxRuns = 2
    MaxEnds = 0
SPECIFICATION Spec
INVARIANTS
    TypeOK
    DependencyOrder
    NoSchedulerError
    BlockedIffBehindFailure
    CheckpointHasMemory
PROPERTIES
    CancelBoundsDispatch
