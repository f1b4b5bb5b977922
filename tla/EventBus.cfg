CONSTANTS
    Threads = {t1, t2}
    Subs = {"a", "b", "c"}
    Topics = {"task"}
    Matches <- MCMatches
    Acts <- MCActs
    MaxEvents = 2
SPECIFICATION Spec
INVARIANTS
    DeliveredOnce
    LaterFirstOnlyWithin
    EarlierServedFirst
PROPERTY EveryCallReturns
CHECK_DEADLOCK FALSE
