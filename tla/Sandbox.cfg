CONSTANTS
    Calls = {"c1", "c2"}
SPECIFICATION Spec
INVARIANT VerdictIsTrue
PROPERTIES
    EveryCallReturns
    NoChildOutlives
CHECK_DEADLOCK FALSE
