CONSTANTS
    Ids = {a, b, c, d}
    MaxSubmits = 2
SPECIFICATION Spec
SYMMETRY Symmetry
INVARIANTS
    NeverStuck
    CascadeIsDepthFirst
    CycleTestIsKahn
CHECK_DEADLOCK FALSE
