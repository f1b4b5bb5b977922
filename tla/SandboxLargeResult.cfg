CONSTANTS
    Calls = {"c1"}
SPECIFICATION Spec
PROPERTY TimeoutMeansOverrun
CHECK_DEADLOCK FALSE
