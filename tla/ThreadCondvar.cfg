SPECIFICATION Spec
CONSTANTS
    NITER = 3
    Values = 10
CHECK_DEADLOCK FALSE
PROPERTIES
    CondvarEnds
