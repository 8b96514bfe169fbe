SPECIFICATION Spec
CONSTANTS
    NITER = 3
    Values = 10
CHECK_DEADLOCK FALSE
INVARIANTS
    RaceFree
    Results
    NoLostWakeup
    OnlyTheseStick
    OnlyTheseMisuse
    PolicyAsAsked
    BarrierTogether
PROPERTIES
    Evolves
    Finishes
