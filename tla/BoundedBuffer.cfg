SPECIFICATION FairSpec
CONSTANTS
    BUFFER_SIZE = 8
    ITEMS = 16
    MaxSpurious = 3
CHECK_DEADLOCK FALSE
INVARIANTS
    InOrder
    NoLostWakeup
    IInv
PROPERTIES
    Delivered
    ImplementsChannel
