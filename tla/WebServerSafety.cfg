SPECIFICATION Spec
CONSTANTS
    c1 = c1
    c2 = c2
    None = None
    NWORKERS = 2
    Clients <- TwoClients
    Requests <- MixedRequests
    MaxFd = 4
    BACKLOG = 2
    Faults <- AllFaults
CHECK_DEADLOCK FALSE
SYMMETRY ClientSymmetry
INVARIANTS
    TypeOK
    LogAttribution
    OwnDescriptor
    OnlyOwnAnswer
    LogOpenWhileUsed
    IInv
