SPECIFICATION FairSpec
CONSTANTS
    c1 = c1
    c2 = c2
    None = None
    NWORKERS = 2
    Clients <- TwoClients
    Requests <- PlainRequests
    MaxFd = 6
    BACKLOG = 2
    Faults <- NoFaults
CHECK_DEADLOCK FALSE
INVARIANTS
    ContentsDelivered
    DrainedOnExit
PROPERTIES
    ExitTerminates
    EveryClientServed
