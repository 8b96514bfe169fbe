SPECIFICATION FairSpec
CONSTANTS
    N = 7
    Threads = {t1, t2}
CHECK_DEADLOCK FALSE
INVARIANTS
    IInv
    SortedAtEnd
    Permutation
PROPERTIES
    Terminates
