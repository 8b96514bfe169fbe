SPECIFICATION Spec
CONSTANTS
    BLOCKSPERGRID = 2
    THREADSPERBLOCK = 4
    Rounds = 2
INVARIANTS PartialSums OthersLoadProducts
