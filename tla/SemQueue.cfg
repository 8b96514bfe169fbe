SPECIFICATION FairSpec
CONSTANTS
    NUM = 3
    WRAP = 5
INVARIANTS SlotsApart IInv
PROPERTIES Flows ImplementsStream
