CONSTANTS
    Sizes = {1, 2, 3}
    BLOCK_SIZE = 2
    Limits = {3, 4}
    MaxFaults = 1
SPECIFICATION Spec
INVARIANT ProductRight
