SPECIFICATION FairSpec
CONSTANTS
    nStreams = 4
    Files = {"async.cu", "block_stream.cu", "nonblock_stream.cu"}
INVARIANTS ResultReady NoPendingCopy
PROPERTY Computed
