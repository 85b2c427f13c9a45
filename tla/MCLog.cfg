SPECIFICATION FairSpec
CONSTANTS
    EDOG_LOG_RING_SIZE = 2
    Levels = {1, 2}
    Limits = {1, 3}
    MaxEntries = 3
INVARIANTS
    RingIsFaithful
    StreamInOrder
    RepliesInOrder
PROPERTIES
    SinkCatchesUp
    
