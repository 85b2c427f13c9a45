SPECIFICATION Spec
CONSTANTS
    EDOG_LOG_RING_SIZE = 2
    Levels = {1, 2}
    Limits = {3}
    MaxEntries = 2
INVARIANT FollowerMissesNothing
