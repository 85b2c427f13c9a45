SPECIFICATION FairSpec
CONSTANTS
    Half = 3
    CycleTimeUs = 50000
    FirstN = 4
    MaxFrames = 4
    MaxSessions = 2
    MaxInFlight = 2
INVARIANTS
    WatchdogArmed
PROPERTIES
    ImplementsOutputs
    EventuallySafe
