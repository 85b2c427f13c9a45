SPECIFICATION Spec
CONSTANTS
    Half = 3
    CycleTimeUs = 50000
    FirstN = 4
    MaxFrames = 2
    MaxSessions = 2
    MaxInFlight = 2
INVARIANT OutputsNeverStale
