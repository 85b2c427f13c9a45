SPECIFICATION FairSpec
CONSTANTS
    N = 3
    NoSlaves = {3}
    Arrays = 1
    Threads = {t1, t2, t3, t4}
    NoThread = NoThread
    Client = "stops_first"
INVARIANTS
    OneOwner
    NoUseAfterFree
    StoppedIsQuiet
    ExitIsClean
PROPERTIES
    ImplementsBusState
    CommandsEnd
