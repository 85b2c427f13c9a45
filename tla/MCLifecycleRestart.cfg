SPECIFICATION Spec
CONSTANTS
    N = 1
    NoSlaves = {}
    Arrays = 2
    Threads = {t1, t2, t3, t4}
    NoThread = NoThread
    Client = "any"
INVARIANT OneBusThread
