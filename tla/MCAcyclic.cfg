SPECIFICATION FairAcyclicSpec
CONSTANTS
    MaxReplies = 3
    ECAT_ACYCLIC_WAIT_MS = 1
    ECAT_DIAG_BUDGET_MS = 3
    EC_TIMEOUTRXM = 2
    Modules = 3
    Indexed = {1, 3}
INVARIANTS
    NoFaultOverlooked
    AnswerInTime
    RecoveryRunsBetweenReads
PROPERTIES
    CommandAnswered
