SPECIFICATION PolledSpec
CONSTANTS
    Slaves <- MCSlaves
    Outputs <- MCOutputs
    Inputs <- MCInputs
    ECAT_WKC_ERROR_THRESHOLD = 2
    ECAT_AL_FAULT_THRESHOLD = 2
    ECAT_MAX_RECOVERY_ATTEMPTS = 3
INVARIANTS
    StateOwnership
    AttemptsCountTheRecovery
    EnoughAttempts
PROPERTIES
    BusStateGraph
    RecoveryIsJustified
    RecoveredMeansAllOp
    RecoveryEnds
    OutputFaultEndsInError
    CouplerFaultEndsInError
