SPECIFICATION Spec
CONSTANTS
    ECAT_MAX_MASTERS = 2
    EDOG_FRAME_MAX_PAYLOAD = 4
    ECAT_IOMAP_MIN_BYTES = 1
    ECAT_IOMAP_SLACK_PER_SLAVE = 0
    Files <- MCFiles
    Buses <- MCBuses
    Stations <- MCStations
    Objects = {1, 2}
INVARIANTS
    EveryDeviceConfigured
    StrictIsConfigured
    LayoutAgrees
    FailedIsReleased
    StationRules
