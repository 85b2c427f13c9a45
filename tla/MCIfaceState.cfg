SPECIFICATION Spec
CONSTANTS
    Settings = {tuned, default, custom}
    Tuned = tuned
    None = none
    Faults = {}
INVARIANTS
    OriginalsKept
    SavedIsBefore
    RestoredWhenDone
