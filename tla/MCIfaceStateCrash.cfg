SPECIFICATION Spec
CONSTANTS
    Settings = {tuned, default, custom}
    Tuned = tuned
    None = none
    Faults = {"early_crash"}
INVARIANT OriginalsKept
