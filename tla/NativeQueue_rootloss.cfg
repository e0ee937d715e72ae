SPECIFICATION Spec
CONSTANTS
    Daemons = {d1}
    Clis = {}
    None = None
    MaxRows = 1
    MaxCrashes = 0
    MaxFaults = 0
    MaxTroubles = 0
    MaxRoots = 2
    MaxMoves = 1
    MaxEdits = 0
    MaxRetries = 4
\* A daemon without a session and without work waits: the system may stop.
CHECK_DEADLOCK FALSE
PROPERTIES
    RootLossResolvesRows
