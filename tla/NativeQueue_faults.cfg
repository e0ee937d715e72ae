SPECIFICATION Spec
CONSTANTS
    Daemons = {d1}
    Clis = {c1}
    None = None
    MaxRows = 2
    MaxCrashes = 1
    MaxFaults = 2
    MaxTroubles = 3
    MaxRoots = 1
    MaxMoves = 0
    MaxEdits = 1
    MaxRetries = 4
\* A daemon without a session and without work waits: the system may stop.
CHECK_DEADLOCK FALSE
INVARIANTS
    PublishedOnce
PROPERTIES
    TerminalStable
