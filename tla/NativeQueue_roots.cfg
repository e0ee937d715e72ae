SPECIFICATION Spec
CONSTANTS
    Daemons = {d1}
    Clis = {c1}
    None = None
    MaxRows = 2
    MaxCrashes = 1
    MaxFaults = 1
    MaxTroubles = 1
    MaxRoots = 2
    MaxMoves = 2
    MaxEdits = 0
    MaxRetries = 4
\* A daemon without a session and without work waits: the system may stop.
CHECK_DEADLOCK FALSE
INVARIANTS
    PinsHonoured
PROPERTIES
    RefinesRequestQueue
    PublishedUnderOwnRoot
