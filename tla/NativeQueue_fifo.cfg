SPECIFICATION Spec
CONSTANTS
    Daemons = {d1}
    Clis = {c1, c2}
    None = None
    MaxRows = 2
    MaxCrashes = 1
    MaxFaults = 1
    MaxTroubles = 2
    MaxRoots = 1
    MaxMoves = 0
    MaxEdits = 1
    MaxRetries = 4
\* A daemon without a session and without work waits: the system may stop.
CHECK_DEADLOCK FALSE
SYMMETRY CliSymmetry
INVARIANTS
    TypeOK
    LeaderFenced
    ClaimsInOrder
    PinsHonoured
PROPERTIES
    RefinesRequestQueue
