SPECIFICATION FairSpec
CONSTANTS
    Daemons = {d1}
    Clis = {}
    None = None
    MaxRows = 1
    MaxCrashes = 0
    MaxFaults = 1
    MaxTroubles = 1
    MaxRoots = 1
    MaxMoves = 0
    MaxEdits = 0
    MaxRetries = 4
\* A daemon without a session and without work waits: the system may stop.
CHECK_DEADLOCK FALSE
PROPERTIES
    ServingResumes
