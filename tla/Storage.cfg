SPECIFICATION Spec
CONSTANTS
    Nothing = Nothing
    Processes = {"p1", "p2"}
    Attempts = 2
    Creators = {"p1", "p2", "p3"}
    MaxMarkers = 2
    PowerMarkers = 3
    MaxLosses = 2
    Items = {"i"}
    Targets = {"t"}
    Anchors = {"a1", "a2"}
    MaxLocks = 3
    MaxDbs = 2
    Keys = {"k"}
    Collectors = {"g1", "g2"}
    Openers = {"o1", "o2"}
    Day = 2
    Age = 2
    MaxNow = 5
    MaxTries = 3
    FileIds = {"i1", "i2", "i3"}
    Conns = {"p1", "p2"}
    Borrowers = {"h"}
    Capacity = 2
    Ids = {"a1", "a2"}
    Runs = {"r1", "r2"}
    JevCaps = {15}
    JevUnit = 10
    AcpCaps = {1}
    AcpUnit = 1
    MaxFaults = 1
INVARIANTS
    MarkerKept
    RecordsKept
    RecreationSafe
    LocksKept
    SpendingBounded
PROPERTIES
    IndexFilesKept
\* Every bound is a place where a component stops.
CHECK_DEADLOCK FALSE
