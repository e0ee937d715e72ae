SPECIFICATION Spec
CONSTANTS
    Daemons = {"d1", "d2"}
    Readers = {"r"}
    Writers = {"w"}
    RaceReaders = {"r1", "r2"}
    MaxDeaths = 2
    MaxRaceDeaths = 1
    ServeClients = {"c1", "c2"}
    ServeCheckouts = {"k"}
    Nobody = "nobody"
    MaxTokenEdits = 1
    MaxRows = 2
    MaxTreeEdits = 1
    MaxFaults = 2
    ReadWait = 3
    MaxTime = 5
    MaxOwners = 3
INVARIANTS
    CallsDeliveredOnce
    RegistryAgrees
    ReleasedIsQuiet
    RepliesMatch
    CommandsHonest
PROPERTIES
    HeldWhenAnswered
\* Every bound is a place where a component stops.
CHECK_DEADLOCK FALSE
