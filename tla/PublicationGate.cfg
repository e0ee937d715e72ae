SPECIFICATION FairSpec
CONSTANTS
    Publishers = {p1, p2, p3}
    Maintainers = {m1, m2}
INVARIANTS
    GateExact
PROPERTIES
    NoBarging
    MaintenanceRuns
