SPECIFICATION Spec
CONSTANTS
    Nothing = Nothing
    NoItem = NoItem
    NoAnchor = NoAnchor
    NoPin = NoPin
    Trees <- SomeTrees
    Builds = {"x1", "x2"}
    Measures <- SomeMeasures
    MaxPublished = 3
    MaxGenerations = 2
    MaxRewrites = 1
    Procs = {"p1", "p2"}
    Readers = {"p1"}
    Followers = {"q"}
    MaxInc = 3
    MaxReadable = 2
    MaxEpoch = 2
    MaxHead = 2
    MaxOwner = 2
    Previews = {"p1", "p2"}
    Uses = {"u"}
    Seeds = {"small", "large", "huge"}
    PacketBytes <- PacketSize
    MaxPackets = 2
    MaxPacketBytes = 4
    MaxCacheBytes = 5
    MaxKept = 2
    MaxAsked = 2
    Drivers = {"d1", "d2"}
    MaxGen = 4
    MaxRev = 3
INVARIANTS
    CertifiedIsCurrent
    CaptureAtOneInstant
    PublishedAsCaptured
    ReleaseKeepsPins
    ReadsAssociated
    OutcomesHonest
    CachesCoherent
    AnchorsJudged
PROPERTIES
    AnswersCurrent
\* Every bound is a place where a component stops.
CHECK_DEADLOCK FALSE
