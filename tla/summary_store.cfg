\* Two events of a day, one late and unreadable, two batches; one crash, one edit of any file.
CONSTANTS
    e1 = e1
    e2 = e2
    w1 = w1
    m1 = m1
    Day = Day
    None = None
    Windows = {w1}
    Events = {e1, e2}
    WindowOf <- SameWindow
    Malformed = {e2}
    Early = {e1}
    Notes = {m1}
    LegacyMax = 1
    LeafSize = 1
    FanIn = 2
    MaxBatches = 2
    MaxCrashes = 1
SPECIFICATION FairSpec
INVARIANTS
    RefusesOnlyChanges
    NoGapLost
    AcknowledgedKept
PROPERTIES
    ImplementsLedger
    NothingOverlooked
    TreesComplete
CHECK_DEADLOCK FALSE
