\* The same day when nobody edits a file: a crash between the before image and the pending intent.
CONSTANTS
    e1 = e1
    e2 = e2
    w1 = w1
    m1 = m1
    Day = Day
    None = None
    Windows = {w1}
    Events = {e1, e2}
    WindowOf <- SameWindow
    Malformed = {e2}
    Early = {e1}
    Notes = {}
    LegacyMax = 1
    LeafSize = 1
    FanIn = 2
    MaxBatches = 2
    MaxCrashes = 1
SPECIFICATION Spec
INVARIANT NoFalseConflict
CHECK_DEADLOCK FALSE
