\* One process, every kind of schedule, a clock that is set back; and three observations of a
\* source that changes with a restart.
CONSTANTS
    o1 = o1
    j1 = j1
    Owners = {o1}
    None = None
    JobIds = {j1}
    NamedIds = {}
    Schedules <- Mixed
    Kinds = {"heartbeat", "task"}
    LeaseSeconds = 1
    MaxTime = 4
    MaxRev = 2
    MaxMade = 1
    MaxBack = 1
    s1 = s1
    s2 = s2
    c1 = c1
    c2 = c2
    Scopes = {s1, s2}
    Contents = {c1, c2}
    Null = Null
    MaxReceipts = 3
    MaxClock = 2
    MaxRestarts = 1
SYMMETRY Symmetries
SPECIFICATION HalvesSpec
INVARIANTS
    EachInstantOnce
    OnePendingHeartbeat
    HistoryReads
PROPERTIES
    WokenForNews
CHECK_DEADLOCK FALSE
