\* Two processes, one recurring job; crashes, updates, pauses, notices; nothing stays in the hands of a process.
CONSTANTS
    o1 = o1
    o2 = o2
    j1 = j1
    Owners = {o1, o2}
    None = None
    JobIds = {j1}
    NamedIds = {}
    Schedules <- EveryTwo
    Kinds = {"task"}
    LeaseSeconds = 1
    MaxTime = 3
    MaxRev = 2
    MaxMade = 1
    MaxBack = 0
SPECIFICATION FairSpec
INVARIANTS
    TypeOK
    AtMostOnce
    InHandOfHolder
    StaleNeverSent
PROPERTIES
    ImplementsLedger
    NothingWaits
