CONSTANTS
    old = old
    new = new
    fmt = fmt
    Candidates = {old, new}
    Formats = {fmt}
    Caps <- OldAndNew
    None = None
    p1 = p1
    p2 = p2
    Pids = {p1, p2}
    MaxEpoch = 0
    MaxFailures = 1
    MaxFaults = 1
    MaxDirect = 0
    MaxEvents = 1
SPECIFICATION FairSpec
CHECK_DEADLOCK FALSE
PROPERTIES
    NeverHangs
