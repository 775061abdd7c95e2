CONSTANTS
    old = old
    new = new
    fmt = fmt
    Candidates = {old, new}
    Formats = {fmt}
    Caps <- OldAndNew
    None = None
    p1 = p1
    p2 = p2
    Pids = {p1, p2}
    MaxEpoch = 0
    MaxFailures = 1
    MaxFaults = 2
    MaxDirect = 2
    MaxEvents = 5
SYMMETRY Symmetry
SPECIFICATION Spec
CHECK_DEADLOCK FALSE
INVARIANTS
    OneNative
