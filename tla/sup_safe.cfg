CONSTANTS
    old = old
    new = new
    fmt = fmt
    Candidates = {old, new}
    Formats = {fmt}
    Caps <- OldAndNew
    None = None
    p1 = p1
    p2 = p2
    Pids = {p1, p2}
    MaxEpoch = 1
    MaxFailures = 1
    MaxFaults = 1
    MaxDirect = 1
    MaxEvents = 2
SYMMETRY Symmetry
SPECIFICATION Spec
CHECK_DEADLOCK FALSE
INVARIANTS
    TypeOK
    BoundedStarts
    NoBouncing
    OneNativeSupervised
    RunsCurrent
    SwitchQuiet
    Understands
