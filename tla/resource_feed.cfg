\* Two generations of the native server; a root that is saved late and its subagent.
CONSTANTS
    root = root
    child = child
    Threads = {root, child}
    Roots = {root}
    ParentOf <- ChildOfRoot
    None = None
    Epochs = {1, 2}
    MaxPending = 2
    MaxTotal = 1
    MaxWire = 1
    MaxFaults = 1
SPECIFICATION Spec
INVARIANTS
    TypeOK
    NoneLost
    OnlyOurs
    OneServer
    IncreasesAddUp
CHECK_DEADLOCK FALSE
