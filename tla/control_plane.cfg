CONSTANTS
    main = main
    Keys = {main, side}
    side = side
    Main = main
    i1 = i1
    i2 = i2
    Inputs = {i1, i2}
    None = None
    MaxRoots = 2
    MaxActive = 1
    MaxCalls <- ThreeAndTwo
SYMMETRY Symmetry
SPECIFICATION Spec
INVARIANTS
    TypeOK
    RootsKept
    WithinCapacity
    PauseHolds
CHECK_DEADLOCK FALSE
