\* Two inputs of one bounded task; limits that change, crashes, another client.
CONSTANTS
    i1 = i1
    i2 = i2
    Intents = {i1, i2}
    None = None
    Policies <- TwoLimits
    MaxTime = 1
    MaxForeign = 1
    MaxBack = 0
SPECIFICATION Spec
SYMMETRY Symmetry
INVARIANTS
    PolicyTypeOK
    InputsBudgeted
    NoOrphanCharge
    StopProof
    RecordValid
