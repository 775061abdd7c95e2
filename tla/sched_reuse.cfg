\* A job id that is deleted and created again while its old occurrence is being sent.
CONSTANTS
    o1 = o1
    j1 = j1
    Owners = {o1}
    None = None
    JobIds = {j1}
    NamedIds = {j1}
    Schedules <- EveryOne
    Kinds = {"task"}
    LeaseSeconds = 1
    MaxTime = 2
    MaxRev = 1
    MaxMade = 2
    MaxBack = 0
SPECIFICATION Spec
INVARIANT StaleNeverSent
