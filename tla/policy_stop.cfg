\* One input past its deadline: other clients start turns, the operator resumes, the clock is set back.
CONSTANTS
    i1 = i1
    Intents = {i1}
    None = None
    Policies <- OneLimit
    MaxTime = 2
    MaxForeign = 2
    MaxBack = 1
SPECIFICATION FairSpec
PROPERTIES
    OverdueIsStopped
    TimeNeverReturns
