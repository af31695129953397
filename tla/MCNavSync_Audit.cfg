SPECIFICATION FairSpec
CONSTANTS
    Instrument = {i1, i2}
    Caller = {c1}
    Run = {w1}
    Job = {j1, j2}
    MaxDay = 1
    Behaviour = {"window", "manual", "delete"}
    None = None
INVARIANTS
    SuccessIsStored
PROPERTIES
    JobsSettle
    AttemptsAudited
